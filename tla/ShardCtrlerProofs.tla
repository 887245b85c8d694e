------------------------- MODULE ShardCtrlerProofs -------------------------
(***************************************************************************)
(* Proofs about ShardCtrler, for every number of servers, clerks, calls,   *)
(* attempts, elections and restarts: CInv is inductive, and from it        *)
(* changes are made once and are never lost, the replicas number the       *)
(* configurations alike, and a Query has what was acknowledged before it.  *)
(*                                                                         *)
(* The argument: a clerk goes on to its next request only when the one     *)
(* before is chosen, so whatever gets into the log comes after the earlier *)
(* requests of its clerk and after all that was acknowledged before it was *)
(* made.  What a replica has is then a function of how far it has applied. *)
(***************************************************************************)
EXTENDS ShardCtrlerSteps

-----------------------------------------------------------------------------
(* The invariant *)

\* Every step keeps the types.
LEMMA TypeStep ==
  ASSUME CInv, Next
  PROVE  TypeOK'
<1> USE DEF CInv
<1>1. CASE LogStep
  BY ZenonT(40), <1>1, LogStepType
<1>2. CASE \E c \in Clerk : Invoke(c)
  BY ZenonT(40), <1>2, ClerkStepType
<1>3. CASE \E c \in Clerk, s \in Server : Request(c, s)
  BY ZenonT(40), <1>3, ClerkStepType
<1>4. CASE \E h \in DOMAIN handler : HandlerStep(h)
  BY ZenonT(40), <1>4, ProposeType, WaitType, ReplyType DEF HandlerStep
<1>5. CASE \E s \in Server : Apply(s) \/ Restart(s)
  BY ZenonT(40), <1>5, ApplyType, RestartType
<1> QED
  BY ZenonT(40), <1>1, <1>2, <1>3, <1>4, <1>5 DEF Next

\* Logs and buffers hold requests.
LEMMA LogsIssued ==
  ASSUME CInv, Next
  PROVE  /\ (\A i \in 1..Len(log) : Issued(log[i]))'
         /\ (\A s \in Server :
               /\ \A i \in 1..Len(plog[s]) : Issued(plog[s][i])
               /\ \A i \in 1..Len(buffer[s]) : Issued(buffer[s][i]))'
<1> USE DEF CInv
<1>1. \A x : Issued(x) => IssuedNext(x)
  BY ZenonT(40), IssuedStays
<1>2. /\ \A i \in 1..Len(log) : Issued(log[i])
      /\ \A s \in Server : \A i \in 1..Len(plog[s]) : Issued(plog[s][i])
      /\ \A s \in Server : \A i \in 1..Len(buffer[s]) : Issued(buffer[s][i])
  BY ZenonT(40) DEF ClerksInv
<1>3. /\ log \in Seq(Entry)
      /\ plog \in [Server -> Seq(Entry)] /\ buffer \in [Server -> Seq(Entry)]
  BY ZenonT(40) DEF TypeOK
<1>4. \A i \in 1..Len(log') : Issued(log'[i])
  BY <1>2, <1>3, LogGrows
<1>5. \A s \in Server : /\ \A i \in 1..Len(plog'[s]) : Issued(plog'[s][i])
                        /\ \A i \in 1..Len(buffer'[s]) : Issued(buffer'[s][i])
  <2>1. CASE UNCHANGED <<plog, buffer>>
    BY ZenonT(40), <1>2, <2>1
  <2>2. CASE LogStep
    <3> DEFINE P == {x \in Entry : Issued(x)}
    <3>1. /\ \A s \in Server : \A i \in 1..Len(plog[s]) : plog[s][i] \in P
          /\ \A s \in Server : \A i \in 1..Len(buffer[s]) : buffer[s][i] \in P
          /\ \A i \in 1..Len(log) : log[i] \in P
      BY <1>2, <1>3
    <3>2. \A x \in P : Issued(x)
      BY ZenonT(40)
    <3> HIDE DEF P
    <3>3. LogNext
      BY ZenonT(40), <2>2 DEF LogStep
    <3>4. /\ \A s \in Server : \A i \in 1..Len(plog'[s]) : plog'[s][i] \in P
          /\ \A s \in Server : \A i \in 1..Len(buffer'[s]) : buffer'[s][i] \in P
      BY Zenon, <3>1, <3>3, LogStepEffect
    <3> QED
      BY ZenonT(40), <3>2, <3>4
  <2>3. CASE \E h \in DOMAIN handler : Propose(h)
    <3>1. PICK h \in DOMAIN handler : Propose(h)
      BY ZenonT(40), <2>3
    <3> DEFINE s == handler[h].srv
               x == handler[h].com
    <3>2. s \in Server /\ Issued(x) /\ x \in Entry
      BY ZenonT(40), <3>1, HandlerTypes, IssuedIs DEF Propose, ClerksInv
    <3>3. \/ UNCHANGED <<plog, buffer>>
          \/ plog' = [plog EXCEPT ![s] = Append(plog[s], x)] /\ UNCHANGED buffer
          \/ buffer' = [buffer EXCEPT ![s] = Append(buffer[s], x)] /\ UNCHANGED plog
      BY ZenonT(40), <3>1 DEF Propose, ProposeAccept, ProposePrepare, logVars
    <3> HIDE DEF s, x
    <3>4. /\ plog[s] \in Seq(Entry) /\ buffer[s] \in Seq(Entry)
      BY ZenonT(40), <1>3, <3>2
    <3>5. /\ \A i \in 1..Len(Append(plog[s], x)) : Issued(Append(plog[s], x)[i])
          /\ \A i \in 1..Len(Append(buffer[s], x)) : Issued(Append(buffer[s], x)[i])
      BY <1>2, <3>2, <3>4
    <3> QED
      BY Zenon, <1>2, <1>3, <3>3, <3>5
  <2>4. CASE \E s \in Server : Restart(s)
    BY <1>2, <1>3, <2>4 DEF Restart, LogRestart
  <2> QED
    BY ZenonT(40), <2>1, <2>2, <2>3, <2>4 DEF Next, HandlerStep, Invoke, Request, Reply, Register, Receive,
       TimeOut, Remove, Apply, logVars
<1>6. /\ \A i \in 1..Len(log') : IssuedNext(log'[i])
      /\ \A s \in Server : /\ \A i \in 1..Len(plog'[s]) : IssuedNext(plog'[s][i])
                           /\ \A i \in 1..Len(buffer'[s]) : IssuedNext(buffer'[s][i])
  BY ZenonT(40), <1>1, <1>4, <1>5
<1> QED
  BY ZenonT(40), <1>6 DEF Issued, IssuedNext

\* Each clerk waits for its own attempt, and has got its earlier requests
\* chosen.
LEMMA ClerkStays ==
  ASSUME CInv, Next, NEW c \in Clerk
  PROVE  /\ requestId'[c] <= Len(Script[c]) + 1
         /\ call'[c] # None => requestId'[c] <= Len(Script[c])
         /\ call'[c] \in DOMAIN handler' =>
              handler'[call'[c]].pc # "end" /\ handler'[call'[c]].com = Command(c)'
         /\ \A r \in 1..(requestId'[c] - 1) : ChosenNext(Cmd(c, r))
         /\ before'[c] \subseteq acked'
<1> USE DEF CInv
<1>0. /\ requestId[c] <= Len(Script[c]) + 1
      /\ call[c] # None => requestId[c] <= Len(Script[c])
      /\ call[c] \in DOMAIN handler =>
           handler[call[c]].pc # "end" /\ handler[call[c]].com = Command(c)
      /\ \A r \in 1..(requestId[c] - 1) : Chosen(Cmd(c, r))
      /\ before[c] \subseteq acked
      /\ requestId[c] \in Nat /\ Len(Script[c]) \in Nat
      /\ None \notin Nat
  BY CtrlerAssumption DEF ClerksInv, TypeOK
<1>1. \A r \in 1..(requestId[c] - 1) : ChosenNext(Cmd(c, r))
  BY ZenonT(40), <1>0, ChosenStays
<1>2. DOMAIN handler = 1..Len(handler) /\ Len(handler) \in Nat /\ handler \in Seq(Handler)
  BY ZenonT(40), HandlerTypes DEF TypeOK
<1>3. CASE \E d \in Clerk : Invoke(d)
  <2>1. PICK d \in Clerk : Invoke(d)
    BY ZenonT(40), <1>3
  <2>2. /\ requestId'[c] = requestId[c] /\ handler' = handler /\ acked' = acked
        /\ Command(c)' = Command(c)
    BY ZenonT(40), <2>1 DEF Invoke, Command
  <2>3. before'[c] \subseteq acked
    BY ZenonT(40), <1>0, <2>1 DEF Invoke, TypeOK
  <2>4. call'[c] = call[c] \/ (call'[c] = 0 /\ requestId[c] <= Len(Script[c]))
    BY ZenonT(40), <2>1 DEF Invoke, TypeOK
  <2> QED
    BY <1>0, <1>1, <1>2, <2>2, <2>3, <2>4
<1>4. CASE \E d \in Clerk, s \in Server : Request(d, s)
  <2>1. PICK d \in Clerk, s \in Server : Request(d, s)
    BY ZenonT(40), <1>4
  <2>2. UNCHANGED <<requestId, acked, before>> /\ Command(c)' = Command(c) /\ call[d] # None
    BY ZenonT(40), <2>1 DEF Request, Command
  <2> DEFINE r == [srv |-> s, com |-> Command(d), idx |-> -1, res |-> Empty,
                   pc |-> IF prevReq[s][d] >= requestId[d] THEN "reply" ELSE "propose"]
  <2>3. handler' = Append(handler, r)
    BY ZenonT(40), <2>1 DEF Request
  <2>4. r.pc # "end" /\ r.com = Command(d)
    BY ZenonT(40)
  <2> HIDE DEF r
  <2>5. (c = d /\ call'[c] = Len(handler) + 1) \/ (c # d /\ call'[c] = call[c])
    BY ZenonT(40), <2>1 DEF Request, TypeOK
  <2>6. call'[c] \in DOMAIN handler' =>
          handler'[call'[c]].pc # "end" /\ handler'[call'[c]].com = Command(c)
    <3>1. CASE c = d
      BY SMTT(40), <1>2, <2>3, <2>4, <2>5, <3>1
    <3>2. CASE c # d
      <4>1. call[c] # Len(handler) + 1
        BY SMTT(40), <1>0, <1>2 DEF TypeOK
      <4> QED
        BY SMTT(40), <1>0, <1>2, <2>3, <2>5, <3>2, <4>1
    <3> QED
      BY ZenonT(40), <3>1, <3>2
  <2> QED
    BY ZenonT(40), <1>0, <1>1, <2>2, <2>5, <2>6

<1>5. CASE \E h \in DOMAIN handler : Reply(h)
  <2>1. PICK h \in DOMAIN handler : Reply(h)
    BY ZenonT(40), <1>5
  <2> DEFINE d == handler[h].com.clerk
  <2>2. handler' = [handler EXCEPT ![h] = Ended] /\ before' = before
    BY Zenon, <2>1 DEF Reply
  <2>3. acked \subseteq acked'
    BY Zenon, <2>1 DEF Reply
  <2>4. CASE requestId'[c] = requestId[c] /\ ((call'[c] = 0 /\ call[c] = h) \/ (call'[c] = call[c] /\ call[c] # h))
    <3>1. Command(c)' = Command(c)
      BY ZenonT(40), <2>4 DEF Command
    <3>2. call'[c] # None => call[c] # None
      BY SMTT(40), <1>0, <1>2, <2>1, <2>4
    <3> QED
      BY SMTT(40), <1>0, <1>1, <1>2, <2>2, <2>3, <2>4, <3>1, <3>2
  <2>5. CASE /\ c = d /\ call[c] = h /\ handler[h].com = Cmd(c, requestId[c])
             /\ Answers(handler[h].com, handler[h].res)
             /\ call'[c] = None /\ requestId'[c] = requestId[c] + 1
    <3>1. Chosen(Cmd(c, requestId[c]))
      BY Zenon, <2>5 DEF Answers
    <3>2. ChosenNext(Cmd(c, requestId[c]))
      BY ZenonT(40), <3>1, ChosenStays
    <3>3. call[c] = h /\ call'[c] = None /\ requestId'[c] = requestId[c] + 1
      BY Zenon, <2>5
    <3>4. requestId[c] <= Len(Script[c])
      <4>1. h # None
        BY ZenonT(40), HandlerTypes
      <4> QED
        BY ZenonT(40), <1>0, <3>3, <4>1
    <3>5. call'[c] \notin DOMAIN handler'
      <4>1. DOMAIN handler' = 1..Len(handler)
        BY ZenonT(40), <1>2, <2>2
      <4> QED
        BY <1>0, <1>2, <3>3, <4>1
    <3>6. \A r \in 1..(requestId'[c] - 1) : ChosenNext(Cmd(c, r))
      BY SMTT(40), <1>0, <1>1, <3>2, <3>3
    <3> QED
      BY SMTT(40), <1>0, <2>2, <2>3, <3>3, <3>4, <3>5, <3>6
  <2> QED
    BY <2>1, <2>4, <2>5, ReplyEffect
<1>6. CASE UNCHANGED <<requestId, call, before, acked, handler>>
  <2>1. Command(c)' = Command(c)
    BY ZenonT(40), <1>6 DEF Command
  <2> QED
    BY ZenonT(40), <1>0, <1>1, <1>6, <2>1
<1>7. CASE \E h \in DOMAIN handler :
             Propose(h) \/ Register(h) \/ Receive(h) \/ TimeOut(h) \/ Remove(h)
  <2>1. UNCHANGED <<requestId, call, before, acked>>
    BY Zenon, <1>7 DEF Propose, Register, Receive, TimeOut, Remove, clerkVars
  <2>2. Command(c)' = Command(c)
    BY ZenonT(40), <2>1 DEF Command
  <2>3. /\ DOMAIN handler' = DOMAIN handler
        /\ \A k \in DOMAIN handler :
             /\ handler'[k].com = handler[k].com
             /\ handler[k].pc # "end" => handler'[k].pc # "end"
    BY Zenon, <1>7, HandlersKept
  <2> QED
    BY ZenonT(40), <1>0, <1>1, <2>1, <2>2, <2>3
<1>8. CASE \E s \in Server : Restart(s)
  <2>1. PICK s \in Server : Restart(s)
    BY ZenonT(40), <1>8
  <2>2. UNCHANGED <<requestId, before, acked>>
    BY ZenonT(40), <2>1 DEF Restart
  <2>3. Command(c)' = Command(c)
    BY ZenonT(40), <2>2 DEF Command
  <2>4. call'[c] = IF call[c] \in DOMAIN handler /\ handler[call[c]].srv = s THEN 0 ELSE call[c]
    BY Zenon, <2>1 DEF Restart
  <2>5. /\ DOMAIN handler' = DOMAIN handler
        /\ \A k \in DOMAIN handler : handler[k].srv # s => handler'[k] = handler[k]
    BY Zenon, <2>1 DEF Restart
  <2>6. 0 \notin DOMAIN handler /\ call[c] \in {None, 0} \cup DOMAIN handler
    BY SMTT(40), <1>2 DEF TypeOK
  <2>7. CASE call[c] \in DOMAIN handler /\ handler[call[c]].srv = s
    <3>1. call[c] # None /\ call'[c] = 0
      BY SMTT(40), <1>0, <1>2, <2>4, <2>7
    <3> QED
      BY ZenonT(40), <1>0, <1>1, <2>2, <2>5, <2>6, <3>1
  <2>8. CASE ~(call[c] \in DOMAIN handler /\ handler[call[c]].srv = s)
    <3>1. call'[c] = call[c]
      BY ZenonT(40), <2>4, <2>8
    <3>2. call[c] \in DOMAIN handler => handler'[call[c]] = handler[call[c]]
      BY ZenonT(40), <2>5, <2>8
    <3> QED
      BY ZenonT(40), <1>0, <1>1, <2>2, <2>3, <2>5, <3>1, <3>2
  <2> QED
    BY ZenonT(40), <2>7, <2>8
<1> QED
  BY ZenonT(40), <1>3, <1>4, <1>5, <1>6, <1>7, <1>8 DEF Next, HandlerStep, LogStep, Apply, clerkVars

\* Every step keeps the requests under way issued: those of the handlers, of
\* the leaders' logs and buffers, and of the chosen log.
LEMMA ClerksStep ==
  ASSUME CInv, Next
  PROVE  ClerksInv'
<1> USE DEF CInv
<1>1. \A h \in 1..Len(handler') :
        handler'[h].pc # "end" => handler'[h].srv \in Server /\ IssuedNext(handler'[h].com)
  <2> SUFFICES ASSUME NEW h \in 1..Len(handler'), handler'[h].pc # "end"
               PROVE  handler'[h].srv \in Server /\ IssuedNext(handler'[h].com)
    BY ZenonT(40)
  <2>1. CASE /\ h \in 1..Len(handler) /\ handler[h].pc # "end"
             /\ handler'[h].srv = handler[h].srv /\ handler'[h].com = handler[h].com
    BY ZenonT(40), <2>1, IssuedStays DEF ClerksInv
  <2>2. CASE \E c \in Clerk, s \in Server :
               call[c] # None /\ handler'[h].srv = s /\ handler'[h].com = Command(c)
    BY ZenonT(40), <2>2, CommandIssued, IssuedStays
  <2> QED
    BY ZenonT(40), <2>1, <2>2, HandlersStep
<1>2. \A x \in acked' : ChosenNext(x) /\ x.op # "Query"
  <2>1. CASE acked' = acked
    BY ZenonT(40), <2>1, ChosenStays DEF ClerksInv
  <2>2. CASE \E h \in DOMAIN handler : Reply(h)
    <3>1. PICK h \in DOMAIN handler : Reply(h)
      BY ZenonT(40), <2>2
    <3>2. \/ acked' = acked
          \/ /\ acked' = acked \cup {handler[h].com} /\ handler[h].com.op # "Query"
             /\ Answers(handler[h].com, handler[h].res)
      BY ZenonT(40), <3>1, ReplyEffect
    <3> QED
      BY ZenonT(40), <2>1, <3>2, ChosenStays DEF ClerksInv, Answers
  <2> QED
    BY ZenonT(40), <2>1, <2>2 DEF Next, HandlerStep, LogStep, Invoke, Request, Propose, Register, Receive,
       TimeOut, Remove, Apply, Restart, clerkVars
<1>3. \A c \in Clerk :
         /\ requestId'[c] <= Len(Script[c]) + 1
         /\ call'[c] # None => requestId'[c] <= Len(Script[c])
         /\ call'[c] \in DOMAIN handler' =>
              handler'[call'[c]].pc # "end" /\ handler'[call'[c]].com = Command(c)'
         /\ \A r \in 1..(requestId'[c] - 1) : ChosenNext(Cmd(c, r))
         /\ before'[c] \subseteq acked'
  BY ZenonT(40), ClerkStays
<1>4. (\A i \in 1..Len(log) : Issued(log[i]))'
      /\ (\A s \in Server :
               /\ \A i \in 1..Len(plog[s]) : Issued(plog[s][i])
               /\ \A i \in 1..Len(buffer[s]) : Issued(buffer[s][i]))'
  BY ZenonT(40), LogsIssued
<1>5. (\A h \in 1..Len(handler) :
        handler[h].pc # "end" => handler[h].srv \in Server /\ Issued(handler[h].com))'
  BY ZenonT(40), <1>1 DEF Issued, IssuedNext
<1>6. (\A c \in Clerk :
        /\ requestId[c] <= Len(Script[c]) + 1
        /\ call[c] # None => requestId[c] <= Len(Script[c])
        /\ call[c] \in DOMAIN handler =>
            handler[call[c]].pc # "end" /\ handler[call[c]].com = Command(c)
        /\ \A r \in 1..(requestId[c] - 1) : Chosen(Cmd(c, r))
        /\ before[c] \subseteq acked)'
  BY ZenonT(40), <1>3 DEF Chosen, ChosenNext, Command
<1>7. (\A x \in acked : Chosen(x) /\ x.op # "Query")'
  BY ZenonT(40), <1>2 DEF Chosen, ChosenNext
<1> QED
  BY ZenonT(40), <1>4, <1>5, <1>6, <1>7 DEF ClerksInv

\* What the log holds of a clerk is not beyond its requests, and not its
\* current one before it calls.
LEMMA NotYetChosen ==
  ASSUME TypeOK, ClerksInv, NEW x, Issued(x)
  PROVE  /\ x.req <= requestId[x.clerk] /\ x.req \in Nat
         /\ call[x.clerk] = None => x.req # requestId[x.clerk]
<1>1. x.clerk \in Clerk /\ x.req \in 1..requestId[x.clerk]
      /\ (x.req = requestId[x.clerk] => call[x.clerk] # None)
  BY ZenonT(40), IssuedIs
<1>2. requestId[x.clerk] \in Nat
  BY ZenonT(40), <1>1 DEF TypeOK
<1> QED
  BY <1>1, <1>2

\* For a request that was made before the step, to be the current one after
\* it is to have been the current one, with the same acknowledged changes
\* before it.
LEMMA CurrentStays ==
  ASSUME CInv, Next, NEW x, Issued(x), x.req = requestId'[x.clerk]
  PROVE  /\ x.clerk \in Clerk /\ x.req = requestId[x.clerk]
         /\ before'[x.clerk] = before[x.clerk]
<1> USE DEF CInv
<1>1. /\ x.clerk \in Clerk /\ requestId[x.clerk] \in Nat
      /\ x.req <= requestId[x.clerk] /\ x.req \in Nat
      /\ call[x.clerk] = None => x.req # requestId[x.clerk]
  BY ZenonT(40), IssuedIs, NotYetChosen DEF TypeOK
<1>2. CASE \E h \in DOMAIN handler : Reply(h)
  <2>1. PICK h \in DOMAIN handler : Reply(h)
    BY ZenonT(40), <1>2
  <2>2. requestId'[x.clerk] = requestId[x.clerk] \/ requestId'[x.clerk] = requestId[x.clerk] + 1
    BY ZenonT(40), <1>1, <2>1, ReplyEffect
  <2>3. before' = before
    BY ZenonT(40), <2>1 DEF Reply
  <2> QED
    BY SMTT(40), <1>1, <2>2, <2>3
<1>3. CASE \E c \in Clerk : Invoke(c)
  <2>1. PICK c \in Clerk : Invoke(c)
    BY Zenon, <1>3
  <2>2. call[c] = None /\ requestId' = requestId /\ before' = [before EXCEPT ![c] = acked]
    BY ZenonT(40), <2>1 DEF Invoke
  <2>3. x.clerk # c
    BY ZenonT(40), <1>1, <2>2
  <2> QED
    BY ZenonT(40), <1>1, <2>2, <2>3 DEF TypeOK
<1>4. CASE UNCHANGED <<requestId, before>>
  BY ZenonT(40), <1>1, <1>4
<1> QED
  BY ZenonT(40), <1>2, <1>3, <1>4 DEF Next, HandlerStep, LogStep, Request, Propose, Register, Receive,
     TimeOut, Remove, Apply, Restart, clerkVars

\* Every step keeps the chosen log in the order of the clerks' requests.
LEMMA OrderStep ==
  ASSUME CInv, Next
  PROVE  OrderInv'
<1> USE DEF CInv
<1>1. /\ Len(log) \in Nat /\ Len(log') \in Nat /\ Len(log) <= Len(log')
      /\ \A i \in 1..Len(log) : log'[i] = log[i]
  BY ZenonT(40), ChosenStays
<1>2. SUFFICES ASSUME NEW i \in 1..Len(log')
               PROVE  /\ \A r \in 1..(log'[i].req - 1) : \E j \in 1..(i - 1) :
                           log'[j] = Cmd(log'[i].clerk, r)
                      /\ log'[i].req = requestId'[log'[i].clerk] =>
                           \A x \in before'[log'[i].clerk] : \E j \in 1..(i - 1) : log'[j] = x
  BY ZenonT(40) DEF OrderInv, Cmd
<1> DEFINE y == log'[i]
<1>3. Issued(y)
  <2>1. log \in Seq(Entry)
    BY ZenonT(40) DEF TypeOK
  <2> QED
    BY SMTT(40), <1>1, <2>1, LogGrows DEF ClerksInv
<1>4. y.req = requestId'[y.clerk] =>
        /\ y.clerk \in Clerk /\ y.req = requestId[y.clerk]
        /\ before'[y.clerk] = before[y.clerk]
  BY ZenonT(40), <1>3, CurrentStays
<1>5. CASE i \in 1..Len(log)
  <2>1. y = log[i] /\ \A j \in 1..(i - 1) : log'[j] = log[j]
    BY SMTT(40), <1>1, <1>5
  <2>2. /\ \A r \in 1..(log[i].req - 1) : \E j \in 1..(i - 1) : log[j] = Cmd(log[i].clerk, r)
        /\ log[i].req = requestId[log[i].clerk] =>
             \A x \in before[log[i].clerk] : \E j \in 1..(i - 1) : log[j] = x
    BY ZenonT(40), <1>5 DEF OrderInv
  <2> HIDE DEF y
  <2>3. \A r \in 1..(y.req - 1) : \E j \in 1..(i - 1) : log'[j] = Cmd(y.clerk, r)
    BY ZenonT(40), <2>1, <2>2
  <2>4. y.req = requestId'[y.clerk] =>
          \A x \in before'[y.clerk] : \E j \in 1..(i - 1) : log'[j] = x
    BY ZenonT(40), <1>4, <2>1, <2>2
  <2> QED
    BY ZenonT(40), <2>3, <2>4 DEF y
<1>6. CASE i \notin 1..Len(log)
  <2>1. i - 1 = Len(log)
    <3>1. log \in Seq(Entry)
      BY ZenonT(40) DEF TypeOK
    <3> QED
      BY SMTT(40), <1>1, <1>6, <3>1, LogGrows
  <2>2. \A x : Chosen(x) => \E j \in 1..(i - 1) : log'[j] = x
    BY ZenonT(40), <1>1, <2>1 DEF Chosen
  <2>3. y.clerk \in Clerk /\ y.req \in 1..requestId[y.clerk] /\ requestId[y.clerk] \in Nat
    BY ZenonT(40), <1>3, IssuedIs DEF TypeOK
  <2> HIDE DEF y
  <2>4. \A r \in 1..(y.req - 1) : Chosen(Cmd(y.clerk, r))
    BY SMTT(40), <2>3 DEF ClerksInv
  <2>5. \A x \in before[y.clerk] : Chosen(x)
    BY ZenonT(40), <2>3 DEF ClerksInv
  <2> QED
    BY ZenonT(40), <1>4, <2>2, <2>4, <2>5 DEF y
<1> QED
  BY ZenonT(40), <1>5, <1>6
-----------------------------------------------------------------------------
(* Replicas *)

\* In the log, a number of a clerk means one request, and requests come in
\* their order.
LEMMA LogOrdered ==
  ASSUME CInv
  PROVE  /\ log \in Seq(Entry)
         /\ \A i \in 1..Len(log) :
              log[i].clerk \in Clerk /\ log[i].req \in Nat /\ log[i].req > 0
         /\ \A i, j \in 1..Len(log) :
              log[i].clerk = log[j].clerk /\ log[i].req = log[j].req => log[i] = log[j]
         /\ \A i, j \in 1..Len(log) : log[i].clerk = log[j].clerk /\ log[i].req < log[j].req =>
              \E k \in 1..(j - 1) : log[k] = log[i]
<1> USE DEF CInv
<1>1. log \in Seq(Entry)
  BY ZenonT(40) DEF TypeOK
<1>2. \A i \in 1..Len(log) : Issued(log[i])
  BY ZenonT(40) DEF ClerksInv
<1>3. \A i \in 1..Len(log) : /\ log[i].clerk \in Clerk /\ log[i].req \in Nat /\ log[i].req > 0
                             /\ log[i] = Cmd(log[i].clerk, log[i].req)
  <2> TAKE i \in 1..Len(log)
  <2>1. /\ log[i].clerk \in Clerk /\ log[i].req \in 1..requestId[log[i].clerk]
        /\ log[i] = Cmd(log[i].clerk, log[i].req)
    BY ZenonT(40), <1>2, IssuedIs
  <2> QED
    BY <2>1
<1>4. \A i, j \in 1..Len(log) :
        log[i].clerk = log[j].clerk /\ log[i].req = log[j].req => log[i] = log[j]
  BY ZenonT(40), <1>2, IssuedSame
<1>5. ASSUME NEW i \in 1..Len(log), NEW j \in 1..Len(log),
             log[i].clerk = log[j].clerk, log[i].req < log[j].req
      PROVE  \E k \in 1..(j - 1) : log[k] = log[i]
  <2>1. log[i].req \in 1..(log[j].req - 1)
    BY <1>3, <1>5
  <2>2. \E k \in 1..(j - 1) : log[k] = Cmd(log[j].clerk, log[i].req)
    BY ZenonT(40), <2>1 DEF OrderInv
  <2>3. log[i] = Cmd(log[j].clerk, log[i].req)
    BY ZenonT(40), <1>3, <1>5
  <2> QED
    BY ZenonT(40), <2>2, <2>3
<1> QED
  BY ZenonT(40), <1>1, <1>3, <1>4, <1>5

\* What applyCommands does to the replica s.
LEMMA ApplyEffect ==
  ASSUME CInv, NEW s \in Server, Apply(s)
  PROVE  LET x == log[applied[s] + 1]
             new == prevReq[s][x.clerk] < x.req
         IN  /\ applied[s] \in Nat /\ applied[s] + 1 <= Len(log)
             /\ applied' = [applied EXCEPT ![s] = applied[s] + 1]
             /\ prevReq' = [prevReq EXCEPT ![s] =
                  [prevReq[s] EXCEPT ![x.clerk] = IF new THEN x.req ELSE prevReq[s][x.clerk]]]
             /\ allConfs' = [allConfs EXCEPT ![s] =
                  IF new /\ x.op # "Query" THEN Append(allConfs[s], x) ELSE allConfs[s]]
<1> USE DEF CInv
<1>1. applied[s] \in Nat /\ applied[s] + 1 <= Len(log)
  BY SMTT(40) DEF Apply, Delivers, TypeOK
<1>2. applied' = [applied EXCEPT ![s] = applied[s] + 1]
  BY ZenonT(40) DEF Apply
<1> DEFINE x == log[applied[s] + 1]
           new == prevReq[s][x.clerk] < x.req
           v == IF new THEN x.req ELSE prevReq[s][x.clerk]
<1>3. prevReq' = [prevReq EXCEPT ![s][x.clerk] = v]
  BY ZenonT(40) DEF Apply, NextEntry, IsNew
<1>4. prevReq' = [prevReq EXCEPT ![s] = [prevReq[s] EXCEPT ![x.clerk] = v]]
  <2> HIDE DEF v, x
  <2> QED
    BY ZenonT(40), <1>3 DEF TypeOK
<1>5. allConfs' = [allConfs EXCEPT ![s] =
        IF new /\ x.op # "Query" THEN Append(allConfs[s], x) ELSE allConfs[s]]
  BY ZenonT(40) DEF Apply, NextEntry, IsNew
<1> QED
  BY ZenonT(40), <1>1, <1>2, <1>4, <1>5

\* Every step keeps a replica the result of the entries it has applied.
LEMMA ReplicaStep ==
  ASSUME CInv, Next
  PROVE  ReplicaInv'
<1> USE DEF CInv
<1>0. /\ log \in Seq(Entry) /\ DOMAIN applied = Server /\ DOMAIN prevReq = Server
      /\ DOMAIN allConfs = Server
      /\ \A s \in Server : /\ applied[s] \in Nat /\ prevReq[s] \in [Clerk -> Nat]
                           /\ allConfs[s] \in Seq(Entry)
                           /\ ReplicaIs(log, applied[s], prevReq[s], allConfs[s])
  BY ZenonT(40) DEF TypeOK, ReplicaInv
<1>1. CASE \E s \in Server : Apply(s)
  <2>1. PICK s \in Server : Apply(s)
    BY ZenonT(40), <1>1
  <2>2. log' = log
    BY ZenonT(40), <2>1 DEF Apply, logVars
  <2>3. ReplicaIs(log, applied'[s], prevReq'[s], allConfs'[s])
    <3> DEFINE x == log[applied[s] + 1]
               new == prevReq[s][x.clerk] < x.req
               p == [prevReq[s] EXCEPT ![x.clerk] = IF new THEN x.req ELSE prevReq[s][x.clerk]]
               f == IF new /\ x.op # "Query" THEN Append(allConfs[s], x) ELSE allConfs[s]
    <3>1. /\ applied[s] + 1 <= Len(log)
          /\ applied' = [applied EXCEPT ![s] = applied[s] + 1]
          /\ prevReq' = [prevReq EXCEPT ![s] = p]
          /\ allConfs' = [allConfs EXCEPT ![s] = f]
      BY ZenonT(40), <2>1, ApplyEffect
    <3>2. applied[s] + 1 \in 1..Len(log)
      BY SMTT(40), <1>0, <3>1
    <3>3. x.req > 0
      BY ZenonT(40), <3>2, LogOrdered
    <3>4. ReplicaIs(log, applied[s] + 1, p, f)
      BY ZenonT(40), <1>0, <3>1, <3>3, LogOrdered, ReplicaApply
    <3> HIDE DEF p, f
    <3> QED
      BY ZenonT(40), <1>0, <3>1, <3>4
  <2>4. \A t \in Server : t # s =>
          applied'[t] = applied[t] /\ prevReq'[t] = prevReq[t] /\ allConfs'[t] = allConfs[t]
    BY Zenon, <1>0, <2>1 DEF Apply
  <2> QED
    BY ZenonT(40), <1>0, <2>2, <2>3, <2>4 DEF ReplicaInv
<1>2. CASE \E s \in Server : Restart(s)
  <2>1. PICK s \in Server : Restart(s)
    BY ZenonT(40), <1>2
  <2>2. /\ log' = log /\ applied' = [applied EXCEPT ![s] = 0]
        /\ prevReq' = [prevReq EXCEPT ![s] = [c \in Clerk |-> 0]]
        /\ allConfs' = [allConfs EXCEPT ![s] = <<>>]
    BY ZenonT(40), <2>1 DEF Restart, LogRestart
  <2>3. ReplicaIs(log, 0, [c \in Clerk |-> 0], <<>>)
    BY Zenon, <1>0, ReplicaStart
  <2>4. applied'[s] = 0 /\ prevReq'[s] = [c \in Clerk |-> 0] /\ allConfs'[s] = <<>>
    BY ZenonT(40), <1>0, <2>2
  <2>5. \A t \in Server : t # s =>
          applied'[t] = applied[t] /\ prevReq'[t] = prevReq[t] /\ allConfs'[t] = allConfs[t]
    BY ZenonT(40), <1>0, <2>2
  <2>6. \A t \in Server : ReplicaIs(log, applied'[t], prevReq'[t], allConfs'[t])
    <3> TAKE t \in Server
    <3>1. CASE t = s
      BY ZenonT(40), <2>3, <2>4, <3>1
    <3>2. CASE t # s
      BY ZenonT(40), <1>0, <2>5, <3>2
    <3> QED
      BY ZenonT(40), <3>1, <3>2
  <2> QED
    BY ZenonT(40), <2>2, <2>6 DEF ReplicaInv
<1>3. CASE UNCHANGED <<applied, prevReq, allConfs>>
  <2>1. CASE log' = log
    BY ZenonT(40), <1>0, <1>3, <2>1 DEF ReplicaInv
  <2>2. CASE \E x \in Entry : log' = Append(log, x)
    <3>1. PICK x \in Entry : log' = Append(log, x)
      BY ZenonT(40), <2>2
    <3>2. \A s \in Server : ReplicaIs(Append(log, x), applied[s], prevReq[s], allConfs[s])
      BY ZenonT(40), <1>0, ReplicaGrow
    <3> QED
      BY ZenonT(40), <1>3, <3>1, <3>2 DEF ReplicaInv
  <2> QED
    BY ZenonT(40), <2>1, <2>2, LogGrows
<1> QED
  BY ZenonT(40), <1>1, <1>2, <1>3 DEF Next, HandlerStep, LogStep, Invoke, Request, Reply, Propose, Register,
     Receive, TimeOut, Remove, ctrlVars

\* Every step keeps a clerk's changes once each, in order, in allConfs.
LEMMA ChangesStep ==
  ASSUME CInv, Next
  PROVE  ChangesOnce'
<1> USE DEF CInv
<1>0. allConfs \in [Server -> Seq(Entry)]
  BY ZenonT(40) DEF TypeOK
<1>1. CASE \E s \in Server : Apply(s)
  <2>1. PICK s \in Server : Apply(s)
    BY ZenonT(40), <1>1
  <2> DEFINE x == log[applied[s] + 1]
  <2>2. \/ allConfs' = allConfs
        \/ /\ prevReq[s][x.clerk] < x.req
           /\ allConfs' = [allConfs EXCEPT ![s] = Append(allConfs[s], x)]
    BY SMTT(40), <1>0, <2>1, ApplyEffect
  <2>3. \A k \in 1..Len(allConfs[s]) :
          allConfs[s][k].req <= prevReq[s][allConfs[s][k].clerk]
    BY ZenonT(40) DEF ReplicaInv, ReplicaIs
  <2>4. \A k \in 1..Len(allConfs[s]) : allConfs[s][k].req \in Nat /\ allConfs[s][k].clerk \in Clerk
    <3>1. \A k \in 1..Len(allConfs[s]) : allConfs[s][k] \in Entry
      BY <1>0
    <3> QED
      BY ZenonT(40), <3>1 DEF Entry
  <2>5. x \in Entry /\ x.req \in Nat /\ x.clerk \in Clerk
    <3>1. applied[s] + 1 \in 1..Len(log)
      BY SMTT(40), <2>1, ApplyEffect
    <3>2. x \in Entry
      BY SMTT(40), <3>1, LogOrdered
    <3> QED
      BY ZenonT(40), <3>2 DEF Entry
  <2>6. \A c \in Clerk : prevReq[s][c] \in Nat
    BY SMTT(40) DEF TypeOK
  <2> HIDE DEF x
  <2>7. ASSUME prevReq[s][x.clerk] < x.req,
               allConfs' = [allConfs EXCEPT ![s] = Append(allConfs[s], x)]
        PROVE  ChangesOnce'
    <3>1. \A k \in 1..Len(allConfs[s]) : allConfs[s][k].clerk = x.clerk => allConfs[s][k].req < x.req
      BY SMTT(40), <2>3, <2>4, <2>5, <2>6, <2>7
    <3>2. \A i, j \in 1..Len(allConfs[s]) : i < j /\ allConfs[s][i].clerk = allConfs[s][j].clerk
            => allConfs[s][i].req < allConfs[s][j].req
      BY ZenonT(40) DEF ChangesOnce
    <3> DEFINE f == Append(allConfs[s], x)
    <3>3. /\ Len(f) = Len(allConfs[s]) + 1 /\ Len(allConfs[s]) \in Nat /\ f[Len(f)] = x
          /\ \A k \in 1..Len(allConfs[s]) : f[k] = allConfs[s][k]
      BY SMTT(40), <1>0, <2>5
    <3>4. allConfs'[s] = f /\ \A t \in Server : t # s => allConfs'[t] = allConfs[t]
      BY ZenonT(40), <1>0, <2>7
    <3> HIDE DEF f
    <3>5. \A i, j \in 1..Len(f) : i < j /\ f[i].clerk = f[j].clerk => f[i].req < f[j].req
      <4> TAKE i \in 1..Len(f), j \in 1..Len(f)
      <4> HAVE i < j /\ f[i].clerk = f[j].clerk
      <4>1. i \in 1..Len(allConfs[s]) /\ f[i] = allConfs[s][i]
        BY SMTT(40), <3>3
      <4>2. CASE j \in 1..Len(allConfs[s])
        BY ZenonT(40), <3>2, <3>3, <4>1, <4>2
      <4>3. CASE j = Len(f)
        BY ZenonT(40), <3>1, <3>3, <4>1, <4>3
      <4> QED
        BY SMTT(40), <3>3, <4>2, <4>3
    <3> QED
      BY ZenonT(40), <3>4, <3>5 DEF ChangesOnce
  <2> QED
    BY ZenonT(40), <2>2, <2>7 DEF ChangesOnce
<1>2. CASE \E s \in Server : Restart(s)
  <2>1. PICK s \in Server : allConfs' = [allConfs EXCEPT ![s] = <<>>]
    BY Zenon, <1>2 DEF Restart
  <2>2. Len(allConfs'[s]) = 0 /\ \A t \in Server : t # s => allConfs'[t] = allConfs[t]
    BY ZenonT(40), <1>0, <2>1
  <2> QED
    BY <2>2 DEF ChangesOnce
<1>3. CASE UNCHANGED allConfs
  BY ZenonT(40), <1>3 DEF ChangesOnce
<1> QED
  BY ZenonT(40), <1>1, <1>2, <1>3 DEF Next, HandlerStep, LogStep, Invoke, Request, Reply, Propose, Register,
     Receive, TimeOut, Remove, ctrlVars
-----------------------------------------------------------------------------
(* Results *)

\* What answers a request goes on to answer it.
LEMMA AnswersStay ==
  ASSUME CInv, Next, NEW x, NEW res, Issued(x), Answers(x, res)
  PROVE  AnswersNext(x, res)
<1>1. ChosenNext(x)
  BY ZenonT(40), ChosenStays DEF Answers
<1>2. ASSUME x.req = requestId'[x.clerk], res.config # None
      PROVE  Holds(res.config, before'[x.clerk])
  <2>1. x.req = requestId[x.clerk] /\ before'[x.clerk] = before[x.clerk]
    BY ZenonT(40), <1>2, CurrentStays
  <2> QED
    BY ZenonT(40), <1>2, <2>1 DEF Answers
<1> QED
  BY ZenonT(40), <1>1, <1>2 DEF AnswersNext

\* What applyCommands is to send, when it has applied a command, answers it.
LEMMA ApplyAnswers ==
  ASSUME CInv, Next, NEW s \in Server, Apply(s), sending'[s] # None
  PROVE  \E i \in 1..Len(log') : /\ log'[i].clerk = result'[s].clerk
                                 /\ log'[i].req = result'[s].req
                                 /\ AnswersNext(log'[i], result'[s])
<1> USE DEF CInv
<1> DEFINE i == applied[s] + 1
           x == log[i]
           confs == IF IsNew(s, x) /\ x.op # "Query" THEN Append(allConfs[s], x) ELSE allConfs[s]
<1>1. i \in 1..Len(log) /\ log' = log /\ requestId' = requestId /\ before' = before
  <2>1. applied[s] \in Nat /\ applied[s] + 1 <= Len(log) /\ Len(log) \in Nat
    BY ZenonT(40), ApplyEffect, ChosenStays
  <2>2. log' = log /\ requestId' = requestId /\ before' = before
    BY ZenonT(40) DEF Apply, logVars, clerkVars
  <2> QED
    BY SMTT(40), <2>1, <2>2
<1>2. result'[s] = ResultOf(s, x, confs)
  BY ZenonT(40) DEF Apply, TypeOK, NextEntry
<1>3. result'[s].clerk = x.clerk /\ result'[s].req = x.req
      /\ (result'[s].config # None => result'[s].config = confs /\ IsNew(s, x))
  <2>1. \A y, f : /\ ResultOf(s, y, f).clerk = y.clerk /\ ResultOf(s, y, f).req = y.req
                  /\ ResultOf(s, y, f).config = IF IsNew(s, y) THEN f ELSE None
    BY ZenonT(40) DEF ResultOf
  <2> HIDE DEF x, confs
  <2> QED
    BY ZenonT(40), <1>2, <2>1
<1>4. x.clerk \in Clerk
  BY ZenonT(40), <1>1, LogOrdered
<1>5. ASSUME x.req = requestId[x.clerk]
      PROVE  Holds(confs, before[x.clerk])
  <2> SUFFICES ASSUME NEW y \in before[x.clerk]
               PROVE  \E k \in 1..Len(confs) : confs[k] = y
    BY ZenonT(40) DEF Holds
  <2>1. PICK j \in 1..(i - 1) : log[j] = y
    BY ZenonT(40), <1>1, <1>5 DEF OrderInv
  <2>2. y.op # "Query"
    BY ZenonT(40), <1>4 DEF ClerksInv
  <2>3. applied[s] \in Nat /\ j \in 1..applied[s] /\ ReplicaIs(log, applied[s], prevReq[s], allConfs[s])
    BY SMTT(40), <2>1 DEF ReplicaInv, TypeOK
  <2>4. PICK k \in 1..Len(allConfs[s]) : allConfs[s][k] = y
    BY ZenonT(40), <2>1, <2>2, <2>3 DEF ReplicaIs
  <2>5. x \in Entry /\ allConfs[s] \in Seq(Entry)
    <3>1. log \in Seq(Entry) /\ allConfs \in [Server -> Seq(Entry)]
      BY ZenonT(40) DEF TypeOK
    <3> QED
      BY <1>1, <3>1
  <2>6. confs[k] = y /\ k \in 1..Len(confs)
    <3> HIDE DEF x
    <3> QED
      BY <2>4, <2>5
  <2> QED
    BY ZenonT(40), <2>6
<1>6. AnswersNext(x, result'[s])
  <2>1. ChosenNext(x)
    BY ZenonT(40), <1>1 DEF ChosenNext
  <2> HIDE DEF x, confs
  <2> QED
    BY ZenonT(40), <1>1, <1>3, <1>5, <2>1 DEF AnswersNext
<1> QED
  BY ZenonT(40), <1>1, <1>3, <1>6

\* propose() answers an old request: it is chosen.
LEMMA OldAnswers ==
  ASSUME CInv, NEW c \in Clerk, NEW s \in Server, call[c] # None, prevReq[s][c] >= requestId[c]
  PROVE  Answers(Command(c), Empty)
<1> USE DEF CInv
<1>1. requestId[c] \in Nat \ {0} /\ prevReq[s][c] \in Nat /\ applied[s] \in Nat
  BY SMTT(40) DEF TypeOK
<1>2. PICK j \in 1..applied[s] : log[j].clerk = c /\ log[j].req = prevReq[s][c]
  BY SMTT(40), <1>1 DEF ReplicaInv, ReplicaIs
<1>3. j \in 1..Len(log)
  <2>1. applied[s] <= Len(log)
    BY Zenon DEF ReplicaInv, ReplicaIs
  <2>2. Len(log) \in Nat
    BY SMTT(40), LogOrdered
  <2> QED
    BY <1>1, <2>1, <2>2
<1>4. Issued(log[j])
  BY ZenonT(40), <1>3 DEF ClerksInv
<1>5. log[j].req \in 1..requestId[c] /\ log[j] = Cmd(c, log[j].req)
  BY ZenonT(40), <1>2, <1>4, IssuedIs
<1>6. log[j] = Command(c)
  BY SMTT(40), <1>1, <1>2, <1>5, CommandIssued
<1>7. Chosen(Command(c))
  BY ZenonT(40), <1>3, <1>6 DEF Chosen
<1>8. Empty.config = None
  BY ZenonT(40) DEF Empty, Error
<1> QED
  BY ZenonT(40), <1>7, <1>8 DEF Answers

\* The select takes a result only for its own request.
LEMMA ReceiveAnswers ==
  ASSUME CInv, NEW h \in DOMAIN handler, Receive(h), handler'[h].res.err = ""
  PROVE  Answers(handler[h].com, handler'[h].res)
<1> USE DEF CInv
<1> DEFINE s == handler[h].srv
           x == handler[h].com
           other == result[s].clerk # x.clerk \/ result[s].req # x.req
<1>1. handler[h].pc = "select" /\ sending[s] = h /\ h # None /\ h \in 1..Len(handler)
  BY ZenonT(40), HandlerTypes DEF Receive
<1>2. s \in Server /\ Issued(x)
  BY ZenonT(40), <1>1 DEF ClerksInv
<1>3. result[s] \in Result /\ handler[h] \in Handler
  BY ZenonT(40), <1>2, HandlerTypes DEF TypeOK
<1>4. handler'[h].res = IF other THEN [result[s] EXCEPT !.err = "ErrNotLeader"] ELSE result[s]
  <2> DEFINE v == IF other THEN [result[s] EXCEPT !.err = "ErrNotLeader"] ELSE result[s]
             r == [handler[h] EXCEPT !.pc = "remove", !.res = v]
  <2>1. handler' = [handler EXCEPT ![h].pc = "remove", ![h].res = v]
    BY Zenon DEF Receive
  <2> HIDE DEF v
  <2>2. handler' = [handler EXCEPT ![h] = r]
    BY ZenonT(40), <2>1 DEF TypeOK
  <2>3. r.res = v
    BY Zenon, <1>3 DEF Handler
  <2> HIDE DEF r
  <2>4. handler'[h] = r
    BY ZenonT(40), <2>2 DEF TypeOK
  <2> QED
    BY Zenon, <2>3, <2>4 DEF v
<1>5. [result[s] EXCEPT !.err = "ErrNotLeader"].err = "ErrNotLeader"
  BY Zenon, <1>3 DEF Result
<1>6. ~other /\ handler'[h].res = result[s]
  BY Zenon, <1>4, <1>5
<1>7. PICK i \in 1..Len(log) : /\ log[i].clerk = result[s].clerk /\ log[i].req = result[s].req
                               /\ Answers(log[i], result[s])
  BY ZenonT(40), <1>1, <1>2 DEF ResultsInv
<1>8. Issued(log[i]) /\ log[i].clerk = x.clerk /\ log[i].req = x.req
  BY ZenonT(40), <1>6, <1>7 DEF ClerksInv
<1>9. log[i] = x
  BY Zenon, <1>2, <1>8, IssuedSame
<1> QED
  BY ZenonT(40), <1>6, <1>7, <1>9

\* Every step keeps a result on its way one of a chosen request.
LEMMA ResultsStep ==
  ASSUME CInv, Next
  PROVE  ResultsInv'
<1> USE DEF CInv
<1>0. /\ DOMAIN sending = Server /\ DOMAIN result = Server /\ handler \in Seq(Handler)
      /\ DOMAIN handler = 1..Len(handler) /\ Len(handler) \in Nat
  BY ZenonT(40), HandlerTypes DEF TypeOK
<1>1. ASSUME NEW s \in Server, sending'[s] # None
      PROVE  \E i \in 1..Len(log') : /\ log'[i].clerk = result'[s].clerk
                                     /\ log'[i].req = result'[s].req
                                     /\ AnswersNext(log'[i], result'[s])
  <2>1. CASE Apply(s)
    BY ZenonT(40), <1>1, <2>1, ApplyAnswers
  <2>2. CASE sending'[s] = sending[s] /\ result'[s] = result[s]
    <3>1. PICK i \in 1..Len(log) : /\ log[i].clerk = result[s].clerk /\ log[i].req = result[s].req
                                   /\ Answers(log[i], result[s])
      BY ZenonT(40), <1>1, <2>2 DEF ResultsInv
    <3>2. Issued(log[i])
      BY ZenonT(40) DEF ClerksInv
    <3>3. AnswersNext(log[i], result[s])
      BY ZenonT(40), <3>1, <3>2, AnswersStay
    <3>4. i \in 1..Len(log') /\ log'[i] = log[i]
      BY ChosenStays
    <3> QED
      BY ZenonT(40), <2>2, <3>1, <3>3, <3>4
  <2>3. ASSUME NEW t \in Server, Apply(t), t # s
        PROVE  sending'[s] = sending[s] /\ result'[s] = result[s]
    BY Zenon, <1>0, <2>3 DEF Apply
  <2>4. ASSUME NEW t \in Server, Restart(t)
        PROVE  sending'[s] = sending[s] /\ result'[s] = result[s]
    BY Zenon, <1>0, <1>1, <2>4 DEF Restart
  <2>5. ASSUME NEW h \in DOMAIN handler, Receive(h)
        PROVE  sending'[s] = sending[s] /\ result'[s] = result[s]
    BY ZenonT(40), <1>0, <1>1, <2>5 DEF Receive
  <2>6. CASE UNCHANGED <<sending, result>>
    BY ZenonT(40), <2>2, <2>6
  <2> QED
    BY ZenonT(40), <2>1, <2>2, <2>3, <2>4, <2>5, <2>6 DEF Next, HandlerStep, LogStep, Invoke, Request,
       Reply, Propose, Register, TimeOut, Remove, ctrlVars
<1>2. ASSUME NEW h \in 1..Len(handler'), handler'[h].pc \in {"remove", "reply"},
             handler'[h].res.err = ""
      PROVE  AnswersNext(handler'[h].com, handler'[h].res)
  <2>1. CASE h \in 1..Len(handler) /\ handler'[h] = handler[h]
    <3>1. Answers(handler[h].com, handler[h].res)
      BY Zenon, <1>2, <2>1 DEF ResultsInv
    <3>2. Issued(handler[h].com)
      BY ZenonT(40), <1>2, <2>1 DEF ClerksInv
    <3> QED
      BY ZenonT(40), <2>1, <3>1, <3>2, AnswersStay
  <2>2. ASSUME NEW c \in Clerk, NEW s \in Server, Request(c, s), h = Len(handler) + 1
        PROVE  AnswersNext(handler'[h].com, handler'[h].res)
    <3> DEFINE r == [srv |-> s, com |-> Command(c), idx |-> -1, res |-> Empty,
                     pc |-> IF prevReq[s][c] >= requestId[c] THEN "reply" ELSE "propose"]
    <3>1. handler' = Append(handler, r) /\ call[c] # None
      BY ZenonT(40), <2>2 DEF Request
    <3>2. r.com = Command(c) /\ r.res = Empty
          /\ (r.pc \in {"remove", "reply"} => prevReq[s][c] >= requestId[c])
      BY ZenonT(40)
    <3> HIDE DEF r
    <3>3. handler'[h] = r
      BY <1>0, <2>2, <3>1
    <3>4. Answers(Command(c), Empty) /\ Issued(Command(c))
      BY ZenonT(40), <1>2, <3>1, <3>2, <3>3, OldAnswers, CommandIssued
    <3>5. AnswersNext(Command(c), Empty)
      BY ZenonT(40), <3>4, AnswersStay
    <3> QED
      BY ZenonT(40), <3>2, <3>3, <3>5
  <2>3. ASSUME NEW c \in Clerk, NEW s \in Server, Request(c, s), h # Len(handler) + 1
        PROVE  h \in 1..Len(handler) /\ handler'[h] = handler[h]
    <3>1. \E r : handler' = Append(handler, r)
      BY ZenonT(40), <2>3 DEF Request
    <3> QED
      BY SMTT(40), <1>0, <2>3, <3>1
  <2>4. ASSUME NEW k \in DOMAIN handler, HandlerStep(k)
        PROVE  AnswersNext(handler'[h].com, handler'[h].res)
    <3>1. handler[k] \in Handler /\ k \in 1..Len(handler)
      BY ZenonT(40), HandlerTypes
    <3>2. CASE Reply(k)
      <4>1. handler' = [handler EXCEPT ![k] = Ended] /\ Ended.pc = "end"
        BY ZenonT(40), <3>2 DEF Reply, Ended
      <4>2. h # k /\ h \in 1..Len(handler) /\ handler'[h] = handler[h]
        <5>1. /\ Len(handler') = Len(handler) /\ handler'[k] = Ended
              /\ \A j \in DOMAIN handler : j # k => handler'[j] = handler[j]
          BY Zenon, <4>1, HandlerTypes, HandlerReplaced
        <5>2. h # k
          BY Zenon, <1>2, <4>1, <5>1
        <5> QED
          BY ZenonT(40), <1>0, <5>1, <5>2
      <4> QED
        BY ZenonT(40), <2>1, <4>2
    <3>3. CASE Propose(k) \/ Register(k) \/ Receive(k) \/ TimeOut(k) \/ Remove(k)
      <4>1. /\ Len(handler') = Len(handler)
            /\ \A j \in DOMAIN handler : j # k => handler'[j] = handler[j]
            /\ handler[k].pc # "end" /\ handler'[k].com = handler[k].com
        BY ZenonT(40), <3>3, HandlersKept
      <4>2. CASE h # k
        BY ZenonT(40), <1>0, <2>1, <4>1, <4>2
      <4>3. CASE h = k
        <5>0. Issued(handler[h].com)
          BY ZenonT(40), <3>1, <4>1, <4>3 DEF ClerksInv
        <5>1. Answers(handler[h].com, handler'[h].res)
          <6>1. CASE Propose(h)
            <7>1. CASE handler' = [handler EXCEPT ![h] = NotLeader(h)]
              <8>1. NotLeader(h).res.err = "ErrNotLeader"
                BY ZenonT(40), <3>1, <4>3 DEF NotLeader, Handler, Error
              <8>2. handler'[h] = NotLeader(h)
                BY ZenonT(40), <1>0, <3>1, <4>3, <7>1
              <8> QED
                BY Zenon, <1>2, <8>1, <8>2
            <7>2. CASE handler' = [handler EXCEPT ![h].pc = "register",
                                                  ![h].idx = IndexAt(handler[h].srv)]
              <8> DEFINE i == IndexAt(handler[h].srv)
                         r == [handler[h] EXCEPT !.pc = "register", !.idx = i]
              <8> HIDE DEF i
              <8>1. r.pc = "register"
                BY ZenonT(40), <3>1, <4>3 DEF Handler
              <8>2. handler' = [handler EXCEPT ![h] = r]
                BY ZenonT(40), <7>2 DEF TypeOK, i
              <8> HIDE DEF r
              <8>3. handler'[h] = r
                BY ZenonT(40), <1>0, <3>1, <4>3, <8>2
              <8> QED
                BY Zenon, <1>2, <8>1, <8>3
            <7> QED
              BY Zenon, <6>1, <7>1, <7>2 DEF Propose
          <6>2. CASE Receive(h)
            BY ZenonT(40), <1>2, <3>1, <4>3, <6>2, ReceiveAnswers
          <6>3. CASE Remove(h)
            <7> DEFINE r == [handler[h] EXCEPT !.pc = "reply"]
            <7>1. r.res = handler[h].res /\ handler[h].pc = "remove"
              BY ZenonT(40), <3>1, <4>3, <6>3 DEF Handler, Remove
            <7>2. handler' = [handler EXCEPT ![h] = r]
              BY ZenonT(40), <6>3 DEF Remove, TypeOK
            <7> HIDE DEF r
            <7>3. handler'[h] = r
              BY ZenonT(40), <1>0, <3>1, <4>3, <7>2
            <7> QED
              BY ZenonT(40), <1>2, <3>1, <4>3, <7>1, <7>3 DEF ResultsInv
          <6>4. CASE TimeOut(h)
            <7> DEFINE r == [handler[h] EXCEPT !.pc = "remove", !.res = Error("ErrTimeOut")]
            <7>1. r.res = Error("ErrTimeOut")
              BY ZenonT(40), <3>1, <4>3 DEF Handler
            <7>2. handler' = [handler EXCEPT ![h] = r]
              BY ZenonT(40), <6>4 DEF TimeOut, TypeOK
            <7> HIDE DEF r
            <7>3. handler'[h] = r
              BY ZenonT(40), <1>0, <3>1, <4>3, <7>2
            <7>4. Error("ErrTimeOut").err = "ErrTimeOut"
              BY ZenonT(40) DEF Error
            <7> QED
              BY ZenonT(40), <1>2, <7>1, <7>3, <7>4
          <6>5. CASE Register(h)
            <7> DEFINE r == [handler[h] EXCEPT !.pc = "select"]
            <7>1. r.pc = "select"
              BY ZenonT(40), <3>1, <4>3 DEF Handler
            <7>2. handler' = [handler EXCEPT ![h] = r]
              BY ZenonT(40), <6>5 DEF Register, TypeOK
            <7> HIDE DEF r
            <7>3. handler'[h] = r
              BY ZenonT(40), <1>0, <3>1, <4>3, <7>2
            <7> QED
              BY Zenon, <1>2, <7>1, <7>3
          <6> QED
            BY ZenonT(40), <3>3, <4>3, <6>1, <6>2, <6>3, <6>4, <6>5
        <5> QED
          BY ZenonT(40), <4>1, <4>3, <5>0, <5>1, AnswersStay
      <4> QED
        BY ZenonT(40), <4>2, <4>3
    <3> QED
      BY ZenonT(40), <2>4, <3>2, <3>3 DEF HandlerStep
  <2>5. ASSUME NEW s \in Server, Restart(s)
        PROVE  h \in 1..Len(handler) /\ handler'[h] = handler[h]
    <3>1. handler' = [k \in 1..Len(handler) |-> IF handler[k].srv = s THEN Ended ELSE handler[k]]
      BY ZenonT(40), <1>0, <2>5 DEF Restart
    <3>2. Ended.pc = "end"
      BY ZenonT(40) DEF Ended
    <3>3. DOMAIN handler' = 1..Len(handler')
      <4>1. handler' \in Seq(Handler)
        BY ZenonT(40), TypeStep DEF TypeOK
      <4> QED
        BY <4>1
    <3> QED
      BY ZenonT(40), <1>2, <3>1, <3>2, <3>3
  <2>6. CASE UNCHANGED handler
    BY ZenonT(40), <2>1, <2>6
  <2> QED
    BY ZenonT(40), <2>1, <2>2, <2>3, <2>4, <2>5, <2>6 DEF Next, LogStep, Invoke, Apply
<1> QED
  BY ZenonT(40), <1>1, <1>2 DEF ResultsInv, Answers, AnswersNext, Chosen, ChosenNext

\* Every step keeps the answers of Queries as new as what was acknowledged
\* before them.
LEMMA QueriesStep ==
  ASSUME CInv, Next
  PROVE  QueriesFresh'
<1> USE DEF CInv
<1>0. DOMAIN answer = Clerk /\ DOMAIN before = Clerk
  BY ZenonT(40) DEF TypeOK
<1>1. SUFFICES ASSUME NEW c \in Clerk, answer'[c] # None, answer'[c].config # None
               PROVE  Holds(answer'[c].config, before'[c])
  BY ZenonT(40) DEF QueriesFresh, Holds
<1>2. CASE answer'[c] = answer[c] /\ before'[c] = before[c]
  BY ZenonT(40), <1>1, <1>2 DEF QueriesFresh, Holds
<1>3. ASSUME NEW d \in Clerk, Invoke(d)
      PROVE  answer'[c] = answer[c] /\ before'[c] = before[c]
  BY ZenonT(40), <1>0, <1>1, <1>3 DEF Invoke
<1>4. ASSUME NEW h \in DOMAIN handler, Reply(h)
      PROVE  Holds(answer'[c].config, before'[c])
  <2>0. before' = before
    BY Zenon, <1>4 DEF Reply
  <2>1. \/ answer'[c] = answer[c]
        \/ /\ c = handler[h].com.clerk /\ handler[h].com = Cmd(c, requestId[c])
           /\ Answers(handler[h].com, handler[h].res) /\ answer'[c] = handler[h].res
    BY ZenonT(40), <1>4, ReplyEffect
  <2>2. CASE /\ c = handler[h].com.clerk /\ handler[h].com = Cmd(c, requestId[c])
             /\ Answers(handler[h].com, handler[h].res) /\ answer'[c] = handler[h].res
    <3>1. handler[h].com.req = requestId[c]
      BY <2>2 DEF Cmd
    <3> QED
      BY ZenonT(40), <1>1, <2>0, <2>2, <3>1 DEF Answers
  <2> QED
    BY ZenonT(40), <1>2, <2>0, <2>1, <2>2
<1>5. CASE UNCHANGED <<answer, before>>
  BY ZenonT(40), <1>2, <1>5
<1> QED
  BY ZenonT(40), <1>2, <1>3, <1>4, <1>5 DEF Next, HandlerStep, LogStep, Request, Propose, Register, Receive,
     TimeOut, Remove, Apply, Restart, clerkVars

\* The servers and the clerks start with nothing.
LEMMA CtrlerInit == Init => CInv
<1> SUFFICES ASSUME Init PROVE CInv
  BY ZenonT(40)
<1>1. TypeOK
  <2>1. Empty \in Result
    BY Zenon DEF Empty, Error, Result
  <2> QED
    BY <2>1 DEF Init, LogInit, TypeOK
<1>2. ClerksInv
  BY SMTT(40), CtrlerAssumption DEF Init, LogInit, ClerksInv
<1>3. OrderInv
  BY SMTT(40) DEF Init, LogInit, OrderInv
<1>4. ReplicaInv
  <2>1. ReplicaIs(log, 0, [c \in Clerk |-> 0], <<>>)
    BY ZenonT(40), <1>1, ReplicaStart DEF TypeOK
  <2>2. \A s \in Server : /\ applied[s] = 0 /\ prevReq[s] = [c \in Clerk |-> 0]
                          /\ allConfs[s] = <<>>
    BY ZenonT(40) DEF Init
  <2> QED
    BY Zenon, <2>1, <2>2 DEF ReplicaInv
<1>5. ResultsInv
  <2>1. Len(handler) = 0 /\ \A s \in Server : sending[s] = None
    BY ZenonT(40) DEF Init
  <2>2. 1..Len(handler) = {}
    BY SMTT(40), <2>1
  <2> QED
    BY Zenon, <2>1, <2>2 DEF ResultsInv
<1>6. ChangesOnce
  BY DEF Init, ChangesOnce
<1>7. QueriesFresh
  BY ZenonT(40) DEF Init, QueriesFresh
<1> QED
  BY ZenonT(40), <1>1, <1>2, <1>3, <1>4, <1>5, <1>6, <1>7 DEF CInv

\* Two replicas agree as far as both have got: the k-th change of each is
\* the entry at the k-th effective position of the log.
LEMMA ReplicasAgree == CInv => SameNumbers
<1> SUFFICES ASSUME CInv, NEW s \in Server, NEW t \in Server
             PROVE  \/ Prefix(allConfs[s], allConfs[t])
                    \/ Prefix(allConfs[t], allConfs[s])
  BY ZenonT(40) DEF SameNumbers
<1>1. \A u \in Server : /\ applied[u] \in Nat /\ allConfs[u] \in Seq(Entry)
                        /\ ReplicaIs(log, applied[u], prevReq[u], allConfs[u])
  BY Zenon DEF CInv, TypeOK, ReplicaInv
<1>2. ASSUME NEW u \in Server, NEW v \in Server, NEW k \in 1..Len(allConfs[u]),
             k \in 1..Len(allConfs[v])
      PROVE  allConfs[u][k] = allConfs[v][k]
  <2>1. PICK i \in Effective(log, applied[u]) :
          k = Cardinality(Effective(log, i)) /\ allConfs[u][k] = log[i]
    BY ZenonT(40), <1>1 DEF ReplicaIs
  <2>2. PICK j \in Effective(log, applied[v]) :
          k = Cardinality(Effective(log, j)) /\ allConfs[v][k] = log[j]
    BY ZenonT(40), <1>1, <1>2 DEF ReplicaIs
  <2>3. i \in 1..applied[u] /\ i \in Effective(log, i) /\ j \in 1..applied[v] /\ j \in Effective(log, j)
    BY ZenonT(40), <1>1, EffectiveCount
  <2>4. PICK n \in Nat : i <= n /\ j <= n
    BY SMTT(40), <1>1, <2>3
  <2>5. i \in Effective(log, n) /\ j \in Effective(log, n)
    BY <2>3, <2>4 DEF Effective
  <2>6. i = j
    BY Zenon, <2>1, <2>2, <2>5, EffectiveCount
  <2> QED
    BY ZenonT(40), <2>1, <2>2, <2>6
<1>3. ASSUME NEW u \in Server, NEW v \in Server, Len(allConfs[u]) <= Len(allConfs[v])
      PROVE  Prefix(allConfs[u], allConfs[v])
  <2>1. allConfs[u] \in Seq(Entry) /\ allConfs[v] \in Seq(Entry)
    BY ZenonT(40), <1>1
  <2>2. \A k \in 1..Len(allConfs[u]) : allConfs[u][k] = allConfs[v][k]
    BY <1>2, <1>3, <2>1
  <2>3. allConfs[u] = SubSeq(allConfs[v], 1, Len(allConfs[u]))
    BY SMTT(40), <1>3, <2>1, <2>2
  <2> QED
    BY ZenonT(40), <1>3, <2>3 DEF Prefix
<1>4. Len(allConfs[s]) \in Nat /\ Len(allConfs[t]) \in Nat
  BY <1>1
<1> QED
  BY <1>3, <1>4

\* What nothing changes is kept: what the clerks know,
LEMMA ClerksStutter ==
  ASSUME ClerksInv, UNCHANGED <<log, plog, buffer, handler, requestId, call, before, acked>>
  PROVE  ClerksInv'
<1>1. ASSUME NEW x, Issued(x) PROVE Issued(x)'
  BY Zenon, <1>1 DEF Issued, Cmd
<1>2. ASSUME NEW x, Chosen(x) PROVE Chosen(x)'
  BY Zenon, <1>2 DEF Chosen
<1> QED
  BY ZenonT(40), <1>1, <1>2 DEF ClerksInv, Command, Cmd

\* and the order of the log.
LEMMA OrderStutter ==
  ASSUME OrderInv, UNCHANGED <<log, requestId, before>>
  PROVE  OrderInv'
<1> DEFINE Ordered(l, q, b) ==
      \A i \in 1..Len(l) :
        /\ \A r \in 1..(l[i].req - 1) : \E j \in 1..(i - 1) : l[j] = Cmd(l[i].clerk, r)
        /\ l[i].req = q[l[i].clerk] =>
            \A x \in b[l[i].clerk] : \E j \in 1..(i - 1) : l[j] = x
<1>1. Ordered(log, requestId, before)
  BY Zenon DEF OrderInv
<1>2. Ordered(log', requestId', before') => OrderInv'
  BY Zenon DEF OrderInv, Cmd
<1> HIDE DEF Ordered
<1> QED
  BY <1>1, <1>2

\* CInv holds of every behaviour of the controller.
THEOREM CtrlerInvariant == Spec => []CInv
<1>1. CInv /\ [Next]_vars => CInv'
  <2> SUFFICES ASSUME CInv, [Next]_vars PROVE CInv'
    BY ZenonT(40)
  <2>1. CASE Next
    <3>1. TypeOK' /\ ClerksInv' /\ OrderInv'
      BY ZenonT(40), <2>1, TypeStep, ClerksStep, OrderStep
    <3>2. ReplicaInv' /\ ResultsInv' /\ ChangesOnce' /\ QueriesFresh'
      BY ZenonT(40), <2>1, ReplicaStep, ResultsStep, ChangesStep, QueriesStep
    <3> QED
      BY ZenonT(40), <3>1, <3>2 DEF CInv
  <2>2. CASE UNCHANGED vars
    <3>1. TypeOK' /\ ClerksInv' /\ OrderInv'
      <4>1. UNCHANGED <<log, plog, buffer, phase, elected, allConfs, prevReq, applied, chans>>
        BY ZenonT(40), <2>2 DEF vars, logVars, ctrlVars
      <4>2. UNCHANGED <<sending, result, handler, requestId, call, answer, acked, before>>
        BY ZenonT(40), <2>2 DEF vars, ctrlVars, clerkVars
      <4>3. TypeOK'
        BY ZenonT(40), <4>1, <4>2 DEF CInv, TypeOK
      <4>4. ClerksInv'
        BY ClerksStutter, <4>1, <4>2 DEF CInv
      <4>5. OrderInv'
        BY OrderStutter, <4>1, <4>2 DEF CInv
      <4> QED
        BY ZenonT(40), <4>3, <4>4, <4>5
    <3>2. ReplicaInv' /\ ResultsInv' /\ ChangesOnce' /\ QueriesFresh'
      <4>1. UNCHANGED <<log, applied, prevReq, allConfs>>
        BY ZenonT(40), <2>2 DEF vars, logVars, ctrlVars
      <4>2. UNCHANGED <<sending, result, handler, requestId, before, answer>>
        BY ZenonT(40), <2>2 DEF vars, ctrlVars, clerkVars
      <4>3. ReplicaInv'
        BY ZenonT(40), <4>1 DEF CInv, ReplicaInv
      <4>4. ResultsInv'
        BY ZenonT(40), <4>1, <4>2 DEF CInv, ResultsInv, Answers, Chosen
      <4>5. ChangesOnce' /\ QueriesFresh'
        BY ZenonT(40), <4>1, <4>2 DEF CInv, ChangesOnce, QueriesFresh
      <4> QED
        BY ZenonT(40), <4>3, <4>4, <4>5
    <3> QED
      BY ZenonT(40), <3>1, <3>2 DEF CInv
  <2> QED
    BY ZenonT(40), <2>1, <2>2
<1> QED
  BY <1>1, CtrlerInit, PTL DEF Spec

\* A change whose call has returned is in the log for good (propose,
\* Clerk.Join, Clerk.Leave and Clerk.Move), for any number of servers, clerks,
\* attempts, elections and restarts.
THEOREM CtrlerAckedChosen == Spec => []AckedChosen
<1>1. CInv => AckedChosen
  BY ZenonT(40) DEF CInv, ClerksInv, Chosen, AckedChosen
<1> QED
  BY <1>1, CtrlerInvariant, PTL

\* However often a clerk repeats a Join, a Leave or a Move, and through
\* whichever leaders, every replica makes one configuration of it, in the
\* order of the clerk's calls (applyCommands, prevReq).
THEOREM CtrlerChangesOnce == Spec => []ChangesOnce
<1>1. CInv => ChangesOnce
  BY ZenonT(40) DEF CInv
<1> QED
  BY <1>1, CtrlerInvariant, PTL

\* The replicas number the configurations alike, however far each has
\* applied the log and however often it has been built again.
THEOREM CtrlerSameNumbers == Spec => []SameNumbers
  BY ReplicasAgree, CtrlerInvariant, PTL

\* A Query that returns a configuration has every change acknowledged before
\* the Query began (applyCommands, propose).
THEOREM CtrlerQueriesFresh == Spec => []QueriesFresh
<1>1. CInv => QueriesFresh
  BY ZenonT(40) DEF CInv
<1> QED
  BY <1>1, CtrlerInvariant, PTL
=============================================================================
