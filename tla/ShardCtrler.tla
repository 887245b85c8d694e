---------------------------- MODULE ShardCtrler ----------------------------
(***************************************************************************)
(* The shard controller as a replicated service (shardctrler/server.go and *)
(* client.go): clerks, propose() with its channels, and applyCommands(),   *)
(* over the log of AgreedLog.                                              *)
(*                                                                         *)
(* A configuration is the sequence of the Joins, Leaves and Moves that     *)
(* made it; ShardConfigs has what they make.  A clerk's call may fail      *)
(* while its handler goes on, so handlers are numbered by attempts.        *)
(*                                                                         *)
(* sc.mu is held for one action, except where applyCommands sends on a     *)
(* channel: the channels have no buffer, and mu stays taken until the      *)
(* handler receives.                                                       *)
(***************************************************************************)
EXTENDS AgreedLog

CONSTANTS
    Clerk,
    Script,       \* Script[c]: the operations that c calls, "Query" or a change
    None,
    MaxTries,     \* bound: on the attempts of all clerks together
    MaxCrashes    \* bound: on restarts

ASSUME CtrlerAssumption ==
    /\ MaxTries \in Nat /\ MaxCrashes \in Nat
    /\ \A c \in Clerk : Script[c] \in Seq(STRING)
    /\ None \notin Nat

VARIABLES
    allConfs,   \* allConfs[s]: the changes that s has applied, in order
    prevReq,    \* prevReq[s][c]: the last request of c that s has applied
    applied,    \* applied[s]: how many entries s has applied
    chans,      \* chans[s]: from indices to the handlers that wait for them
    sending,    \* sending[s]: the handler applyCommands sends to, holding mu
    result,     \* result[s]: what it sends
    handler,    \* handler[h]: the h-th attempt
    requestId,  \* requestId[c], of the current or the next call
    call,       \* call[c]: the attempt that c waits for, 0 between two, or None
    answer,     \* history: answer[c] is what c's last call returned, a Query
    acked,      \* history: the changes whose calls have returned
    before,     \* history: before[c] is acked when c's call began
    crashes

ctrlVars  == <<allConfs, prevReq, applied, chans, sending, result>>
clerkVars == <<requestId, call, answer, acked, before>>
vars == <<logVars, ctrlVars, handler, clerkVars, crashes>>

Error(e) == [err |-> e, clerk |-> None, req |-> 0, config |-> None]

Empty == Error("")

Init ==
    /\ LogInit
    /\ allConfs = [s \in Server |-> <<>>]
    /\ prevReq = [s \in Server |-> [c \in Clerk |-> 0]]
    /\ applied = [s \in Server |-> 0]
    /\ chans = [s \in Server |-> <<>>]
    /\ sending = [s \in Server |-> None]
    /\ result = [s \in Server |-> Empty]
    /\ handler = <<>>
    /\ requestId = [c \in Clerk |-> 1]
    /\ call = [c \in Clerk |-> None]
    /\ answer = [c \in Clerk |-> None]
    /\ acked = {}
    /\ before = [c \in Clerk |-> {}]
    /\ crashes = 0

LogStep == LogNext /\ UNCHANGED <<ctrlVars, handler, clerkVars, crashes>>

MuFree(s) == sending[s] = None
-----------------------------------------------------------------------------
(* Clerks *)

Command(c) == [clerk |-> c, req |-> requestId[c], op |-> Script[c][requestId[c]]]

Invoke(c) ==
    /\ call[c] = None
    /\ requestId[c] <= Len(Script[c])
    /\ call' = [call EXCEPT ![c] = 0]
    /\ answer' = [answer EXCEPT ![c] = None]
    /\ before' = [before EXCEPT ![c] = acked]
    /\ UNCHANGED <<logVars, ctrlVars, handler, requestId, acked, crashes>>

\* Mutant: a Query is answered from the server's own state.
RequestLocalQuery(c, s) ==
    LET old == prevReq[s][c] >= requestId[c] IN
    /\ call[c] # None
    /\ Len(handler) < MaxTries
    /\ MuFree(s)
    /\ old \/ phase[s] # "FOLLOWER"
    /\ handler' = Append(handler,
        [srv |-> s, com |-> Command(c), idx |-> -1,
         res |-> IF Command(c).op = "Query" THEN [Empty EXCEPT !.config = allConfs[s]] ELSE Empty,
         pc |-> IF old \/ Command(c).op = "Query" THEN "reply" ELSE "propose"])
    /\ call' = [call EXCEPT ![c] = Len(handler) + 1]
    /\ UNCHANGED <<logVars, ctrlVars, requestId, answer, acked, before, crashes>>

\* The clerk's call reaches s, where propose() first looks for the request
\* among the old ones.  An attempt before it has failed or is given up; its
\* handler goes on.  A call of a server that does not lead, and has not seen
\* the request, changes nothing and is left out.
Request(c, s) ==
    LET old == prevReq[s][c] >= requestId[c] IN
    /\ call[c] # None
    /\ Len(handler) < MaxTries
    /\ MuFree(s)
    /\ old \/ phase[s] # "FOLLOWER"
    /\ handler' = Append(handler,
        [srv |-> s, com |-> Command(c), idx |-> -1, res |-> Empty,
         pc |-> IF old THEN "reply" ELSE "propose"])
    /\ call' = [call EXCEPT ![c] = Len(handler) + 1]
    /\ UNCHANGED <<logVars, ctrlVars, requestId, answer, acked, before, crashes>>

Ended == [srv |-> None, com |-> None, idx |-> -1, res |-> Empty, pc |-> "end"]

\* Mutant: the clerk takes the reply of an attempt it has given up.
ReplyLate(h) ==
    LET c == handler[h].com.clerk
        ok == handler[h].res.err = ""
    IN
    /\ handler[h].pc = "reply"
    /\ handler' = [handler EXCEPT ![h] = Ended]
    /\ call' = [call EXCEPT ![c] = IF ok THEN None ELSE IF @ = h THEN 0 ELSE @]
    /\ requestId' = [requestId EXCEPT ![c] = IF ok THEN @ + 1 ELSE @]
    /\ answer' = [answer EXCEPT ![c] =
        IF ok /\ handler[h].com.op = "Query" THEN handler[h].res ELSE @]
    /\ acked' = IF ok /\ handler[h].com.op # "Query" THEN acked \cup {handler[h].com} ELSE acked
    /\ UNCHANGED <<logVars, ctrlVars, before, crashes>>

\* The reply of attempt h reaches its clerk, if it still waits for it.
Reply(h) ==
    LET c == handler[h].com.clerk
        ok == call[c] = h /\ handler[h].res.err = ""
    IN
    /\ handler[h].pc = "reply"
    /\ handler' = [handler EXCEPT ![h] = Ended]
    /\ call' = [call EXCEPT ![c] = IF ok THEN None ELSE IF @ = h THEN 0 ELSE @]
    /\ requestId' = [requestId EXCEPT ![c] = IF ok THEN @ + 1 ELSE @]
    /\ answer' = [answer EXCEPT ![c] =
        IF ok /\ handler[h].com.op = "Query" THEN handler[h].res ELSE @]
    /\ acked' = IF ok /\ handler[h].com.op # "Query" THEN acked \cup {handler[h].com} ELSE acked
    /\ UNCHANGED <<logVars, ctrlVars, before, crashes>>
-----------------------------------------------------------------------------
(* propose() *)

NotLeader(h) == [handler[h] EXCEPT !.pc = "reply", !.res = Error("ErrNotLeader")]

Propose(h) ==
    LET s == handler[h].srv IN
    /\ handler[h].pc = "propose"
    /\ \/ /\ ProposeAccept(s, handler[h].com) \/ ProposePrepare(s, handler[h].com)
          /\ handler' = [handler EXCEPT ![h].pc = "register", ![h].idx = IndexAt(s)]
       \/ /\ phase[s] = "FOLLOWER"
          /\ handler' = [handler EXCEPT ![h] = NotLeader(h)]
          /\ UNCHANGED logVars
    /\ UNCHANGED <<ctrlVars, clerkVars, crashes>>

\* A channel at the same index is replaced.
Register(h) ==
    LET s == handler[h].srv
        i == handler[h].idx
    IN
    /\ handler[h].pc = "register"
    /\ MuFree(s)
    /\ chans' = [chans EXCEPT ![s] = [j \in DOMAIN @ \cup {i} |-> IF j = i THEN h ELSE @[j]]]
    /\ handler' = [handler EXCEPT ![h].pc = "select"]
    /\ UNCHANGED <<logVars, allConfs, prevReq, applied, sending, result, clerkVars, crashes>>

\* Mutant: the result is taken whosever request it answers.
ReceiveAny(h) ==
    LET s == handler[h].srv IN
    /\ handler[h].pc = "select"
    /\ sending[s] = h
    /\ handler' = [handler EXCEPT ![h].pc = "remove", ![h].res = result[s]]
    /\ sending' = [sending EXCEPT ![s] = None]
    /\ result' = [result EXCEPT ![s] = Empty]
    /\ UNCHANGED <<logVars, allConfs, prevReq, applied, chans, clerkVars, crashes>>

\* The select: the result comes, of this request or of another one.
Receive(h) ==
    LET s == handler[h].srv
        other == result[s].clerk # handler[h].com.clerk \/ result[s].req # handler[h].com.req
    IN
    /\ handler[h].pc = "select"
    /\ sending[s] = h
    /\ handler' = [handler EXCEPT ![h].pc = "remove",
        ![h].res = IF other THEN [result[s] EXCEPT !.err = "ErrNotLeader"] ELSE result[s]]
    /\ sending' = [sending EXCEPT ![s] = None]
    /\ result' = [result EXCEPT ![s] = Empty]
    /\ UNCHANGED <<logVars, allConfs, prevReq, applied, chans, clerkVars, crashes>>

TimeOut(h) ==
    /\ handler[h].pc = "select"
    /\ handler' = [handler EXCEPT ![h].pc = "remove", ![h].res = Error("ErrTimeOut")]
    /\ UNCHANGED <<logVars, ctrlVars, clerkVars, crashes>>

\* The channel at the index is deleted, whosever it is now.
Remove(h) ==
    LET s == handler[h].srv IN
    /\ handler[h].pc = "remove"
    /\ MuFree(s)
    /\ chans' = [chans EXCEPT ![s] = [j \in DOMAIN @ \ {handler[h].idx} |-> @[j]]]
    /\ handler' = [handler EXCEPT ![h].pc = "reply"]
    /\ UNCHANGED <<logVars, allConfs, prevReq, applied, sending, result, clerkVars, crashes>>
-----------------------------------------------------------------------------
(* applyCommands() *)

NextEntry(s) == log[applied[s] + 1]

\* Mutant: the last request of a clerk counts as new.
IsNewOrLast(s, x) == prevReq[s][x.clerk] <= x.req

IsNew(s, x) == prevReq[s][x.clerk] < x.req

\* What the command is answered with: the configurations there are after it,
\* or an empty Result for an old request.
ResultOf(s, x, confs) ==
    [err |-> "", clerk |-> x.clerk, req |-> x.req,
     config |-> IF IsNew(s, x) THEN confs ELSE None]

Apply(s) ==
    /\ MuFree(s)
    /\ Delivers(s, applied[s])
    /\ LET x == NextEntry(s)
           confs == IF IsNew(s, x) /\ x.op # "Query" THEN Append(allConfs[s], x) ELSE allConfs[s]
           waiting == applied[s] \in DOMAIN chans[s]
       IN
        /\ allConfs' = [allConfs EXCEPT ![s] = confs]
        /\ prevReq' = [prevReq EXCEPT ![s][x.clerk] = IF IsNew(s, x) THEN x.req ELSE @]
        /\ sending' = [sending EXCEPT ![s] = IF waiting THEN chans[s][applied[s]] ELSE None]
        /\ result' = [result EXCEPT ![s] = IF waiting THEN ResultOf(s, x, confs) ELSE Empty]
    /\ applied' = [applied EXCEPT ![s] = @ + 1]
    /\ UNCHANGED <<logVars, chans, handler, clerkVars, crashes>>

\* Mutant: prevReq survives a restart that replays the log.
RestartKeepsReqs(s) ==
    /\ crashes < MaxCrashes
    /\ crashes' = crashes + 1
    /\ LogRestart(s)
    /\ allConfs' = [allConfs EXCEPT ![s] = <<>>]
    /\ applied' = [applied EXCEPT ![s] = 0]
    /\ chans' = [chans EXCEPT ![s] = <<>>]
    /\ sending' = [sending EXCEPT ![s] = None]
    /\ result' = [result EXCEPT ![s] = Empty]
    /\ handler' = [h \in DOMAIN handler |->
        IF handler[h].srv = s THEN Ended ELSE handler[h]]
    /\ call' = [c \in Clerk |->
        IF call[c] \in DOMAIN handler /\ handler[call[c]].srv = s THEN 0 ELSE call[c]]
    /\ UNCHANGED <<prevReq, requestId, answer, acked, before>>

\* s is built again, and applies its log from the start.
Restart(s) ==
    /\ crashes < MaxCrashes
    /\ crashes' = crashes + 1
    /\ LogRestart(s)
    /\ allConfs' = [allConfs EXCEPT ![s] = <<>>]
    /\ prevReq' = [prevReq EXCEPT ![s] = [c \in Clerk |-> 0]]
    /\ applied' = [applied EXCEPT ![s] = 0]
    /\ chans' = [chans EXCEPT ![s] = <<>>]
    /\ sending' = [sending EXCEPT ![s] = None]
    /\ result' = [result EXCEPT ![s] = Empty]
    /\ handler' = [h \in DOMAIN handler |->
        IF handler[h].srv = s THEN Ended ELSE handler[h]]
    /\ call' = [c \in Clerk |->
        IF call[c] \in DOMAIN handler /\ handler[call[c]].srv = s THEN 0 ELSE call[c]]
    /\ UNCHANGED <<requestId, answer, acked, before>>
-----------------------------------------------------------------------------
HandlerStep(h) == Propose(h) \/ Register(h) \/ Receive(h) \/ TimeOut(h) \/ Remove(h) \/ Reply(h)

Next ==
    \/ LogStep
    \/ \E c \in Clerk : Invoke(c)
    \/ \E c \in Clerk, s \in Server : Request(c, s)
    \/ \E h \in DOMAIN handler : HandlerStep(h)
    \/ \E s \in Server : Apply(s) \/ Restart(s)

Spec == Init /\ [][Next]_vars

\* Every goroutine that can go on does.
Fairness ==
    /\ \A h \in 1..MaxTries : WF_vars(h \in DOMAIN handler /\ HandlerStep(h))
    /\ \A s \in Server : WF_vars(Apply(s))

FairSpec == Spec /\ Fairness
-----------------------------------------------------------------------------
(* Properties *)

Entry == [clerk : Clerk, req : Nat, op : STRING]

Result ==
    [err : {"", "ErrNotLeader", "ErrTimeOut"}, clerk : Clerk \cup {None}, req : Nat,
     config : Seq(Entry) \cup {None}]

Handler ==
    [srv : Server \cup {None}, com : Entry \cup {None}, idx : Int, res : Result,
     pc : {"propose", "register", "select", "remove", "reply", "end"}]

\* The types; phase and elected hold no requests, and no argument below is
\* about them.
TypeOK ==
    /\ log \in Seq(Entry)
    /\ plog \in [Server -> Seq(Entry)] /\ buffer \in [Server -> Seq(Entry)]
    /\ allConfs \in [Server -> Seq(Entry)]
    /\ prevReq \in [Server -> [Clerk -> Nat]] /\ applied \in [Server -> Nat]
    /\ DOMAIN chans = Server
    /\ \A s \in Server : \A i \in DOMAIN chans[s] : i \in Int /\ chans[s][i] \in DOMAIN handler
    /\ sending \in [Server -> {None} \cup DOMAIN handler]
    /\ result \in [Server -> Result]
    /\ handler \in Seq(Handler)
    /\ requestId \in [Clerk -> Nat \ {0}]
    /\ call \in [Clerk -> {None, 0} \cup DOMAIN handler]
    /\ answer \in [Clerk -> {None} \cup Result]
    /\ acked \subseteq Entry /\ before \in [Clerk -> SUBSET Entry]

\* On every replica, a clerk's changes make one configuration each, in the
\* order of its calls, however often it has repeated them (prevReq).
ChangesOnce ==
    \A s \in Server : \A i, j \in 1..Len(allConfs[s]) :
        i < j /\ allConfs[s][i].clerk = allConfs[s][j].clerk
            => allConfs[s][i].req < allConfs[s][j].req

\* The replicas number the configurations alike: of two replicas, the one
\* that has fewer has the first ones of the other.
SameNumbers ==
    \A s, t \in Server :
        Prefix(allConfs[s], allConfs[t]) \/ Prefix(allConfs[t], allConfs[s])

\* A call of Join, Leave or Move returns only when the change is in the
\* log, once and for all: no leader that comes later can lose it (propose
\* answers what was applied, or what prevReq shows to have been).
AckedChosen == acked \subseteq {log[i] : i \in 1..Len(log)}

\* A Query that returns a configuration returns one that has every change
\* whose call had returned before the Query began.
QueriesFresh ==
    \A c \in Clerk : answer[c] # None /\ answer[c].config # None =>
        \A x \in before[c] : \E i \in 1..Len(answer[c].config) : answer[c].config[i] = x

\* The r-th call of c, and whether c has made it.
Cmd(c, r) == [clerk |-> c, req |-> r, op |-> Script[c][r]]

Issued(x) ==
    \E c \in Clerk : \E r \in 1..requestId[c] :
        x = Cmd(c, r) /\ (r = requestId[c] => call[c] # None)

Chosen(x) == \E i \in 1..Len(log) : log[i] = x

Holds(confs, S) == \A x \in S : \E i \in 1..Len(confs) : confs[i] = x

\* Logs, buffers and handlers have requests that were made; a clerk goes on
\* only when its request is chosen, and waits for its own attempt.
ClerksInv ==
    /\ \A i \in 1..Len(log) : Issued(log[i])
    /\ \A s \in Server :
        /\ \A i \in 1..Len(plog[s]) : Issued(plog[s][i])
        /\ \A i \in 1..Len(buffer[s]) : Issued(buffer[s][i])
    /\ \A h \in 1..Len(handler) :
        handler[h].pc # "end" => handler[h].srv \in Server /\ Issued(handler[h].com)
    /\ \A c \in Clerk :
        /\ requestId[c] <= Len(Script[c]) + 1
        /\ call[c] # None => requestId[c] <= Len(Script[c])
        /\ call[c] \in DOMAIN handler =>
            handler[call[c]].pc # "end" /\ handler[call[c]].com = Command(c)
        /\ \A r \in 1..(requestId[c] - 1) : Chosen(Cmd(c, r))
        /\ before[c] \subseteq acked
    /\ \A x \in acked : Chosen(x) /\ x.op # "Query"

\* In the log, a request comes after those its clerk made before, and the
\* one under way after the changes acknowledged before it.
OrderInv ==
    \A i \in 1..Len(log) :
        /\ \A r \in 1..(log[i].req - 1) : \E j \in 1..(i - 1) : log[j] = Cmd(log[i].clerk, r)
        /\ log[i].req = requestId[log[i].clerk] =>
            \A x \in before[log[i].clerk] : \E j \in 1..(i - 1) : log[j] = x

\* The positions of l up to n at which a change takes effect.
Effective(l, n) ==
    {i \in 1..n :
        /\ l[i].op # "Query"
        /\ \A j \in 1..(i - 1) : l[j].clerk = l[i].clerk => l[j].req < l[i].req}

\* What a replica has is what the n entries it has applied give: the last
\* request of each clerk, and the changes at the effective positions.
ReplicaIs(l, n, prev, confs) ==
    /\ n <= Len(l)
    /\ \A j \in 1..n :
        /\ l[j].req <= prev[l[j].clerk]
        /\ l[j].op # "Query" => \E k \in 1..Len(confs) : confs[k] = l[j]
    /\ \A c \in Clerk : prev[c] > 0 => \E j \in 1..n : l[j].clerk = c /\ l[j].req = prev[c]
    /\ \A k \in 1..Len(confs) : confs[k].req <= prev[confs[k].clerk]
    /\ Len(confs) = Cardinality(Effective(l, n))
    /\ \A k \in 1..Len(confs) : \E i \in Effective(l, n) :
        k = Cardinality(Effective(l, i)) /\ confs[k] = l[i]

ReplicaInv == \A s \in Server : ReplicaIs(log, applied[s], prevReq[s], allConfs[s])

\* A result without an error is that of a chosen request, and if its clerk
\* still waits for it, it has the changes acknowledged before.
Answers(x, res) ==
    /\ Chosen(x)
    /\ x.req = requestId[x.clerk] /\ res.config # None => Holds(res.config, before[x.clerk])

ResultsInv ==
    /\ \A s \in Server : sending[s] # None =>
        \E i \in 1..Len(log) : LET x == log[i] IN
            x.clerk = result[s].clerk /\ x.req = result[s].req /\ Answers(x, result[s])
    /\ \A h \in 1..Len(handler) :
        handler[h].pc \in {"remove", "reply"} /\ handler[h].res.err = ""
            => Answers(handler[h].com, handler[h].res)

\* The inductive invariant of all of the above.
CInv ==
    /\ TypeOK
    /\ ClerksInv
    /\ OrderInv
    /\ ReplicaInv
    /\ ResultsInv
    /\ ChangesOnce
    /\ QueriesFresh

\* A Query returns a configuration.
QueriesAnswered == \A c \in Clerk : answer[c] # None => answer[c].config # None

\* applyCommands never stops reading the applyCh for good.
ApplierGoesOn == \A s \in Server : []<>MuFree(s)
=============================================================================
