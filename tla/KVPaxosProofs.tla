--------------------------- MODULE KVPaxosProofs ---------------------------
(***************************************************************************)
(* Proofs about KVPaxos, for any servers, clerks, keys and scripts: every  *)
(* replica's map and the answers of its Gets are those of the log, and     *)
(* every clerk's writes run once each and in order.                        *)
(***************************************************************************)
EXTENDS KVPaxos, FiniteSetTheorems, TLAPS

-----------------------------------------------------------------------------
(* What the log gives *)

\* One more entry takes effect if it writes and is newer than those before.
LEMMA EffectiveNext ==
  ASSUME NEW l, NEW n \in Nat
  PROVE  LET new == /\ l[n + 1].op # "Get"
                    /\ \A j \in 1..n : l[j].clerk = l[n + 1].clerk => l[j].seq < l[n + 1].seq
         IN  /\ new => Effective(l, n + 1) = Effective(l, n) \cup {n + 1}
             /\ ~new => Effective(l, n + 1) = Effective(l, n)
             /\ Effective(l, n) \in SUBSET (1..n)
  BY DEF Effective

\* What is chosen stays where it is, so it has the same effect.
LEMMA PartsStay ==
  ASSUME NEW l \in Seq(Command), NEW x \in Command, NEW n \in 0..Len(l), NEW k
  PROVE  Parts(Append(l, x), n, k) = Parts(l, n, k)
<1>1. \A i \in 1..n : Append(l, x)[i] = l[i]
  OBVIOUS
<1> DEFINE y == Append(l, x)
<1>2. Effective(y, n) = Effective(l, n)
  BY <1>1 DEF Effective
<1>3. Effective(l, n) \in SUBSET (1..n)
  BY DEF Effective
<1> HIDE DEF y
<1> QED
  BY <1>1, <1>2, <1>3 DEF Parts, y

\* Parts are among the first n entries, and can be counted.
LEMMA PartsCount ==
  ASSUME NEW l, NEW n \in Nat, NEW k
  PROVE  /\ Parts(l, n, k) \in SUBSET (1..n)
         /\ IsFiniteSet(Parts(l, n, k)) /\ Cardinality(Parts(l, n, k)) \in Nat
         /\ \A i \in Parts(l, n, k) :
              Cardinality(Parts(l, n, k) \cap 1..i) \in 1..Cardinality(Parts(l, n, k))
<1> DEFINE P == Parts(l, n, k)
<1>1. P \in SUBSET (1..n)
  BY DEF Parts, Effective
<1>2. IsFiniteSet(1..n)
  BY FS_Interval
<1>3. IsFiniteSet(P) /\ Cardinality(P) \in Nat
  BY ZenonT(40), <1>1, <1>2, FS_Subset, FS_CardinalityType
<1> HIDE DEF P
<1>4. ASSUME NEW i \in P
      PROVE  Cardinality(P \cap 1..i) \in 1..Cardinality(P)
  <2>1. i \in P \cap 1..i
    BY <1>1
  <2>2. P \cap 1..i \in SUBSET P
    OBVIOUS
  <2>3. /\ IsFiniteSet(P \cap 1..i) /\ Cardinality(P \cap 1..i) \in Nat
        /\ Cardinality(P \cap 1..i) <= Cardinality(P)
    BY ZenonT(40), <1>3, <2>2, FS_Subset, FS_CardinalityType
  <2>4. Cardinality(P \cap 1..i) # 0
    BY ZenonT(40), <2>1, <2>3, FS_EmptySet
  <2> QED
    BY <1>3, <2>3, <2>4
<1> QED
  BY ZenonT(40), <1>1, <1>3, <1>4 DEF P

\* What is chosen later makes no difference to a value.
LEMMA MakesStays ==
  ASSUME NEW l \in Seq(Command), NEW x \in Command, NEW n \in 0..Len(l), NEW k, NEW v,
         Makes(l, n, k, v)
  PROVE  Makes(Append(l, x), n, k, v)
<1> DEFINE y == Append(l, x)
<1>1. \A i \in 1..n : y[i] = l[i]
  OBVIOUS
<1>2. Parts(y, n, k) = Parts(l, n, k)
  BY ZenonT(40), PartsStay
<1>3. n \in Nat
  OBVIOUS
<1>4. Parts(l, n, k) \in SUBSET (1..n)
  BY ZenonT(40), <1>3, PartsCount
<1> HIDE DEF y
<1>5. Makes(y, n, k, v)
  BY ZenonT(40), <1>1, <1>2, <1>4 DEF Makes
<1> QED
  BY ZenonT(40), <1>5 DEF y

\* A key without writes has the empty value.
LEMMA MakesNothing ==
  ASSUME NEW l, NEW k
  PROVE  Makes(l, 0, k, <<>>)
<1>1. Parts(l, 0, k) = {}
  BY DEF Parts, Effective
<1>2. Cardinality(Parts(l, 0, k)) = 0
  BY Zenon, <1>1, FS_EmptySet
<1>3. Len(<<>>) = 0
  OBVIOUS
<1> QED
  BY ZenonT(40), <1>1, <1>2, <1>3 DEF Makes

\* An entry that does not take effect, or has another key, changes no value.
LEMMA MakesSame ==
  ASSUME NEW l, NEW n \in Nat, NEW k, NEW v, Makes(l, n, k, v),
         n + 1 \notin Effective(l, n + 1) \/ l[n + 1].key # k
  PROVE  Makes(l, n + 1, k, v)
<1>1. /\ \/ Effective(l, n + 1) = Effective(l, n)
         \/ Effective(l, n + 1) = Effective(l, n) \cup {n + 1}
      /\ Effective(l, n) \in SUBSET (1..n)
  BY ZenonT(40), EffectiveNext
<1>2. Parts(l, n + 1, k) = Parts(l, n, k)
  BY <1>1 DEF Parts
<1> QED
  BY ZenonT(40), <1>2 DEF Makes

\* A Put replaces the value.
LEMMA MakesPut ==
  ASSUME NEW l, NEW n \in Nat, NEW k, n + 1 \in Effective(l, n + 1),
         l[n + 1].key = k, l[n + 1].op = "Put"
  PROVE  Makes(l, n + 1, k, <<l[n + 1].value>>)
<1>1. Effective(l, n + 1) \in SUBSET (1..(n + 1))
  BY DEF Effective
<1>2. Parts(l, n + 1, k) = {n + 1}
  BY <1>1 DEF Parts
<1>3. {n + 1} \cap 1..(n + 1) = {n + 1}
  OBVIOUS
<1>4. Cardinality({n + 1}) = 1
  BY ZenonT(40), FS_Singleton
<1>5. Len(<<l[n + 1].value>>) = 1 /\ <<l[n + 1].value>>[1] = l[n + 1].value
  OBVIOUS
<1> QED
  BY ZenonT(40), <1>2, <1>3, <1>4, <1>5 DEF Makes

\* An Append adds to it.
LEMMA MakesAppend ==
  ASSUME NEW l, NEW n \in Nat, NEW k, NEW v \in Seq(Value), Makes(l, n, k, v),
         n + 1 \in Effective(l, n + 1), l[n + 1].key = k, l[n + 1].op # "Put",
         l[n + 1].value \in Value
  PROVE  Makes(l, n + 1, k, Append(v, l[n + 1].value))
<1> DEFINE P == Parts(l, n, k)
           Q == Parts(l, n + 1, k)
           a == l[n + 1].value
           w == Append(v, a)
<1>1. Effective(l, n + 1) = Effective(l, n) \cup {n + 1} /\ Effective(l, n) \in SUBSET (1..n)
  BY EffectiveNext
<1>2. Q = P \cup {n + 1}
  BY <1>1 DEF Parts
<1>3. /\ P \in SUBSET (1..n) /\ IsFiniteSet(P) /\ Cardinality(P) \in Nat
      /\ \A i \in P : Cardinality(P \cap 1..i) \in 1..Cardinality(P)
  BY ZenonT(40), PartsCount
<1>4. /\ Len(v) = Cardinality(P)
      /\ \A i \in P : v[Cardinality(P \cap 1..i)] = l[i].value
  BY ZenonT(40) DEF Makes
<1>5. Len(w) = Len(v) + 1 /\ w[Len(v) + 1] = a /\ \A i \in 1..Len(v) : w[i] = v[i]
  OBVIOUS
<1> HIDE DEF P, Q, a, w
<1>6. n + 1 \notin P
  BY <1>3
<1>7. Cardinality(Q) = Cardinality(P) + 1
  BY ZenonT(40), <1>2, <1>3, <1>6, FS_AddElement
<1>8. Len(w) = Cardinality(Q)
  BY ZenonT(40), <1>4, <1>5, <1>7
<1>9. ASSUME NEW i \in Q
      PROVE  w[Cardinality(Q \cap 1..i)] = l[i].value
  <2>1. CASE i \in P
    <3>1. Q \cap 1..i = P \cap 1..i
      BY <1>2, <1>3, <2>1
    <3> QED
      BY ZenonT(40), <1>3, <1>4, <1>5, <2>1, <3>1
  <2>2. CASE i = n + 1
    <3>0. Q \in SUBSET (1..(n + 1))
      BY <1>2, <1>3
    <3>1. Q \cap 1..i = Q
      BY ZenonT(40), <2>2, <3>0
    <3> QED
      BY ZenonT(40), <1>4, <1>5, <1>7, <2>2, <3>1 DEF a
  <2> QED
    BY ZenonT(40), <1>2, <2>1, <2>2
<1>10. Makes(l, n + 1, k, w)
  BY ZenonT(40), <1>8, <1>9 DEF Makes, Q
<1> QED
  BY ZenonT(40), <1>10 DEF w, a
-----------------------------------------------------------------------------
(* The seq table *)

\* The next entry is new to a server exactly when no entry before it has its
\* clerk and as high a number.
LEMMA NewMeans ==
  ASSUME NEW l \in Seq(Command), NEW n \in Nat, NEW t \in [Clerk -> Nat],
         TableIs(l, n, t), n + 1 <= Len(l)
  PROVE  /\ l[n + 1] \in Command /\ l[n + 1].clerk \in Clerk /\ l[n + 1].seq \in Nat \ {0}
         /\ t[l[n + 1].clerk] < l[n + 1].seq <=>
              \A j \in 1..n : l[j].clerk = l[n + 1].clerk => l[j].seq < l[n + 1].seq
<1>1. \A j \in 1..(n + 1) : l[j] \in Command
  OBVIOUS
<1>2. \A j \in 1..(n + 1) : l[j].clerk \in Clerk /\ l[j].seq \in Nat \ {0}
  BY ZenonT(40), <1>1 DEF Command
<1> DEFINE c == l[n + 1].clerk
<1>3. n + 1 \in 1..(n + 1) /\ \A j \in 1..n : j \in 1..(n + 1)
  OBVIOUS
<1>4. c \in Clerk /\ t[c] \in Nat /\ l[n + 1].seq \in Nat \ {0}
  BY ZenonT(40), <1>2, <1>3
<1>5. ASSUME t[c] < l[n + 1].seq, NEW j \in 1..n, l[j].clerk = c
      PROVE  l[j].seq < l[n + 1].seq
  <2>1. l[j].seq <= t[c]
    BY ZenonT(40), <1>5 DEF TableIs
  <2> QED
    BY <1>2, <1>3, <1>4, <1>5, <2>1
<1>6. ASSUME \A j \in 1..n : l[j].clerk = c => l[j].seq < l[n + 1].seq
      PROVE  t[c] < l[n + 1].seq
  <2>1. CASE t[c] > 0
    <3>1. \E j \in 1..n : l[j].clerk = c /\ l[j].seq = t[c]
      BY ZenonT(40), <1>4, <2>1 DEF TableIs
    <3> QED
      BY ZenonT(40), <1>6, <3>1
  <2> QED
    BY <1>4, <2>1
<1> QED
  BY ZenonT(40), <1>1, <1>3, <1>4, <1>5, <1>6

\* The table after one more entry.
LEMMA TableNext ==
  ASSUME NEW l \in Seq(Command), NEW n \in Nat, NEW t \in [Clerk -> Nat],
         TableIs(l, n, t), n + 1 <= Len(l)
  PROVE  LET x == l[n + 1]
             u == [t EXCEPT ![x.clerk] = IF t[x.clerk] < x.seq THEN x.seq ELSE t[x.clerk]]
         IN  /\ TableIs(l, n + 1, u)
             /\ u \in [Clerk -> Nat]
             /\ \A d \in Clerk : t[d] <= u[d]
<1> DEFINE x == l[n + 1]
           c == x.clerk
           new == t[c] < x.seq
           u == [t EXCEPT ![c] = IF new THEN x.seq ELSE t[c]]
<1>1. c \in Clerk /\ x.seq \in Nat /\ t[c] \in Nat
  BY ZenonT(40), NewMeans
<1>2. u \in [Clerk -> Nat] /\ \A d \in Clerk : t[d] <= u[d] /\ t[d] \in Nat /\ u[d] \in Nat
  BY <1>1
<1>3. /\ \A d \in Clerk : d # c => u[d] = t[d]
      /\ x.seq <= u[c] /\ (new => u[c] = x.seq) /\ (~new => u[c] = t[c])
  BY <1>1
<1>4. \A j \in 1..n : l[j].clerk \in Clerk /\ l[j].seq \in Nat
  <2>1. \A j \in 1..n : l[j] \in Command
    OBVIOUS
  <2> QED
    BY ZenonT(40), <2>1 DEF Command
<1> HIDE DEF u, new
<1>5. ASSUME NEW j \in 1..(n + 1)
      PROVE  l[j].seq <= u[l[j].clerk]
  <2>1. CASE j \in 1..n
    <3>1. /\ l[j].seq <= t[l[j].clerk] /\ t[l[j].clerk] <= u[l[j].clerk]
          /\ l[j].seq \in Nat /\ t[l[j].clerk] \in Nat /\ u[l[j].clerk] \in Nat
      BY ZenonT(40), <1>2, <1>4, <2>1 DEF TableIs
    <3> QED
      BY <3>1
  <2>2. CASE j = n + 1
    BY ZenonT(40), <1>3, <2>2
  <2> QED
    BY <2>1, <2>2
<1>6. ASSUME NEW d \in Clerk, u[d] > 0
      PROVE  \E j \in 1..(n + 1) : l[j].clerk = d /\ l[j].seq = u[d]
  <2>1. CASE d = c /\ new
    BY <1>3, <2>1
  <2>2. CASE ~(d = c /\ new)
    <3>1. u[d] = t[d]
      BY ZenonT(40), <1>3, <2>2
    <3>2. \E j \in 1..n : l[j].clerk = d /\ l[j].seq = t[d]
      BY ZenonT(40), <1>6, <3>1 DEF TableIs
    <3> QED
      BY <3>1, <3>2
  <2> QED
    BY ZenonT(40), <2>1, <2>2
<1>7. TableIs(l, n + 1, u)
  BY ZenonT(40), <1>5, <1>6 DEF TableIs
<1> QED
  BY ZenonT(40), <1>2, <1>7 DEF u, new

\* What is chosen later does not concern it.
LEMMA TableStays ==
  ASSUME NEW l \in Seq(Command), NEW x \in Command, NEW n \in Nat, NEW t,
         TableIs(l, n, t)
  PROVE  TableIs(Append(l, x), n, t)
<1> DEFINE y == Append(l, x)
<1>1. n <= Len(l)
  BY ZenonT(40) DEF TableIs
<1>2. n <= Len(y) /\ \A i \in 1..n : y[i] = l[i]
  BY <1>1
<1> HIDE DEF y
<1>3. TableIs(y, n, t)
  BY ZenonT(40), <1>2 DEF TableIs
<1> QED
  BY ZenonT(40), <1>3 DEF y
-----------------------------------------------------------------------------
(* Types *)

\* An element of a sequence, and one more.
LEMMA ElementType ==
  ASSUME NEW S, NEW q \in Seq(S)
  PROVE  /\ Len(q) \in Nat
         /\ \A i \in 1..Len(q) : q[i] \in S
         /\ \A e \in S :
              /\ Append(q, e) \in Seq(S) /\ Len(Append(q, e)) = Len(q) + 1
              /\ Append(q, e)[Len(q) + 1] = e
              /\ \A i \in 1..Len(q) : Append(q, e)[i] = q[i]
  OBVIOUS

\* A log step keeps the types; it chooses one command, or none.
LEMMA LogTypes ==
  ASSUME TypeOK, LogNext
  PROVE  /\ plog' \in [Server -> Seq(Command)] /\ buffer' \in [Server -> Seq(Command)]
         /\ phase' \in [Server -> {"FOLLOWER", "PREPARE", "ACCEPT"}] /\ elected' \in Seq(Server)
         /\ log' \in Seq(Command)
         /\ log' = log \/ \E x \in Command : log' = Append(log, x)
<1>1. CASE \E s \in Server : Elect(s)
  BY <1>1 DEF Elect, TypeOK
<1>2. CASE \E s \in Server : Prepared(s)
  <2>1. PICK s \in Server, x \in {log} \cup {plog[t] : t \in Server} :
          /\ plog' = [plog EXCEPT ![s] = x \o buffer[s]]
          /\ buffer' = [buffer EXCEPT ![s] = <<>>]
          /\ phase' = [phase EXCEPT ![s] = "ACCEPT"]
          /\ UNCHANGED <<log, elected>>
    BY Zenon, <1>2 DEF Prepared
  <2>2. x \in Seq(Command) /\ buffer[s] \in Seq(Command)
    BY <2>1 DEF TypeOK
  <2>3. x \o buffer[s] \in Seq(Command)
    BY <2>2
  <2> QED
    BY <2>1, <2>3 DEF TypeOK
<1>3. CASE \E s \in Server : Choose(s)
  <2>1. PICK s \in Server : Choose(s)
    BY ZenonT(40), <1>3
  <2>2. plog[s] \in Seq(Command) /\ log \in Seq(Command) /\ Len(log) < Len(plog[s])
    BY ZenonT(40), <2>1 DEF Choose, TypeOK
  <2>3. plog[s][Len(log) + 1] \in Command
    BY <2>2
  <2>4. Append(log, plog[s][Len(log) + 1]) \in Seq(Command)
    BY <2>2, <2>3
  <2> QED
    BY ZenonT(40), <2>1, <2>3, <2>4 DEF Choose, TypeOK
<1>4. CASE \E s, l \in Server : Follow(s, l)
  BY <1>4 DEF Follow, TypeOK
<1> QED
  BY Zenon, <1>1, <1>2, <1>3, <1>4 DEF LogNext

\* What a clerk calls is a command.
LEMMA InvokeType ==
  ASSUME TypeOK, NEW c \in Clerk, Invoke(c)
  PROVE  TypeOK'
<1> DEFINE i == number[c] + 1
           o == Script[c][i]
           x == [clerk |-> c, seq |-> i, op |-> o.op, key |-> o.key, value |-> o.value]
<1>1. number[c] \in Nat /\ Len(Script[c]) \in Nat /\ number[c] < Len(Script[c])
  BY ZenonT(40), ScriptAssumption DEF TypeOK, Invoke
<1>2. i \in 1..Len(Script[c]) /\ i \in Nat \ {0}
  BY <1>1
<1>3. o.op \in {"Get", "Put", "Append"} /\ o.key \in Key
  BY ZenonT(40), <1>2, ScriptAssumption
<1>4. o.value \in Value
  <2>1. o.value \in {Script[c][j].value : j \in 1..Len(Script[c])}
    BY <1>2
  <2> QED
    BY <2>1 DEF Value
<1> HIDE DEF i, o
<1>5. x \in Command
  BY <1>2, <1>3, <1>4 DEF Command
<1>6. /\ number' = [number EXCEPT ![c] = i] /\ call' = [call EXCEPT ![c] = x]
      /\ \E b \in {0, Len(log)} : began' = [began EXCEPT ![c] = b]
      /\ UNCHANGED <<log, plog, buffer, phase, elected, m, seq, response, ran, answer, rpc, faults>>
  BY ZenonT(40) DEF Invoke, i, o, logVars, kvVars
<1>7. Len(log) \in Nat /\ 0 \in Nat
  BY DEF TypeOK
<1> HIDE DEF x
<1>8. number' \in [Clerk -> Nat] /\ call' \in [Clerk -> Command \cup {NoCommand}]
      /\ began' \in [Clerk -> Nat]
  BY <1>2, <1>5, <1>6, <1>7 DEF TypeOK
<1> QED
  BY ZenonT(40), <1>6, <1>8 DEF TypeOK

\* A handler waits at a server, for an index.
LEMMA RequestType ==
  ASSUME TypeOK, NEW c \in Clerk, NEW s \in Server, Request(c, s)
  PROVE  TypeOK'
<1> DEFINE x == call[c]
<1>1. x \in Command
  BY ZenonT(40) DEF TypeOK, Request
<1>2. plog[s] \in Seq(Command) /\ buffer[s] \in Seq(Command)
  BY ZenonT(40) DEF TypeOK
<1>3. Append(plog[s], x) \in Seq(Command) /\ Append(buffer[s], x) \in Seq(Command)
  BY <1>1, <1>2
<1>4. \/ plog' = [plog EXCEPT ![s] = Append(plog[s], x)] /\ UNCHANGED buffer
      \/ buffer' = [buffer EXCEPT ![s] = Append(buffer[s], x)] /\ UNCHANGED plog
  BY ZenonT(40) DEF Request, ProposeAccept, ProposePrepare, TypeOK
<1>5. plog' \in [Server -> Seq(Command)] /\ buffer' \in [Server -> Seq(Command)]
  BY ZenonT(40), <1>3, <1>4 DEF TypeOK
<1>6. IndexAt(s) \in Nat \/ IndexAt(s) = -1
  BY <1>2 DEF IndexAt
<1>7. rpc' \in [Clerk -> [srv : Server, idx : Nat] \cup {NoRpc}]
  <2> DEFINE r == IF IndexAt(s) = -1 THEN NoRpc ELSE [srv |-> s, idx |-> IndexAt(s)]
  <2>1. r \in [srv : Server, idx : Nat] \cup {NoRpc}
    BY <1>6
  <2>2. rpc' = [rpc EXCEPT ![c] = r]
    BY ZenonT(40) DEF Request
  <2> HIDE DEF r
  <2> QED
    BY ZenonT(40), <2>1, <2>2 DEF TypeOK
<1>8. UNCHANGED <<log, phase, elected, m, seq, response, ran, number, call, began, answer, faults>>
  BY ZenonT(40) DEF Request, ProposeAccept, ProposePrepare, kvVars, clerkVars
<1> QED
  BY ZenonT(40), <1>5, <1>7, <1>8 DEF TypeOK

\* What a call returns is a value.
LEMMA ReturnType ==
  ASSUME TypeOK, NEW c \in Clerk, Return(c) \/ TryAgain(c) \/ GiveUp(c)
  PROVE  TypeOK'
<1>1. rpc' = [rpc EXCEPT ![c] = NoRpc]
  BY ZenonT(40) DEF Return, TryAgain, GiveUp
<1>2. rpc' \in [Clerk -> [srv : Server, idx : Nat] \cup {NoRpc}]
  BY ZenonT(40), <1>1 DEF TypeOK
<1>3. CASE Return(c)
  <2>1. rpc[c] \in [srv : Server, idx : Nat] /\ Len(response[rpc[c].srv]) > rpc[c].idx
    BY ZenonT(40), <1>3 DEF Return, Applied, TypeOK
  <2>2. response[rpc[c].srv] \in Seq([command : Command, value : Seq(Value)]) /\ rpc[c].idx \in Nat
    BY ZenonT(40), <2>1 DEF TypeOK
  <2>3. Response(c) \in [command : Command, value : Seq(Value)]
    <3> DEFINE q == response[rpc[c].srv]
               j == rpc[c].idx
               S == [command : Command, value : Seq(Value)]
    <3>1. Response(c) = q[j + 1]
      BY ZenonT(40) DEF Response
    <3> HIDE DEF q, j, S
    <3>2. q \in Seq(S) /\ j \in Nat /\ Len(q) > j
      BY ZenonT(40), <2>1, <2>2 DEF q, j, S
    <3>3. Response(c) \in S
      BY <3>1, <3>2
    <3> QED
      BY ZenonT(40), <3>3 DEF S
  <2>4. Response(c).value \in Seq(Value)
    BY ZenonT(40), <2>3
  <2>5. /\ answer' = [answer EXCEPT ![c] = Response(c).value]
        /\ call' = [call EXCEPT ![c] = NoCommand]
        /\ UNCHANGED <<log, plog, buffer, phase, elected, m, seq, response, ran, number, began, faults>>
    BY ZenonT(40), <1>3 DEF Return, logVars, kvVars
  <2>6. answer' \in [Clerk -> Seq(Value)] /\ call' \in [Clerk -> Command \cup {NoCommand}]
    BY ZenonT(40), <2>4, <2>5 DEF TypeOK
  <2> QED
    BY ZenonT(40), <1>2, <2>5, <2>6 DEF TypeOK
<1>4. CASE TryAgain(c) \/ GiveUp(c)
  <2>1. UNCHANGED <<log, plog, buffer, phase, elected, m, seq, response, ran, number, call, began, answer>>
    BY ZenonT(40), <1>4 DEF TryAgain, GiveUp, logVars, kvVars, clerkVars
  <2>2. faults' \in Nat
    BY <1>4 DEF TryAgain, GiveUp, TypeOK
  <2> QED
    BY ZenonT(40), <1>2, <2>1, <2>2 DEF TypeOK
<1> QED
  BY ZenonT(40), <1>3, <1>4
-----------------------------------------------------------------------------
(* readApply() *)

\* What KInv says of one server.
ServerInv(l, map, t, resp, r) ==
    /\ MapIs(l, Len(resp), map) /\ ResponsesAre(l, resp)
    /\ TableIs(l, Len(resp), t)
    /\ InOrder(r) /\ \A i \in 1..Len(r) : r[i].seq <= t[r[i].clerk]

\* A server that starts has applied nothing.
LEMMA ServerStart ==
  ASSUME NEW l \in Seq(Command)
  PROVE  ServerInv(l, NoValues, [c \in Clerk |-> 0], <<>>, <<>>)
<1>1. Len(<<>>) = 0 /\ 1..0 = {}
  OBVIOUS
<1>2. MapIs(l, 0, NoValues)
  BY ZenonT(40), MakesNothing DEF MapIs, NoValues
<1>3. TableIs(l, 0, [c \in Clerk |-> 0])
  BY DEF TableIs
<1> QED
  BY ZenonT(40), <1>1, <1>2, <1>3 DEF ServerInv, ResponsesAre, InOrder

\* What is chosen after what a server has applied does not concern it.
LEMMA ServerGrow ==
  ASSUME NEW l \in Seq(Command), NEW x \in Command, NEW map, NEW t, NEW S, NEW resp \in Seq(S),
         NEW r, ServerInv(l, map, t, resp, r)
  PROVE  ServerInv(Append(l, x), map, t, resp, r)
<1> DEFINE y == Append(l, x)
           n == Len(resp)
<1>1. n \in Nat
  BY ZenonT(40), ElementType
<1>2. TableIs(l, n, t)
  BY ZenonT(40) DEF ServerInv
<1>3. TableIs(y, n, t)
  BY ZenonT(40), <1>1, <1>2, TableStays
<1>4. n <= Len(l)
  BY ZenonT(40), <1>2 DEF TableIs
<1>5. n \in 0..Len(l) /\ \A i \in 1..n : i \in 0..Len(l) /\ i \in 1..Len(l)
  BY <1>1, <1>4
<1>6. MapIs(y, n, map)
  BY ZenonT(40), <1>5, MakesStays DEF ServerInv, MapIs
<1>7. ResponsesAre(y, resp)
  <2>1. \A i \in 1..n : y[i] = l[i]
    BY <1>5
  <2> HIDE DEF y
  <2>2. ASSUME NEW i \in 1..n, y[i].op = "Get"
        PROVE  Makes(y, i, y[i].key, resp[i].value)
    <3>1. Makes(l, i, l[i].key, resp[i].value)
      BY ZenonT(40), <2>1, <2>2 DEF ServerInv, ResponsesAre
    <3>2. Makes(y, i, l[i].key, resp[i].value)
      BY ZenonT(40), <1>5, <3>1, MakesStays DEF y
    <3> QED
      BY ZenonT(40), <2>1, <3>2
  <2> QED
    BY ZenonT(40), <2>1, <2>2 DEF ServerInv, ResponsesAre
<1> HIDE DEF y
<1>8. ServerInv(y, map, t, resp, r)
  BY ZenonT(40), <1>3, <1>6, <1>7 DEF ServerInv
<1> QED
  BY ZenonT(40), <1>8 DEF y

\* The map after one more entry.
LEMMA MapNext ==
  ASSUME NEW l \in Seq(Command), NEW n \in Nat, NEW map \in [Key -> Seq(Value)],
         NEW t \in [Clerk -> Nat], MapIs(l, n, map), TableIs(l, n, t), n + 1 <= Len(l)
  PROVE  LET x == l[n + 1]
             write == t[x.clerk] < x.seq /\ x.op # "Get"
             map2 == IF write THEN [map EXCEPT ![x.key] = Effect(map[x.key], x)] ELSE map
         IN  /\ MapIs(l, n + 1, map2) /\ map2 \in [Key -> Seq(Value)]
             /\ x.op = "Get" => Makes(l, n + 1, x.key, map[x.key])
<1> DEFINE x == l[n + 1]
           write == t[x.clerk] < x.seq /\ x.op # "Get"
           map2 == IF write THEN [map EXCEPT ![x.key] = Effect(map[x.key], x)] ELSE map
<1>1. x \in Command
  BY ZenonT(40), NewMeans
<1>2. x.key \in Key /\ x.value \in Value /\ map[x.key] \in Seq(Value)
  BY ZenonT(40), <1>1 DEF Command
<1>3. write <=> n + 1 \in Effective(l, n + 1)
  <2>1. write <=> /\ l[n + 1].op # "Get"
                  /\ \A j \in 1..n : l[j].clerk = l[n + 1].clerk => l[j].seq < l[n + 1].seq
    BY ZenonT(40), NewMeans
  <2>2. n + 1 \notin 1..n
    OBVIOUS
  <2> QED
    BY ZenonT(40), <2>1, <2>2, EffectiveNext
<1>4. Effect(map[x.key], x) \in Seq(Value)
  BY <1>2 DEF Effect
<1>5. map2 \in [Key -> Seq(Value)]
  BY ZenonT(40), <1>4
<1>6. ASSUME NEW k \in Key
      PROVE  Makes(l, n + 1, k, map2[k])
  <2>1. Makes(l, n, k, map[k])
    BY ZenonT(40) DEF MapIs
  <2>2. CASE ~(write /\ x.key = k)
    <3>1. map2[k] = map[k]
      BY ZenonT(40), <2>2
    <3> QED
      BY ZenonT(40), <1>3, <2>1, <2>2, <3>1, MakesSame
  <2>3. CASE write /\ x.key = k /\ x.op = "Put"
    <3>1. map2[k] = <<x.value>>
      BY ZenonT(40), <2>3 DEF Effect
    <3> QED
      BY ZenonT(40), <1>3, <2>3, <3>1, MakesPut
  <2>4. CASE write /\ x.key = k /\ x.op # "Put"
    <3>1. map2[k] = Append(map[k], x.value)
      BY ZenonT(40), <2>4 DEF Effect
    <3> QED
      BY ZenonT(40), <1>2, <1>3, <2>1, <2>4, <3>1, MakesAppend
  <2> QED
    BY ZenonT(40), <2>2, <2>3, <2>4
<1>7. ASSUME x.op = "Get"
      PROVE  Makes(l, n + 1, x.key, map[x.key])
  BY ZenonT(40), <1>2, <1>3, <1>7, MakesSame DEF MapIs
<1> QED
  BY ZenonT(40), <1>5, <1>6, <1>7 DEF MapIs

\* What a server has after one more entry.
LEMMA ApplyEffect ==
  ASSUME KInv, NEW s \in Server, Apply(s)
  PROVE  LET n == Len(response[s])
             x == log[n + 1]
             new == seq[s][x.clerk] < x.seq
             write == new /\ x.op # "Get"
             u == [seq[s] EXCEPT ![x.clerk] = IF new THEN x.seq ELSE seq[s][x.clerk]]
         IN  /\ n \in Nat /\ n + 1 <= Len(log) /\ x \in Command
             /\ seq' = [seq EXCEPT ![s] = u]
             /\ \E v \in Seq(Value) :
                  /\ x.op = "Get" => v = m[s][x.key]
                  /\ response' = [response EXCEPT ![s] =
                        Append(response[s], [command |-> x, value |-> v])]
             /\ m' = [m EXCEPT ![s] =
                    IF write THEN [m[s] EXCEPT ![x.key] = Effect(m[s][x.key], x)] ELSE m[s]]
             /\ ran' = [ran EXCEPT ![s] = IF write THEN Append(ran[s], x) ELSE ran[s]]
             /\ UNCHANGED <<log, plog, buffer, phase, elected, number, call, began, answer,
                            rpc, faults>>
<1> DEFINE n == Len(response[s])
           x == log[n + 1]
           new == seq[s][x.clerk] < x.seq
           write == new /\ x.op # "Get"
           u == [seq[s] EXCEPT ![x.clerk] = IF new THEN x.seq ELSE seq[s][x.clerk]]
<1>1. n \in Nat /\ n < Len(log)
  <2>1. n < Len(log)
    BY ZenonT(40) DEF Apply, ApplyGet, ApplyPutAppend, HasNext, Delivers
  <2>2. response[s] \in Seq([command : Command, value : Seq(Value)])
    BY ZenonT(40) DEF KInv, TypeOK
  <2> QED
    BY <2>1, <2>2
<1>2. log \in Seq(Command)
  BY ZenonT(40) DEF KInv, TypeOK
<1>3. n + 1 <= Len(log) /\ x \in Command
  BY <1>1, <1>2
<1>4. x.key \in Key /\ x.clerk \in Clerk /\ x.seq \in Nat
  BY ZenonT(40), <1>3 DEF Command
<1>5. /\ m \in [Server -> [Key -> Seq(Value)]] /\ seq \in [Server -> [Clerk -> Nat]]
      /\ ran \in [Server -> Seq(Command)]
  BY ZenonT(40) DEF KInv, TypeOK
<1>6. m[s][x.key] \in Seq(Value) /\ <<>> \in Seq(Value)
  BY <1>4, <1>5
<1>7. NextEntry(s) = x /\ (IsNew(s, x) <=> new)
  BY ZenonT(40) DEF NextEntry, IsNew
<1> HIDE DEF n, x, new
<1>8. seq' = [seq EXCEPT ![s] = u]
  <2>1. seq' = [seq EXCEPT ![s][x.clerk] = IF new THEN x.seq ELSE @]
    BY ZenonT(40), <1>7 DEF Apply, ApplyGet, ApplyPutAppend
  <2> QED
    BY ZenonT(40), <1>5, <2>1
<1>9. CASE ApplyGet(s)
  <2>1. x.op = "Get" /\ UNCHANGED <<m, ran>>
    BY ZenonT(40), <1>7, <1>9 DEF ApplyGet
  <2>2. response' = [response EXCEPT ![s] =
          Append(response[s], [command |-> x, value |-> m[s][x.key]])]
    BY ZenonT(40), <1>7, <1>9 DEF ApplyGet, KInv, TypeOK
  <2>3. m' = [m EXCEPT ![s] = m[s]] /\ ran' = [ran EXCEPT ![s] = ran[s]]
    BY ZenonT(40), <1>5, <2>1
  <2>4. UNCHANGED <<log, plog, buffer, phase, elected, number, call, began, answer, rpc, faults>>
    BY ZenonT(40), <1>9 DEF ApplyGet, logVars, clerkVars
  <2> QED
    BY ZenonT(40), <1>1, <1>3, <1>6, <1>8, <2>1, <2>2, <2>3, <2>4 DEF n, x, new
<1>10. CASE ApplyPutAppend(s)
  <2>1. x.op # "Get"
    BY ZenonT(40), <1>7, <1>10 DEF ApplyPutAppend
  <2>2. response' = [response EXCEPT ![s] =
          Append(response[s], [command |-> x, value |-> <<>>])]
    BY ZenonT(40), <1>7, <1>10 DEF ApplyPutAppend, KInv, TypeOK
  <2>3. ran' = [ran EXCEPT ![s] = IF write THEN Append(ran[s], x) ELSE ran[s]]
    BY ZenonT(40), <1>5, <1>7, <1>10, <2>1 DEF ApplyPutAppend
  <2>4. m' = [m EXCEPT ![s][x.key] = IF new THEN Effect(@, x) ELSE @]
    BY ZenonT(40), <1>7, <1>10 DEF ApplyPutAppend
  <2>5. m' = [m EXCEPT ![s] =
          IF write THEN [m[s] EXCEPT ![x.key] = Effect(m[s][x.key], x)] ELSE m[s]]
    <3>1. CASE new
      BY ZenonT(40), <1>5, <2>1, <2>4, <3>1
    <3>2. CASE ~new
      <4>1. m' = [m EXCEPT ![s] = [m[s] EXCEPT ![x.key] = m[s][x.key]]]
        BY ZenonT(40), <1>5, <2>4, <3>2
      <4>2. [m[s] EXCEPT ![x.key] = m[s][x.key]] = m[s]
        BY <1>5
      <4> QED
        BY ZenonT(40), <3>2, <4>1, <4>2
    <3> QED
      BY ZenonT(40), <3>1, <3>2
  <2>6. UNCHANGED <<log, plog, buffer, phase, elected, number, call, began, answer, rpc, faults>>
    BY ZenonT(40), <1>10 DEF ApplyPutAppend, logVars, clerkVars
  <2> QED
    BY ZenonT(40), <1>1, <1>3, <1>6, <1>8, <2>1, <2>2, <2>3, <2>5, <2>6 DEF n, x, new
<1> QED
  BY ZenonT(40), <1>9, <1>10 DEF Apply

\* A server after one more entry.
LEMMA ServerApply ==
  ASSUME NEW l \in Seq(Command), NEW map \in [Key -> Seq(Value)], NEW t \in [Clerk -> Nat],
         NEW S, NEW resp \in Seq(S), NEW r \in Seq(Command), ServerInv(l, map, t, resp, r),
         Len(resp) + 1 <= Len(l), NEW e \in S, e.command = l[Len(resp) + 1],
         e.command.op = "Get" => e.value = map[e.command.key]
  PROVE  LET x == l[Len(resp) + 1]
             new == t[x.clerk] < x.seq
             write == new /\ x.op # "Get"
         IN  ServerInv(l,
                 IF write THEN [map EXCEPT ![x.key] = Effect(map[x.key], x)] ELSE map,
                 [t EXCEPT ![x.clerk] = IF new THEN x.seq ELSE t[x.clerk]],
                 Append(resp, e),
                 IF write THEN Append(r, x) ELSE r)
<1> DEFINE n == Len(resp)
           x == l[n + 1]
           new == t[x.clerk] < x.seq
           write == new /\ x.op # "Get"
           map2 == IF write THEN [map EXCEPT ![x.key] = Effect(map[x.key], x)] ELSE map
           u == [t EXCEPT ![x.clerk] = IF new THEN x.seq ELSE t[x.clerk]]
           resp2 == Append(resp, e)
           r2 == IF write THEN Append(r, x) ELSE r
<1>1. n \in Nat /\ Len(resp2) = n + 1 /\ resp2[n + 1] = e /\ \A i \in 1..n : resp2[i] = resp[i]
  OBVIOUS
<1>2. TableIs(l, n, t) /\ MapIs(l, n, map)
  BY ZenonT(40) DEF ServerInv
<1>3. x \in Command /\ x.clerk \in Clerk /\ x.seq \in Nat
  BY ZenonT(40), <1>1, <1>2, NewMeans
<1>4. TableIs(l, n + 1, u) /\ u \in [Clerk -> Nat] /\ \A d \in Clerk : t[d] <= u[d]
  BY ZenonT(40), <1>1, <1>2, TableNext
<1>5. MapIs(l, n + 1, map2) /\ (x.op = "Get" => Makes(l, n + 1, x.key, map[x.key]))
  BY ZenonT(40), <1>1, <1>2, MapNext
<1>6. new => u[x.clerk] = x.seq
  BY ZenonT(40), <1>3
<1>7. /\ write => Len(r2) = Len(r) + 1 /\ r2[Len(r) + 1] = x
      /\ ~write => r2 = r
      /\ Len(r) \in Nat /\ \A i \in 1..Len(r) : r2[i] = r[i]
  BY <1>3
<1>8. \A i \in 1..Len(r) : r[i].clerk \in Clerk /\ r[i].seq \in Nat
  <2>1. \A i \in 1..Len(r) : r[i] \in Command
    BY <1>7
  <2> QED
    BY ZenonT(40), <2>1 DEF Command
<1> HIDE DEF u, map2, resp2, r2
<1>9. ResponsesAre(l, resp2)
  <2>1. ASSUME NEW i \in 1..(n + 1)
        PROVE  /\ resp2[i].command = l[i]
               /\ l[i].op = "Get" => Makes(l, i, l[i].key, resp2[i].value)
    <3>1. CASE i \in 1..n
      BY ZenonT(40), <1>1, <3>1 DEF ServerInv, ResponsesAre
    <3>2. CASE i = n + 1
      BY ZenonT(40), <1>1, <1>5, <3>2
    <3> QED
      BY <1>1, <3>1, <3>2
  <2> QED
    BY ZenonT(40), <1>1, <2>1 DEF ResponsesAre
<1>10. \A i \in 1..Len(r) : r[i].seq <= t[r[i].clerk] /\ r[i].seq <= u[r[i].clerk]
  <2> TAKE i \in 1..Len(r)
  <2>1. /\ r[i].seq <= t[r[i].clerk] /\ t[r[i].clerk] <= u[r[i].clerk]
        /\ r[i].seq \in Nat /\ t[r[i].clerk] \in Nat /\ u[r[i].clerk] \in Nat
    BY ZenonT(40), <1>4, <1>8 DEF ServerInv
  <2> QED
    BY <2>1
<1>11. ASSUME NEW i \in 1..Len(r2)
       PROVE  r2[i].seq <= u[r2[i].clerk]
  <2>1. CASE i \in 1..Len(r)
    BY ZenonT(40), <1>7, <1>10, <2>1
  <2>2. CASE i \notin 1..Len(r)
    <3>1. write /\ i = Len(r) + 1
      BY <1>7, <2>2
    <3>2. r2[i] = x /\ u[x.clerk] = x.seq
      BY ZenonT(40), <1>6, <1>7, <3>1
    <3>3. x.seq <= x.seq
      BY <1>3
    <3> QED
      BY ZenonT(40), <3>2, <3>3
  <2> QED
    BY ZenonT(40), <2>1, <2>2
<1>12. InOrder(r2)
  <2>1. InOrder(r)
    BY ZenonT(40) DEF ServerInv
  <2>2. CASE ~write
    BY ZenonT(40), <1>7, <2>1, <2>2
  <2>3. CASE write
    <3>1. ASSUME NEW i \in 1..Len(r2), NEW j \in 1..Len(r2), i < j, r2[i].clerk = r2[j].clerk
          PROVE  r2[i].seq < r2[j].seq
      <4>1. i \in 1..Len(r)
        BY <1>7, <2>3, <3>1
      <4>2. CASE j \in 1..Len(r)
        BY ZenonT(40), <1>7, <2>1, <3>1, <4>1, <4>2 DEF InOrder
      <4>3. CASE j \notin 1..Len(r)
        <5>1. j = Len(r) + 1
          BY <1>7, <2>3, <4>3
        <5>2. r2[j] = x /\ r2[i] = r[i] /\ r[i].clerk = x.clerk
          BY ZenonT(40), <1>7, <2>3, <3>1, <4>1, <5>1
        <5>3. r[i].seq <= t[x.clerk] /\ t[x.clerk] < x.seq /\ r[i].seq \in Nat /\ t[x.clerk] \in Nat
          BY ZenonT(40), <1>3, <1>8, <1>10, <2>3, <4>1, <5>2
        <5> QED
          BY <1>3, <5>2, <5>3
      <4> QED
        BY ZenonT(40), <4>2, <4>3
    <3> QED
      BY ZenonT(40), <3>1 DEF InOrder
  <2> QED
    BY ZenonT(40), <2>2, <2>3
<1>13. ServerInv(l, map2, u, resp2, r2)
  BY ZenonT(40), <1>1, <1>4, <1>5, <1>9, <1>11, <1>12 DEF ServerInv
<1> QED
  BY ZenonT(40), <1>13 DEF map2, u, resp2, r2
-----------------------------------------------------------------------------
(* The invariant *)

\* KInv, server by server.
LEMMA KInvMeans ==
  KInv <=> TypeOK /\ \A s \in Server : ServerInv(log, m[s], seq[s], response[s], ran[s])
BY ZenonT(40) DEF KInv, ReplicasExact, SessionOrder, ServerInv

\* The same of the state after a step.
LEMMA KInvNext ==
  ASSUME TypeOK', \A s \in Server : ServerInv(log', m'[s], seq'[s], response'[s], ran'[s])
  PROVE  KInv'
BY ZenonT(40) DEF KInv, ReplicasExact, SessionOrder, ServerInv

\* The invariant holds at the start.
LEMMA KInvInit == Init => KInv
<1> SUFFICES ASSUME Init PROVE KInv
  OBVIOUS
<1>1. <<>> \in Seq(Command) /\ <<>> \in Seq(Server) /\ <<>> \in Seq(Value)
      /\ <<>> \in Seq([command : Command, value : Seq(Value)])
  OBVIOUS
<1>2. NoValues \in [Key -> Seq(Value)]
  BY <1>1 DEF NoValues
<1>3. TypeOK
  BY <1>1, <1>2 DEF Init, LogInit, TypeOK
<1>4. log = <<>>
  BY DEF Init, LogInit
<1>5. \A s \in Server : ServerInv(log, NoValues, [c \in Clerk |-> 0], <<>>, <<>>)
  BY ZenonT(40), <1>1, <1>4, ServerStart
<1>6. \A s \in Server : ServerInv(log, m[s], seq[s], response[s], ran[s])
  <2> TAKE s \in Server
  <2>1. m[s] = NoValues /\ seq[s] = [c \in Clerk |-> 0] /\ response[s] = <<>> /\ ran[s] = <<>>
    BY ZenonT(40) DEF Init
  <2> QED
    BY ZenonT(40), <1>5, <2>1
<1> QED
  BY ZenonT(40), <1>3, <1>6, KInvMeans

\* readApply keeps it.
LEMMA ApplyStep ==
  ASSUME KInv, NEW s \in Server, Apply(s)
  PROVE  KInv'
<1> DEFINE n == Len(response[s])
           x == log[n + 1]
           new == seq[s][x.clerk] < x.seq
           write == new /\ x.op # "Get"
           u == [seq[s] EXCEPT ![x.clerk] = IF new THEN x.seq ELSE seq[s][x.clerk]]
           map == IF write THEN [m[s] EXCEPT ![x.key] = Effect(m[s][x.key], x)] ELSE m[s]
           r == IF write THEN Append(ran[s], x) ELSE ran[s]
           S == [command : Command, value : Seq(Value)]
<1>0. TypeOK /\ \A t \in Server : ServerInv(log, m[t], seq[t], response[t], ran[t])
  BY ZenonT(40), KInvMeans
<1>1. /\ n \in Nat /\ n + 1 <= Len(log) /\ x \in Command
      /\ seq' = [seq EXCEPT ![s] = u] /\ m' = [m EXCEPT ![s] = map]
      /\ ran' = [ran EXCEPT ![s] = r]
      /\ UNCHANGED <<log, plog, buffer, phase, elected, number, call, began, answer, rpc, faults>>
  BY ZenonT(40), ApplyEffect
<1>2. PICK v \in Seq(Value) :
        /\ x.op = "Get" => v = m[s][x.key]
        /\ response' = [response EXCEPT ![s] = Append(response[s], [command |-> x, value |-> v])]
  BY ZenonT(40), ApplyEffect
<1> DEFINE e == [command |-> x, value |-> v]
           resp == Append(response[s], e)
<1>3. /\ log \in Seq(Command) /\ m[s] \in [Key -> Seq(Value)] /\ seq[s] \in [Clerk -> Nat]
      /\ response[s] \in Seq(S) /\ ran[s] \in Seq(Command)
  BY ZenonT(40), <1>0 DEF TypeOK
<1>4. e \in S /\ e.command = x /\ e.value = v
  BY ZenonT(40), <1>1, <1>2
<1>5. ServerInv(log, m[s], seq[s], response[s], ran[s])
  BY ZenonT(40), <1>0
<1> HIDE DEF e, S
<1>6. ServerInv(log, map, u, resp, r)
  BY ZenonT(40), <1>1, <1>2, <1>3, <1>4, <1>5, ServerApply
<1>7. map \in [Key -> Seq(Value)] /\ u \in [Clerk -> Nat]
  <2>1. MapIs(log, n, m[s]) /\ TableIs(log, n, seq[s])
    BY ZenonT(40), <1>5 DEF ServerInv
  <2> QED
    BY ZenonT(40), <1>1, <1>3, <2>1, MapNext, TableNext
<1>8. resp \in Seq(S) /\ r \in Seq(Command)
  <2>1. resp \in Seq(S)
    BY ZenonT(40), <1>3, <1>4, ElementType
  <2>2. Append(ran[s], x) \in Seq(Command)
    BY ZenonT(40), <1>1, <1>3, ElementType
  <2> QED
    BY ZenonT(40), <1>3, <2>1, <2>2
<1>9. response' = [response EXCEPT ![s] = resp]
  BY ZenonT(40), <1>2 DEF e
<1> HIDE DEF map, u, resp, r, x, n, new, write
<1>10. TypeOK'
  <2>1. /\ m' \in [Server -> [Key -> Seq(Value)]] /\ seq' \in [Server -> [Clerk -> Nat]]
        /\ response' \in [Server -> Seq(S)] /\ ran' \in [Server -> Seq(Command)]
    BY ZenonT(40), <1>0, <1>1, <1>7, <1>8, <1>9 DEF TypeOK, S
  <2> QED
    BY ZenonT(40), <1>0, <1>1, <2>1 DEF TypeOK, S
<1>11. ASSUME NEW t \in Server
       PROVE  ServerInv(log', m'[t], seq'[t], response'[t], ran'[t])
  <2>1. CASE t = s
    <3>1. m'[t] = map /\ seq'[t] = u /\ response'[t] = resp /\ ran'[t] = r /\ log' = log
      BY ZenonT(40), <1>0, <1>1, <1>9, <2>1 DEF TypeOK
    <3> QED
      BY ZenonT(40), <1>6, <3>1
  <2>2. CASE t # s
    <3>1. /\ m'[t] = m[t] /\ seq'[t] = seq[t] /\ response'[t] = response[t]
          /\ ran'[t] = ran[t] /\ log' = log
      BY ZenonT(40), <1>0, <1>1, <1>9, <2>2 DEF TypeOK
    <3> QED
      BY ZenonT(40), <1>0, <3>1
  <2> QED
    BY ZenonT(40), <2>1, <2>2
<1> QED
  BY ZenonT(40), <1>10, <1>11, KInvNext

\* A server that starts again keeps it.
LEMMA RestartStep ==
  ASSUME KInv, NEW s \in Server, Restart(s)
  PROVE  KInv'
<1>0. TypeOK /\ \A t \in Server : ServerInv(log, m[t], seq[t], response[t], ran[t])
  BY ZenonT(40), KInvMeans
<1>1. /\ faults' = faults + 1
      /\ phase' = [phase EXCEPT ![s] = "FOLLOWER"] /\ buffer' = [buffer EXCEPT ![s] = <<>>]
      /\ m' = [m EXCEPT ![s] = NoValues] /\ seq' = [seq EXCEPT ![s] = [c \in Clerk |-> 0]]
      /\ response' = [response EXCEPT ![s] = <<>>] /\ ran' = [ran EXCEPT ![s] = <<>>]
      /\ rpc' = [c \in Clerk |-> IF rpc[c].srv = s THEN NoRpc ELSE rpc[c]]
      /\ UNCHANGED <<log, plog, elected, number, call, began, answer>>
  BY ZenonT(40) DEF Restart, LogRestart, clerkVars
<1> DEFINE S == [command : Command, value : Seq(Value)]
<1> HIDE DEF S
<1>2. <<>> \in Seq(Command) /\ <<>> \in Seq(Value) /\ <<>> \in Seq(S)
  OBVIOUS
<1>3. NoValues \in [Key -> Seq(Value)] /\ [c \in Clerk |-> 0] \in [Clerk -> Nat]
  BY <1>2 DEF NoValues
<1>4. /\ m' \in [Server -> [Key -> Seq(Value)]] /\ seq' \in [Server -> [Clerk -> Nat]]
      /\ response' \in [Server -> Seq(S)] /\ ran' \in [Server -> Seq(Command)]
      /\ buffer' \in [Server -> Seq(Command)]
  BY ZenonT(40), <1>0, <1>1, <1>2, <1>3 DEF TypeOK, S
<1>5. /\ phase' \in [Server -> {"FOLLOWER", "PREPARE", "ACCEPT"}]
      /\ rpc' \in [Clerk -> [srv : Server, idx : Nat] \cup {NoRpc}]
  BY ZenonT(40), <1>0, <1>1 DEF TypeOK
<1>6. faults' \in Nat
  BY <1>0, <1>1 DEF TypeOK
<1>7. TypeOK'
  BY ZenonT(40), <1>0, <1>1, <1>4, <1>5, <1>6 DEF TypeOK, S
<1>8. ASSUME NEW t \in Server
      PROVE  ServerInv(log', m'[t], seq'[t], response'[t], ran'[t])
  <2>1. CASE t = s
    <3>1. /\ m'[t] = NoValues /\ seq'[t] = [c \in Clerk |-> 0] /\ response'[t] = <<>>
          /\ ran'[t] = <<>> /\ log' = log
      BY ZenonT(40), <1>0, <1>1, <2>1 DEF TypeOK
    <3>2. log \in Seq(Command)
      BY ZenonT(40), <1>0 DEF TypeOK
    <3> QED
      BY ZenonT(40), <3>1, <3>2, ServerStart
  <2>2. CASE t # s
    <3>1. /\ m'[t] = m[t] /\ seq'[t] = seq[t] /\ response'[t] = response[t]
          /\ ran'[t] = ran[t] /\ log' = log
      BY ZenonT(40), <1>0, <1>1, <2>2 DEF TypeOK
    <3> QED
      BY ZenonT(40), <1>0, <3>1
  <2> QED
    BY ZenonT(40), <2>1, <2>2
<1> QED
  BY ZenonT(40), <1>7, <1>8, KInvNext

\* A log step keeps it: what is applied stays chosen.
LEMMA LogStepKeeps ==
  ASSUME KInv, LogStep
  PROVE  KInv'
<1>0. TypeOK /\ \A t \in Server : ServerInv(log, m[t], seq[t], response[t], ran[t])
  BY ZenonT(40), KInvMeans
<1>1. UNCHANGED <<m, seq, response, ran, number, call, began, answer, rpc, faults>> /\ LogNext
  BY ZenonT(40) DEF LogStep, kvVars, clerkVars
<1>2. TypeOK'
  BY ZenonT(40), <1>0, <1>1, LogTypes DEF TypeOK
<1>3. log' = log \/ \E x \in Command : log' = Append(log, x)
  BY ZenonT(40), <1>0, <1>1, LogTypes
<1>4. \A t \in Server : ServerInv(log', m[t], seq[t], response[t], ran[t])
  <2> TAKE t \in Server
  <2>1. log \in Seq(Command) /\ response[t] \in Seq([command : Command, value : Seq(Value)])
    BY ZenonT(40), <1>0 DEF TypeOK
  <2> QED
    BY ZenonT(40), <1>0, <1>3, <2>1, ServerGrow
<1> QED
  BY ZenonT(40), <1>1, <1>2, <1>4, KInvNext

\* A step that leaves the log and the servers alone keeps it.
LEMMA ServersAlone ==
  ASSUME KInv, TypeOK', UNCHANGED <<log, m, seq, response, ran>>
  PROVE  KInv'
<1>0. \A t \in Server : ServerInv(log, m[t], seq[t], response[t], ran[t])
  BY ZenonT(40), KInvMeans
<1> QED
  BY ZenonT(40), <1>0, KInvNext

\* The maps, the tables and the answers of all servers are those of the log,
\* whatever is elected, repeated, lost or restarted (readApply).
THEOREM ServiceInvariant == Spec => []KInv
<1>1. ASSUME KInv, [Next]_vars
      PROVE  KInv'
  <2>0. TypeOK
    BY ZenonT(40), <1>1 DEF KInv
  <2>1. CASE LogStep
    BY ZenonT(40), <1>1, <2>1, LogStepKeeps
  <2>2. ASSUME NEW s \in Server, Apply(s) \/ Restart(s)
        PROVE  KInv'
    BY ZenonT(40), <1>1, <2>2, ApplyStep, RestartStep
  <2>3. ASSUME NEW c \in Clerk, Invoke(c) \/ Return(c) \/ TryAgain(c) \/ GiveUp(c)
        PROVE  KInv'
    <3>1. TypeOK'
      BY ZenonT(40), <2>0, <2>3, InvokeType, ReturnType
    <3>2. UNCHANGED <<log, m, seq, response, ran>>
      BY ZenonT(40), <2>3 DEF Invoke, Return, TryAgain, GiveUp, logVars, kvVars
    <3> QED
      BY ZenonT(40), <1>1, <3>1, <3>2, ServersAlone
  <2>4. ASSUME NEW c \in Clerk, NEW s \in Server, Request(c, s)
        PROVE  KInv'
    <3>1. TypeOK'
      BY ZenonT(40), <2>0, <2>4, RequestType
    <3>2. UNCHANGED <<log, m, seq, response, ran>>
      BY ZenonT(40), <2>4 DEF Request, ProposeAccept, ProposePrepare, kvVars
    <3> QED
      BY ZenonT(40), <1>1, <3>1, <3>2, ServersAlone
  <2>5. CASE UNCHANGED vars
    <3>1. UNCHANGED <<log, plog, buffer, phase, elected, m, seq, response, ran, number, call,
                      began, answer, rpc, faults>>
      BY ZenonT(40), <2>5 DEF vars, logVars, kvVars, clerkVars
    <3>2. TypeOK'
      BY ZenonT(40), <2>0, <3>1 DEF TypeOK
    <3> QED
      BY ZenonT(40), <1>1, <3>1, <3>2, ServersAlone
  <2> QED
    BY ZenonT(40), <1>1, <2>1, <2>2, <2>3, <2>4, <2>5 DEF Next
<1> QED
  BY KInvInit, <1>1, PTL DEF Spec

\* Every replica's map is that of the entries it has applied, and a Get's
\* response is the value at its place in the log (ReplicasExact).
THEOREM ReplicasAreExact == Spec => []ReplicasExact
<1>1. KInv => ReplicasExact
  BY ZenonT(40) DEF KInv
<1> QED
  BY <1>1, ServiceInvariant, PTL

\* On every server a clerk's writes run once each, in the order of its calls
\* (SessionOrder).
THEOREM SessionsAreOrdered == Spec => []SessionOrder
<1>1. KInv => SessionOrder
  BY ZenonT(40) DEF KInv
<1> QED
  BY <1>1, ServiceInvariant, PTL
=============================================================================
