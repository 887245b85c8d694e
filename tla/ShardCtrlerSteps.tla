------------------------- MODULE ShardCtrlerSteps --------------------------
(***************************************************************************)
(* What a step of ShardCtrler does to its types, the requests, the         *)
(* handlers and the log: the lemmas that ShardCtrlerProofs rests on.       *)
(***************************************************************************)
EXTENDS ShardCtrler, FiniteSetTheorems, TLAPS

-----------------------------------------------------------------------------
(* The log *)

\* Effective positions can be counted, and the positions up to a later one
\* count more.
LEMMA EffectiveCount ==
  ASSUME NEW l, NEW n \in Nat
  PROVE  /\ IsFiniteSet(Effective(l, n))
         /\ Cardinality(Effective(l, n)) \in Nat
         /\ \A i \in Effective(l, n) : i \in 1..n /\ i \in Effective(l, i)
         /\ \A i, k \in Effective(l, n) :
                Cardinality(Effective(l, i)) = Cardinality(Effective(l, k)) => i = k
<1>1. \A m \in Nat : IsFiniteSet(Effective(l, m)) /\ Cardinality(Effective(l, m)) \in Nat
  <2> TAKE m \in Nat
  <2>1. IsFiniteSet(1..m)
    BY FS_Interval
  <2>2. Effective(l, m) \in SUBSET (1..m)
    BY Zenon DEF Effective
  <2> QED
    BY ZenonT(40), <2>1, <2>2, FS_Subset, FS_CardinalityType
<1>2. \A i \in Effective(l, n) : i \in 1..n /\ i \in Effective(l, i)
  BY DEF Effective
<1>3. ASSUME NEW i \in Effective(l, n), NEW k \in Effective(l, n), i < k
      PROVE  Cardinality(Effective(l, i)) # Cardinality(Effective(l, k))
  <2>1. i \in Nat /\ k \in Nat /\ k \in Effective(l, k)
    BY <1>2
  <2>2. Effective(l, i) \in SUBSET Effective(l, k)
    BY <1>3, <2>1 DEF Effective
  <2>3. k \notin Effective(l, i)
    BY <1>3, <2>1 DEF Effective
  <2> QED
    BY ZenonT(40), <1>1, <2>1, <2>2, <2>3, FS_Subset
<1>4. \A i, k \in Effective(l, n) :
        Cardinality(Effective(l, i)) = Cardinality(Effective(l, k)) => i = k
  <2> TAKE i \in Effective(l, n), k \in Effective(l, n)
  <2>1. i \in Nat /\ k \in Nat
    BY <1>2
  <2> QED
    BY <1>3, <2>1
<1> QED
  BY ZenonT(40), <1>1, <1>2, <1>4

\* What is chosen stays where it is, so it has the same effect.
LEMMA EffectiveStays ==
  ASSUME NEW l \in Seq(Entry), NEW x \in Entry, NEW n \in 0..Len(l)
  PROVE  Effective(Append(l, x), n) = Effective(l, n)
<1>1. \A i \in 1..Len(l) : Append(l, x)[i] = l[i]
  OBVIOUS
<1> QED
  BY <1>1 DEF Effective

\* One more entry counts if it is a change, and newer than those before.
LEMMA EffectiveNext ==
  ASSUME NEW l, NEW n \in Nat
  PROVE  LET new == /\ l[n + 1].op # "Query"
                    /\ \A j \in 1..n : l[j].clerk = l[n + 1].clerk => l[j].req < l[n + 1].req
         IN  /\ new => /\ n + 1 \in Effective(l, n + 1)
                       /\ Cardinality(Effective(l, n + 1)) = Cardinality(Effective(l, n)) + 1
             /\ ~new => Effective(l, n + 1) = Effective(l, n)
             /\ Effective(l, n) \subseteq Effective(l, n + 1)
<1> DEFINE new == /\ l[n + 1].op # "Query"
                  /\ \A j \in 1..n : l[j].clerk = l[n + 1].clerk => l[j].req < l[n + 1].req
<1>1. new => Effective(l, n + 1) = Effective(l, n) \cup {n + 1}
  BY DEF Effective
<1>2. n + 1 \notin Effective(l, n)
  BY DEF Effective
<1>3. ~new => Effective(l, n + 1) = Effective(l, n)
  BY DEF Effective
<1>4. Effective(l, n) \subseteq Effective(l, n + 1)
  BY DEF Effective
<1>5. IsFiniteSet(Effective(l, n))
  BY ZenonT(40), EffectiveCount
<1>6. new => Cardinality(Effective(l, n + 1)) = Cardinality(Effective(l, n)) + 1
  BY ZenonT(40), <1>1, <1>2, <1>5, FS_AddElement
<1> QED
  BY ZenonT(40), <1>1, <1>3, <1>4, <1>6
-----------------------------------------------------------------------------
(* What a replica has *)

\* A replica that is built again has applied nothing.
LEMMA ReplicaStart ==
  ASSUME NEW l \in Seq(Entry)
  PROVE  ReplicaIs(l, 0, [c \in Clerk |-> 0], <<>>)
<1>1. Effective(l, 0) = {}
  BY DEF Effective
<1>2. Cardinality(Effective(l, 0)) = 0
  BY Zenon, <1>1, FS_EmptySet
<1> QED
  BY <1>2 DEF ReplicaIs

\* What is chosen after what a replica has applied does not concern it.
LEMMA ReplicaGrow ==
  ASSUME NEW l \in Seq(Entry), NEW x \in Entry, NEW n \in Nat, NEW prev, NEW confs,
         ReplicaIs(l, n, prev, confs)
  PROVE  ReplicaIs(Append(l, x), n, prev, confs)
<1> DEFINE m == Append(l, x)
<1>1. n \in 0..Len(l) /\ Len(m) = Len(l) + 1 /\ \A i \in 1..n : m[i] = l[i]
  BY DEF ReplicaIs
<1>2. Effective(m, n) = Effective(l, n) /\ \A i \in 1..n : Effective(m, i) = Effective(l, i)
  BY <1>1, EffectiveStays
<1>3. \A i \in Effective(l, n) : i \in 1..n
  BY ZenonT(40), EffectiveCount
<1> HIDE DEF m
<1> QED
  BY <1>1, <1>2, <1>3 DEF ReplicaIs, m

\* The next entry is new to a replica exactly when no entry before it has
\* its clerk and as high a number.
LEMMA NewMeans ==
  ASSUME NEW l \in Seq(Entry), NEW n \in Nat, NEW prev \in [Clerk -> Nat], NEW confs,
         ReplicaIs(l, n, prev, confs), n + 1 <= Len(l), l[n + 1].req > 0
  PROVE  /\ l[n + 1] \in Entry /\ l[n + 1].clerk \in Clerk /\ l[n + 1].req \in Nat
         /\ prev[l[n + 1].clerk] < l[n + 1].req <=>
              \A j \in 1..n : l[j].clerk = l[n + 1].clerk => l[j].req < l[n + 1].req
<1>1. \A j \in 1..(n + 1) : l[j] \in Entry
  OBVIOUS
<1>2. \A j \in 1..(n + 1) : l[j].clerk \in Clerk /\ l[j].req \in Nat
  BY ZenonT(40), <1>1 DEF Entry
<1> DEFINE c == l[n + 1].clerk
<1>3. n + 1 \in 1..(n + 1) /\ \A j \in 1..n : j \in 1..(n + 1)
  OBVIOUS
<1>4. c \in Clerk /\ prev[c] \in Nat /\ l[n + 1].req \in Nat
  BY ZenonT(40), <1>2, <1>3
<1>5. ASSUME prev[c] < l[n + 1].req, NEW j \in 1..n, l[j].clerk = c
      PROVE  l[j].req < l[n + 1].req
  <2>1. l[j].req <= prev[c]
    BY ZenonT(40), <1>5 DEF ReplicaIs
  <2> QED
    BY <1>2, <1>3, <1>4, <1>5, <2>1
<1>6. ASSUME \A j \in 1..n : l[j].clerk = c => l[j].req < l[n + 1].req
      PROVE  prev[c] < l[n + 1].req
  <2>1. CASE prev[c] > 0
    <3>1. \E j \in 1..n : l[j].clerk = c /\ l[j].req = prev[c]
      BY Zenon, <1>4, <2>1 DEF ReplicaIs
    <3> QED
      BY ZenonT(40), <1>6, <3>1
  <2> QED
    BY <1>4, <2>1
<1> QED
  BY ZenonT(40), <1>1, <1>3, <1>4, <1>5, <1>6

\* Applying the next entry keeps a replica what its entries give, if a
\* number of a clerk means one request and requests come in their order.
LEMMA ReplicaApply ==
  ASSUME NEW l \in Seq(Entry), NEW n \in Nat, NEW prev \in [Clerk -> Nat],
         NEW confs \in Seq(Entry),
         ReplicaIs(l, n, prev, confs), n + 1 <= Len(l), l[n + 1].req > 0,
         \A i, j \in 1..Len(l) : l[i].clerk = l[j].clerk /\ l[i].req = l[j].req => l[i] = l[j],
         \A i, j \in 1..Len(l) : l[i].clerk = l[j].clerk /\ l[i].req < l[j].req =>
             \E k \in 1..(j - 1) : l[k] = l[i]
  PROVE  LET x == l[n + 1]
             new == prev[x.clerk] < x.req
         IN  ReplicaIs(l, n + 1,
                 [prev EXCEPT ![x.clerk] = IF new THEN x.req ELSE prev[x.clerk]],
                 IF new /\ x.op # "Query" THEN Append(confs, x) ELSE confs)
<1> DEFINE x == l[n + 1]
           c == x.clerk
           new == prev[c] < x.req
           p == [prev EXCEPT ![c] = IF new THEN x.req ELSE prev[c]]
           f == IF new /\ x.op # "Query" THEN Append(confs, x) ELSE confs
<1>1. x \in Entry /\ c \in Clerk /\ x.req \in Nat /\ prev[c] \in Nat
  BY ZenonT(40), NewMeans
<1>2. new <=> \A j \in 1..n : l[j].clerk = c => l[j].req < x.req
  BY Zenon, NewMeans
<1>3. \A j \in 1..n : l[j] \in Entry /\ l[j].clerk \in Clerk /\ l[j].req \in Nat
  <2>1. \A j \in 1..n : l[j] \in Entry
    BY DEF ReplicaIs
  <2> QED
    BY ZenonT(40), <2>1 DEF Entry
<1>4. \A d \in Clerk : prev[d] <= p[d] /\ p[d] \in Nat /\ (d # c => p[d] = prev[d])
  BY <1>1
<1>5. x.req <= p[c] /\ (new => p[c] = x.req) /\ (~new => p[c] = prev[c])
  BY <1>1
<1>6. /\ Len(confs) <= Len(f) /\ Len(f) \in Nat /\ Len(confs) \in Nat
      /\ \A k \in 1..Len(confs) : f[k] = confs[k] /\ confs[k] \in Entry
      /\ new /\ x.op # "Query" => Len(f) = Len(confs) + 1 /\ f[Len(f)] = x
      /\ ~(new /\ x.op # "Query") => f = confs
  BY <1>1
<1>7. \A k \in 1..Len(confs) : confs[k].clerk \in Clerk /\ confs[k].req \in Nat
  BY Zenon, <1>6 DEF Entry
<1>8. /\ new /\ x.op # "Query" =>
           /\ n + 1 \in Effective(l, n + 1)
           /\ Cardinality(Effective(l, n + 1)) = Cardinality(Effective(l, n)) + 1
      /\ ~(new /\ x.op # "Query") => Effective(l, n + 1) = Effective(l, n)
      /\ Effective(l, n) \subseteq Effective(l, n + 1)
  BY ZenonT(40), <1>2, EffectiveNext
<1> HIDE DEF x, c, p, f, new
<1>9. n + 1 <= Len(l)
  BY ZenonT(40)
<1>10. ASSUME NEW j \in 1..(n + 1)
       PROVE  l[j].req <= p[l[j].clerk]
  <2>1. CASE j \in 1..n
    <3>1. l[j].req <= prev[l[j].clerk] /\ prev[l[j].clerk] \in Nat
      BY ZenonT(40), <1>3, <2>1 DEF ReplicaIs
    <3>2. prev[l[j].clerk] <= p[l[j].clerk] /\ p[l[j].clerk] \in Nat /\ l[j].req \in Nat
      BY ZenonT(40), <1>3, <1>4, <2>1
    <3> QED
      BY SMTT(40), <3>1, <3>2
  <2>2. CASE j = n + 1
    BY ZenonT(40), <1>5, <2>2 DEF x, c
  <2> QED
    BY <2>1, <2>2
<1>11. ASSUME NEW j \in 1..n, l[j].op # "Query"
       PROVE  \E k \in 1..Len(f) : f[k] = l[j]
  <2>1. PICK k \in 1..Len(confs) : confs[k] = l[j]
    BY ZenonT(40), <1>11 DEF ReplicaIs
  <2> QED
    BY <1>6, <2>1
<1>12. ASSUME x.op # "Query"
       PROVE  \E k \in 1..Len(f) : f[k] = x
  <2>1. CASE new
    BY <1>6, <1>12, <2>1
  <2>2. CASE ~new
    <3>1. PICK j \in 1..n : l[j].clerk = c /\ l[j].req >= x.req
      BY <1>1, <1>2, <1>3, <2>2
    <3>2. j \in 1..Len(l) /\ n + 1 \in 1..Len(l)
      OBVIOUS
    <3>3. \E i \in 1..n : l[i] = x
      <4>1. CASE l[j].req = x.req
        BY ZenonT(40), <3>1, <3>2, <4>1 DEF x, c
      <4>2. CASE l[j].req > x.req
        <5>1. l[n + 1].clerk = l[j].clerk /\ l[n + 1].req < l[j].req
          BY ZenonT(40), <1>1, <1>3, <3>1, <4>2 DEF x, c
        <5>2. \E k \in 1..(j - 1) : l[k] = l[n + 1]
          BY ZenonT(40), <3>2, <5>1
        <5> QED
          BY SMTT(40), <5>2 DEF x
      <4> QED
        BY <1>1, <1>3, <3>1, <4>1, <4>2
    <3> QED
      BY Zenon, <1>11, <1>12, <3>3
  <2> QED
    BY ZenonT(40), <2>1, <2>2
<1>13. ASSUME NEW d \in Clerk, p[d] > 0
       PROVE  \E j \in 1..(n + 1) : l[j].clerk = d /\ l[j].req = p[d]
  <2>1. CASE d = c /\ new
    BY <1>5, <2>1 DEF x, c
  <2>2. CASE ~(d = c /\ new)
    <3>1. p[d] = prev[d]
      BY ZenonT(40), <1>4, <1>5, <2>2
    <3>2. \E j \in 1..n : l[j].clerk = d /\ l[j].req = prev[d]
      BY ZenonT(40), <1>13, <3>1 DEF ReplicaIs
    <3> QED
      BY <3>1, <3>2
  <2> QED
    BY ZenonT(40), <2>1, <2>2
<1>14. ASSUME NEW k \in 1..Len(f)
       PROVE  f[k].req <= p[f[k].clerk]
  <2>1. CASE k \in 1..Len(confs)
    <3>1. confs[k].req <= prev[confs[k].clerk] /\ prev[confs[k].clerk] \in Nat
      BY ZenonT(40), <1>7, <2>1 DEF ReplicaIs
    <3>2. /\ prev[confs[k].clerk] <= p[confs[k].clerk]
          /\ p[confs[k].clerk] \in Nat /\ confs[k].req \in Nat
      BY ZenonT(40), <1>4, <1>7, <2>1
    <3> QED
      BY SMTT(40), <1>6, <2>1, <3>1, <3>2
  <2>2. CASE k \notin 1..Len(confs)
    <3>1. f[k] = x
      BY <1>6, <2>2
    <3> QED
      BY ZenonT(40), <1>5, <3>1 DEF c
  <2> QED
    BY ZenonT(40), <2>1, <2>2
<1>15. Len(f) = Cardinality(Effective(l, n + 1))
  <2>1. Len(confs) = Cardinality(Effective(l, n))
    BY ZenonT(40) DEF ReplicaIs
  <2> QED
    BY ZenonT(40), <1>6, <1>8, <2>1
<1>16. ASSUME NEW k \in 1..Len(f)
       PROVE  \E i \in Effective(l, n + 1) : k = Cardinality(Effective(l, i)) /\ f[k] = l[i]
  <2>1. CASE k \in 1..Len(confs)
    <3>1. PICK i \in Effective(l, n) : k = Cardinality(Effective(l, i)) /\ confs[k] = l[i]
      BY ZenonT(40), <2>1 DEF ReplicaIs
    <3> QED
      BY ZenonT(40), <1>6, <1>8, <2>1, <3>1
  <2>2. CASE k \notin 1..Len(confs)
    <3>1. k = Len(f) /\ f[k] = x /\ new /\ x.op # "Query"
      BY <1>6, <2>2
    <3> QED
      BY ZenonT(40), <1>8, <1>15, <3>1 DEF x
  <2> QED
    BY ZenonT(40), <2>1, <2>2
<1>17. \A j \in 1..(n + 1) : l[j].op # "Query" => \E k \in 1..Len(f) : f[k] = l[j]
  BY <1>11, <1>12 DEF x
<1>18. ReplicaIs(l, n + 1, p, f)
  BY ZenonT(40), <1>9, <1>10, <1>13, <1>14, <1>15, <1>16, <1>17 DEF ReplicaIs
<1> QED
  BY ZenonT(40), <1>18 DEF p, f, new, c, x
-----------------------------------------------------------------------------
(* Requests *)

\* A request has its place in its clerk's script, and is known by its clerk
\* and its number.
LEMMA IssuedIs ==
  ASSUME TypeOK, ClerksInv, NEW x, Issued(x)
  PROVE  /\ x \in Entry /\ x.clerk \in Clerk
         /\ x.req \in 1..requestId[x.clerk] /\ x = Cmd(x.clerk, x.req)
         /\ x.req = requestId[x.clerk] => call[x.clerk] # None
<1>0. PICK c \in Clerk : \E r \in 1..requestId[c] :
        x = Cmd(c, r) /\ (r = requestId[c] => call[c] # None)
  BY ZenonT(40) DEF Issued
<1>1. PICK r \in 1..requestId[c] :
        x = Cmd(c, r) /\ (r = requestId[c] => call[c] # None)
  BY ZenonT(40), <1>0
<1>2. requestId[c] \in Nat \ {0} /\ requestId[c] <= Len(Script[c]) + 1
      /\ (call[c] # None => requestId[c] <= Len(Script[c]))
  BY ZenonT(40) DEF TypeOK, ClerksInv
<1>3. Script[c] \in Seq(STRING)
  BY ZenonT(40), CtrlerAssumption
<1>4. r \in 1..Len(Script[c])
  BY <1>1, <1>2, <1>3
<1>5. Script[c][r] \in STRING
  BY <1>3, <1>4
<1>6. x.clerk = c /\ x.req = r
  BY ZenonT(40), <1>1 DEF Cmd
<1>7. x \in Entry
  BY <1>1, <1>2, <1>5 DEF Cmd, Entry
<1> QED
  BY ZenonT(40), <1>1, <1>6, <1>7

\* The request that a clerk has under way.
LEMMA CommandIssued ==
  ASSUME TypeOK, ClerksInv, NEW c \in Clerk, call[c] # None
  PROVE  Command(c) = Cmd(c, requestId[c]) /\ Issued(Command(c)) /\ Command(c) \in Entry
<1>1. Command(c) = Cmd(c, requestId[c])
  BY ZenonT(40) DEF Command, Cmd
<1>2. requestId[c] \in 1..requestId[c]
  BY DEF TypeOK
<1>3. Issued(Command(c))
  BY ZenonT(40), <1>1, <1>2 DEF Issued
<1> QED
  BY ZenonT(40), <1>1, <1>3, IssuedIs

\* Two requests of a clerk with the same number are the same.
LEMMA IssuedSame ==
  ASSUME TypeOK, ClerksInv, NEW x, NEW y, Issued(x), Issued(y),
         x.clerk = y.clerk, x.req = y.req
  PROVE  x = y
<1>1. x = Cmd(x.clerk, x.req) /\ y = Cmd(y.clerk, y.req)
  BY ZenonT(40), IssuedIs
<1> QED
  BY ZenonT(40), <1>1

-----------------------------------------------------------------------------
(* Types *)

\* A log step keeps the types, and what any log holds was in one before.
LEMMA LogStepEffect ==
  ASSUME TypeOK, LogNext
  PROVE  /\ plog' \in [Server -> Seq(Entry)] /\ buffer' \in [Server -> Seq(Entry)]
         /\ \A P : /\ \A s \in Server : \A i \in 1..Len(plog[s]) : plog[s][i] \in P
                   /\ \A s \in Server : \A i \in 1..Len(buffer[s]) : buffer[s][i] \in P
                   /\ \A i \in 1..Len(log) : log[i] \in P
                   => /\ \A s \in Server : \A i \in 1..Len(plog'[s]) : plog'[s][i] \in P
                      /\ \A s \in Server : \A i \in 1..Len(buffer'[s]) : buffer'[s][i] \in P
         /\ \/ log' = log
            \/ \E s \in Server : \E i \in 1..Len(plog[s]) : log' = Append(log, plog[s][i])
<1>1. CASE \E s \in Server : Elect(s)
  BY <1>1 DEF Elect, TypeOK
<1>2. CASE \E s \in Server : Prepared(s)
  <2>1. PICK s \in Server, x \in {log} \cup {plog[t] : t \in Server} :
          /\ plog' = [plog EXCEPT ![s] = x \o buffer[s]]
          /\ buffer' = [buffer EXCEPT ![s] = <<>>]
          /\ log' = log
    BY Zenon, <1>2 DEF Prepared
  <2>2. x \in Seq(Entry) /\ buffer[s] \in Seq(Entry)
    BY <2>1 DEF TypeOK
  <2>3. x \o buffer[s] \in Seq(Entry) /\ Len(x \o buffer[s]) = Len(x) + Len(buffer[s])
    BY <2>2
  <2>4. \A i \in 1..Len(x \o buffer[s]) :
          \/ i \in 1..Len(x) /\ (x \o buffer[s])[i] = x[i]
          \/ i - Len(x) \in 1..Len(buffer[s]) /\ (x \o buffer[s])[i] = buffer[s][i - Len(x)]
    BY <2>2, <2>3
  <2>5. plog' \in [Server -> Seq(Entry)] /\ buffer' \in [Server -> Seq(Entry)]
    BY <2>1, <2>3 DEF TypeOK
  <2>6. ASSUME NEW P,
               \A t \in Server : \A i \in 1..Len(plog[t]) : plog[t][i] \in P,
               \A t \in Server : \A i \in 1..Len(buffer[t]) : buffer[t][i] \in P,
               \A i \in 1..Len(log) : log[i] \in P
        PROVE  /\ \A t \in Server : \A i \in 1..Len(plog'[t]) : plog'[t][i] \in P
               /\ \A t \in Server : \A i \in 1..Len(buffer'[t]) : buffer'[t][i] \in P
    <3>1. \A i \in 1..Len(x) : x[i] \in P
      BY ZenonT(40), <2>1, <2>6
    <3>2. \A i \in 1..Len(x \o buffer[s]) : (x \o buffer[s])[i] \in P
      BY ZenonT(40), <3>1, <2>4, <2>6
    <3>3. \A t \in Server : plog'[t] = plog[t] \/ plog'[t] = x \o buffer[s]
      BY ZenonT(40), <2>1 DEF TypeOK
    <3>4. \A t \in Server : buffer'[t] = buffer[t] \/ buffer'[t] = <<>>
      BY ZenonT(40), <2>1 DEF TypeOK
    <3> QED
      BY SMTT(40), <3>2, <3>3, <3>4, <2>6
  <2> QED
    BY ZenonT(40), <2>1, <2>5, <2>6
<1>3. CASE \E s \in Server : Choose(s)
  <2>1. PICK s \in Server : Choose(s)
    BY ZenonT(40), <1>3
  <2>2. Len(log) + 1 \in 1..Len(plog[s])
    BY SMTT(40), <2>1 DEF Choose, TypeOK
  <2> QED
    BY ZenonT(40), <2>1, <2>2 DEF Choose, TypeOK
<1>4. CASE \E s, l \in Server : Follow(s, l)
  BY SMTT(40), <1>4 DEF Follow, TypeOK
<1> QED
  BY Zenon, <1>1, <1>2, <1>3, <1>4 DEF LogNext

\* The handlers' records.
LEMMA HandlerTypes ==
  ASSUME TypeOK
  PROVE  /\ Empty \in Result /\ Ended \in Handler
         /\ Error("ErrNotLeader") \in Result /\ Error("ErrTimeOut") \in Result
         /\ DOMAIN handler = 1..Len(handler) /\ Len(handler) \in Nat
         /\ \A h \in DOMAIN handler : handler[h] \in Handler /\ h \in Nat /\ h # None
         /\ \A s \in Server : Len(plog[s]) \in Nat
<1>1. \A e \in {"", "ErrNotLeader", "ErrTimeOut"} : Error(e) \in Result
  BY Zenon DEF Error, Result
<1>2. Empty \in Result /\ Error("ErrNotLeader") \in Result /\ Error("ErrTimeOut") \in Result
  BY <1>1, Zenon DEF Empty
<1>3. Ended \in Handler
  BY <1>2 DEF Ended, Handler
<1>4. handler \in Seq(Handler) /\ plog \in [Server -> Seq(Entry)]
  BY ZenonT(40) DEF TypeOK
<1>5. DOMAIN handler = 1..Len(handler) /\ Len(handler) \in Nat
  BY <1>4
<1>6. \A h \in DOMAIN handler : handler[h] \in Handler /\ h \in Nat /\ h # None
  BY <1>4, CtrlerAssumption
<1>7. \A s \in Server : Len(plog[s]) \in Nat
  BY <1>4
<1> QED
  BY ZenonT(40), <1>2, <1>3, <1>5, <1>6, <1>7

\* A handler that is replaced by one of the right type keeps the types of
\* all that refers to handlers.
LEMMA HandlerReplaced ==
  ASSUME TypeOK, NEW h \in DOMAIN handler, NEW r \in Handler,
         handler' = [handler EXCEPT ![h] = r]
  PROVE  /\ handler' \in Seq(Handler) /\ DOMAIN handler' = DOMAIN handler
         /\ Len(handler') = Len(handler)
         /\ handler'[h] = r
         /\ \A k \in DOMAIN handler : k # h => handler'[k] = handler[k]
  BY SMTT(40) DEF TypeOK

\* The steps of the agreed log keep the types.
LEMMA LogStepType ==
  ASSUME TypeOK, LogStep
  PROVE  TypeOK'
<1>1. plog' \in [Server -> Seq(Entry)] /\ buffer' \in [Server -> Seq(Entry)]
  BY ZenonT(40), LogStepEffect DEF LogStep
<1>2. log' \in Seq(Entry)
  <2>1. \/ log' = log
        \/ \E s \in Server : \E i \in 1..Len(plog[s]) : log' = Append(log, plog[s][i])
    BY ZenonT(40), LogStepEffect DEF LogStep
  <2>2. \A s \in Server : \A i \in 1..Len(plog[s]) : plog[s][i] \in Entry
    BY DEF TypeOK
  <2>3. log \in Seq(Entry)
    BY ZenonT(40) DEF TypeOK
  <2>4. \A x \in Entry : Append(log, x) \in Seq(Entry)
    BY <2>3
  <2> QED
    BY ZenonT(40), <2>1, <2>2, <2>3, <2>4
<1> QED
  BY ZenonT(40), <1>1, <1>2 DEF TypeOK, LogStep, ctrlVars, clerkVars

\* A call that begins, or reaches a server, keeps the types.
LEMMA ClerkStepType ==
  ASSUME TypeOK, ClerksInv, NEW c \in Clerk, Invoke(c) \/ \E s \in Server : Request(c, s)
  PROVE  TypeOK'
<1>1. CASE Invoke(c)
  BY ZenonT(40), <1>1 DEF Invoke, TypeOK, logVars, ctrlVars
<1>2. ASSUME NEW s \in Server, Request(c, s)
      PROVE  TypeOK'
  <2>1. call[c] # None
    BY ZenonT(40), <1>2 DEF Request
  <2> DEFINE r == [srv |-> s, com |-> Command(c), idx |-> -1, res |-> Empty,
                   pc |-> IF prevReq[s][c] >= requestId[c] THEN "reply" ELSE "propose"]
  <2>2. r \in Handler
    BY <2>1, CommandIssued, HandlerTypes DEF Handler
  <2>3. handler' = Append(handler, r)
    BY ZenonT(40), <1>2 DEF Request
  <2> HIDE DEF r
  <2>4. /\ handler' \in Seq(Handler) /\ DOMAIN handler \subseteq DOMAIN handler'
        /\ Len(handler) + 1 \in DOMAIN handler'
    BY SMTT(40), <2>2, <2>3 DEF TypeOK
  <2>5. call' = [call EXCEPT ![c] = Len(handler) + 1]
        /\ UNCHANGED <<log, plog, buffer, allConfs, prevReq, applied, chans, sending, result,
                       requestId, answer, acked, before>>
    BY ZenonT(40), <1>2 DEF Request, logVars, ctrlVars
  <2> QED
    BY ZenonT(40), <2>4, <2>5 DEF TypeOK
<1> QED
  BY ZenonT(40), <1>1, <1>2

\* A proposal keeps the types.
LEMMA ProposeType ==
  ASSUME TypeOK, ClerksInv, NEW h \in DOMAIN handler, Propose(h)
  PROVE  TypeOK'
<1> DEFINE s == handler[h].srv
           x == handler[h].com
<1>1. /\ handler[h] \in Handler /\ s \in Server /\ x \in Entry
      /\ handler[h].pc = "propose"
  BY ZenonT(40), HandlerTypes, IssuedIs DEF Propose, ClerksInv
<1>2. UNCHANGED <<log, allConfs, prevReq, applied, chans, sending, result, requestId, call,
                  answer, acked, before>>
  BY ZenonT(40) DEF Propose, ProposeAccept, ProposePrepare, logVars, ctrlVars, clerkVars
<1>3. plog' \in [Server -> Seq(Entry)] /\ buffer' \in [Server -> Seq(Entry)]
  <2>1. \/ UNCHANGED <<plog, buffer>>
        \/ plog' = [plog EXCEPT ![s] = Append(@, x)] /\ UNCHANGED buffer
        \/ buffer' = [buffer EXCEPT ![s] = Append(@, x)] /\ UNCHANGED plog
    BY ZenonT(40) DEF Propose, ProposeAccept, ProposePrepare, logVars
  <2>2. Append(plog[s], x) \in Seq(Entry) /\ Append(buffer[s], x) \in Seq(Entry)
    <3>1. plog[s] \in Seq(Entry) /\ buffer[s] \in Seq(Entry)
      BY ZenonT(40), <1>1 DEF TypeOK
    <3> QED
      BY SMTT(40), <1>1, <3>1
  <2>3. plog \in [Server -> Seq(Entry)] /\ buffer \in [Server -> Seq(Entry)]
    BY ZenonT(40) DEF TypeOK
  <2> QED
    BY Zenon, <1>1, <2>1, <2>2, <2>3
<1>4. \E r \in Handler : handler' = [handler EXCEPT ![h] = r]
  <2>1. CASE handler' = [handler EXCEPT ![h].pc = "register", ![h].idx = IndexAt(s)]
    <3>1. IndexAt(s) \in Int
      BY <1>1, HandlerTypes DEF IndexAt
    <3>2. handler' = [handler EXCEPT ![h] =
                        [handler[h] EXCEPT !.pc = "register", !.idx = IndexAt(s)]]
      BY Zenon, <2>1 DEF TypeOK
    <3>3. [handler[h] EXCEPT !.pc = "register", !.idx = IndexAt(s)] \in Handler
      BY Zenon, <1>1, <3>1 DEF Handler
    <3> QED
      BY ZenonT(40), <3>2, <3>3
  <2>2. CASE handler' = [handler EXCEPT ![h] = NotLeader(h)]
    <3>1. \A v \in Result : [handler[h] EXCEPT !.pc = "reply", !.res = v] \in Handler
      BY Zenon, <1>1 DEF Handler
    <3>2. NotLeader(h) \in Handler
      BY <3>1, HandlerTypes, Zenon DEF NotLeader
    <3> QED
      BY Zenon, <2>2, <3>2
  <2> QED
    BY ZenonT(40), <2>1, <2>2 DEF Propose
<1>5. handler' \in Seq(Handler) /\ DOMAIN handler' = DOMAIN handler
  BY Zenon, <1>4, HandlerReplaced
<1> QED
  BY Zenon, <1>2, <1>3, <1>5 DEF TypeOK

\* What the steps of propose() after the proposal, but the reply, do to the
\* handler.
LEMMA WaitEffect ==
  ASSUME TypeOK, ClerksInv, NEW h \in DOMAIN handler,
         Register(h) \/ Receive(h) \/ TimeOut(h) \/ Remove(h)
  PROVE  /\ handler[h].pc \in {"register", "select", "remove"}
         /\ \E pc \in {"select", "remove", "reply"}, res \in Result :
              handler' = [handler EXCEPT ![h] = [handler[h] EXCEPT !.pc = pc, !.res = res]]
         /\ UNCHANGED <<log, plog, buffer, phase, elected, allConfs, prevReq, applied,
                        requestId, call, answer, acked, before>>
<1>1. handler[h] \in Handler /\ handler[h].res \in Result
  BY ZenonT(40), HandlerTypes DEF Handler
<1>2. CASE Register(h)
  <2>1. handler' = [handler EXCEPT ![h] =
                      [handler[h] EXCEPT !.pc = "select", !.res = handler[h].res]]
    BY Zenon, <1>1, <1>2 DEF Register, Handler, TypeOK
  <2> QED
    BY Zenon, <1>1, <1>2, <2>1 DEF Register, logVars, clerkVars
<1>3. CASE Remove(h)
  <2>1. handler' = [handler EXCEPT ![h] =
                      [handler[h] EXCEPT !.pc = "reply", !.res = handler[h].res]]
    BY Zenon, <1>1, <1>3 DEF Remove, Handler, TypeOK
  <2> QED
    BY Zenon, <1>1, <1>3, <2>1 DEF Remove, logVars, clerkVars
<1>4. CASE TimeOut(h)
  <2>1. handler' = [handler EXCEPT ![h] =
                      [handler[h] EXCEPT !.pc = "remove", !.res = Error("ErrTimeOut")]]
    BY Zenon, <1>1, <1>4 DEF TimeOut, Handler, TypeOK
  <2> QED
    BY Zenon, <1>1, <1>4, <2>1, HandlerTypes DEF TimeOut, logVars, ctrlVars, clerkVars
<1>5. CASE Receive(h)
  <2> DEFINE s == handler[h].srv
             other == result[s].clerk # handler[h].com.clerk \/ result[s].req # handler[h].com.req
             res == IF other THEN [result[s] EXCEPT !.err = "ErrNotLeader"] ELSE result[s]
  <2>1. s \in Server
    BY ZenonT(40), <1>5, HandlerTypes DEF Receive, ClerksInv
  <2>2. result[s] \in Result
    BY ZenonT(40), <2>1 DEF TypeOK
  <2>3. res \in Result
    BY Zenon, <2>2 DEF Result
  <2>4. handler' = [handler EXCEPT ![h].pc = "remove", ![h].res = res]
    BY ZenonT(40), <1>5 DEF Receive
  <2> HIDE DEF res
  <2>5. handler' = [handler EXCEPT ![h] = [handler[h] EXCEPT !.pc = "remove", !.res = res]]
    BY ZenonT(40), <2>4 DEF TypeOK
  <2> QED
    BY Zenon, <1>1, <1>5, <2>3, <2>5 DEF Receive, logVars, clerkVars
<1> QED
  BY Zenon, <1>2, <1>3, <1>4, <1>5

\* The steps of a handler that waits keep the types.
LEMMA WaitType ==
  ASSUME TypeOK, ClerksInv, NEW h \in DOMAIN handler,
         Register(h) \/ Receive(h) \/ TimeOut(h) \/ Remove(h)
  PROVE  TypeOK'
<1> DEFINE s == handler[h].srv
<1>1. UNCHANGED <<log, plog, buffer, allConfs, prevReq, applied,
                  requestId, call, answer, acked, before>>
  BY Zenon, WaitEffect
<1>2. handler[h].pc # "end"
  BY ZenonT(40), WaitEffect
<1>3. s \in Server /\ handler[h] \in Handler
  BY Zenon, <1>2, HandlerTypes DEF ClerksInv
<1>4. handler' \in Seq(Handler) /\ DOMAIN handler' = DOMAIN handler
  <2>1. PICK pc \in {"select", "remove", "reply"}, res \in Result :
          handler' = [handler EXCEPT ![h] = [handler[h] EXCEPT !.pc = pc, !.res = res]]
    BY Zenon, WaitEffect
  <2>2. [handler[h] EXCEPT !.pc = pc, !.res = res] \in Handler
    BY Zenon, <1>3 DEF Handler
  <2> QED
    BY Zenon, <2>1, <2>2, HandlerReplaced
<1>5. /\ DOMAIN chans' = Server
      /\ \A t \in Server : \A i \in DOMAIN chans'[t] : i \in Int /\ chans'[t][i] \in DOMAIN handler
  <2>1. CASE Register(h)
    <3>1. handler[h].idx \in Int
      BY Zenon, <1>3 DEF Handler
    <3> QED
      BY ZenonT(40), <1>3, <2>1, <3>1 DEF Register, TypeOK
  <2>2. CASE Remove(h)
    BY ZenonT(40), <1>3, <2>2 DEF Remove, TypeOK
  <2>3. CASE UNCHANGED chans
    BY ZenonT(40), <2>3 DEF TypeOK
  <2> QED
    BY ZenonT(40), <2>1, <2>2, <2>3 DEF Receive, TimeOut, ctrlVars
<1>6. sending' \in [Server -> {None} \cup DOMAIN handler] /\ result' \in [Server -> Result]
  <2>1. CASE Receive(h)
    BY ZenonT(40), <1>3, <2>1, HandlerTypes DEF Receive, TypeOK
  <2>2. CASE UNCHANGED <<sending, result>>
    BY ZenonT(40), <2>2 DEF TypeOK
  <2> QED
    BY ZenonT(40), <2>1, <2>2 DEF Register, Remove, TimeOut, ctrlVars
<1> QED
  BY ZenonT(40), <1>1, <1>4, <1>5, <1>6 DEF TypeOK

\* A reply keeps the types.
LEMMA ReplyType ==
  ASSUME TypeOK, ClerksInv, NEW h \in DOMAIN handler, Reply(h)
  PROVE  TypeOK'
<1> DEFINE c == handler[h].com.clerk
<1>1. handler[h] \in Handler /\ handler[h].com \in Entry /\ c \in Clerk /\ handler[h].res \in Result
  <2>1. Issued(handler[h].com)
    BY Zenon, HandlerTypes DEF Reply, ClerksInv
  <2> QED
    BY Zenon, <2>1, IssuedIs, HandlerTypes DEF Handler
<1>2. handler' \in Seq(Handler) /\ DOMAIN handler' = DOMAIN handler
  BY Zenon, HandlerTypes, HandlerReplaced DEF Reply
<1>3. UNCHANGED <<log, plog, buffer, allConfs, prevReq, applied, chans, sending, result, before>>
  BY Zenon DEF Reply, logVars, ctrlVars
<1>4. call' \in [Clerk -> {None, 0} \cup DOMAIN handler]
  BY ZenonT(40), <1>1 DEF Reply, TypeOK
<1>5. requestId' \in [Clerk -> Nat \ {0}]
  <2>1. requestId \in [Clerk -> Nat \ {0}] /\ requestId[c] + 1 \in Nat \ {0}
    BY <1>1 DEF TypeOK
  <2>2. \/ requestId' = [requestId EXCEPT ![c] = requestId[c] + 1]
        \/ requestId' = [requestId EXCEPT ![c] = requestId[c]]
    BY Zenon DEF Reply
  <2> QED
    BY ZenonT(40), <2>1, <2>2
<1>6. acked' \subseteq Entry
  BY Zenon, <1>1 DEF Reply, TypeOK
<1>7. answer' \in [Clerk -> {None} \cup Result]
  <2> DEFINE ok == call[c] = h /\ handler[h].res.err = ""
             a == IF ok /\ handler[h].com.op = "Query" THEN handler[h].res ELSE answer[c]
  <2>1. answer \in [Clerk -> {None} \cup Result] /\ a \in {None} \cup Result
    BY Zenon, <1>1 DEF TypeOK
  <2>2. answer' = [answer EXCEPT ![c] = a]
    BY ZenonT(40) DEF Reply
  <2> HIDE DEF a
  <2> QED
    BY Zenon, <2>1, <2>2
<1> QED
  BY ZenonT(40), <1>2, <1>3, <1>4, <1>5, <1>6, <1>7 DEF TypeOK

\* An applied entry keeps the types.
LEMMA ApplyType ==
  ASSUME TypeOK, NEW s \in Server, Apply(s)
  PROVE  TypeOK'
<1> DEFINE x == NextEntry(s)
           confs == IF IsNew(s, x) /\ x.op # "Query" THEN Append(allConfs[s], x) ELSE allConfs[s]
<1>1. applied[s] \in Nat /\ applied[s] + 1 \in 1..Len(log) /\ log \in Seq(Entry)
  BY SMTT(40) DEF Apply, Delivers, TypeOK
<1>2. x \in Entry /\ x.clerk \in Clerk /\ x.req \in Nat
  <2>1. x \in Entry
    BY <1>1 DEF NextEntry
  <2> QED
    BY ZenonT(40), <2>1 DEF Entry
<1>3. confs \in Seq(Entry)
  <2>1. allConfs[s] \in Seq(Entry)
    BY ZenonT(40) DEF TypeOK
  <2> QED
    BY <1>2, <2>1
<1>4. ResultOf(s, x, confs) \in Result
  BY ZenonT(40), <1>2, <1>3 DEF ResultOf, Result
<1>5. UNCHANGED <<log, plog, buffer, chans, handler, requestId, call, answer, acked, before>>
  BY ZenonT(40) DEF Apply, logVars, clerkVars
<1>6. allConfs' \in [Server -> Seq(Entry)]
  BY ZenonT(40), <1>3 DEF Apply, TypeOK
<1>7. prevReq' \in [Server -> [Clerk -> Nat]] /\ applied' \in [Server -> Nat]
  BY SMTT(40), <1>2 DEF Apply, TypeOK
<1>8. sending' \in [Server -> {None} \cup DOMAIN handler]
  BY Zenon DEF Apply, TypeOK
<1>9. result' \in [Server -> Result]
  BY ZenonT(40), <1>4, HandlerTypes DEF Apply, TypeOK
<1> QED
  BY ZenonT(40), <1>5, <1>6, <1>7, <1>8, <1>9 DEF TypeOK

\* A restart keeps the types.
LEMMA RestartType ==
  ASSUME TypeOK, NEW s \in Server, Restart(s)
  PROVE  TypeOK'
<1>1. UNCHANGED <<log, plog, requestId, answer, acked, before>>
  BY ZenonT(40) DEF Restart, LogRestart
<1>2. handler' \in Seq(Handler) /\ DOMAIN handler' = DOMAIN handler
  <2>1. \A h \in DOMAIN handler :
          (IF handler[h].srv = s THEN Ended ELSE handler[h]) \in Handler
    BY ZenonT(40), HandlerTypes
  <2>2. handler' = [h \in 1..Len(handler) |-> IF handler[h].srv = s THEN Ended ELSE handler[h]]
    BY ZenonT(40), HandlerTypes DEF Restart
  <2> QED
    BY <2>1, <2>2, HandlerTypes
<1>3. buffer' \in [Server -> Seq(Entry)] /\ allConfs' \in [Server -> Seq(Entry)]
  BY SMTT(40) DEF Restart, LogRestart, TypeOK
<1>4. prevReq' \in [Server -> [Clerk -> Nat]] /\ applied' \in [Server -> Nat]
  BY ZenonT(40) DEF Restart, TypeOK
<1>5. /\ DOMAIN chans' = Server
      /\ \A t \in Server : \A i \in DOMAIN chans'[t] : i \in Int /\ chans'[t][i] \in DOMAIN handler
  BY SMTT(40) DEF Restart, TypeOK
<1>6. sending' \in [Server -> {None} \cup DOMAIN handler] /\ result' \in [Server -> Result]
  BY ZenonT(40), HandlerTypes DEF Restart, TypeOK
<1>7. call' \in [Clerk -> {None, 0} \cup DOMAIN handler]
  BY ZenonT(40) DEF Restart, TypeOK
<1> QED
  BY ZenonT(40), <1>1, <1>2, <1>3, <1>4, <1>5, <1>6, <1>7 DEF TypeOK
-----------------------------------------------------------------------------
(* What a step may do to the clerks, the handlers and the log *)

\* Issued, Chosen and Answers of a value after the step.
IssuedNext(x) ==
    \E c \in Clerk : \E r \in 1..requestId'[c] :
        x = Cmd(c, r) /\ (r = requestId'[c] => call'[c] # None)

ChosenNext(x) == \E i \in 1..Len(log') : log'[i] = x

AnswersNext(x, res) ==
    /\ ChosenNext(x)
    /\ x.req = requestId'[x.clerk] /\ res.config # None => Holds(res.config, before'[x.clerk])

\* A reply: the clerk that still waits for it goes on, and its request is
\* chosen; any other reply changes nothing that matters.
LEMMA ReplyEffect ==
  ASSUME TypeOK, ClerksInv, ResultsInv, NEW h \in DOMAIN handler, Reply(h)
  PROVE  LET c == handler[h].com.clerk IN
         /\ c \in Clerk /\ handler[h].com \in Entry /\ Issued(handler[h].com)
         /\ \A d \in Clerk : d # c =>
              /\ call[d] # h /\ call'[d] = call[d]
              /\ requestId'[d] = requestId[d] /\ answer'[d] = answer[d]
         /\ \/ /\ call[c] = h /\ handler[h].com = Cmd(c, requestId[c])
               /\ Answers(handler[h].com, handler[h].res)
               /\ call'[c] = None /\ requestId'[c] = requestId[c] + 1
               /\ answer'[c] = answer[c] \/ answer'[c] = handler[h].res
               /\ \/ acked' = acked
                  \/ acked' = acked \cup {handler[h].com} /\ handler[h].com.op # "Query"
            \/ /\ requestId' = requestId /\ answer'[c] = answer[c] /\ acked' = acked
               /\ (call'[c] = 0 /\ call[c] = h) \/ (call'[c] = call[c] /\ call[c] # h)
<1> DEFINE c == handler[h].com.clerk
           ok == call[c] = h /\ handler[h].res.err = ""
<1>1. h \in 1..Len(handler) /\ h \in Nat /\ h # None
  BY ZenonT(40), HandlerTypes
<1>2. handler[h].pc = "reply"
  BY ZenonT(40) DEF Reply
<1>3. Issued(handler[h].com)
  BY ZenonT(40), <1>1, <1>2 DEF ClerksInv
<1>4. c \in Clerk /\ handler[h].com \in Entry
  BY ZenonT(40), <1>3, IssuedIs
<1>5. call \in [Clerk -> {None, 0} \cup DOMAIN handler] /\ DOMAIN requestId = Clerk
      /\ DOMAIN answer = Clerk
  BY ZenonT(40) DEF TypeOK
<1>6. ASSUME NEW d \in Clerk, d # c
      PROVE  /\ call[d] # h /\ call'[d] = call[d]
             /\ requestId'[d] = requestId[d] /\ answer'[d] = answer[d]
  <2>1. call[d] # h
    <3>1. call[d] = h => handler[h].com = Command(d)
      BY ZenonT(40) DEF ClerksInv
    <3>2. Command(d).clerk = d
      BY ZenonT(40) DEF Command
    <3> QED
      BY ZenonT(40), <1>6, <3>1, <3>2
  <2> QED
    BY Zenon, <1>5, <1>6, <2>1 DEF Reply
<1>7. CASE ok
  <2>1. handler[h].com = Cmd(c, requestId[c])
    BY Zenon, <1>4, <1>7 DEF ClerksInv, Command, Cmd
  <2>2. Answers(handler[h].com, handler[h].res)
    BY Zenon, <1>1, <1>2, <1>7 DEF ResultsInv
  <2>3. call'[c] = None /\ requestId'[c] = requestId[c] + 1
    BY Zenon, <1>4, <1>5, <1>7 DEF Reply
  <2>4. answer'[c] = answer[c] \/ answer'[c] = handler[h].res
    BY Zenon, <1>4, <1>5 DEF Reply
  <2>5. \/ acked' = acked
        \/ acked' = acked \cup {handler[h].com} /\ handler[h].com.op # "Query"
    BY ZenonT(40) DEF Reply
  <2> QED
    BY ZenonT(40), <1>3, <1>4, <1>6, <1>7, <2>1, <2>2, <2>3, <2>4, <2>5
<1>8. CASE ~ok
  <2>1. requestId' = requestId
    BY Zenon, <1>5, <1>8 DEF Reply, TypeOK
  <2>2. answer'[c] = answer[c] /\ acked' = acked
    BY ZenonT(40), <1>4, <1>5, <1>8 DEF Reply
  <2>3. (call'[c] = 0 /\ call[c] = h) \/ (call'[c] = call[c] /\ call[c] # h)
    <3>1. call' = [call EXCEPT ![c] = IF ok THEN None ELSE IF call[c] = h THEN 0 ELSE call[c]]
      BY Zenon DEF Reply
    <3>2. call'[c] = IF call[c] = h THEN 0 ELSE call[c]
      BY <1>4, <1>5, <1>8, <3>1, ZenonT(40)
    <3> QED
      BY ZenonT(40), <3>2
  <2> QED
    BY ZenonT(40), <1>3, <1>4, <1>6, <2>1, <2>2, <2>3
<1> QED
  BY Zenon, <1>7, <1>8

\* What a clerk has called stays called, as long as no call is forgotten.
LEMMA IssuedKept ==
  ASSUME UNCHANGED requestId,
         \A c \in Clerk : call[c] # None => call'[c] # None,
         NEW x, Issued(x)
  PROVE  IssuedNext(x)
  BY ZenonT(40) DEF Issued, IssuedNext

\* No step forgets a request.
LEMMA IssuedStays ==
  ASSUME CInv, Next, NEW x, Issued(x)
  PROVE  IssuedNext(x)
<1> USE DEF CInv
<1>0. None \notin Nat
  BY ZenonT(40), CtrlerAssumption
<1>1. CASE \E c \in Clerk : Invoke(c)
  <2>1. UNCHANGED requestId /\ \A c \in Clerk : call[c] # None => call'[c] # None
    BY ZenonT(40), <1>0, <1>1 DEF Invoke, TypeOK
  <2> QED
    BY ZenonT(40), <2>1, IssuedKept
<1>2. CASE \E c \in Clerk, s \in Server : Request(c, s)
  <2>1. UNCHANGED requestId /\ \A c \in Clerk : call[c] # None => call'[c] # None
    <3>1. Len(handler) + 1 \in Nat
      BY SMTT(40), HandlerTypes
    <3> QED
      BY ZenonT(40), <1>0, <1>2, <3>1 DEF Request, TypeOK
  <2> QED
    BY ZenonT(40), <2>1, IssuedKept
<1>3. CASE \E s \in Server : Restart(s)
  <2>1. UNCHANGED requestId /\ \A c \in Clerk : call[c] # None => call'[c] # None
    BY SMTT(40), <1>0, <1>3 DEF Restart, TypeOK
  <2> QED
    BY ZenonT(40), <2>1, IssuedKept
<1>4. CASE \E h \in DOMAIN handler : Reply(h)
  <2>1. PICK h \in DOMAIN handler : Reply(h)
    BY ZenonT(40), <1>4
  <2>2. PICK c \in Clerk : \E r \in 1..requestId[c] :
          x = Cmd(c, r) /\ (r = requestId[c] => call[c] # None)
    BY ZenonT(40) DEF Issued
  <2>3. PICK r \in 1..requestId[c] : x = Cmd(c, r) /\ (r = requestId[c] => call[c] # None)
    BY ZenonT(40), <2>2
  <2>4. \/ requestId'[c] = requestId[c] + 1
        \/ requestId'[c] = requestId[c] /\ (call'[c] = 0 \/ call'[c] = call[c])
    BY ZenonT(40), <2>1, ReplyEffect
  <2>5. requestId[c] \in Nat
    BY ZenonT(40) DEF TypeOK
  <2>6. r \in 1..requestId'[c] /\ (r = requestId'[c] => call'[c] # None)
    BY SMTT(40), <1>0, <2>3, <2>4, <2>5
  <2> QED
    BY Zenon, <2>3, <2>6 DEF IssuedNext
<1>5. CASE UNCHANGED <<requestId, call>>
  BY ZenonT(40), <1>5 DEF Issued, IssuedNext
<1> QED
  BY Zenon, <1>1, <1>2, <1>3, <1>4, <1>5
     DEF Next, LogStep, HandlerStep, Propose, Register, Receive, TimeOut, Remove, Apply, clerkVars

\* The log grows by one request at a time.
LEMMA LogGrows ==
  ASSUME CInv, Next
  PROVE  \/ log' = log
         \/ \E x \in Entry : Issued(x) /\ log' = Append(log, x)
<1> USE DEF CInv
<1>1. CASE LogStep
  <2>1. \/ log' = log
        \/ \E s \in Server : \E i \in 1..Len(plog[s]) : log' = Append(log, plog[s][i])
    BY ZenonT(40), <1>1, LogStepEffect DEF LogStep
  <2>2. \A s \in Server : \A i \in 1..Len(plog[s]) : Issued(plog[s][i]) /\ plog[s][i] \in Entry
    BY ZenonT(40), IssuedIs DEF ClerksInv
  <2> QED
    BY ZenonT(40), <2>1, <2>2
<1>2. CASE UNCHANGED log
  BY ZenonT(40), <1>2
<1> QED
  BY ZenonT(40), <1>1, <1>2 DEF Next, HandlerStep, Invoke, Request, Reply, Propose, ProposeAccept,
     ProposePrepare, Register, Receive, TimeOut, Remove, Apply, Restart, LogRestart, logVars

\* What is chosen stays chosen, at its place.
LEMMA ChosenStays ==
  ASSUME CInv, Next
  PROVE  /\ Len(log) \in Nat /\ Len(log') \in Nat /\ Len(log) <= Len(log')
         /\ \A i \in 1..Len(log) : log'[i] = log[i]
         /\ \A x : Chosen(x) => ChosenNext(x)
<1>1. log \in Seq(Entry)
  BY Zenon DEF CInv, TypeOK
<1>2. /\ Len(log) \in Nat /\ Len(log') \in Nat /\ Len(log) <= Len(log')
      /\ \A i \in 1..Len(log) : log'[i] = log[i]
  BY SMTT(40), <1>1, LogGrows
<1> QED
  BY SMTT(40), <1>2 DEF Chosen, ChosenNext

\* Until its reply, a handler keeps its server and its request, and others
\* are left alone.
LEMMA HandlersKept ==
  ASSUME TypeOK, ClerksInv, NEW h \in DOMAIN handler,
         Propose(h) \/ Register(h) \/ Receive(h) \/ TimeOut(h) \/ Remove(h)
  PROVE  /\ DOMAIN handler' = DOMAIN handler /\ Len(handler') = Len(handler)
         /\ \A k \in DOMAIN handler : k # h => handler'[k] = handler[k]
         /\ handler[h].pc # "end" /\ handler'[h].pc # "end"
         /\ handler'[h].srv = handler[h].srv /\ handler'[h].com = handler[h].com
<1>0. handler[h] \in Handler /\ handler \in Seq(Handler)
  BY Zenon, HandlerTypes DEF TypeOK
<1>1. CASE Propose(h)
  <2> DEFINE i == IndexAt(handler[h].srv)
  <2>1. handler[h].pc = "propose"
    BY ZenonT(40), <1>1 DEF Propose
  <2>2. CASE handler' = [handler EXCEPT ![h].pc = "register", ![h].idx = i]
    <3> HIDE DEF i
    <3> DEFINE r == [handler[h] EXCEPT !.pc = "register", !.idx = i]
    <3>1. handler' = [handler EXCEPT ![h] = r]
      BY Zenon, <2>2 DEF TypeOK
    <3>2. r.pc = "register" /\ r.srv = handler[h].srv /\ r.com = handler[h].com
      BY ZenonT(40), <1>0 DEF Handler
    <3> HIDE DEF r
    <3> QED
      BY SMTT(40), <1>0, <2>1, <3>1, <3>2
  <2>3. CASE handler' = [handler EXCEPT ![h] = NotLeader(h)]
    <3>1. /\ NotLeader(h).srv = handler[h].srv /\ NotLeader(h).com = handler[h].com
          /\ NotLeader(h).pc = "reply"
      BY ZenonT(40), <1>0 DEF NotLeader, Handler
    <3> QED
      BY <1>0, <2>1, <2>3, <3>1
  <2> QED
    BY ZenonT(40), <1>1, <2>2, <2>3 DEF Propose
<1>2. CASE Register(h) \/ Receive(h) \/ TimeOut(h) \/ Remove(h)
  <2>1. PICK pc \in {"select", "remove", "reply"}, res \in Result :
          handler' = [handler EXCEPT ![h] = [handler[h] EXCEPT !.pc = pc, !.res = res]]
    BY Zenon, <1>2, WaitEffect
  <2>2. handler[h].pc # "end"
    BY Zenon, <1>2, WaitEffect
  <2> DEFINE r == [handler[h] EXCEPT !.pc = pc, !.res = res]
  <2>3. r.pc = pc /\ r.srv = handler[h].srv /\ r.com = handler[h].com
    BY ZenonT(40), <1>0 DEF Handler
  <2>4. handler' = [handler EXCEPT ![h] = r]
    BY ZenonT(40), <2>1
  <2> HIDE DEF r
  <2> QED
    BY <1>0, <2>2, <2>3, <2>4
<1> QED
  BY ZenonT(40), <1>1, <1>2

\* What a step leaves of a handler: it has ended, or it is at its server
\* with its request, and what it answers is unchanged or comes from Request,
\* Propose or the wait.
LEMMA HandlersStep ==
  ASSUME CInv, Next
  PROVE  \A h \in 1..Len(handler') : handler'[h].pc # "end" =>
           \/ /\ h \in 1..Len(handler) /\ handler[h].pc # "end"
              /\ handler'[h].srv = handler[h].srv /\ handler'[h].com = handler[h].com
           \/ \E c \in Clerk, s \in Server :
                /\ call[c] # None /\ handler'[h].srv = s /\ handler'[h].com = Command(c)
<1> USE DEF CInv
<1>1. CASE UNCHANGED handler
  BY ZenonT(40), <1>1
<1>2. ASSUME NEW c \in Clerk, NEW s \in Server, Request(c, s)
      PROVE  \A h \in 1..Len(handler') : handler'[h].pc # "end" =>
               \/ /\ h \in 1..Len(handler) /\ handler[h].pc # "end"
                  /\ handler'[h].srv = handler[h].srv /\ handler'[h].com = handler[h].com
               \/ call[c] # None /\ handler'[h].srv = s /\ handler'[h].com = Command(c)
  <2> DEFINE r == [srv |-> s, com |-> Command(c), idx |-> -1, res |-> Empty,
                   pc |-> IF prevReq[s][c] >= requestId[c] THEN "reply" ELSE "propose"]
  <2>1. handler' = Append(handler, r) /\ call[c] # None
    BY Zenon, <1>2 DEF Request
  <2>2. r.srv = s /\ r.com = Command(c)
    BY ZenonT(40)
  <2> HIDE DEF r
  <2>3. handler \in Seq(Handler)
    BY ZenonT(40) DEF TypeOK
  <2> QED
    BY SMTT(40), <2>1, <2>2, <2>3
<1>3. ASSUME NEW h \in DOMAIN handler, HandlerStep(h)
      PROVE  \A k \in 1..Len(handler') : handler'[k].pc # "end" =>
               /\ k \in 1..Len(handler) /\ handler[k].pc # "end"
               /\ handler'[k].srv = handler[k].srv /\ handler'[k].com = handler[k].com
  <2>0. handler[h] \in Handler /\ handler \in Seq(Handler) /\ DOMAIN handler = 1..Len(handler)
    BY ZenonT(40), HandlerTypes DEF TypeOK
  <2>1. CASE Reply(h)
    <3>1. handler' = [handler EXCEPT ![h] = Ended] /\ Ended.pc = "end"
      BY ZenonT(40), <2>1 DEF Reply, Ended
    <3> QED
      BY <2>0, <3>1
  <2>2. CASE Propose(h) \/ Register(h) \/ Receive(h) \/ TimeOut(h) \/ Remove(h)
    BY ZenonT(40), <2>0, <2>2, HandlersKept
  <2> QED
    BY ZenonT(40), <1>3, <2>1, <2>2 DEF HandlerStep
<1>4. ASSUME NEW s \in Server, Restart(s)
      PROVE  \A h \in 1..Len(handler') : handler'[h].pc # "end" =>
               h \in 1..Len(handler) /\ handler'[h] = handler[h]
  <2>1. handler' = [h \in 1..Len(handler) |-> IF handler[h].srv = s THEN Ended ELSE handler[h]]
    BY ZenonT(40), <1>4, HandlerTypes DEF Restart
  <2>2. Ended.pc = "end"
    BY ZenonT(40) DEF Ended
  <2>3. DOMAIN handler' = 1..Len(handler')
    <3>1. TypeOK'
      BY ZenonT(40), <1>4, RestartType
    <3>2. handler' \in Seq(Handler)
      BY Zenon, <3>1 DEF TypeOK
    <3> QED
      BY <3>2
  <2> QED
    BY ZenonT(40), <2>1, <2>2, <2>3
<1> QED
  BY ZenonT(40), <1>1, <1>2, <1>3, <1>4 DEF Next, LogStep, Invoke, Apply
=============================================================================
