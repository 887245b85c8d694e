------------------------- MODULE SequencePaxosRounds -------------------------
(***************************************************************************)
(* Proofs that the rounds of SequencePaxos are safe: IInv is inductive,    *)
(* and PromisesKept, LeaderFenced, FreshRounds, RoundsNeverRegress and     *)
(* DecisionBacked follow from it, for any number of peers, any commands    *)
(* and elections, any number of crashes, and a network that loses, delays  *)
(* and reorders.                                                           *)
(***************************************************************************)
EXTENDS SequencePaxosSteps, FiniteSetTheorems

\* Counting one more promise: its sender is bound by it.
LEMMA PromiseCounted ==
  ASSUME IInv, NEW src \in Server, NEW s \in Server, NEW i \in Deliverable(src, s),
         PromiseGuard(s, net[src][s][i])
  PROVE  /\ DOMAIN WithPromise(s, src, net[src][s][i]) = DOMAIN promises[s] \cup {src}
         /\ \A f \in DOMAIN WithPromise(s, src, net[src][s][i]) :
              f \in Server /\ Leq(currentRnd[s], os[f].PromisedRnd)
         /\ net[src][s][i].N = currentRnd[s]
<1> DEFINE m == net[src][s][i]
<1>1. /\ TypeOK /\ m \in Message /\ m.type = "Promise" /\ m.N = currentRnd[s]
      /\ m \in Range(net[src][s])
  BY ZenonT(40), Taken DEF IInv, PromiseGuard
<1>2. Leq(currentRnd[s], os[src].PromisedRnd)
  BY ZenonT(40), <1>1 DEF IInv, InFlight, MessageInv
<1>3. \A f \in DOMAIN promises[s] : f \in Server /\ Leq(currentRnd[s], os[f].PromisedRnd)
  BY ZenonT(40), <1>1, PeerTypes DEF IInv, PeerInv, Counted
<1> HIDE DEF m
<1>4. DOMAIN WithPromise(s, src, m) = DOMAIN promises[s] \cup {src}
  BY Zenon, <1>1, WithPromiseTypes
<1> QED BY ZenonT(40), <1>1, <1>2, <1>3, <1>4 DEF m

\* More promises of a peer that has one majority are a majority.
LEMMA MoreIsMajority ==
  ASSUME NEW Q \in SUBSET Server, NEW R \in SUBSET Server, Q \subseteq R, IsMajority(Q)
  PROVE  IsMajority(R)
<1>1. IsFiniteSet(Server)
  BY NumServersAssumption, FS_Interval DEF Server
<1>2. IsFiniteSet(R) /\ Cardinality(Q) <= Cardinality(R)
  BY ZenonT(40), <1>1, FS_Subset
<1>3. IsFiniteSet(Q)
  BY ZenonT(40), <1>1, FS_Subset
<1>4. Cardinality(Q) \in Nat /\ Cardinality(R) \in Nat
  BY ZenonT(40), <1>2, <1>3, FS_CardinalityType
<1> QED BY <1>2, <1>4, NumServersAssumption DEF IsMajority, Majority

\* A promise that changes nobody's round: it comes before the majority, or
\* late, or to a peer that leads no longer.
LEMMA PromiseQuietInv ==
  ASSUME IInv, TypeOK', NEW src \in Server, NEW s \in Server, NEW i \in Deliverable(src, s),
         PromiseRecorded(src, s, i) \/ PromiseLate(src, s, i)
  PROVE  IInv' /\ Grown
<1> DEFINE m == net[src][s][i]
           M == Kind("AcceptSync", m.N) \cup Kind("Decide", m.N)
<1>1. TypeOK /\ PeerInv(s) /\ PromiseGuard(s, m)
  BY ZenonT(40) DEF IInv, PromiseRecorded, PromiseLate
<1>2. os' = os /\ disk' = os'
  BY DEF IInv, TypeOK, PromiseRecorded, PromiseLate
<1>3. Grown
  BY <1>1, <1>2, PeerTypes, LeqRefl, GrownAt
<1>4. \A t \in Server \ {s} : Kept(t)
  BY ZenonT(40), <1>1, <1>2, PromisesOKType DEF PromiseRecorded, PromiseLate, TypeOK, Kept
<1>5. /\ state'[s] = state[s] /\ currentRnd'[s] = currentRnd[s] /\ accepted'[s] = accepted[s]
      /\ promises'[s] = WithPromise(s, src, m)
  BY ZenonT(40), <1>1, PromisesOKType DEF PromiseRecorded, PromiseLate, TypeOK
<1>6. Added(net', s, M)
  <2>1. CASE PromiseLate(src, s, i)
    BY ZenonT(40), <1>1, <2>1, PromiseLateSends
  <2>2. CASE PromiseRecorded(src, s, i)
    BY ZenonT(40), <1>1, <2>2, Taken, ShrunkAdds DEF PromiseRecorded
  <2> QED BY ZenonT(40), <2>1, <2>2
<1>7. m.N \in Ballot /\ Leq(m.N, os'[m.N.Pid].L)
  BY ZenonT(40), <1>1, <1>3, RoundOwned DEF RoundMessage, PromiseGuard
<1>8. /\ DOMAIN promises'[s] = DOMAIN promises[s] \cup {src}
      /\ \A f \in DOMAIN promises'[s] : f \in Server /\ Leq(currentRnd[s], os[f].PromisedRnd)
  BY ZenonT(40), <1>1, <1>5, PromiseCounted
<1> HIDE DEF m
<1>9. PeerInv(s)'
  <2>1. /\ Leq(os[s].AcceptedRnd, os[s].PromisedRnd)'
        /\ Owned(os[s].PromisedRnd)' /\ Owned(os[s].AcceptedRnd)' /\ Owned(currentRnd[s])'
    BY ZenonT(40), <1>1, <1>2, <1>5 DEF PeerInv, Owned
  <2>2. RoundState(s)'
    <3>1. IsMajority(DOMAIN promises[s]) => IsMajority(DOMAIN promises'[s])
      BY ZenonT(40), <1>1, <1>8, MoreIsMajority, PeerTypes
    <3> QED BY ZenonT(40), <1>1, <1>2, <1>5, <3>1 DEF PeerInv, RoundState
  <2>3. Counted(s)'
    BY ZenonT(40), <1>1, <1>2, <1>5, <1>8 DEF PeerInv, Counted
  <2> QED BY ZenonT(40), <2>1, <2>2, <2>3 DEF PeerInv
<1>10. \A x \in M : MessageInv(s, x)'
  <2>1. \A n \in Ballot : Leq(n, os'[n.Pid].L) =>
          \A x \in Kind("AcceptSync", n) \cup Kind("Decide", n) : MessageInv(s, x)'
    BY ZenonT(40), KindInv
  <2> QED BY ZenonT(40), <1>7, <2>1
<1> QED BY ZenonT(40), <1>2, <1>3, <1>4, <1>6, <1>9, <1>10, StepInv DEF Step

\* The promise that completes a majority.
LEMMA PromiseMajorityInv ==
  ASSUME IInv, TypeOK', NEW src \in Server, NEW s \in Server, NEW i \in Deliverable(src, s),
         PromiseMajority(src, s, i)
  PROVE  IInv' /\ Grown
<1> DEFINE m == net[src][s][i]
           ps == WithPromise(s, src, m)
<1>1. /\ TypeOK /\ PeerInv(s) /\ PromiseGuard(s, m) /\ state[s].role = LEADER
      /\ IsMajority(DOMAIN ps) /\ PromiseMajorityGuard(src, s, i)
  BY DEF IInv, PromiseMajority, PromiseMajorityGuard, In
<1>2. PICK max \in MaxPromises(ps) :
        /\ os' = [os EXCEPT ![s].Log = SyncedLog(s, max), ![s].AcceptedRnd = currentRnd[s]]
        /\ accepted' = [accepted EXCEPT ![s][s] = Len(SyncedLog(s, max))]
        /\ net' = SendFrom(Without(src, s, i), s, AcceptSyncAll(s, ps, max, m.N))
  BY ZenonT(40) DEF PromiseMajority
<1>3. /\ os'[s] = [os[s] EXCEPT !.Log = SyncedLog(s, max), !.AcceptedRnd = currentRnd[s]]
      /\ \A t \in Server \ {s} : os'[t] = os[t]
  BY ZenonT(40), <1>1, <1>2 DEF TypeOK
<1>4. /\ os'[s].L = os[s].L /\ os'[s].PromisedRnd = os[s].PromisedRnd
      /\ os'[s].AcceptedRnd = os[s].PromisedRnd /\ os'[s].DecidedIdx = os[s].DecidedIdx
  <2>1. currentRnd[s] = os[s].PromisedRnd
    BY ZenonT(40), <1>1 DEF PeerInv, RoundState
  <2> QED BY ZenonT(40), <1>1, <1>3, <2>1, PeerTypes DEF LogState
<1>5. disk' = os'
  BY Zenon, <1>3, SavedKept DEF PromiseMajority
<1>6. Grown
  <2>1. /\ Leq(os[s].L, os'[s].L) /\ Leq(os[s].PromisedRnd, os'[s].PromisedRnd)
        /\ Leq(os[s].AcceptedRnd, os'[s].AcceptedRnd) /\ os[s].DecidedIdx <= os'[s].DecidedIdx
    <3>1. /\ os[s].L \in Ballot /\ os[s].PromisedRnd \in Ballot /\ os[s].DecidedIdx \in Nat
      BY ZenonT(40), <1>1, PeerTypes
    <3>2. Leq(os[s].L, os[s].L) /\ Leq(os[s].PromisedRnd, os[s].PromisedRnd)
      BY ZenonT(40), <3>1, LeqRefl
    <3>3. Leq(os[s].AcceptedRnd, os[s].PromisedRnd)
      BY ZenonT(40), <1>1 DEF PeerInv
    <3> QED BY <1>4, <3>1, <3>2, <3>3
  <2> QED BY ZenonT(40), <1>1, <1>3, <2>1, GrownAt
<1>7. /\ state' = [state EXCEPT ![s] = [role |-> LEADER, phase |-> ACCEPT]]
      /\ currentRnd' = currentRnd /\ promises' = [promises EXCEPT ![s] = ps]
  BY ZenonT(40) DEF PromiseMajority
<1>8. Added(net', s, Kind("AcceptSync", m.N))
  BY ZenonT(40), <1>1, <1>2, AcceptSyncAllSends
<1>9. m.N \in Ballot /\ Leq(m.N, os'[m.N.Pid].L)
  BY ZenonT(40), <1>1, <1>6, RoundOwned DEF RoundMessage, PromiseGuard
<1>10. \A f \in DOMAIN ps : f \in Server /\ Leq(currentRnd[s], os[f].PromisedRnd)
  BY Zenon, <1>1, PromiseCounted
<1> HIDE DEF m, ps
<1>11. \A t \in Server \ {s} : Kept(t)
  BY ZenonT(40), <1>1, <1>2, <1>3, <1>7, PromisesOKType DEF TypeOK, Kept
<1>12. /\ state'[s] = [role |-> LEADER, phase |-> ACCEPT] /\ promises'[s] = ps
       /\ currentRnd'[s] = os[s].PromisedRnd /\ currentRnd[s] = os[s].PromisedRnd
       /\ \A f \in Server : f # s => accepted'[s][f] = accepted[s][f]
  <2>1. currentRnd[s] = os[s].PromisedRnd
    BY ZenonT(40), <1>1 DEF PeerInv, RoundState
  <2> QED BY ZenonT(40), <1>1, <1>2, <1>7, <2>1, PromisesOKType DEF TypeOK
<1>13. PeerInv(s)'
  <2>1. \A r \in Ballot : Owned(r) => Leq(r, os'[r.Pid].L)
    BY ZenonT(40), <1>1, <1>6, OwnedKept DEF Owned
  <2>2. /\ Leq(os[s].AcceptedRnd, os[s].PromisedRnd)'
        /\ Owned(os[s].PromisedRnd)' /\ Owned(os[s].AcceptedRnd)' /\ Owned(currentRnd[s])'
    BY ZenonT(40), <1>1, <1>4, <1>12, <2>1, PeerTypes, LeqRefl DEF PeerInv, Owned
  <2>3. RoundState(s)'
    BY ZenonT(40), <1>1, <1>4, <1>12 DEF RoundState
  <2>4. \A f \in DOMAIN promises'[s] : Leq(currentRnd'[s], os'[f].PromisedRnd)
    BY ZenonT(40), <1>1, <1>6, <1>10, <1>12, PeerTypes, AtLeastKept
  <2>5. ASSUME NEW f \in Server, accepted'[s][f] > 0
        PROVE  Leq(currentRnd'[s], os'[f].AcceptedRnd)
    <3>1. CASE f = s
      BY ZenonT(40), <1>1, <1>4, <1>12, <3>1, PeerTypes, LeqRefl
    <3>2. CASE f # s
      BY ZenonT(40), <1>1, <1>6, <1>12, <2>5, <3>2, PeerTypes, AtLeastKept DEF PeerInv, Counted
    <3> QED BY ZenonT(40), <3>1, <3>2
  <2> QED BY ZenonT(40), <2>2, <2>3, <2>4, <2>5 DEF PeerInv, Counted
<1>14. \A x \in Kind("AcceptSync", m.N) : MessageInv(s, x)'
  <2>1. \A n \in Ballot : Leq(n, os'[n.Pid].L) =>
          \A x \in Kind("AcceptSync", n) : MessageInv(s, x)'
    BY ZenonT(40), KindInv
  <2> QED BY ZenonT(40), <1>9, <2>1
<1> QED BY ZenonT(40), <1>5, <1>6, <1>8, <1>11, <1>13, <1>14, StepInv DEF Step

\* Counting one more acknowledgement: its sender is bound by it.
LEMMA AckCounted ==
  ASSUME IInv, NEW src \in Server, NEW s \in Server, NEW i \in Deliverable(src, s),
         AcceptedGuard(s, net[src][s][i]),
         NEW f \in Server, WithAccepted(s, src, net[src][s][i].LogIdx)[f] > 0
  PROVE  Leq(currentRnd[s], os[f].AcceptedRnd)
<1> DEFINE m == net[src][s][i]
<1>1. /\ TypeOK /\ PeerInv(s) /\ m.type = "Accepted" /\ m.N = os[s].PromisedRnd
      /\ state[s].role = LEADER /\ m \in Range(net[src][s])
  BY SMTT(30), Taken DEF IInv, AcceptedGuard, In
<1>2. m.N = currentRnd[s]
  BY ZenonT(40), <1>1 DEF PeerInv, RoundState
<1>3. CASE f = src
  BY ZenonT(40), <1>1, <1>2, <1>3 DEF IInv, InFlight, MessageInv
<1>4. CASE f # src
  <2>1. accepted[s][f] > 0
    BY ZenonT(40), <1>1, <1>4 DEF WithAccepted, TypeOK
  <2> QED BY ZenonT(40), <1>1, <2>1 DEF PeerInv, Counted
<1> QED BY ZenonT(40), <1>3, <1>4

\* A peer counted for an entry that is not decided yet has acknowledged some
\* entry, so it has accepted in the leader's round.
LEMMA AckPast ==
  ASSUME IInv, NEW src \in Server, NEW s \in Server, NEW i \in Deliverable(src, s),
         AcceptedGuard(s, net[src][s][i]), net[src][s][i].LogIdx > os[s].DecidedIdx,
         NEW f \in Server,
         WithAccepted(s, src, net[src][s][i].LogIdx)[f] >= net[src][s][i].LogIdx
  PROVE  Leq(currentRnd[s], os[f].AcceptedRnd)
<1> DEFINE n == net[src][s][i].LogIdx
           acc == WithAccepted(s, src, n)
<1>1. TypeOK /\ n \in Nat /\ os[s].DecidedIdx \in Nat
  BY ZenonT(40), Taken, MessageFields, PeerTypes DEF IInv, AcceptedGuard
<1>2. acc[f] \in Nat
  BY <1>1 DEF WithAccepted, TypeOK
<1>3. acc[f] >= n /\ n > os[s].DecidedIdx
  BY ZenonT(40)
<1>4. acc[f] > 0
  <2> HIDE DEF acc, n
  <2> QED BY <1>1, <1>2, <1>3
<1> QED BY ZenonT(40), <1>4, AckCounted

\* AcceptedHandler counts an acknowledgement its sender has on disk, and keeps
\* the invariant.
LEMMA AcceptedInv ==
  ASSUME IInv, TypeOK', NEW src \in Server, NEW s \in Server, NEW i \in Deliverable(src, s),
         AcceptedRecorded(src, s, i) \/ AcceptedDecides(src, s, i)
  PROVE  IInv' /\ Grown
<1> DEFINE m == net[src][s][i]
<1>1. /\ TypeOK /\ PeerInv(s) /\ AcceptedGuard(s, m) /\ m.LogIdx \in Nat
      /\ os[s].DecidedIdx \in Nat
  BY ZenonT(40), Taken, MessageFields, PeerTypes DEF IInv, AcceptedRecorded, AcceptedDecides, AcceptedGuard
<1>2. /\ \/ os' = os /\ disk' = disk
         \/ /\ os' = [os EXCEPT ![s].DecidedIdx = m.LogIdx] /\ persist(s)
            /\ m.LogIdx > os[s].DecidedIdx
      /\ accepted' = [accepted EXCEPT ![s] = WithAccepted(s, src, m.LogIdx)]
      /\ currentRnd' = currentRnd /\ promises' = promises /\ state' = state
  BY ZenonT(40) DEF AcceptedRecorded, AcceptedDecides, Decides
<1>3. \A t \in Server \ {s} : os'[t] = os[t]
  BY ZenonT(40), <1>1, <1>2 DEF TypeOK
<1>4. /\ os'[s].L = os[s].L /\ os'[s].PromisedRnd = os[s].PromisedRnd
      /\ os'[s].AcceptedRnd = os[s].AcceptedRnd /\ os[s].DecidedIdx <= os'[s].DecidedIdx
  <2>1. CASE os' = os
    BY <1>1, <2>1
  <2>2. CASE os' = [os EXCEPT ![s].DecidedIdx = m.LogIdx] /\ m.LogIdx > os[s].DecidedIdx
    <3>1. os'[s] = [os[s] EXCEPT !.DecidedIdx = m.LogIdx]
      BY ZenonT(40), <1>1, <2>2 DEF TypeOK
    <3> QED BY <1>1, <2>2, <3>1, PeerTypes DEF LogState
  <2> QED BY ZenonT(40), <1>2, <2>1, <2>2
<1>5. disk' = os'
  BY ZenonT(40), <1>2, <1>3, SavedKept DEF IInv
<1>6. Grown
  <2>1. /\ Leq(os[s].L, os'[s].L) /\ Leq(os[s].PromisedRnd, os'[s].PromisedRnd)
        /\ Leq(os[s].AcceptedRnd, os'[s].AcceptedRnd)
    BY ZenonT(40), <1>1, <1>4, LeqRefl, PeerTypes
  <2> QED BY ZenonT(40), <1>1, <1>3, <1>4, <2>1, GrownAt
<1>7. \A t \in Server \ {s} : Kept(t)
  BY ZenonT(40), <1>1, <1>2, <1>3 DEF TypeOK, Kept
<1>8. accepted'[s] = WithAccepted(s, src, m.LogIdx)
  BY ZenonT(40), <1>1, <1>2 DEF TypeOK
<1>9. \A f \in Server : accepted'[s][f] > 0 => Leq(currentRnd[s], os[f].AcceptedRnd)
  BY ZenonT(40), <1>1, <1>8, AckCounted
<1>10. PeerInv(s)'
  <2>1. \A r \in Ballot : Owned(r) => Leq(r, os'[r.Pid].L)
    BY ZenonT(40), <1>1, <1>6, OwnedKept DEF Owned
  <2>2. /\ Leq(os[s].AcceptedRnd, os[s].PromisedRnd)'
        /\ Owned(os[s].PromisedRnd)' /\ Owned(os[s].AcceptedRnd)' /\ Owned(currentRnd[s])'
    BY ZenonT(40), <1>1, <1>2, <1>4, <2>1, PeerTypes DEF PeerInv, Owned
  <2>3. RoundState(s)'
    BY ZenonT(40), <1>1, <1>2, <1>4 DEF PeerInv, RoundState
  <2>4. \A f \in DOMAIN promises'[s] : Leq(currentRnd'[s], os'[f].PromisedRnd)
    BY ZenonT(40), <1>1, <1>2, <1>6, PeerTypes, AtLeastKept DEF PeerInv, Counted
  <2>5. \A f \in Server : accepted'[s][f] > 0 => Leq(currentRnd'[s], os'[f].AcceptedRnd)
    BY ZenonT(40), <1>1, <1>2, <1>6, <1>9, PeerTypes, AtLeastKept
  <2> QED BY ZenonT(40), <2>2, <2>3, <2>4, <2>5 DEF PeerInv, Counted
<1>11. Added(net', s, Kind("Decide", currentRnd[s]))
  <2>1. CASE AcceptedDecides(src, s, i)
    BY ZenonT(40), <1>1, <2>1, AcceptedDecidesSends
  <2>2. CASE AcceptedRecorded(src, s, i)
    BY ZenonT(40), <1>1, <2>2, Taken, ShrunkAdds DEF AcceptedRecorded
  <2> QED BY ZenonT(40), <2>1, <2>2
<1>12. \A x \in Kind("Decide", currentRnd[s]) : MessageInv(s, x)'
  <2>1. currentRnd[s] \in Ballot /\ Leq(currentRnd[s], os'[currentRnd[s].Pid].L)
    BY ZenonT(40), <1>1, <1>6, PeerTypes, RoundOwned
  <2>2. \A n \in Ballot : Leq(n, os'[n.Pid].L) => \A x \in Kind("Decide", n) : MessageInv(s, x)'
    BY Zenon, KindInv
  <2> QED BY ZenonT(40), <2>1, <2>2
<1> QED BY ZenonT(40), <1>5, <1>6, <1>7, <1>10, <1>11, <1>12, StepInv DEF Step
-----------------------------------------------------------------------------
(* IInv is an invariant. *)
-----------------------------------------------------------------------------
\* The first state satisfies IInv.
LEMMA IInvInit == Init => IInv
<1> SUFFICES ASSUME Init PROVE IInv
  BY ZenonT(40)
<1>1. TypeOK /\ disk = os
  BY ZenonT(40), TypeInit DEF Init
<1>2. /\ ZeroBallot \in Ballot /\ ZeroBallot.Pid \in Server
      /\ \A s \in Server : os[s].L = ZeroBallot /\ os[s].PromisedRnd = ZeroBallot
                           /\ os[s].AcceptedRnd = ZeroBallot
  BY NumServersAssumption DEF Init, ZeroState, ZeroBallot, Ballot, Server
<1>3. ASSUME NEW s \in Server PROVE PeerInv(s)
  <2>1. /\ currentRnd[s] = ZeroBallot /\ promises[s] = <<>>
        /\ state[s] = [role |-> FOLLOWER, phase |-> PREPARE]
    BY ZenonT(40) DEF Init
  <2>2. Leq(ZeroBallot, ZeroBallot)
    BY ZenonT(40), <1>2, LeqRefl
  <2>3. RoundState(s) /\ Counted(s)
    BY <2>1, NoPromises DEF RoundState, Counted, LEADER, FOLLOWER, PREPARE, ACCEPT
  <2> QED BY ZenonT(40), <1>2, <2>1, <2>2, <2>3 DEF PeerInv, Owned
<1>4. \A a, b \in Server : net[a][b] = <<>>
  BY ZenonT(40) DEF Init
<1>5. \A x : x \notin Range(<<>>)
  BY DEF Range
<1> QED BY ZenonT(40), <1>1, <1>3, <1>4, <1>5 DEF IInv, InFlight

\* Every step preserves IInv, and no peer forgets anything in it.
LEMMA IInvStep == IInv /\ [Next]_vars => IInv' /\ Grown
<1> SUFFICES ASSUME IInv, [Next]_vars PROVE IInv' /\ Grown
  BY ZenonT(40)
<1>1. TypeOK'
  BY ZenonT(40), TypeStep DEF IInv
<1>2. ASSUME NEW s \in Server, NEW n \in Elected,
             FollowLeader(s, n) \/ BecomeLeader(s, n) \/ BecomeLeaderThenCrash(s, n)
      PROVE  IInv' /\ Grown
  BY ZenonT(40), <1>1, <1>2, FollowLeaderInv, BecomeLeaderInv, LeaderCrashInv
<1>3. ASSUME NEW s \in Server, NEW c \in Command, ProposeBuffer(s, c) \/ ProposeAppend(s, c)
      PROVE  IInv' /\ Grown
  BY ZenonT(40), <1>1, <1>3, SignalInv, ProposeAppendInv
<1>4. ASSUME NEW src \in Server, NEW s \in Server, NEW i \in Deliverable(src, s),
             Handle(src, s, i)
      PROVE  IInv' /\ Grown
  BY ZenonT(40), <1>1, <1>4, PrepareHandlerInv, PromiseQuietInv, PromiseMajorityInv, MajorityCrashInv,
     AcceptSyncHandlerInv, AcceptHandlerInv, AcceptedInv, HandlerCrashInv, DecideHandlerInv,
     SignalInv DEF Handle
<1>5. ASSUME NEW s \in Server, AskForPrepare(s) \/ Crash(s) PROVE IInv' /\ Grown
  BY ZenonT(40), <1>1, <1>5, SignalInv, CrashInv
<1>6. ASSUME NEW s \in Server, NEW p \in Server, LinkReconnected(s, p) PROVE IInv' /\ Grown
  BY ZenonT(40), <1>1, <1>6, SignalInv
<1>7. CASE UNCHANGED vars
  <2>1. /\ os' = os /\ disk' = disk /\ state' = state /\ currentRnd' = currentRnd
        /\ promises' = promises /\ accepted' = accepted /\ net' = net
    BY ZenonT(40), <1>7 DEF vars, leaderVars
  <2>2. \A s \in Server : PeerInv(s)'
    BY ZenonT(40), <2>1 DEF IInv, PeerInv, Owned, RoundState, Counted
  <2>3. \A a, b \in Server : \A m \in Range(net'[a][b]) : MessageInv(a, m)'
    BY ZenonT(40), <2>1 DEF IInv, InFlight, MessageInv, Owned
  <2>4. Grown
    BY <2>1, PeerTypes, LeqRefl DEF Grown, IInv
  <2> QED BY ZenonT(40), <1>1, <2>1, <2>2, <2>3, <2>4 DEF IInv, InFlight
<1> QED BY ZenonT(40), <1>2, <1>3, <1>4, <1>5, <1>6, <1>7 DEF Next, Deliver

\* Rounds belong to their owners and every promise and acknowledgement is
\* kept, in every reachable state.
THEOREM Invariance == Spec => []IInv
  BY IInvInit, IInvStep, PTL DEF Spec
-----------------------------------------------------------------------------
(* The properties. *)

\* PromisesKept: an answer under way is backed by the disk of its sender, at
\* every crash and restart.
THEOREM PromisesAreKept == Spec => []PromisesKept
<1>1. IInv => PromisesKept
  BY ZenonT(40) DEF IInv, PromisesKept, MessageInv
<1> QED BY <1>1, Invariance, PTL

\* (len(peers)+1)/2 peers are more than half of an odd number of peers.
LEMMA OddMajority ==
  ASSUME NumServers % 2 = 1, NEW Q \in SUBSET Server, NEW R \in SUBSET Server,
         Q \subseteq R, IsMajority(Q)
  PROVE  StrictMajority(R)
<1>1. IsFiniteSet(Server)
  BY NumServersAssumption, FS_Interval DEF Server
<1>2. Cardinality(R) \in Nat
  BY ZenonT(40), <1>1, FS_Subset, FS_CardinalityType
<1>3. Cardinality(R) >= (NumServers + 1) \div 2
  BY ZenonT(40), MoreIsMajority DEF IsMajority, Majority
<1>4. 2 * ((NumServers + 1) \div 2) > NumServers
  BY NumServersAssumption
<1> QED BY <1>2, <1>3, <1>4, NumServersAssumption DEF StrictMajority

\* LeaderFenced: when PromiseHandler moves a leader to ACCEPT in a group of
\* odd size, more than half of the group refuses every older round.
THEOREM LeadersAreFenced ==
  ASSUME NumServers % 2 = 1
  PROVE  Spec => []LeaderFenced
<1>1. ASSUME IInv PROVE LeaderFenced
  <2> SUFFICES ASSUME NEW s \in Server, In(s, LEADER, ACCEPT)
               PROVE  StrictMajority({f \in Server : Leq(currentRnd[s], disk[f].PromisedRnd)})
    BY ZenonT(40) DEF LeaderFenced
  <2>1. TypeOK /\ PeerInv(s) /\ disk = os /\ state[s].role = LEADER /\ state[s].phase = ACCEPT
    BY <1>1 DEF IInv, In
  <2>2. /\ IsMajority(DOMAIN promises[s]) /\ DOMAIN promises[s] \subseteq Server
        /\ \A f \in DOMAIN promises[s] : Leq(currentRnd[s], disk[f].PromisedRnd)
    BY ZenonT(40), <2>1, PeerTypes DEF PeerInv, RoundState, Counted
  <2>3. DOMAIN promises[s] \subseteq {f \in Server : Leq(currentRnd[s], disk[f].PromisedRnd)}
    BY ZenonT(40), <2>2
  <2> QED BY ZenonT(40), <2>2, <2>3, OddMajority
<1> QED BY <1>1, Invariance, PTL

\* FreshRounds: no handler other than triggerLeader changes currentRnd, and
\* triggerLeader takes a ballot above os.L, hence one nobody has seen.
THEOREM RoundsAreFresh == Spec => FreshRounds
<1>1. ASSUME IInv, [Next]_vars, NEW s \in Server,
             currentRnd'[s] \notin {currentRnd[s], ZeroBallot}
      PROVE  ~RoundUsed(currentRnd'[s])
  <2>1. TypeOK
    BY ZenonT(40), <1>1 DEF IInv
  <2>2. PICK n \in Elected : BecomeLeader(s, n)
    <3>1. ASSUME NEW t \in Server, NEW d, NEW nt, Reboot(t, d, nt) PROVE FALSE
      BY ZenonT(40), <1>1, <2>1, <3>1 DEF Reboot, TypeOK
    <3>2. ASSUME NEW t \in Server, NEW n \in Elected, BecomeLeader(t, n), t # s PROVE FALSE
      BY ZenonT(40), <1>1, <2>1, <3>2 DEF BecomeLeader, TypeOK
    <3>3. ASSUME currentRnd' = currentRnd PROVE FALSE
      BY ZenonT(40), <1>1, <3>3
    <3>4. ASSUME NEW src \in Server, NEW t \in Server, NEW i \in Deliverable(src, t),
                 Handle(src, t, i)
          PROVE  FALSE
      BY ZenonT(40), <3>1, <3>3, <3>4 DEF Handle, PrepareHandler, PromiseRecorded, PromiseMajority,
         PromiseMajorityThenCrash, PromiseLate, AcceptSyncHandler, AcceptHandler,
         AcceptedRecorded, AcceptedDecides, AcceptedDecidesThenCrash, DecideHandler,
         DecideThenCrash, ReconnectedHandler, PrepareReqHandler, Discard, leaderVars
    <3> QED BY ZenonT(40), <1>1, <3>1, <3>2, <3>3, <3>4 DEF Next, Deliver, FollowLeader,
            BecomeLeaderThenCrash, ProposeBuffer, ProposeAppend, AskForPrepare, Crash,
            LinkReconnected, vars, leaderVars
  <2>3. n \in Ballot /\ n.Pid = s /\ Less(os[s].L, n) /\ currentRnd'[s] = n
    BY ZenonT(40), <2>1, <2>2, BoundsAssumption DEF BecomeLeader, LeadGuard, TypeOK
  <2>4. ~Leq(n, os[s].L)
    BY ZenonT(40), <2>1, <2>3, LessNotLeq, PeerTypes
  <2>5. ASSUME RoundUsed(n) PROVE Owned(n)
    <3>1. CASE \E t \in Server : n \in {disk[t].PromisedRnd, disk[t].AcceptedRnd, os[t].PromisedRnd}
      BY ZenonT(40), <1>1, <3>1 DEF IInv, PeerInv
    <3>2. CASE \E a, b \in Server : \E m \in InFlight(a, b) : m.type \in RoundMessage /\ m.N = n
      BY ZenonT(40), <1>1, <3>2 DEF IInv, MessageInv
    <3> QED BY ZenonT(40), <2>5, <3>1, <3>2 DEF RoundUsed
  <2> QED BY ZenonT(40), <2>3, <2>4, <2>5 DEF Owned
<1>2. IInv /\ [Next]_vars =>
        [\A s \in Server :
           currentRnd'[s] \notin {currentRnd[s], ZeroBallot} => ~RoundUsed(currentRnd'[s])]_vars
  BY ZenonT(40), <1>1
<1> QED BY <1>2, Invariance, PTL DEF Spec, FreshRounds

\* RoundsNeverRegress: what persist() wrote is never replaced by something
\* older, in any handler and across every restart.
THEOREM DisksNeverRegress == Spec => RoundsNeverRegress
<1>1. IInv /\ [Next]_vars =>
        [\A s \in Server :
           /\ Leq(disk[s].L, disk'[s].L)
           /\ Leq(disk[s].PromisedRnd, disk'[s].PromisedRnd)
           /\ Leq(disk[s].AcceptedRnd, disk'[s].AcceptedRnd)
           /\ disk[s].DecidedIdx <= disk'[s].DecidedIdx]_vars
  BY ZenonT(40), IInvStep DEF IInv, Grown
<1> QED BY <1>1, Invariance, PTL DEF Spec, RoundsNeverRegress

\* A leader's DecidedIdx moves in AcceptedHandler only.
LEMMA LeaderDecides ==
  ASSUME IInv, [Next]_vars, NEW s \in Server, state[s].role = LEADER,
         os'[s].DecidedIdx > os[s].DecidedIdx
  PROVE  \E src \in Server : \E i \in Deliverable(src, s) : AcceptedDecides(src, s, i)
<1>1. TypeOK /\ disk = os /\ TypeOK' /\ os[s].DecidedIdx \in Nat
  BY ZenonT(40), TypeStep, PeerTypes DEF IInv
<1>2. ASSUME os'[s].DecidedIdx = os[s].DecidedIdx PROVE FALSE
  BY <1>1, <1>2
<1>3. ASSUME NEW t \in Server, \A u \in Server \ {t} : os'[u] = os[u] PROVE t = s
  BY ZenonT(40), <1>2, <1>3
<1>4. ASSUME NEW t \in Server, NEW d \in LogState, NEW nt, Reboot(t, d, nt),
             d.DecidedIdx = os[t].DecidedIdx
      PROVE  FALSE
  <2>1. os'[t] = d /\ \A u \in Server \ {t} : os'[u] = os[u]
    BY ZenonT(40), <1>1, <1>4 DEF Reboot, TypeOK
  <2> QED BY ZenonT(40), <1>2, <1>3, <1>4, <2>1
<1>5. ASSUME NEW t \in Server, NEW n \in Elected,
             FollowLeader(t, n) \/ BecomeLeader(t, n) \/ BecomeLeaderThenCrash(t, n)
      PROVE  FALSE
  <2>1. os[t] \in LogState /\ n \in Ballot
    BY ZenonT(40), <1>1, PeerTypes, BoundsAssumption
  <2>2. CASE FollowLeader(t, n) \/ BecomeLeader(t, n)
    <3>1. /\ os'[t] = [os[t] EXCEPT !.L = n] \/ os'[t] = [os[t] EXCEPT !.L = n, !.PromisedRnd = n]
          /\ \A u \in Server \ {t} : os'[u] = os[u]
      BY Zenon, <1>1, <2>2 DEF FollowLeader, BecomeLeader, TypeOK
    <3>2. os'[t].DecidedIdx = os[t].DecidedIdx
      BY Zenon, <2>1, <3>1 DEF LogState
    <3> QED BY ZenonT(40), <1>2, <1>3, <3>1, <3>2
  <2>3. CASE BecomeLeaderThenCrash(t, n)
    <3>1. /\ [disk[t] EXCEPT !.L = n] \in LogState
          /\ [disk[t] EXCEPT !.L = n].DecidedIdx = os[t].DecidedIdx
      BY ZenonT(40), <1>1, <2>1 DEF LogState
    <3> QED BY ZenonT(40), <1>4, <2>3, <3>1 DEF BecomeLeaderThenCrash
  <2> QED BY ZenonT(40), <1>5, <2>2, <2>3
<1>6. ASSUME NEW t \in Server, NEW c \in Command, ProposeBuffer(t, c) \/ ProposeAppend(t, c)
      PROVE  FALSE
  <2>1. /\ os'[t] = os[t] \/ os'[t] = [os[t] EXCEPT !.Log = Append(os[t].Log, c)]
        /\ \A u \in Server \ {t} : os'[u] = os[u]
    BY ZenonT(40), <1>1, <1>6 DEF ProposeBuffer, ProposeAppend, TypeOK
  <2>2. os'[t].DecidedIdx = os[t].DecidedIdx
    BY ZenonT(40), <1>1, <2>1, PeerTypes DEF LogState
  <2> QED BY ZenonT(40), <1>2, <1>3, <2>1, <2>2
<1>7. ASSUME NEW src \in Server, NEW t \in Server, NEW i \in Deliverable(src, t),
             Handle(src, t, i)
      PROVE  t = s /\ AcceptedDecides(src, t, i)
  <2> DEFINE m == net[src][t][i]
  <2>1. os[t] \in LogState /\ disk[t] = os[t]
    BY ZenonT(40), <1>1, PeerTypes
  <2>2. ASSUME NEW o, os'[t] = o, o.DecidedIdx = os[t].DecidedIdx,
               \A u \in Server \ {t} : os'[u] = os[u]
        PROVE  FALSE
    BY ZenonT(40), <1>2, <1>3, <2>2
  <2>3. CASE PrepareHandler(src, t, i)
    <3>1. os'[t] = [os[t] EXCEPT !.PromisedRnd = m.N] /\ \A u \in Server \ {t} : os'[u] = os[u]
      BY ZenonT(40), <1>1, <2>3 DEF PrepareHandler, TypeOK
    <3> QED BY ZenonT(40), <2>1, <2>2, <3>1 DEF LogState
  <2>4. CASE PromiseMajority(src, t, i)
    <3>1. PICK log : os' = [os EXCEPT ![t].Log = log, ![t].AcceptedRnd = currentRnd[t]]
      BY ZenonT(40), <2>4 DEF PromiseMajority
    <3>2. /\ os'[t] = [os[t] EXCEPT !.Log = log, !.AcceptedRnd = currentRnd[t]]
          /\ \A u \in Server \ {t} : os'[u] = os[u]
      BY ZenonT(40), <1>1, <3>1 DEF TypeOK
    <3> QED BY Zenon, <2>1, <2>2, <3>2 DEF LogState
  <2>5. CASE AcceptSyncHandler(src, t, i)
    <3>1. PICK log : os' = [os EXCEPT ![t].AcceptedRnd = m.N, ![t].Log = log]
      BY ZenonT(40), <2>5 DEF AcceptSyncHandler
    <3>2. /\ os'[t] = [os[t] EXCEPT !.AcceptedRnd = m.N, !.Log = log]
          /\ \A u \in Server \ {t} : os'[u] = os[u]
      BY ZenonT(40), <1>1, <3>1 DEF TypeOK
    <3> QED BY ZenonT(40), <2>1, <2>2, <3>2 DEF LogState
  <2>6. CASE AcceptHandler(src, t, i)
    <3>1. /\ os'[t] = [os[t] EXCEPT !.Log = Append(os[t].Log, m.C)]
          /\ \A u \in Server \ {t} : os'[u] = os[u]
      BY ZenonT(40), <1>1, <2>6 DEF AcceptHandler, TypeOK
    <3> QED BY ZenonT(40), <2>1, <2>2, <3>1 DEF LogState
  <2>7. CASE DecideHandler(src, t, i)
    <3>1. state[t].role = FOLLOWER /\ \A u \in Server \ {t} : os'[u] = os[u]
      BY <1>1, <2>7 DEF DecideHandler, DecideGuard, In, TypeOK
    <3> QED BY ZenonT(40), <1>3, <3>1 DEF LEADER, FOLLOWER
  <2>8. CASE \/ PromiseMajorityThenCrash(src, t, i) \/ AcceptedDecidesThenCrash(src, t, i)
             \/ DecideThenCrash(src, t, i)
    BY ZenonT(40), <1>4, <2>1, <2>8 DEF PromiseMajorityThenCrash, AcceptedDecidesThenCrash, DecideThenCrash
  <2>9. CASE \/ PromiseRecorded(src, t, i) \/ PromiseLate(src, t, i) \/ AcceptedRecorded(src, t, i)
             \/ ReconnectedHandler(src, t, i) \/ PrepareReqHandler(src, t, i) \/ Discard(src, t, i)
    <3>1. os' = os
      BY ZenonT(40), <2>9 DEF PromiseRecorded, PromiseLate, AcceptedRecorded, ReconnectedHandler,
         PrepareReqHandler, Discard
    <3> QED BY ZenonT(40), <1>2, <3>1
  <2>10. CASE AcceptedDecides(src, t, i)
    <3>1. \A u \in Server \ {t} : os'[u] = os[u]
      BY ZenonT(40), <1>1, <2>10 DEF AcceptedDecides, TypeOK
    <3> QED BY ZenonT(40), <1>3, <2>10, <3>1
  <2> QED BY ZenonT(40), <1>7, <2>3, <2>4, <2>5, <2>6, <2>7, <2>8, <2>9, <2>10 DEF Handle
<1>8. ASSUME NEW t \in Server, Crash(t) PROVE FALSE
  BY ZenonT(40), <1>1, <1>4, <1>8, PeerTypes DEF Crash
<1>9. ASSUME \/ \E t \in Server : AskForPrepare(t)
             \/ \E t, p \in Server : LinkReconnected(t, p)
             \/ UNCHANGED vars
      PROVE  FALSE
  BY ZenonT(40), <1>2, <1>9 DEF AskForPrepare, LinkReconnected, vars
<1> QED BY ZenonT(40), <1>5, <1>6, <1>7, <1>8, <1>9 DEF Next, Deliver

\* DecisionBacked: in a group of odd size, what AcceptedHandler decides more
\* than half of the group has accepted, on disk, in the leader's round or later.
THEOREM DecisionsAreBacked ==
  ASSUME NumServers % 2 = 1
  PROVE  Spec => DecisionBacked
<1>1. ASSUME IInv, [Next]_vars, NEW s \in Server, state[s].role = LEADER,
             os'[s].DecidedIdx > os[s].DecidedIdx
      PROVE  StrictMajority({f \in Server : Leq(currentRnd[s], disk'[f].AcceptedRnd)})
  <2>0. PICK src \in Server : \E i \in Deliverable(src, s) : AcceptedDecides(src, s, i)
    BY ZenonT(40), <1>1, LeaderDecides
  <2>1. PICK i \in Deliverable(src, s) : AcceptedDecides(src, s, i)
    BY ZenonT(40), <2>0
  <2> DEFINE m == net[src][s][i]
             acc == WithAccepted(s, src, m.LogIdx)
             Q == {f \in Server : acc[f] >= m.LogIdx}
  <2>2. /\ TypeOK /\ TypeOK' /\ Grown /\ disk' = os' /\ AcceptedGuard(s, m)
        /\ IsMajority(Q) /\ m.LogIdx > os[s].DecidedIdx /\ m.LogIdx \in Nat
        /\ os[s].DecidedIdx \in Nat /\ currentRnd[s] \in Ballot
    BY ZenonT(40), <1>1, <2>1, IInvStep, Taken, MessageFields, PeerTypes
       DEF IInv, AcceptedDecides, Decides, hasMajorityAccepted, AcceptedGuard
  <2>3. ASSUME NEW f \in Q PROVE Leq(currentRnd[s], disk'[f].AcceptedRnd)
    <3>1. Leq(currentRnd[s], os[f].AcceptedRnd)
      BY ZenonT(40), <1>1, <2>2, AckPast
    <3> QED BY ZenonT(40), <2>2, <3>1, AtLeastKept
  <2>4. Q \subseteq {f \in Server : Leq(currentRnd[s], disk'[f].AcceptedRnd)}
    BY ZenonT(40), <2>3
  <2> HIDE DEF Q
  <2>5. Q \in SUBSET Server
    BY ZenonT(40) DEF Q
  <2> QED BY ZenonT(40), <2>2, <2>4, <2>5, OddMajority
<1>2. IInv /\ [Next]_vars =>
        [\A s \in Server :
           state[s].role = LEADER /\ os'[s].DecidedIdx > os[s].DecidedIdx =>
             StrictMajority({f \in Server : Leq(currentRnd[s], disk'[f].AcceptedRnd)})]_vars
  BY ZenonT(40), <1>1
<1> QED BY <1>2, Invariance, PTL DEF Spec, DecisionBacked
=============================================================================
