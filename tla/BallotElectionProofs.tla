------------------------ MODULE BallotElectionProofs ------------------------
(***************************************************************************)
(* Proofs about BallotElection, for every number of peers, every link that *)
(* fails or heals, and every late reply and crash: ECore is inductive, the  *)
(* timer loop implements the abstract Election, and no round is begun      *)
(* twice.                                                                  *)
(***************************************************************************)
EXTENDS BallotElection, TLAPS

\* EInv, with the types it rests on.
ECore ==
    /\ b \in [Server -> Nat]
    /\ L \in [Server -> Ballot] /\ promised \in [Server -> Ballot]
    /\ role \in [Server -> {LEADER, FOLLOWER}]
    /\ DOMAIN ballots = Server /\ DOMAIN late = Server
    /\ offered \subseteq Ballot /\ prepares \subseteq Ballot \X Server
    /\ \A s \in Server :
        /\ [N |-> 0, Pid |-> s] \in offered
        /\ Own(s) \in offered
        /\ DOMAIN ballots[s] \subseteq offered
        /\ \A r \in late[s] : r.n \in offered
    /\ \A x \in prepares : Leq(x[1], L[x[1].Pid])
    /\ LeaderFollowsItself

\* The other types.
RestInv ==
    /\ qc \in [Server -> BOOLEAN] /\ asked \in [Server -> SUBSET Server] /\ faults \in Nat
    /\ late \in [Server -> SUBSET [n : Ballot, q : BOOLEAN]]
    /\ \A s \in Server : \A x \in DOMAIN ballots[s] : ballots[s][x] \in BOOLEAN

\* What a step must show beside ECore': it is a step of Election, or leaves
\* L and the offers alone, and whoever begins to lead sends the first
\* Prepare of its round.
Fresh ==
    \A s \in Server :
        role'[s] = LEADER /\ promised'[s] # promised[s] =>
            \A p \in Server : <<promised'[s], p>> \notin prepares

ElectStep == E!ElectionNext \/ UNCHANGED <<L, offered>>

\* Whatever checkLeader() chooses was put up for election.
LEMMA CandidateOffered ==
  ASSUME ECore, NEW s \in Server, NEW n \in Candidates(s)
  PROVE  n \in offered /\ n \in Ballot
  BY Zenon DEF ECore, Candidates, Heard

\* Make() finds ballots of zero on an empty Persister.
LEMMA EInit == Init => ECore /\ E!ElectionInit
<1> SUFFICES ASSUME Init PROVE ECore /\ E!ElectionInit
  OBVIOUS
<1>1. ZeroBallot \in Ballot
  BY NumServersAssumption DEF ZeroBallot, Ballot, Server
<1>2. offered \subseteq Ballot /\ \A s \in Server : [N |-> 0, Pid |-> s] \in offered
  BY DEF Init, Ballot
<1>3. \A s \in Server : Own(s) \in offered /\ DOMAIN ballots[s] \subseteq offered
  BY <1>2 DEF Init, Own, NoBallots
<1>4. \A s \in Server : late[s] = {}
  BY DEF Init
<1>5. LeaderFollowsItself
  BY DEF Init, LeaderFollowsItself, LEADER, FOLLOWER
<1>6. ECore
  BY <1>1, <1>2, <1>3, <1>4, <1>5 DEF Init, ECore
<1> QED BY <1>6 DEF Init, E!ElectionInit, E!ZeroBallot, E!Server, ZeroBallot, Server

\* Clearing the ballots at the end of a timer round keeps what was heard
\* among the offers.
LEMMA RoundEnded ==
  ASSUME ECore, NEW s \in Server, EndRound(s)
  PROVE  /\ DOMAIN ballots' = Server
         /\ \A t \in Server : DOMAIN ballots'[t] \subseteq offered
         /\ late' = late
  BY Zenon DEF ECore, EndRound, NoBallots

\* startTimer() without a majority, and checkLeader() with the leader still
\* the greatest candidate, change nothing that election promises.
LEMMA TimerQuiet ==
  ASSUME ECore, NEW s \in Server, TimerAlone(s) \/ TimerKeep(s)
  PROVE  ECore' /\ ElectStep /\ Fresh
<1>1. /\ EndRound(s)
      /\ UNCHANGED <<b, L, promised, role, prepares, offered>>
  BY DEF TimerAlone, TimerKeep
<1>2. ECore'
  BY <1>1, RoundEnded DEF ECore, Own, LeaderFollowsItself
<1> QED BY <1>1, <1>2 DEF ElectStep, Fresh

\* increment(): the new number is put up for election as it is set.
LEMMA TimerRaiseInv ==
  ASSUME ECore, NEW s \in Server, TimerRaise(s)
  PROVE  ECore' /\ ElectStep /\ Fresh
<1> DEFINE n == [N |-> L[s].N + 1, Pid |-> s]
<1>1. n \in Ballot /\ L[s].N + 1 \in Nat
  BY DEF ECore, Ballot
<1>2. /\ EndRound(s)
      /\ b' = [b EXCEPT ![s] = L[s].N + 1]
      /\ offered' = offered \cup {n}
      /\ UNCHANGED <<L, promised, role, prepares>>
  BY DEF TimerRaise
<1>3. \A t \in Server : Own(t)' \in offered'
  BY Zenon, <1>2 DEF ECore, Own
<1>4. b' \in [Server -> Nat] /\ offered' \subseteq Ballot
  BY <1>1, <1>2 DEF ECore
<1>5. ECore'
  BY <1>2, <1>3, <1>4, RoundEnded DEF ECore, LeaderFollowsItself
<1>6. E!Offer
  BY Zenon, <1>1, <1>2 DEF E!Offer, E!Ballot, E!Server, Ballot, Server
<1> QED BY <1>2, <1>5, <1>6 DEF ElectStep, Fresh, E!ElectionNext

\* A Prepare stays one whose leader has saved its round while L goes up.
LEMMA SavedKept ==
  ASSUME ECore, NEW s \in Server, NEW n \in Ballot, Less(L[s], n),
         L' = [L EXCEPT ![s] = n]
  PROVE  \A x \in prepares : Leq(x[1], L'[x[1].Pid])
<1> SUFFICES ASSUME NEW x \in prepares PROVE Leq(x[1], L'[x[1].Pid])
  OBVIOUS
<1>1. x[1] \in Ballot /\ x[1].Pid \in Server /\ Leq(x[1], L[x[1].Pid])
  BY DEF ECore, Ballot
<1>2. CASE x[1].Pid = s
  BY <1>1, <1>2 DEF ECore, Leq, Less, Ballot, Server
<1>3. CASE x[1].Pid # s
  BY <1>1, <1>3 DEF ECore
<1> QED BY <1>2, <1>3

\* checkLeader() electing a ballot that was offered and is above L is a step
\* of Election.
LEMMA Elects ==
  ASSUME ECore, NEW s \in Server, NEW n \in Candidates(s), Wins(s, n),
         L' = [L EXCEPT ![s] = n], offered' = offered
  PROVE  E!ElectionNext /\ n \in Ballot /\ Less(L[s], n) /\ L' \in [Server -> Ballot]
<1>1. n \in offered /\ n \in Ballot
  BY CandidateOffered
<1>2. Less(L[s], n)
  BY DEF Wins
<1>3. E!Elect(s, n)
  BY <1>1, <1>2 DEF E!Elect, E!Less, Less
<1>4. s \in E!Server
  BY DEF E!Server, Server
<1> QED BY <1>1, <1>2, <1>3, <1>4 DEF E!ElectionNext, ECore

\* triggerLeader() for another peer, or for a ballot s has promised past.
LEMMA TimerFollowInv ==
  ASSUME ECore, NEW s \in Server, TimerFollow(s)
  PROVE  ECore' /\ ElectStep /\ Fresh
<1>1. PICK n \in Candidates(s) : Wins(s, n) /\ L' = [L EXCEPT ![s] = n]
  BY Zenon DEF TimerFollow
<1>2. /\ EndRound(s)
      /\ role' = [role EXCEPT ![s] = FOLLOWER]
      /\ UNCHANGED <<b, promised, prepares, offered>>
  BY DEF TimerFollow
<1>3. E!ElectionNext /\ n \in Ballot /\ Less(L[s], n) /\ L' \in [Server -> Ballot]
  BY Zenon, <1>1, <1>2, Elects
<1>4. \A x \in prepares : Leq(x[1], L'[x[1].Pid])
  BY Zenon, <1>1, <1>3, SavedKept
<1>5. LeaderFollowsItself'
  BY <1>1, <1>2 DEF ECore, LeaderFollowsItself, LEADER, FOLLOWER
<1>6. role' \in [Server -> {LEADER, FOLLOWER}]
  BY <1>2 DEF ECore
<1>7. ECore'
  BY <1>2, <1>3, <1>4, <1>5, <1>6, RoundEnded DEF ECore, Own
<1> QED BY <1>2, <1>3, <1>7 DEF ElectStep, Fresh

\* The Prepares triggerLeader() sends carry the round that checkLeader() has
\* just saved in L.
LEMMA PreparesSaved ==
  ASSUME ECore, NEW s \in Server, NEW n \in Candidates(s), Leads(s, n),
         L' = [L EXCEPT ![s] = n], prepares' = prepares \cup PreparesOf(n)
  PROVE  /\ prepares' \subseteq Ballot \X Server
         /\ \A x \in prepares' : Leq(x[1], L'[x[1].Pid])
         /\ \A p \in Server : <<n, p>> \notin prepares
<1>1. n \in Ballot /\ Less(L[s], n) /\ n.Pid = s
  BY CandidateOffered DEF Leads, Wins
<1>2. \A x \in prepares : Leq(x[1], L'[x[1].Pid])
  BY Zenon, <1>1, SavedKept
<1>3. \A x \in PreparesOf(n) : x \in Ballot \X Server /\ x[1] = n
  BY <1>1 DEF PreparesOf
<1>4. L'[n.Pid] = n
  BY <1>1 DEF ECore
<1>5. \A x \in PreparesOf(n) : Leq(x[1], L'[x[1].Pid])
  BY <1>3, <1>4 DEF Leq
<1>6. ASSUME NEW p \in Server, <<n, p>> \in prepares PROVE FALSE
  <2>1. Leq(n, L[s])
    BY <1>1, <1>6 DEF ECore
  <2> QED BY <1>1, <2>1 DEF ECore, Leq, Less, Ballot, Server
<1>7. prepares' \subseteq Ballot \X Server
  BY <1>3 DEF ECore
<1> QED BY <1>2, <1>5, <1>6, <1>7

\* triggerLeader() for s itself.
LEMMA TimerLeadInv ==
  ASSUME ECore, NEW s \in Server, TimerLead(s)
  PROVE  ECore' /\ ElectStep /\ Fresh
<1>1. PICK n \in Candidates(s) :
        /\ Leads(s, n)
        /\ L' = [L EXCEPT ![s] = n]
        /\ promised' = [promised EXCEPT ![s] = n]
        /\ prepares' = prepares \cup PreparesOf(n)
  BY Zenon DEF TimerLead
<1>2. /\ EndRound(s)
      /\ role' = [role EXCEPT ![s] = LEADER]
      /\ UNCHANGED <<b, offered>>
  BY DEF TimerLead
<1>3. Wins(s, n) /\ n.Pid = s
  BY <1>1 DEF Leads
<1>4. E!ElectionNext /\ n \in Ballot /\ L' \in [Server -> Ballot]
  BY Zenon, <1>1, <1>2, <1>3, Elects
<1>5. /\ prepares' \subseteq Ballot \X Server
      /\ \A x \in prepares' : Leq(x[1], L'[x[1].Pid])
      /\ \A p \in Server : <<n, p>> \notin prepares
  BY Zenon, <1>1, PreparesSaved
<1>6. /\ promised' \in [Server -> Ballot]
      /\ role' \in [Server -> {LEADER, FOLLOWER}]
  BY <1>1, <1>2, <1>4 DEF ECore
<1>7. LeaderFollowsItself'
  BY <1>1, <1>2, <1>3 DEF ECore, LeaderFollowsItself
<1>8. ECore'
  BY <1>2, <1>4, <1>5, <1>6, <1>7, RoundEnded DEF ECore, Own
<1>9. Fresh
  BY <1>1, <1>5 DEF Fresh, ECore
<1> QED BY <1>4, <1>8, <1>9 DEF ElectStep

\* A reply that is counted was put up for election when it was given.
LEMMA CountedOffered ==
  ASSUME ECore, NEW s \in Server, NEW r, r.n \in offered, ballots' = Counted(s, r)
  PROVE  /\ DOMAIN ballots' = Server
         /\ \A t \in Server : DOMAIN ballots'[t] \subseteq offered
  BY Zenon DEF ECore, Counted

\* The heartbeat replies of HeartBeatHandler(), counted at once or late.
LEMMA HeartBeatInv ==
  ASSUME ECore, NEW s \in Server, NEW p \in Server,
         \/ HeartBeatHandler(s, p) \/ HeartBeatLate(s, p)
         \/ \E r \in late[s] : CountLate(s, r)
  PROVE  ECore' /\ ElectStep /\ Fresh
<1>1. UNCHANGED <<b, L, promised, role, prepares, offered>>
  BY DEF HeartBeatHandler, HeartBeatLate, CountLate
<1>2. Reply(p).n \in offered
  BY Zenon DEF ECore, Reply, Own
<1>3. /\ DOMAIN ballots' = Server
      /\ \A t \in Server : DOMAIN ballots'[t] \subseteq offered
  <2>1. CASE HeartBeatHandler(s, p)
    BY <1>2, <2>1, CountedOffered DEF HeartBeatHandler
  <2>2. CASE HeartBeatLate(s, p)
    BY Zenon, <2>2 DEF HeartBeatLate, ECore
  <2>3. CASE \E r \in late[s] : CountLate(s, r)
    <3>1. PICK r \in late[s] : CountLate(s, r)
      BY <2>3
    <3>2. r.n \in offered
      BY Zenon DEF ECore
    <3> QED BY <3>1, <3>2, CountedOffered DEF CountLate
  <2> QED BY <2>1, <2>2, <2>3
<1>4. /\ DOMAIN late' = Server
      /\ \A t \in Server : \A r \in late'[t] : r.n \in offered
  <2>1. CASE HeartBeatHandler(s, p)
    BY Zenon, <2>1 DEF HeartBeatHandler, ECore
  <2>2. CASE HeartBeatLate(s, p)
    <3>1. late' = [late EXCEPT ![s] = @ \cup {Reply(p)}]
      BY <2>2 DEF HeartBeatLate
    <3> QED BY Zenon, <1>2, <3>1 DEF ECore
  <2>3. CASE \E r \in late[s] : CountLate(s, r)
    <3>1. PICK r \in late[s] : late' = [late EXCEPT ![s] = @ \ {r}]
      BY Zenon, <2>3 DEF CountLate
    <3> QED BY Zenon, <3>1 DEF ECore
  <2> QED BY <2>1, <2>2, <2>3
<1>5. ECore'
  BY <1>1, <1>3, <1>4 DEF ECore, Own, LeaderFollowsItself
<1> QED BY <1>1, <1>5 DEF ElectStep, Fresh

\* PrepareReqHandler() answers with the round of a leader, which is its own
\* saved one.
LEMMA PrepareReqInv ==
  ASSUME ECore, NEW s \in Server, NEW p \in Server, PrepareReqHandler(s, p)
  PROVE  ECore' /\ ElectStep /\ Fresh
<1>1. /\ role[s] = LEADER
      /\ prepares' = prepares \cup {<<promised[s], p>>}
      /\ UNCHANGED <<b, ballots, L, promised, role, late, offered>>
  BY DEF PrepareReqHandler
<1>2. promised[s] \in Ballot /\ promised[s] = L[s] /\ L[s].Pid = s
  BY <1>1 DEF ECore, LeaderFollowsItself
<1>3. Leq(promised[s], L[promised[s].Pid])
  BY <1>2 DEF Leq
<1>4. ECore'
  BY <1>1, <1>2, <1>3 DEF ECore, Own, LeaderFollowsItself
<1> QED BY <1>1, <1>4 DEF ElectStep, Fresh

\* PrepareHandler() makes a follower of its peer.
LEMMA PrepareInv ==
  ASSUME ECore, NEW x \in prepares, PrepareHandler(x[2], x[1])
  PROVE  ECore' /\ ElectStep /\ Fresh
<1>1. /\ promised' = [promised EXCEPT ![x[2]] = x[1]]
      /\ role' = [role EXCEPT ![x[2]] = FOLLOWER]
      /\ UNCHANGED <<b, ballots, L, late, prepares, offered>>
  BY DEF PrepareHandler
<1>2. x[1] \in Ballot /\ x[2] \in Server
  BY DEF ECore
<1>3. /\ promised' \in [Server -> Ballot]
      /\ role' \in [Server -> {LEADER, FOLLOWER}]
  BY <1>1, <1>2 DEF ECore
<1>4. \A s \in Server : role'[s] = LEADER => promised'[s] = promised[s] /\ role[s] = LEADER
  BY <1>1, <1>2 DEF ECore, LEADER, FOLLOWER
<1>5. LeaderFollowsItself'
  BY <1>1, <1>4 DEF ECore, LeaderFollowsItself
<1>6. ECore'
  BY <1>1, <1>3, <1>5 DEF ECore, Own
<1> QED BY <1>1, <1>4, <1>6 DEF ElectStep, Fresh

\* Make() after a crash: the number is back at 0, which was put up for
\* election at the start.
LEMMA RebootInv ==
  ASSUME ECore, NEW s \in Server, Reboot(s)
  PROVE  /\ b' \in [Server -> Nat]
         /\ role' \in [Server -> {LEADER, FOLLOWER}]
         /\ DOMAIN ballots' = Server /\ DOMAIN late' = Server
         /\ offered' = offered
         /\ \A t \in Server :
             /\ Own(t)' \in offered
             /\ DOMAIN ballots'[t] \subseteq offered
             /\ \A r \in late'[t] : r.n \in offered
         /\ \A t \in Server : role'[t] = LEADER => t # s /\ role[t] = LEADER
<1>1. /\ b' = [b EXCEPT ![s] = 0]
      /\ ballots' = [ballots EXCEPT ![s] = NoBallots]
      /\ role' = [role EXCEPT ![s] = FOLLOWER]
      /\ late' = [late EXCEPT ![s] = {}]
      /\ offered' = offered
  BY DEF Reboot
<1>2. \A t \in Server : Own(t)' \in offered
  BY Zenon, <1>1 DEF ECore, Own
<1>3. \A t \in Server : DOMAIN ballots'[t] \subseteq offered
  BY Zenon, <1>1 DEF ECore, NoBallots
<1>4. \A t \in Server : \A r \in late'[t] : r.n \in offered
  BY Zenon, <1>1 DEF ECore
<1>5. \A t \in Server : role'[t] = LEADER => t # s /\ role[t] = LEADER
  BY <1>1 DEF ECore, LEADER, FOLLOWER
<1> QED BY <1>1, <1>2, <1>3, <1>4, <1>5 DEF ECore

\* A crash anywhere in the timer loop but between the two saves.
LEMMA CrashInv ==
  ASSUME ECore, NEW s \in Server, Crash(s)
  PROVE  ECore' /\ ElectStep /\ Fresh
<1>1. Reboot(s) /\ UNCHANGED <<L, promised, prepares>>
  BY DEF Crash
<1>2. LeaderFollowsItself'
  BY <1>1, RebootInv DEF ECore, LeaderFollowsItself
<1>3. ECore'
  BY <1>1, <1>2, RebootInv DEF ECore
<1> QED BY <1>1, <1>3, RebootInv DEF ElectStep, Fresh

\* A crash after checkLeader() has saved L and triggerLeader() has sent the
\* Prepares, and before it saves PromisedRnd.
LEMMA LeadThenCrashInv ==
  ASSUME ECore, NEW s \in Server, LeadThenCrash(s)
  PROVE  ECore' /\ ElectStep /\ Fresh
<1>1. Reboot(s) /\ promised' = promised
  BY DEF LeadThenCrash
<1>2. PICK n \in Candidates(s) :
        /\ Leads(s, n)
        /\ L' = [L EXCEPT ![s] = n]
        /\ prepares' = prepares \cup PreparesOf(n)
  BY Zenon DEF LeadThenCrash
<1>3. E!ElectionNext /\ L' \in [Server -> Ballot]
  BY Zenon, <1>1, <1>2, RebootInv, Elects DEF Leads
<1>4. /\ prepares' \subseteq Ballot \X Server
      /\ \A x \in prepares' : Leq(x[1], L'[x[1].Pid])
  BY ZenonT(40), <1>2, PreparesSaved
<1>5. LeaderFollowsItself'
  BY <1>1, <1>2, RebootInv DEF ECore, LeaderFollowsItself
<1>6. ECore'
  BY <1>1, <1>3, <1>4, <1>5, RebootInv DEF ECore
<1> QED BY <1>1, <1>3, <1>6, RebootInv DEF ElectStep, Fresh

\* Every step keeps ECore, is a step of Election, and begins only fresh
\* rounds.
LEMMA EStep == ECore /\ [Next]_vars => ECore' /\ ElectStep /\ (Fresh \/ UNCHANGED vars)
<1> SUFFICES ASSUME ECore, [Next]_vars
             PROVE  ECore' /\ ElectStep /\ (Fresh \/ UNCHANGED vars)
  OBVIOUS
<1>1. CASE UNCHANGED vars
  BY <1>1 DEF vars, ECore, Own, LeaderFollowsItself, ElectStep
<1>2. CASE \E s \in Server : Timer(s) \/ Crash(s) \/ LeadThenCrash(s)
  BY <1>2, TimerQuiet, TimerRaiseInv, TimerFollowInv, TimerLeadInv, CrashInv,
     LeadThenCrashInv DEF Timer
<1>3. CASE \E s, p \in Server : HeartBeatHandler(s, p) \/ HeartBeatLate(s, p)
  BY <1>3, HeartBeatInv
<1>4. CASE \E s \in Server : \E r \in late[s] : CountLate(s, r)
  BY <1>4, HeartBeatInv
<1>5. CASE \E s, p \in Server : PrepareReqHandler(s, p)
  BY <1>5, PrepareReqInv
<1>6. CASE \E x \in prepares : PrepareHandler(x[2], x[1])
  BY <1>6, PrepareInv
<1>7. CASE \E s, p \in Server : Cut(s, p) \/ Heal(s, p)
  <2>1. UNCHANGED <<b, ballots, L, promised, role, late, prepares, offered>>
    BY <1>7 DEF Cut, Heal
  <2> QED BY <2>1 DEF ECore, Own, LeaderFollowsItself, ElectStep, Fresh
<1> QED BY <1>1, <1>2, <1>3, <1>4, <1>5, <1>6, <1>7 DEF Next

\* The answers that are counted, at once or late, are Booleans of ballots.
LEMMA RestCounted ==
  ASSUME ECore, RestInv, NEW s \in Server, NEW r \in [n : Ballot, q : BOOLEAN],
         ballots' = Counted(s, r)
  PROVE  \A t \in Server : \A x \in DOMAIN ballots'[t] : ballots'[t][x] \in BOOLEAN
<1> SUFFICES ASSUME NEW t \in Server, NEW x \in DOMAIN ballots'[t]
             PROVE  ballots'[t][x] \in BOOLEAN
  OBVIOUS
<1>1. r.q \in BOOLEAN
  OBVIOUS
<1>2. CASE t = s
  <2>1. ballots'[t] = [y \in DOMAIN ballots[s] \cup {r.n} |-> IF y = r.n THEN r.q ELSE ballots[s][y]]
    BY Zenon, <1>2 DEF ECore, Counted
  <2> QED BY Zenon, <1>1, <2>1 DEF RestInv
<1>3. CASE t # s
  BY Zenon, <1>3 DEF ECore, Counted, RestInv
<1> QED BY <1>2, <1>3

\* Every step keeps the other types.
LEMMA RestStep ==
  ASSUME ECore, RestInv, Next
  PROVE  RestInv'
<1>1. \A p \in Server : Reply(p) \in [n : Ballot, q : BOOLEAN]
  <2> TAKE p \in Server
  <2>1. Own(p) \in Ballot /\ qc[p] \in BOOLEAN
    BY Zenon DEF ECore, RestInv
  <2> QED BY <2>1 DEF Reply
<1>2. \A s \in Server : \A r \in late[s] : r \in [n : Ballot, q : BOOLEAN]
  BY Zenon DEF RestInv
<1>3. ASSUME NEW s \in Server, Timer(s)
      PROVE  RestInv'
  <2>1. EndRound(s) /\ \E v \in BOOLEAN : qc' = qc \/ qc' = [qc EXCEPT ![s] = v]
    BY Zenon, <1>3 DEF Timer, TimerAlone, TimerRaise, TimerKeep, TimerFollow, TimerLead
  <2>2. qc' \in [Server -> BOOLEAN]
    BY Zenon, <2>1 DEF RestInv
  <2>3. /\ asked' \in [Server -> SUBSET Server] /\ late' = late /\ faults' = faults
        /\ \A t \in Server : \A x \in DOMAIN ballots'[t] : ballots'[t][x] \in BOOLEAN
    BY Zenon, <2>1 DEF EndRound, RestInv, ECore, NoBallots
  <2> QED BY Zenon, <2>2, <2>3 DEF RestInv
<1>4. ASSUME NEW s \in Server, Reboot(s)
      PROVE  RestInv'
  <2>1. /\ qc' \in [Server -> BOOLEAN] /\ asked' \in [Server -> SUBSET Server]
        /\ \A t \in Server : \A x \in DOMAIN ballots'[t] : ballots'[t][x] \in BOOLEAN
        /\ late' \in [Server -> SUBSET [n : Ballot, q : BOOLEAN]]
    BY Zenon, <1>4 DEF Reboot, RestInv, ECore, NoBallots
  <2>2. faults' \in Nat
    BY <1>4 DEF Reboot, RestInv
  <2> QED BY Zenon, <2>1, <2>2 DEF RestInv
<1>5. ASSUME NEW s \in Server, NEW p \in Server, HeartBeatHandler(s, p)
      PROVE  RestInv'
  <2>1. \A t \in Server : \A x \in DOMAIN ballots'[t] : ballots'[t][x] \in BOOLEAN
    BY Zenon, <1>1, <1>5, RestCounted DEF HeartBeatHandler
  <2>2. asked' \in [Server -> SUBSET Server] /\ UNCHANGED <<qc, late, faults>>
    BY Zenon, <1>5 DEF HeartBeatHandler, RestInv
  <2> QED BY Zenon, <2>1, <2>2 DEF RestInv
<1>6. ASSUME NEW s \in Server, NEW p \in Server, HeartBeatLate(s, p)
      PROVE  RestInv'
  <2>1. late' \in [Server -> SUBSET [n : Ballot, q : BOOLEAN]]
    BY Zenon, <1>1, <1>6 DEF HeartBeatLate, RestInv, ECore
  <2>2. asked' \in [Server -> SUBSET Server] /\ UNCHANGED <<qc, ballots>>
    BY Zenon, <1>6 DEF HeartBeatLate, RestInv
  <2>3. faults' \in Nat
    BY <1>6 DEF HeartBeatLate, RestInv
  <2> QED BY Zenon, <2>1, <2>2, <2>3 DEF RestInv
<1>7. ASSUME NEW s \in Server, NEW r \in late[s], CountLate(s, r)
      PROVE  RestInv'
  <2>1. \A t \in Server : \A x \in DOMAIN ballots'[t] : ballots'[t][x] \in BOOLEAN
    BY Zenon, <1>2, <1>7, RestCounted DEF CountLate
  <2>2. late' \in [Server -> SUBSET [n : Ballot, q : BOOLEAN]]
    BY Zenon, <1>7 DEF CountLate, RestInv, ECore
  <2>3. UNCHANGED <<qc, asked, faults>>
    BY Zenon, <1>7 DEF CountLate
  <2> QED BY Zenon, <2>1, <2>2, <2>3 DEF RestInv
<1>8. ASSUME NEW s \in Server, NEW p \in Server, PrepareReqHandler(s, p)
      PROVE  RestInv'
  BY Zenon, <1>8 DEF PrepareReqHandler, RestInv
<1>9. ASSUME NEW x \in prepares, PrepareHandler(x[2], x[1])
      PROVE  RestInv'
  BY Zenon, <1>9 DEF PrepareHandler, RestInv
<1>10. ASSUME NEW s \in Server, NEW p \in Server, Cut(s, p) \/ Heal(s, p)
       PROVE  RestInv'
  <2>1. asked' \in [Server -> SUBSET Server] /\ UNCHANGED <<qc, ballots, late>>
    <3>1. CASE Heal(s, p)
      BY Zenon, <3>1 DEF Heal, RestInv
    <3>2. CASE Cut(s, p)
      <4>1. /\ asked' = [asked EXCEPT ![s] = @ \ {p}, ![p] = @ \ {s}]
            /\ UNCHANGED <<qc, ballots, late>>
        BY Zenon, <3>2 DEF Cut
      <4>2. asked' \in [Server -> SUBSET Server]
        BY <4>1 DEF RestInv
      <4> QED BY Zenon, <4>1, <4>2
    <3> QED BY Zenon, <1>10, <3>1, <3>2
  <2>2. faults' \in Nat
    BY <1>10 DEF Cut, Heal, RestInv
  <2> QED BY Zenon, <2>1, <2>2 DEF RestInv
<1> QED
  BY Zenon, <1>3, <1>4, <1>5, <1>6, <1>7, <1>8, <1>9, <1>10 DEF Next, Crash, LeadThenCrash

\* EInv is ECore and the other types.
LEMMA EInvMeans == EInv <=> ECore /\ RestInv
<1>1. EInv => ECore /\ RestInv
  <2> SUFFICES ASSUME EInv PROVE ECore /\ RestInv
    OBVIOUS
  <2>1. DOMAIN late = Server
    BY Zenon DEF EInv, TypeOK
  <2> QED BY Zenon, <2>1 DEF EInv, TypeOK, ECore, RestInv
<1>2. ECore /\ RestInv => EInv
  <2> SUFFICES ASSUME ECore, RestInv PROVE EInv
    OBVIOUS
  <2>1. \A s \in Server : \A x \in DOMAIN ballots[s] : x \in Ballot /\ ballots[s][x] \in BOOLEAN
    BY Zenon DEF ECore, RestInv
  <2> QED BY Zenon, <2>1 DEF EInv, TypeOK, ECore, RestInv
<1> QED BY <1>1, <1>2

\* EInv holds always.
THEOREM ElectionInvariant == Spec => []EInv
<1>1. Init => ECore /\ RestInv
  BY EInit DEF Init, RestInv, NoBallots
<1>2. ECore /\ RestInv /\ [Next]_vars => ECore' /\ RestInv'
  <2>1. RestInv /\ UNCHANGED vars => RestInv'
    BY DEF RestInv, vars
  <2> QED BY EStep, RestStep, <2>1
<1> QED BY <1>1, <1>2, EInvMeans, PTL DEF Spec

\* A peer that takes itself for the leader follows its own ballot and has
\* promised no later round, whatever PrepareHandler() and the timer do.
THEOREM LeadersFollowThemselves == Spec => []LeaderFollowsItself
<1>1. ECore => LeaderFollowsItself
  BY DEF ECore
<1> QED BY <1>1, EInvMeans, ElectionInvariant, PTL

\* The timer loop and its heartbeats implement the abstract Election: L goes
\* up only, to offered ballots only, over late replies and restarts.
THEOREM ImplementsElection == Spec => ElectsOffered
<1>1. Init => E!ElectionInit
  BY EInit
<1>2. ECore /\ [Next]_vars => [E!ElectionNext]_<<L, offered>>
  BY EStep DEF ElectStep
<1> QED BY <1>1, <1>2, EInvMeans, ElectionInvariant, PTL DEF Spec, ElectsOffered, E!ElectionSpec

\* triggerLeader() never sends a Prepare for a round that was prepared
\* before, also not after a crash between its saves.
THEOREM RoundsBegunOnce == Spec => RoundsFresh
<1>1. ECore /\ [Next]_vars =>
        [\A s \in Server :
            role'[s] = LEADER /\ promised'[s] # promised[s] =>
                \A p \in Server : <<promised'[s], p>> \notin prepares]_vars
  BY EStep DEF Fresh
<1> QED BY <1>1, EInvMeans, ElectionInvariant, PTL DEF Spec, RoundsFresh
=============================================================================
