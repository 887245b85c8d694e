--------------------------- MODULE BallotElection ---------------------------
(***************************************************************************)
(* Ballot leader election of one OmniPaxos group: the timer loop,          *)
(* checkLeader() and the heartbeats (a2-omnipaxos/omnipaxos.go).           *)
(*                                                                         *)
(* One iteration of startTimer() is one action; the branches of            *)
(* checkLeader() and triggerLeader() tell the Timer... actions apart.  A   *)
(* heartbeat is asked by the timer, answered by HeartBeatHandler, and      *)
(* counted at once or late: the round that a reply carries is compared     *)
(* with the round of the same Call, so that nothing keeps a reply from     *)
(* being counted rounds later.  A Call that is lost is one whose answer    *)
(* is never taken.                                                         *)
(*                                                                         *)
(* Of the log, only what election reads or changes is here: the promised   *)
(* round and the role.  A Prepare, once sent, may reach its peer at any    *)
(* time, as often as PrepareReqs make its leader send it.  The counts of   *)
(* updateMissedHbsAndReconnect() are read by nothing here; what it sends   *)
(* is in SequencePaxos.  ReconnectedHandler() makes followers of peers     *)
(* that follow another peer, which LeaderFollowsItself shows to be         *)
(* followers anyway.                                                       *)
(***************************************************************************)
EXTENDS Ballots

CONSTANTS
    MaxN,         \* bound: no ballot number is raised above it
    MaxFaults,    \* bound: on late replies, crashes and changes of a link, together
    Down,         \* the links that are down at the start, as sets of two peers
    Flaky,        \* bound: the links that go down and come back
    Timely        \* TRUE: a link that is up answers within the round

ASSUME ElectionAssumption ==
    /\ MaxN \in Nat /\ MaxFaults \in Nat
    /\ Timely \in BOOLEAN

VARIABLES
    b,         \* b[s]: the number of the ballot s offers
    qc,        \* qc[s]: s was in touch with a majority
    ballots,   \* ballots[s]: the ballots heard in this round, with their qc
    L,         \* L[s]: the leader's ballot, persisted
    promised,  \* promised[s]: PromisedRnd, persisted
    role,      \* role[s]
    asked,     \* asked[s]: the peers that have not answered s yet
    late,      \* late[s]: the replies to s that are under way
    prepares,  \* the <<round, peer>> a Prepare was sent for and to
    down,      \* the links that are down
    offered,   \* history: the ballots that were put up for election
    faults

vars == <<b, qc, ballots, L, promised, role, asked, late, prepares,
          down, offered, faults>>

LEADER   == "LEADER"
FOLLOWER == "FOLLOWER"

Own(s) == [N |-> b[s], Pid |-> s]

Up(s, p) == {s, p} \notin down

-----------------------------------------------------------------------------
NoBallots == [x \in {} |-> FALSE]

Init ==
    /\ b = [s \in Server |-> 0]
    /\ qc = [s \in Server |-> TRUE]
    /\ ballots = [s \in Server |-> NoBallots]
    /\ L = [s \in Server |-> ZeroBallot]
    /\ promised = [s \in Server |-> ZeroBallot]
    /\ role = [s \in Server |-> FOLLOWER]
    /\ asked = [s \in Server |-> {}]
    /\ late = [s \in Server |-> {}]
    /\ prepares = {}
    /\ down = Down
    /\ offered = [N : {0}, Pid : Server]
    /\ faults = 0
-----------------------------------------------------------------------------
(* startTimer() *)

\* The ballots s decides on: those it heard, and its own.
Heard(s) ==
    [x \in DOMAIN ballots[s] \cup {Own(s)} |->
        IF x = Own(s) THEN qc[s] ELSE ballots[s][x]]

Candidates(s) == {x \in DOMAIN Heard(s) : Heard(s)[x]}

HasMajority(s) == Cardinality(DOMAIN Heard(s)) >= Majority

\* Mutant: the greatest candidate wins even at or below os.L.
WinsAny(s, n) == n \in Candidates(s) /\ \A x \in Candidates(s) : Leq(x, n)

\* The greatest candidate is above os.L.
Wins(s, n) ==
    /\ n \in Candidates(s)
    /\ Less(L[s], n)
    /\ \A x \in Candidates(s) : Leq(x, n)

\* What every round ends with: a heartbeat to every other peer.
EndRound(s) ==
    /\ ballots' = [ballots EXCEPT ![s] = NoBallots]
    /\ asked' = [asked EXCEPT ![s] = {p \in Server \ {s} : Up(s, p)}]
    /\ UNCHANGED <<late, down, faults>>

InTime(s) == Timely => asked[s] = {}

\* No majority: s no longer puts itself up.
TimerAlone(s) ==
    /\ InTime(s)
    /\ ~HasMajority(s)
    /\ qc' = [qc EXCEPT ![s] = FALSE]
    /\ EndRound(s)
    /\ UNCHANGED <<b, L, promised, role, prepares, offered>>

\* Mutant: the raised ballot is offered without its quorum.
TimerRaiseUnseen(s) ==
    /\ InTime(s)
    /\ HasMajority(s)
    /\ \A x \in Candidates(s) : Less(x, L[s])
    /\ L[s].N < MaxN
    /\ b' = [b EXCEPT ![s] = L[s].N + 1]
    /\ offered' = offered \cup {[N |-> L[s].N + 1, Pid |-> s]}
    /\ EndRound(s)
    /\ UNCHANGED <<qc, L, promised, role, prepares>>

\* The leader is not among the candidates, and nobody greater is: s offers
\* a ballot above the leader's.
TimerRaise(s) ==
    /\ InTime(s)
    /\ HasMajority(s)
    /\ \A x \in Candidates(s) : Less(x, L[s])
    /\ L[s].N < MaxN
    /\ b' = [b EXCEPT ![s] = L[s].N + 1]
    /\ qc' = [qc EXCEPT ![s] = TRUE]
    /\ offered' = offered \cup {[N |-> L[s].N + 1, Pid |-> s]}
    /\ EndRound(s)
    /\ UNCHANGED <<L, promised, role, prepares>>

\* Mutant: a peer that keeps its leader says it has no quorum.
TimerKeepQuits(s) ==
    /\ InTime(s)
    /\ HasMajority(s)
    /\ L[s] \in Candidates(s)
    /\ \A x \in Candidates(s) : Leq(x, L[s])
    /\ qc' = [qc EXCEPT ![s] = FALSE]
    /\ EndRound(s)
    /\ UNCHANGED <<b, L, promised, role, prepares, offered>>

\* The leader is the greatest candidate still.
TimerKeep(s) ==
    /\ InTime(s)
    /\ HasMajority(s)
    /\ L[s] \in Candidates(s)
    /\ \A x \in Candidates(s) : Leq(x, L[s])
    /\ EndRound(s)
    /\ UNCHANGED <<b, qc, L, promised, role, prepares, offered>>

\* Another peer wins, or s does with a ballot that is not above what it has
\* promised.
TimerFollow(s) ==
    /\ InTime(s)
    /\ HasMajority(s)
    /\ \E n \in Candidates(s) :
        /\ Wins(s, n)
        /\ ~(n.Pid = s /\ Less(promised[s], n))
        /\ L' = [L EXCEPT ![s] = n]
    /\ role' = [role EXCEPT ![s] = FOLLOWER]
    /\ EndRound(s)
    /\ UNCHANGED <<b, qc, promised, prepares, offered>>

Leads(s, n) == Wins(s, n) /\ n.Pid = s /\ Less(promised[s], n)

PreparesOf(n) == {<<n, p>> : p \in {q \in Server \ {n.Pid} : Up(q, n.Pid)}}

TimerLead(s) ==
    /\ InTime(s)
    /\ HasMajority(s)
    /\ \E n \in Candidates(s) :
        /\ Leads(s, n)
        /\ L' = [L EXCEPT ![s] = n]
        /\ promised' = [promised EXCEPT ![s] = n]
        /\ prepares' = prepares \cup PreparesOf(n)
    /\ qc' = [qc EXCEPT ![s] = TRUE]
    /\ role' = [role EXCEPT ![s] = LEADER]
    /\ EndRound(s)
    /\ UNCHANGED <<b, offered>>

Timer(s) ==
    \/ TimerAlone(s) \/ TimerRaise(s) \/ TimerKeep(s) \/ TimerFollow(s) \/ TimerLead(s)
-----------------------------------------------------------------------------
(* Heartbeats *)

\* Mutant: the answer offers the number after the leader's, before it is chosen.
ReplyNext(p) == [n |-> [N |-> L[p].N + 1, Pid |-> p], q |-> qc[p]]

\* What HeartBeatHandler answers.
Reply(p) == [n |-> Own(p), q |-> qc[p]]

Counted(s, r) ==
    [ballots EXCEPT ![s] = [x \in DOMAIN @ \cup {r.n} |-> IF x = r.n THEN r.q ELSE @[x]]]

HeartBeatHandler(s, p) ==
    /\ p \in asked[s]
    /\ asked' = [asked EXCEPT ![s] = @ \ {p}]
    /\ ballots' = Counted(s, Reply(p))
    /\ UNCHANGED <<b, qc, L, promised, role, late, prepares, down, offered, faults>>

HeartBeatLate(s, p) ==
    /\ ~Timely
    /\ p \in asked[s]
    /\ faults < MaxFaults
    /\ faults' = faults + 1
    /\ asked' = [asked EXCEPT ![s] = @ \ {p}]
    /\ late' = [late EXCEPT ![s] = @ \cup {Reply(p)}]
    /\ UNCHANGED <<b, qc, ballots, L, promised, role, prepares, down, offered>>

CountLate(s, r) ==
    /\ r \in late[s]
    /\ late' = [late EXCEPT ![s] = @ \ {r}]
    /\ ballots' = Counted(s, r)
    /\ UNCHANGED <<b, qc, L, promised, role, asked, prepares, down, offered, faults>>

\* A leader that p asks sends it its round; p may be s itself, whose
\* question of its second timer round comes late.
PrepareReqHandler(s, p) ==
    /\ role[s] = LEADER
    /\ Up(s, p)
    /\ p = s => ~Timely
    /\ prepares' = prepares \cup {<<promised[s], p>>}
    /\ UNCHANGED <<b, qc, ballots, L, promised, role, asked, late, down, offered, faults>>

\* Mutant: a leader that promises a greater round goes on leading.
PrepareHandlerLeads(s, n) ==
    /\ <<n, s>> \in prepares
    /\ Leq(promised[s], n)
    /\ promised' = [promised EXCEPT ![s] = n]
    /\ UNCHANGED <<b, qc, ballots, L, role, asked, late, prepares, down, offered, faults>>

\* PrepareHandler, as far as election goes.
PrepareHandler(s, n) ==
    /\ <<n, s>> \in prepares
    /\ Leq(promised[s], n)
    /\ promised' = [promised EXCEPT ![s] = n]
    /\ role' = [role EXCEPT ![s] = FOLLOWER]
    /\ UNCHANGED <<b, qc, ballots, L, asked, late, prepares, down, offered, faults>>
-----------------------------------------------------------------------------
(* Crashes and links. *)

\* s is built again from what is persisted.  Its Calls are gone, and so are
\* the ones it has not answered.
Reboot(s) ==
    /\ faults < MaxFaults
    /\ faults' = faults + 1
    /\ b' = [b EXCEPT ![s] = 0]
    /\ qc' = [qc EXCEPT ![s] = TRUE]
    /\ ballots' = [ballots EXCEPT ![s] = NoBallots]
    /\ role' = [role EXCEPT ![s] = FOLLOWER]
    /\ asked' = [t \in Server |-> IF t = s THEN {} ELSE asked[t] \ {s}]
    /\ late' = [late EXCEPT ![s] = {}]
    /\ UNCHANGED <<down, offered>>

Crash(s) == Reboot(s) /\ UNCHANGED <<L, promised, prepares>>

\* Mutant: the Prepares leave before L is saved.
LeadThenCrashUnsaved(s) ==
    /\ InTime(s)
    /\ HasMajority(s)
    /\ \E n \in Candidates(s) :
        /\ Leads(s, n)
        /\ prepares' = prepares \cup PreparesOf(n)
    /\ Reboot(s)
    /\ UNCHANGED <<L, promised>>

\* The Prepares leave, and L is saved, before PromisedRnd is.
LeadThenCrash(s) ==
    /\ InTime(s)
    /\ HasMajority(s)
    /\ \E n \in Candidates(s) :
        /\ Leads(s, n)
        /\ L' = [L EXCEPT ![s] = n]
        /\ prepares' = prepares \cup PreparesOf(n)
    /\ Reboot(s)
    /\ UNCHANGED promised

\* A link goes down: the Calls on it fail.  A reply that is past the last
\* look at the link, or a handler that waits for op.mu, is not called back.
Cut(s, p) ==
    /\ s < p /\ Up(s, p) /\ {s, p} \in Flaky
    /\ faults < MaxFaults
    /\ faults' = faults + 1
    /\ down' = down \cup {{s, p}}
    /\ asked' = [asked EXCEPT ![s] = @ \ {p}, ![p] = @ \ {s}]
    /\ UNCHANGED <<b, qc, ballots, L, promised, role, late, prepares, offered>>

Heal(s, p) ==
    /\ s < p /\ ~Up(s, p) /\ {s, p} \in Flaky
    /\ faults < MaxFaults
    /\ faults' = faults + 1
    /\ down' = down \ {{s, p}}
    /\ UNCHANGED <<b, qc, ballots, L, promised, role, asked, late, prepares, offered>>
-----------------------------------------------------------------------------
Next ==
    \/ \E s \in Server : Timer(s) \/ Crash(s) \/ LeadThenCrash(s)
    \/ \E s, p \in Server : HeartBeatHandler(s, p) \/ HeartBeatLate(s, p)
    \/ \E s \in Server : \E r \in late[s] : CountLate(s, r)
    \/ \E s, p \in Server : PrepareReqHandler(s, p)
    \/ \E x \in prepares : PrepareHandler(x[2], x[1])
    \/ \E s, p \in Server : Cut(s, p) \/ Heal(s, p)

Spec == Init /\ [][Next]_vars

\* The loop of startTimer() has no end, and links that are up answer: where
\* answers are timely, every peer that has a link asks, and has its answers,
\* again and again, and a Prepare reaches a peer it has a link to.
Fairness ==
    \A s \in Server :
        /\ []<>(asked[s] = {})
        /\ []<>(asked[s] # {} \/ \A p \in Server \ {s} : ~Up(s, p))
        /\ WF_vars(\E x \in prepares :
                x[2] = s /\ Up(s, x[1].Pid) /\ PrepareHandler(s, x[1]))

FairSpec == Spec /\ Fairness
-----------------------------------------------------------------------------
(* Properties *)

\* Every variable has its type.
TypeOK ==
    /\ b \in [Server -> Nat] /\ qc \in [Server -> BOOLEAN]
    /\ L \in [Server -> Ballot] /\ promised \in [Server -> Ballot]
    /\ role \in [Server -> {LEADER, FOLLOWER}]
    /\ DOMAIN ballots = Server
    /\ \A s \in Server : \A x \in DOMAIN ballots[s] : x \in Ballot /\ ballots[s][x] \in BOOLEAN
    /\ asked \in [Server -> SUBSET Server]
    /\ late \in [Server -> SUBSET [n : Ballot, q : BOOLEAN]]
    /\ prepares \subseteq Ballot \X Server /\ offered \subseteq Ballot
    /\ faults \in Nat

\* What the log relies on: L[s] only ever goes up, to ballots that were put
\* up for election, also when heartbeats are late and peers restart.
E == INSTANCE Election

ElectsOffered == E!ElectionSpec

\* A peer that takes itself for the leader follows its own ballot, and has
\* promised no later round (GetState() reports it, Proposal() relies on it).
LeaderFollowsItself ==
    \A s \in Server : role[s] = LEADER => L[s].Pid = s /\ promised[s] = L[s]

\* No round is begun twice: when a peer begins to lead with a ballot, no
\* Prepare of it has ever been sent, not even by the same peer before a
\* crash (os.L is saved before the Prepares leave).
RoundsFresh ==
    [][\A s \in Server :
        role'[s] = LEADER /\ promised'[s] # promised[s] =>
            \A p \in Server : <<promised'[s], p>> \notin prepares]_vars

\* The inductive invariant behind the three properties above: whatever a
\* peer has heard, or will, was put up for election by its owner, and no
\* Prepare is under way whose round its leader has not saved.
EInv ==
    /\ TypeOK
    /\ \A s \in Server :
        /\ [N |-> 0, Pid |-> s] \in offered
        /\ Own(s) \in offered
        /\ DOMAIN ballots[s] \subseteq offered
        /\ \A r \in late[s] : r.n \in offered
    /\ \A x \in prepares : Leq(x[1], L[x[1].Pid])
    /\ LeaderFollowsItself

\* Whoever goes by a majority of ballots has heard of a majority of peers,
\* itself included: no peer counts twice with an old and a new ballot.
MajorityHeard ==
    \A s \in Server : HasMajority(s) => IsMajority({x.Pid : x \in DOMAIN Heard(s)})

\* Two peers that GetState() reports to be leaders report different ballot
\* numbers.
OneLeaderPerNumber ==
    \A s, t \in Server : role[s] = LEADER /\ role[t] = LEADER /\ b[s] = b[t] => s = t

\* Where links neither fail nor heal and no peer crashes, ballot numbers
\* settle: nobody is ever to offer a number above MaxN.
NumbersSettle ==
    \A s \in Server :
        InTime(s) /\ HasMajority(s) /\ (\A x \in Candidates(s) : Less(x, L[s])) => L[s].N < MaxN

Promisers(s) == {p \in Server : Up(s, p) /\ promised[p] = promised[s]}

\* Some peer comes to lead, and goes on to, with the promises of a majority
\* that it is in touch with: also when it is the only peer that is in touch
\* with a majority.
LeaderEmerges ==
    <>[](\E s \in Server : role[s] = LEADER /\ IsMajority(Promisers(s)))
=============================================================================
