--------------------------- MODULE SequencePaxos ---------------------------
(***************************************************************************)
(* Log replication of one OmniPaxos group: every RPC handler of            *)
(* a2-omnipaxos/omnipaxos.go, Proposal(), the leader event, crashes and    *)
(* restarts from the Persister, over the labrpc network.                   *)
(*                                                                         *)
(* Each handler body runs under op.mu, so each is one action.  What the    *)
(* ballot leader election decides reaches this module as the events        *)
(* FollowLeader and BecomeLeader, for any ballot above os.L: that is all   *)
(* checkLeader() guarantees of the ballot it hands to triggerLeader().     *)
(***************************************************************************)
EXTENDS Ballots, Sequences, Functions

CONSTANTS
    Command,         \* the calls of Proposal(), each with a command of its own
    Elected,         \* bound: the ballots that win an election
    MaxCrashes,      \* bound: how often a peer crashes and restarts
    MaxTimer,        \* bound: on peers that reach their second timer round, and on
                     \* links that a leader sees come back, together
    Ordered,         \* TRUE: a link delivers in the order of sending
    Lossy            \* TRUE: a link may lose messages

ASSUME BoundsAssumption ==
    /\ Elected \subseteq Ballot
    /\ MaxCrashes \in Nat /\ MaxTimer \in Nat
    /\ Ordered \in BOOLEAN /\ Lossy \in BOOLEAN

VARIABLES
    os,          \* os[s]: the OmniPaxosState in memory
    disk,        \* disk[s]: the OmniPaxosState in the Persister
    state,       \* state[s]: role and phase
    currentRnd,  \* currentRnd[s]: the round s leads, or last led
    promises,    \* promises[s]: the promises for currentRnd[s], by follower
    maxProm,     \* maxProm[s]: accRnd and logIdx of the promise adopted
    accepted,    \* accepted[s][f]: the log length f last acknowledged to s
    buffer,      \* buffer[s]: the commands proposed while s was preparing
    net,         \* net[s][d]: the RPCs in flight from s to d
    proposed,    \* proposed[c]: the index Proposal(c) returned
    chosen,      \* every <<index, command>> ever sent on some applyCh
    asked,       \* the peers past their second timer round since they started
    crashes, reconnects   \* how often each has happened

leaderVars == <<currentRnd, promises, maxProm, accepted, buffer>>
envVars    == <<asked, crashes, reconnects>>
vars == <<os, disk, state, leaderVars, net, proposed, chosen, envVars>>

LEADER   == "LEADER"
FOLLOWER == "FOLLOWER"
PREPARE  == "PREPARE"
ACCEPT   == "ACCEPT"
RECOVER  == "RECOVER"

NotProposed == -2       \* proposed[c] before the call; Proposal returns >= -1

In(s, role, phase) == state[s] = [role |-> role, phase |-> phase]
-----------------------------------------------------------------------------
(* Logs.  An index is a length: the first idx entries, as in the code. *)

Prefix(log, idx) == SubSeq(log, 1, IF idx > Len(log) THEN Len(log) ELSE idx)

Suffix(log, idx) == SubSeq(log, idx + 1, Len(log))

\* What addToApplyChan(log, from, to) puts on the channel.
Applied(log, from, to) ==
    {<<i, log[i]>> : i \in {j \in DOMAIN log : from < j /\ j <= to}}
-----------------------------------------------------------------------------
(* The network. *)

\* The positions from which a link may deliver next.
Deliverable(src, dst) ==
    {i \in DOMAIN net[src][dst] : Ordered => i = 1}

Without(src, dst, i) == [net EXCEPT ![src][dst] = Prefix(@, i - 1) \o Suffix(@, i)]

\* nt with out[d] appended to the link from s to every d.
SendFrom(nt, s, out) == [nt EXCEPT ![s] = [d \in Server |-> @[d] \o out[d]]]

ToOnly(dst, ms) == [d \in Server |-> IF d = dst THEN ms ELSE <<>>]

ToAll(D, m) == [d \in Server |-> IF d \in D THEN <<m>> ELSE <<>>]

PrepareMsg(n, o) ==
    [type |-> "Prepare", N |-> n, AccRnd |-> o.AcceptedRnd,
     LogIdx |-> Len(o.Log), DecIdx |-> o.DecidedIdx]

\* Mutant: the suffix starts one entry late.
AcceptSyncMsgShort(n, log, syncIdx) ==
    [type |-> "AcceptSync", N |-> n, Sfx |-> Suffix(log, syncIdx + 1), SyncIdx |-> syncIdx]

AcceptSyncMsg(n, log, syncIdx) ==
    [type |-> "AcceptSync", N |-> n, Sfx |-> Suffix(log, syncIdx), SyncIdx |-> syncIdx]

AcceptMsg(n, idx, c) == [type |-> "Accept", N |-> n, Idx |-> idx, C |-> c]

AcceptedMsg(n, logIdx) == [type |-> "Accepted", N |-> n, LogIdx |-> logIdx]

DecideMsg(n, decIdx) == [type |-> "Decide", N |-> n, DecIdx |-> decIdx]

PrepareReqMsg == [type |-> "PrepareReq"]

ReconnectedMsg == [type |-> "Reconnected"]
-----------------------------------------------------------------------------
ZeroState == [L |-> ZeroBallot, Log |-> <<>>, PromisedRnd |-> ZeroBallot,
              AcceptedRnd |-> ZeroBallot, DecidedIdx |-> 0]

NoPromise == [accRnd |-> ZeroBallot, logIdx |-> 0]

Init ==
    /\ os = [s \in Server |-> ZeroState]
    /\ disk = [s \in Server |-> ZeroState]
    /\ state = [s \in Server |-> [role |-> FOLLOWER, phase |-> PREPARE]]
    /\ currentRnd = [s \in Server |-> ZeroBallot]
    /\ promises = [s \in Server |-> <<>>]
    /\ maxProm = [s \in Server |-> NoPromise]
    /\ accepted = [s \in Server |-> [f \in Server |-> 0]]
    /\ buffer = [s \in Server |-> <<>>]
    /\ net = [s \in Server |-> [d \in Server |-> <<>>]]
    /\ proposed = [c \in Command |-> NotProposed]
    /\ chosen = {}
    /\ asked = {}
    /\ crashes = 0
    /\ reconnects = 0

persist(s) == disk' = [disk EXCEPT ![s] = os'[s]]

\* The process of s dies and Make() builds it again from the state d of its
\* Persister; nt is the network it leaves.  The connections of the old process
\* are gone, so what it sent to itself is never delivered.
Reboot(s, d, nt) ==
    /\ crashes < MaxCrashes
    /\ crashes' = crashes + 1
    /\ os' = [os EXCEPT ![s] = d]
    /\ disk' = [disk EXCEPT ![s] = d]
    /\ state' = [state EXCEPT ![s] = [role |-> FOLLOWER, phase |-> PREPARE]]
    /\ currentRnd' = [currentRnd EXCEPT ![s] = ZeroBallot]
    /\ promises' = [promises EXCEPT ![s] = <<>>]
    /\ maxProm' = [maxProm EXCEPT ![s] = NoPromise]
    /\ accepted' = [accepted EXCEPT ![s] = [f \in Server |-> 0]]
    /\ buffer' = [buffer EXCEPT ![s] = <<>>]
    /\ asked' = asked \ {s}
    /\ net' = [nt EXCEPT ![s][s] = <<>>]
    /\ UNCHANGED <<proposed, reconnects>>

\* What Make() puts on the applyCh again.
Replayed(d) == Applied(d.Log, 0, d.DecidedIdx)

Crash(s) ==
    /\ Reboot(s, disk[s], net)
    /\ chosen' = chosen \cup Replayed(disk[s])
-----------------------------------------------------------------------------
(* The leader event: checkLeader() found max > os.L. *)

\* triggerLeader(n.Pid, n) when n is not s's to lead: the role changes, the
\* phase stays.
FollowLeader(s, n) ==
    /\ Less(os[s].L, n)
    /\ ~(n.Pid = s /\ Less(os[s].PromisedRnd, n))
    /\ os' = [os EXCEPT ![s].L = n]
    /\ persist(s)
    /\ state' = [state EXCEPT ![s].role = FOLLOWER]
    /\ UNCHANGED <<leaderVars, net, proposed, chosen, envVars>>

LeadGuard(s, n) == Less(os[s].L, n) /\ n.Pid = s /\ Less(os[s].PromisedRnd, n)

OwnPromise(s) ==
    [accRnd |-> os[s].AcceptedRnd, logIdx |-> Len(os[s].Log),
     decIdx |-> os[s].DecidedIdx, log |-> Suffix(os[s].Log, os[s].DecidedIdx)]

PrepareAll(s, n) == SendFrom(net, s, ToAll(Server \ {s}, PrepareMsg(n, os[s])))

BecomeLeader(s, n) ==
    /\ LeadGuard(s, n)
    /\ os' = [os EXCEPT ![s].L = n, ![s].PromisedRnd = n]
    /\ persist(s)
    /\ state' = [state EXCEPT ![s] = [role |-> LEADER, phase |-> PREPARE]]
    /\ currentRnd' = [currentRnd EXCEPT ![s] = n]
    /\ promises' = [promises EXCEPT ![s] = [f \in {s} |-> OwnPromise(s)]]
    /\ maxProm' = [maxProm EXCEPT ![s] = NoPromise]
    /\ accepted' = [accepted EXCEPT ![s] = [f \in Server |-> 0]]
    /\ buffer' = [buffer EXCEPT ![s] = <<>>]
    /\ net' = PrepareAll(s, n)
    /\ UNCHANGED <<proposed, chosen, envVars>>

\* Mutant: os.L is not saved before the Prepares leave.
BecomeLeaderThenForget(s, n) ==
    /\ LeadGuard(s, n)
    /\ Reboot(s, disk[s], PrepareAll(s, n))
    /\ chosen' = chosen \cup Replayed(disk[s])

\* The Prepares leave before the last persist(); os.L was saved before them.
BecomeLeaderThenCrash(s, n) ==
    LET d == [disk[s] EXCEPT !.L = n] IN
    /\ LeadGuard(s, n)
    /\ Reboot(s, d, PrepareAll(s, n))
    /\ chosen' = chosen \cup Replayed(d)
-----------------------------------------------------------------------------
(* Proposal(c) *)

ProposeBuffer(s, c) ==
    /\ proposed[c] = NotProposed
    /\ In(s, LEADER, PREPARE)
    /\ buffer' = [buffer EXCEPT ![s] = Append(@, c)]
    /\ proposed' = [proposed EXCEPT ![c] = Len(os[s].Log) - 1]
    /\ UNCHANGED <<os, disk, state, currentRnd, promises, maxProm, accepted,
                   net, chosen, envVars>>

ProposeAppend(s, c) ==
    LET idx == Len(os[s].Log) + 1
        followers == DOMAIN promises[s] \ {s}
    IN
    /\ proposed[c] = NotProposed
    /\ In(s, LEADER, ACCEPT)
    /\ os' = [os EXCEPT ![s].Log = Append(@, c)]
    /\ persist(s)
    /\ accepted' = [accepted EXCEPT ![s][s] = idx]
    /\ net' = SendFrom(net, s, ToAll(followers, AcceptMsg(currentRnd[s], idx, c)))
    /\ proposed' = [proposed EXCEPT ![c] = idx - 1]
    /\ UNCHANGED <<state, currentRnd, promises, maxProm, buffer, chosen, envVars>>
-----------------------------------------------------------------------------
(* The RPC handlers.  Each consumes message i of the link from src to s. *)

\* Mutant: any Prepare is obeyed.
PrepareGuardAny(s, m) == m.type = "Prepare"

PrepareGuard(s, m) == m.type = "Prepare" /\ Leq(os[s].PromisedRnd, m.N)

PromiseGuard(s, m) == m.type = "Promise" /\ m.N = currentRnd[s]

AcceptSyncGuard(s, m) ==
    m.type = "AcceptSync" /\ m.N = os[s].PromisedRnd /\ In(s, FOLLOWER, PREPARE)

AcceptGuard(s, m) ==
    m.type = "Accept" /\ m.N = os[s].PromisedRnd /\ In(s, FOLLOWER, ACCEPT)

AcceptedGuard(s, m) ==
    m.type = "Accepted" /\ m.N = os[s].PromisedRnd /\ In(s, LEADER, ACCEPT)

DecideGuard(s, m) ==
    /\ m.type = "Decide" /\ m.N = os[s].PromisedRnd /\ In(s, FOLLOWER, ACCEPT)
    /\ os[s].DecidedIdx < m.DecIdx /\ m.DecIdx <= Len(os[s].Log)

PrepareReqGuard(s, m) == m.type = "PrepareReq" /\ state[s].role = LEADER

ReconnectedGuard(s, m) == m.type = "Reconnected"

\* The answer to Prepare m, with the part of the log its sender may lack.
PromiseMsg(o, m) ==
    LET sfx == IF Less(m.AccRnd, o.AcceptedRnd) THEN Suffix(o.Log, m.DecIdx)
               ELSE IF m.AccRnd = o.AcceptedRnd THEN Suffix(o.Log, m.LogIdx)
               ELSE <<>>
    IN  [type |-> "Promise", N |-> m.N, AccRnd |-> o.AcceptedRnd,
         LogIdx |-> Len(o.Log), DecIdx |-> o.DecidedIdx, Sfx |-> sfx]

\* Mutant: the promise is not saved.
PrepareHandlerUnsaved(src, s, i) ==
    LET m == net[src][s][i] IN
    /\ PrepareGuard(s, m)
    /\ state' = [state EXCEPT ![s] = [role |-> FOLLOWER, phase |-> PREPARE]]
    /\ os' = [os EXCEPT ![s].PromisedRnd = m.N]
    /\ net' = SendFrom(Without(src, s, i), s, ToOnly(src, <<PromiseMsg(os[s], m)>>))
    /\ UNCHANGED <<disk, leaderVars, proposed, chosen, envVars>>

PrepareHandler(src, s, i) ==
    LET m == net[src][s][i] IN
    /\ PrepareGuard(s, m)
    /\ state' = [state EXCEPT ![s] = [role |-> FOLLOWER, phase |-> PREPARE]]
    /\ os' = [os EXCEPT ![s].PromisedRnd = m.N]
    /\ persist(s)
    /\ net' = SendFrom(Without(src, s, i), s, ToOnly(src, <<PromiseMsg(os[s], m)>>))
    /\ UNCHANGED <<leaderVars, proposed, chosen, envVars>>

\* op.promises with the promise m of f in it.
WithPromise(s, f, m) ==
    [g \in DOMAIN promises[s] \cup {f} |->
        IF g = f
        THEN [accRnd |-> m.AccRnd, logIdx |-> m.LogIdx, decIdx |-> m.DecIdx, log |-> m.Sfx]
        ELSE promises[s][g]]

\* What maxPromise() may return: it ranges over a map, in any order, and
\* keeps the first of the greatest.
MaxPromises(ps) ==
    {p \in Range(ps) : \A q \in Range(ps) :
        \/ Less(q.accRnd, p.accRnd)
        \/ q.accRnd = p.accRnd /\ q.logIdx <= p.logIdx}

\* The promise is only recorded: s no longer leads, or has no majority yet.
PromiseRecorded(src, s, i) ==
    LET m == net[src][s][i]
        ps == WithPromise(s, src, m)
    IN
    /\ PromiseGuard(s, m)
    /\ \/ state[s].role # LEADER
       \/ In(s, LEADER, PREPARE) /\ ~IsMajority(DOMAIN ps)
    /\ promises' = [promises EXCEPT ![s] = ps]
    /\ net' = Without(src, s, i)
    /\ UNCHANGED <<os, disk, state, currentRnd, maxProm, accepted, buffer,
                   proposed, chosen, envVars>>

\* The log the leader starts its round with, from the greatest promise.
SyncedLog(s, max) ==
    (IF max.accRnd # os[s].AcceptedRnd THEN Prefix(os[s].Log, os[s].DecidedIdx)
                                       ELSE os[s].Log)
        \o max.log \o buffer[s]

SyncIdx(p, max) == IF p.accRnd = max.accRnd THEN p.logIdx ELSE p.decIdx

\* Mutant: the suffixes are cut before the buffer is appended.
AcceptSyncAllEarly(s, ps, max, n) ==
    [d \in Server |->
        IF d \in DOMAIN ps
        THEN <<AcceptSyncMsg(n, Prefix(SyncedLog(s, max), Len(SyncedLog(s, max)) - Len(buffer[s])),
                             SyncIdx(ps[d], max))>>
        ELSE <<>>]

AcceptSyncAll(s, ps, max, n) ==
    [d \in Server |->
        IF d \in DOMAIN ps
        THEN <<AcceptSyncMsg(n, SyncedLog(s, max), SyncIdx(ps[d], max))>>
        ELSE <<>>]

PromiseMajorityGuard(src, s, i) ==
    /\ PromiseGuard(s, net[src][s][i])
    /\ In(s, LEADER, PREPARE)
    /\ IsMajority(DOMAIN WithPromise(s, src, net[src][s][i]))

PromiseMajority(src, s, i) ==
    LET m == net[src][s][i]
        ps == WithPromise(s, src, m)
    IN
    /\ PromiseMajorityGuard(src, s, i)
    /\ \E max \in MaxPromises(ps) :
        /\ maxProm' = [maxProm EXCEPT ![s] = [accRnd |-> max.accRnd, logIdx |-> max.logIdx]]
        /\ os' = [os EXCEPT ![s].Log = SyncedLog(s, max), ![s].AcceptedRnd = currentRnd[s]]
        /\ accepted' = [accepted EXCEPT ![s][s] = Len(SyncedLog(s, max))]
        /\ net' = SendFrom(Without(src, s, i), s, AcceptSyncAll(s, ps, max, m.N))
    /\ persist(s)
    /\ promises' = [promises EXCEPT ![s] = ps]
    /\ state' = [state EXCEPT ![s] = [role |-> LEADER, phase |-> ACCEPT]]
    /\ UNCHANGED <<currentRnd, buffer, proposed, chosen, envVars>>

\* The AcceptSyncs leave before the persist() at the end of the handler.
PromiseMajorityThenCrash(src, s, i) ==
    LET m == net[src][s][i]
        ps == WithPromise(s, src, m)
    IN
    /\ PromiseMajorityGuard(src, s, i)
    /\ \E max \in MaxPromises(ps) :
        Reboot(s, disk[s], SendFrom(Without(src, s, i), s, AcceptSyncAll(s, ps, max, m.N)))
    /\ chosen' = chosen \cup Replayed(disk[s])

\* A promise that comes after the majority.
PromiseLate(src, s, i) ==
    LET m == net[src][s][i]
        syncIdx == IF m.AccRnd = maxProm[s].accRnd THEN maxProm[s].logIdx ELSE m.DecIdx
        decide == IF os[s].DecidedIdx > m.DecIdx
                  THEN <<DecideMsg(m.N, os[s].DecidedIdx)>> ELSE <<>>
    IN
    /\ PromiseGuard(s, m)
    /\ In(s, LEADER, ACCEPT)
    /\ promises' = [promises EXCEPT ![s] = WithPromise(s, src, m)]
    /\ net' = SendFrom(Without(src, s, i), s,
                       ToOnly(src, <<AcceptSyncMsg(m.N, os[s].Log, syncIdx)>> \o decide))
    /\ disk' = [disk EXCEPT ![s] = os[s]]
    /\ UNCHANGED <<os, state, currentRnd, maxProm, accepted, buffer,
                   proposed, chosen, envVars>>

\* Mutant: the accepted round is not updated.
AcceptSyncHandlerOldRound(src, s, i) ==
    LET m == net[src][s][i]
        log == Prefix(os[s].Log, m.SyncIdx) \o m.Sfx
    IN
    /\ AcceptSyncGuard(s, m)
    /\ os' = [os EXCEPT ![s].Log = log]
    /\ state' = [state EXCEPT ![s] = [role |-> FOLLOWER, phase |-> ACCEPT]]
    /\ persist(s)
    /\ net' = SendFrom(Without(src, s, i), s, ToOnly(src, <<AcceptedMsg(m.N, Len(log))>>))
    /\ UNCHANGED <<leaderVars, proposed, chosen, envVars>>

AcceptSyncHandler(src, s, i) ==
    LET m == net[src][s][i]
        log == Prefix(os[s].Log, m.SyncIdx) \o m.Sfx
    IN
    /\ AcceptSyncGuard(s, m)
    /\ os' = [os EXCEPT ![s].AcceptedRnd = m.N, ![s].Log = log]
    /\ state' = [state EXCEPT ![s] = [role |-> FOLLOWER, phase |-> ACCEPT]]
    /\ persist(s)
    /\ net' = SendFrom(Without(src, s, i), s, ToOnly(src, <<AcceptedMsg(m.N, Len(log))>>))
    /\ UNCHANGED <<leaderVars, proposed, chosen, envVars>>

\* The command is appended wherever the log ends; m.Idx is not looked at.
AcceptHandler(src, s, i) ==
    LET m == net[src][s][i] IN
    /\ AcceptGuard(s, m)
    /\ os' = [os EXCEPT ![s].Log = Append(@, m.C)]
    /\ persist(s)
    /\ net' = SendFrom(Without(src, s, i), s,
                       ToOnly(src, <<AcceptedMsg(m.N, Len(os[s].Log) + 1)>>))
    /\ UNCHANGED <<state, leaderVars, proposed, chosen, envVars>>

WithAccepted(s, f, logIdx) == [accepted[s] EXCEPT ![f] = logIdx]

\* Mutant: one entry too many.
hasMajorityPast(acc, v) == IsMajority({f \in Server : acc[f] > v})

hasMajorityAccepted(acc, v) == IsMajority({f \in Server : acc[f] >= v})

Decides(s, f, m) ==
    /\ m.LogIdx > os[s].DecidedIdx
    /\ hasMajorityAccepted(WithAccepted(s, f, m.LogIdx), m.LogIdx)

AcceptedRecorded(src, s, i) ==
    LET m == net[src][s][i] IN
    /\ AcceptedGuard(s, m)
    /\ ~Decides(s, src, m)
    /\ accepted' = [accepted EXCEPT ![s] = WithAccepted(s, src, m.LogIdx)]
    /\ net' = Without(src, s, i)
    /\ UNCHANGED <<os, disk, state, currentRnd, promises, maxProm, buffer,
                   proposed, chosen, envVars>>

AcceptedDecides(src, s, i) ==
    LET m == net[src][s][i] IN
    /\ AcceptedGuard(s, m)
    /\ Decides(s, src, m)
    /\ m.LogIdx <= Len(os[s].Log)
    /\ accepted' = [accepted EXCEPT ![s] = WithAccepted(s, src, m.LogIdx)]
    /\ chosen' = chosen \cup Applied(os[s].Log, os[s].DecidedIdx, m.LogIdx)
    /\ os' = [os EXCEPT ![s].DecidedIdx = m.LogIdx]
    /\ persist(s)
    /\ net' = SendFrom(Without(src, s, i), s,
                       ToAll(DOMAIN promises[s], DecideMsg(currentRnd[s], m.LogIdx)))
    /\ UNCHANGED <<state, currentRnd, promises, maxProm, buffer, proposed, envVars>>

\* The entries reach the applyCh before persist(): the peer dies in between,
\* or dies of log[i] with i past the end of its log.
AcceptedDecidesThenCrash(src, s, i) ==
    LET m == net[src][s][i] IN
    /\ AcceptedGuard(s, m)
    /\ Decides(s, src, m)
    /\ Reboot(s, disk[s], Without(src, s, i))
    /\ chosen' = chosen \cup Applied(os[s].Log, os[s].DecidedIdx, m.LogIdx) \cup Replayed(disk[s])

\* Mutant: the decided index is moved one too far.
DecideHandlerPast(src, s, i) ==
    LET m == net[src][s][i] IN
    /\ DecideGuard(s, m)
    /\ chosen' = chosen \cup Applied(os[s].Log, os[s].DecidedIdx, m.DecIdx)
    /\ os' = [os EXCEPT ![s].DecidedIdx = m.DecIdx + 1]
    /\ persist(s)
    /\ net' = Without(src, s, i)
    /\ UNCHANGED <<state, leaderVars, proposed, envVars>>

DecideHandler(src, s, i) ==
    LET m == net[src][s][i] IN
    /\ DecideGuard(s, m)
    /\ chosen' = chosen \cup Applied(os[s].Log, os[s].DecidedIdx, m.DecIdx)
    /\ os' = [os EXCEPT ![s].DecidedIdx = m.DecIdx]
    /\ persist(s)
    /\ net' = Without(src, s, i)
    /\ UNCHANGED <<state, leaderVars, proposed, envVars>>

DecideThenCrash(src, s, i) ==
    LET m == net[src][s][i] IN
    /\ DecideGuard(s, m)
    /\ Reboot(s, disk[s], Without(src, s, i))
    /\ chosen' = chosen \cup Applied(os[s].Log, os[s].DecidedIdx, m.DecIdx) \cup Replayed(disk[s])

ReconnectedHandler(src, s, i) ==
    /\ ReconnectedGuard(s, net[src][s][i])
    /\ state' = IF src = os[s].L.Pid
                THEN [state EXCEPT ![s] = [role |-> FOLLOWER, phase |-> RECOVER]]
                ELSE state
    /\ net' = SendFrom(Without(src, s, i), s, ToOnly(src, <<PrepareReqMsg>>))
    /\ UNCHANGED <<os, disk, leaderVars, proposed, chosen, envVars>>

PrepareReqHandler(src, s, i) ==
    /\ PrepareReqGuard(s, net[src][s][i])
    /\ net' = SendFrom(Without(src, s, i), s,
                       ToOnly(src, <<PrepareMsg(currentRnd[s], os[s])>>))
    /\ UNCHANGED <<os, disk, state, leaderVars, proposed, chosen, envVars>>

Handled(s, m) ==
    \/ PrepareGuard(s, m) \/ PromiseGuard(s, m) \/ AcceptSyncGuard(s, m)
    \/ AcceptGuard(s, m) \/ AcceptedGuard(s, m) \/ DecideGuard(s, m)
    \/ PrepareReqGuard(s, m) \/ ReconnectedGuard(s, m)

\* A message whose handler returns at once, or that the network loses.  It
\* matters where it holds up the messages behind it; on a link that delivers
\* in any order such a message may as well stay in flight for ever.
Discard(src, s, i) ==
    /\ Ordered
    /\ Lossy \/ ~Handled(s, net[src][s][i])
    /\ net' = Without(src, s, i)
    /\ UNCHANGED <<os, disk, state, leaderVars, proposed, chosen, envVars>>
-----------------------------------------------------------------------------
(* The messages of the timer loop, updateMissedHbsAndReconnect(). *)

\* restart.loop == 2: once per start, to every peer, s itself included.  A
\* group of three or more elects s in its third round at the earliest: in the
\* first only its own ballot is there, and in the second that has qc = FALSE.
AskForPrepare(s) ==
    /\ s \notin asked
    /\ currentRnd[s] = ZeroBallot
    /\ Cardinality(asked) + reconnects < MaxTimer
    /\ asked' = asked \cup {s}
    /\ net' = SendFrom(net, s, ToAll(Server, PrepareReqMsg))
    /\ UNCHANGED <<os, disk, state, leaderVars, proposed, chosen, crashes, reconnects>>

\* The peer s takes for the leader, itself, hears p again after more than
\* three silent rounds.
LinkReconnected(s, p) ==
    /\ p # s
    /\ s = os[s].L.Pid
    /\ Cardinality(asked) + reconnects < MaxTimer
    /\ reconnects' = reconnects + 1
    /\ net' = SendFrom(net, s, ToOnly(p, <<ReconnectedMsg>>))
    /\ UNCHANGED <<os, disk, state, leaderVars, proposed, chosen, asked, crashes>>
-----------------------------------------------------------------------------
Handle(src, s, i) ==
    \/ PrepareHandler(src, s, i)
    \/ PromiseRecorded(src, s, i)
    \/ PromiseMajority(src, s, i)
    \/ PromiseMajorityThenCrash(src, s, i)
    \/ PromiseLate(src, s, i)
    \/ AcceptSyncHandler(src, s, i)
    \/ AcceptHandler(src, s, i)
    \/ AcceptedRecorded(src, s, i)
    \/ AcceptedDecides(src, s, i)
    \/ AcceptedDecidesThenCrash(src, s, i)
    \/ DecideHandler(src, s, i)
    \/ DecideThenCrash(src, s, i)
    \/ ReconnectedHandler(src, s, i)
    \/ PrepareReqHandler(src, s, i)
    \/ Discard(src, s, i)

Deliver(src, s) == \E i \in Deliverable(src, s) : Handle(src, s, i)

Next ==
    \/ \E s \in Server, n \in Elected :
          \/ FollowLeader(s, n)
          \/ BecomeLeader(s, n)
          \/ BecomeLeaderThenCrash(s, n)
    \/ \E s \in Server, c \in Command : ProposeBuffer(s, c) \/ ProposeAppend(s, c)
    \/ \E src, s \in Server : Deliver(src, s)
    \/ \E s \in Server : AskForPrepare(s) \/ Crash(s)
    \/ \E s, p \in Server : LinkReconnected(s, p)

Spec == Init /\ [][Next]_vars

\* While a message can be delivered and handled, one is: the goroutines that
\* wait for op.mu get it, and the links keep delivering.
FairSpec == Spec /\ WF_vars(\E src, s \in Server : Deliver(src, s))
-----------------------------------------------------------------------------
(* Properties *)

Log == Seq(Command)

LogState == [L : Ballot, Log : Log, PromisedRnd : Ballot, AcceptedRnd : Ballot,
             DecidedIdx : Nat]

Promise == [accRnd : Ballot, logIdx : Nat, decIdx : Nat, log : Log]

Message ==
    [type : {"Prepare"}, N : Ballot, AccRnd : Ballot, LogIdx : Nat, DecIdx : Nat]
    \cup [type : {"Promise"}, N : Ballot, AccRnd : Ballot, LogIdx : Nat,
          DecIdx : Nat, Sfx : Log]
    \cup [type : {"AcceptSync"}, N : Ballot, Sfx : Log, SyncIdx : Nat]
    \cup [type : {"Accept"}, N : Ballot, Idx : Nat, C : Command]
    \cup [type : {"Accepted"}, N : Ballot, LogIdx : Nat]
    \cup [type : {"Decide"}, N : Ballot, DecIdx : Nat]
    \cup [type : {"PrepareReq"}] \cup [type : {"Reconnected"}]

PromisesOK ==
    /\ promises = [s \in Server |-> promises[s]]
    /\ \A s \in Server : \E D \in SUBSET Server : promises[s] \in [D -> Promise]

\* Every variable of the code keeps its Go type: rounds are ballots of the
\* group, indices are natural numbers, every RPC carries the fields its
\* handler reads.
TypeOK ==
    /\ os \in [Server -> LogState]
    /\ disk \in [Server -> LogState]
    /\ state \in [Server -> [role : {LEADER, FOLLOWER}, phase : {PREPARE, ACCEPT, RECOVER}]]
    /\ currentRnd \in [Server -> Ballot]
    /\ PromisesOK
    /\ maxProm \in [Server -> [accRnd : Ballot, logIdx : Nat]]
    /\ accepted \in [Server -> [Server -> Nat]]
    /\ buffer \in [Server -> Log]
    /\ net \in [Server -> [Server -> Seq(Message)]]
    /\ proposed \in [Command -> Int]
    /\ chosen \subseteq (Nat \X Command)
    /\ asked \subseteq Server
    /\ crashes \in Nat /\ reconnects \in Nat

InFlight(src, dst) == Range(net[src][dst])

StrictMajority(Q) == 2 * Cardinality(Q) > NumServers

\* No peer ever goes back on an answer: when a Promise or an Accepted of
\* PrepareHandler, AcceptSyncHandler or AcceptHandler is under way, its sender
\* has the round on disk, whatever it has restarted from since.
PromisesKept ==
    \A f, l \in Server : \A m \in InFlight(f, l) :
        /\ m.type = "Promise" => Leq(m.N, disk[f].PromisedRnd)
        /\ m.type = "Accepted" => Leq(m.N, disk[f].AcceptedRnd)

\* When PromiseHandler has moved a leader to the ACCEPT phase, more than half
\* of the group refuses every older round, also after crashes.
LeaderFenced ==
    \A s \in Server : In(s, LEADER, ACCEPT) =>
        StrictMajority({f \in Server : Leq(currentRnd[s], disk[f].PromisedRnd)})

\* AcceptedHandler decides only what more than half of the group has on disk
\* as accepted in the leader's round or a later one: no stale, duplicated or
\* foreign acknowledgement counts, and none outlives what it acknowledged.
DecisionBacked ==
    [][\A s \in Server :
        state[s].role = LEADER /\ os'[s].DecidedIdx > os[s].DecidedIdx =>
            StrictMajority({f \in Server : Leq(currentRnd[s], disk'[f].AcceptedRnd)})]_vars

RoundMessage == {"Prepare", "Promise", "AcceptSync", "Accept", "Accepted", "Decide"}

\* Round n has left a trace: a message of it, or a peer that joined it.
RoundUsed(n) ==
    \/ \E s \in Server : n \in {disk[s].PromisedRnd, disk[s].AcceptedRnd, os[s].PromisedRnd}
    \/ \E src, dst \in Server : \E m \in InFlight(src, dst) :
          m.type \in RoundMessage /\ m.N = n

\* triggerLeader never starts a round a second time: no message and no promise
\* of the new round exists yet.  A leader that crashes in the middle of it
\* comes back with the os.L it had saved, and cannot lead that round again.
FreshRounds ==
    [][\A s \in Server :
        currentRnd'[s] \notin {currentRnd[s], ZeroBallot} => ~RoundUsed(currentRnd'[s])]_vars

\* What a peer has on disk never falls back: not the leader it follows, the
\* round it promised, the round it accepted in, nor how much it has decided,
\* whatever messages arrive late and wherever it crashes.
RoundsNeverRegress ==
    [][\A s \in Server :
        /\ Leq(disk[s].L, disk'[s].L)
        /\ Leq(disk[s].PromisedRnd, disk'[s].PromisedRnd)
        /\ Leq(disk[s].AcceptedRnd, disk'[s].AcceptedRnd)
        /\ disk[s].DecidedIdx <= disk'[s].DecidedIdx]_vars

\* No two peers, and no peer at two times, put different commands on their
\* applyCh at one index (checkConsistency in the tests' config.go).
Agreement == \A e, f \in chosen : e[1] = f[1] => e = f

\* A follower that has synchronised with a leader holds a prefix of its log:
\* what AcceptSyncHandler and AcceptHandler build is what the leader has.
FollowersHoldPrefix ==
    \A s, f \in Server :
        In(s, LEADER, ACCEPT) /\ os[f].AcceptedRnd = currentRnd[s]
            => os[f].Log = Prefix(os[s].Log, Len(os[f].Log))

\* No peer has decided past the end of its log, which Make() replays up to
\* DecidedIdx after a restart.  (With MaxTimer > 0 it may: the Prepare that
\* answers a PrepareReq starts a second AcceptSync of the same round, and the
\* Decides between the two find a log that is too short.)
DecidedWithinLog == \A s \in Server : os[s].DecidedIdx <= Len(os[s].Log)

\* A command that Proposal() took is decided in the end, when the leader that
\* took it is not replaced and has not asked itself for a Prepare before it
\* led (PrepareHandler makes a follower of it when the answer comes).
ProposalsDecided ==
    \A c \in Command :
        proposed[c] # NotProposed ~>
            \/ \E e \in chosen : e[2] = c
            \/ \E s \in asked : os[s].L.Pid = s

\* A command is applied at the index Proposal() returned for it ("the index
\* that the command will appear at if it's ever committed", counted from 0).
IndexKept == \A e \in chosen : e[1] = proposed[e[2]] + 1
-----------------------------------------------------------------------------
(* The inductive invariant: why the properties about rounds hold. *)

\* Round r was started by its owner, who remembers it in os.L.
Owned(r) == Leq(r, os[r.Pid].L)

\* A peer in the ACCEPT phase has accepted in the round it promised; a leader
\* leads that round, past the PREPARE phase with the promises of a majority.
RoundState(s) ==
    /\ state[s].phase = ACCEPT => os[s].AcceptedRnd = os[s].PromisedRnd
    /\ state[s].role = LEADER =>
          /\ currentRnd[s] = os[s].PromisedRnd
          /\ state[s].phase = ACCEPT => IsMajority(DOMAIN promises[s])

\* The promises and acknowledgements a leader has counted are kept.
Counted(s) ==
    /\ \A f \in DOMAIN promises[s] : Leq(currentRnd[s], os[f].PromisedRnd)
    /\ state[s].role = LEADER =>
          \A f \in Server : accepted[s][f] > 0 => Leq(currentRnd[s], os[f].AcceptedRnd)

PeerInv(s) ==
    /\ Leq(os[s].AcceptedRnd, os[s].PromisedRnd)
    /\ Owned(os[s].PromisedRnd) /\ Owned(os[s].AcceptedRnd) /\ Owned(currentRnd[s])
    /\ RoundState(s)
    /\ Counted(s)

MessageInv(src, m) ==
    /\ m.type \in RoundMessage => Owned(m.N)
    /\ m.type = "Promise" => Leq(m.N, os[src].PromisedRnd)
    /\ m.type = "Accepted" => Leq(m.N, os[src].AcceptedRnd)

\* Rounds belong to their owners, leaders to their rounds, and every promise
\* and acknowledgement, counted or under way, is kept by the peer that gave it.
IInv ==
    /\ TypeOK
    /\ disk = os
    /\ \A s \in Server : PeerInv(s)
    /\ \A src, dst \in Server : \A m \in InFlight(src, dst) : MessageInv(src, m)
=============================================================================
