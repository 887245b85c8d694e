----------------------------- MODULE AgreedLog -----------------------------
(***************************************************************************)
(* The log of one group, as OmniPaxos promises it to the service above:    *)
(* what the services of a3-kvpaxos and a3b-sharding are modelled on.       *)
(*                                                                         *)
(* `log' is what is chosen, and plog[s] the log that s holds.  Only the    *)
(* leader that was elected last gets entries chosen, those of its own log  *)
(* in order; it starts from the chosen log or from one that extends it.    *)
(* An old leader may not know that it has been replaced: it takes          *)
(* proposals, and loses them when it follows.  How a log of peers comes to *)
(* this is the matter of SequencePaxos.                                    *)
(***************************************************************************)
EXTENDS Integers, Sequences, FiniteSets

CONSTANTS
    Server,
    MaxLog,       \* bound: on the entries of a log
    MaxBuffer,    \* bound: on the proposals a leader takes while it prepares
    MaxLeads      \* bound: on elections

ASSUME LogAssumption == MaxLog \in Nat /\ MaxBuffer \in Nat /\ MaxLeads \in Nat

VARIABLES
    log,       \* the entries that are chosen
    plog,      \* plog[s]: os.Log of s
    buffer,    \* buffer[s]: what s took while it prepared
    phase,     \* phase[s]: FOLLOWER, or the phase of a leader
    elected    \* the servers elected so far, the current leader last

logVars == <<log, plog, buffer, phase, elected>>

LogInit ==
    /\ log = <<>>
    /\ plog = [s \in Server |-> <<>>]
    /\ buffer = [s \in Server |-> <<>>]
    /\ phase = [s \in Server |-> "FOLLOWER"]
    /\ elected = <<>>

Prefix(x, y) == Len(x) <= Len(y) /\ x = SubSeq(y, 1, Len(x))

Leader(s) == elected # <<>> /\ elected[Len(elected)] = s

Elect(s) ==
    /\ Len(elected) < MaxLeads
    /\ elected' = Append(elected, s)
    /\ phase' = [phase EXCEPT ![s] = "PREPARE"]
    /\ buffer' = [buffer EXCEPT ![s] = <<>>]
    /\ UNCHANGED <<log, plog>>

\* A majority has promised: s takes over the log of one of them, which holds
\* all that is chosen, and adds what it has buffered.  (The code empties the
\* buffer when s leads again, before it is read again.)
Prepared(s) ==
    /\ Leader(s) /\ phase[s] = "PREPARE"
    /\ \E x \in {log} \cup {plog[t] : t \in Server} :
        /\ Prefix(log, x)
        /\ plog' = [plog EXCEPT ![s] = x \o buffer[s]]
    /\ phase' = [phase EXCEPT ![s] = "ACCEPT"]
    /\ buffer' = [buffer EXCEPT ![s] = <<>>]
    /\ UNCHANGED <<log, elected>>

Choose(s) ==
    /\ Leader(s) /\ phase[s] = "ACCEPT"
    /\ Len(log) < Len(plog[s])
    /\ log' = Append(log, plog[s][Len(log) + 1])
    /\ UNCHANGED <<plog, buffer, phase, elected>>

\* s hears of the leader l and gets its log.
Follow(s, l) ==
    /\ s # l /\ Leader(l) /\ phase[l] = "ACCEPT"
    /\ <<plog[s], phase[s]>> # <<plog[l], "FOLLOWER">>
    /\ plog' = [plog EXCEPT ![s] = plog[l]]
    /\ phase' = [phase EXCEPT ![s] = "FOLLOWER"]
    /\ UNCHANGED <<log, buffer, elected>>

LogNext ==
    \/ \E s \in Server : Elect(s) \/ Prepared(s) \/ Choose(s)
    \/ \E s, l \in Server : Follow(s, l)

\* Proposal() of a leader that accepts, and of one that prepares; the others
\* return -1 and change nothing.
ProposeAccept(s, x) ==
    /\ phase[s] = "ACCEPT"
    /\ Len(plog[s]) < MaxLog
    /\ plog' = [plog EXCEPT ![s] = Append(@, x)]
    /\ UNCHANGED <<log, buffer, phase, elected>>

ProposePrepare(s, x) ==
    /\ phase[s] = "PREPARE"
    /\ Len(buffer[s]) < MaxBuffer
    /\ buffer' = [buffer EXCEPT ![s] = Append(@, x)]
    /\ UNCHANGED <<log, plog, phase, elected>>

\* What Proposal() returned as the index: where the entry was appended, or
\* the last one before a buffered one, -1 when there is none.
IndexAt(s) == IF phase[s] = "ACCEPT" THEN Len(plog[s]) ELSE Len(plog[s]) - 1

\* A peer that is built again has its log, and leads no more.
LogRestart(s) ==
    /\ phase' = [phase EXCEPT ![s] = "FOLLOWER"]
    /\ buffer' = [buffer EXCEPT ![s] = <<>>]
    /\ UNCHANGED <<log, plog, elected>>

\* The entry that comes through the applyCh of s after n others.
Delivers(s, n) == n < Len(log) /\ Prefix(SubSeq(log, 1, n + 1), plog[s])
=============================================================================
