-------------------------- MODULE MCSequencePaxos --------------------------
(***************************************************************************)
(* Instances of SequencePaxos for TLC.                                     *)
(***************************************************************************)
EXTENDS SequencePaxos, TLC

CONSTANTS c1, c2

\* Commands are opaque to the log.
Symmetric == Permutations({c1, c2} \cap Command)

\* Who wins an election: one peer once; or two peers, in either order and
\* both at a time.
OneRound == {[N |-> 1, Pid |-> 1]}

TwoRounds == {[N |-> 1, Pid |-> 1], [N |-> 1, Pid |-> 2]}
=============================================================================
