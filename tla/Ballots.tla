------------------------------ MODULE Ballots ------------------------------
(***************************************************************************)
(* The peers of one OmniPaxos group and the ballots that order its leaders *)
(* (a2-omnipaxos/omnipaxos.go).  A peer is its index into peers[], a       *)
(* ballot the pair of a number and the peer it belongs to, compared by     *)
(* number and then by peer.                                                *)
(***************************************************************************)
EXTENDS Integers, FiniteSets

CONSTANT NumServers    \* len(peers)

ASSUME NumServersAssumption == NumServers \in Nat \ {0}

Server == 0 .. NumServers - 1

Ballot == [N : Nat, Pid : Server]

(***************************************************************************)
(* The Go zero value.  Make() writes {-1, -1} into the ballots of the      *)
(* persistent state and then overwrites them in readPersist(): decoding    *)
(* an empty Persister fails, the error is dropped, and the zero state is   *)
(* what remains.                                                           *)
(***************************************************************************)
ZeroBallot == [N |-> 0, Pid |-> 0]

\* b.compare(o) < 0
Less(b, o) == b.N < o.N \/ (b.N = o.N /\ b.Pid < o.Pid)

\* b.compare(o) <= 0
Leq(b, o) == Less(b, o) \/ b = o

\* The number of peers the code takes for a majority: (len(op.peers)+1)/2.
Majority == (NumServers + 1) \div 2

IsMajority(Q) == Cardinality(Q) >= Majority
=============================================================================
