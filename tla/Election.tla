------------------------------ MODULE Election ------------------------------
(***************************************************************************)
(* What ballot leader election promises to the log: a peer goes from one   *)
(* leader's ballot to a greater one only, and only to a ballot that its    *)
(* owner has offered while it was in touch with a majority.                *)
(***************************************************************************)
EXTENDS Ballots

VARIABLES L,        \* L[s]: the ballot of the leader s follows
          offered   \* the ballots that were put up for election

ElectionInit ==
    /\ L = [s \in Server |-> ZeroBallot]
    /\ offered = [N : {0}, Pid : Server]

Offer ==
    /\ \E n \in offered' : n \in Ballot /\ offered' = offered \cup {n}
    /\ UNCHANGED L

Elect(s, n) ==
    /\ n \in offered
    /\ Less(L[s], n)
    /\ L' = [L EXCEPT ![s] = n]
    /\ UNCHANGED offered

ElectionNext ==
    \/ Offer
    \/ \E s \in Server : \E n \in offered : Elect(s, n)

ElectionSpec == ElectionInit /\ [][ElectionNext]_<<L, offered>>
=============================================================================
