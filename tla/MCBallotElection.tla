-------------------------- MODULE MCBallotElection --------------------------
(***************************************************************************)
(* Instances of BallotElection for TLC.                                    *)
(***************************************************************************)
EXTENDS BallotElection, TLC

\* Peer 1 is in touch with both others, which are not with each other.
Ends == {{0, 2}}

\* Every link.
Links == {{s, p} : s, p \in Server} \ {{s} : s \in Server}

\* Nobody is in touch with anybody; the link of 1 and 2 may come up.
Apart == {{0, 1}, {0, 2}, {1, 2}}
OneLink == {{1, 2}}

\* Of five peers, 1 is in touch with 0 and 2, which are with nobody else.
Line == {{0, 2}} \cup {{s, p} : s \in 0 .. 2, p \in 3 .. 4} \cup {{3, 4}}

\* Of five peers, 2 is in touch with all others, which are not with each other.
Hub == {{s, p} : s, p \in Server \ {2}} \ {{s} : s \in Server}
=============================================================================
