--------------------------- MODULE MCShardCtrler ---------------------------
(***************************************************************************)
(* Instances of ShardCtrler for TLC: what the clerks call.                 *)
(***************************************************************************)
EXTENDS ShardCtrler, TLC

CONSTANTS c1, c2

\* One clerk changes the configuration twice, the other asks for it; or one
\* asks for it, and the other does nothing.
ChangesQuery == c1 :> <<"Join", "Leave">> @@ c2 :> <<"Query">>

OneQuery == c1 :> <<"Query">> @@ c2 :> <<>>

Symmetry == Permutations(Server)
=============================================================================
