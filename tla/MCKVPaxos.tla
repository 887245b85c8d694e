----------------------------- MODULE MCKVPaxos -----------------------------
(***************************************************************************)
(* Instances of KVPaxos for TLC: what the clerks call.                     *)
(***************************************************************************)
EXTENDS KVPaxos, TLC

CONSTANTS c1, c2, k, v1, v2

Get(key)           == [op |-> "Get", key |-> key, value |-> NoCommand]
Put(key, value)    == [op |-> "Put", key |-> key, value |-> value]
AppendTo(key, value) == [op |-> "Append", key |-> key, value |-> value]

\* One clerk writes, the other writes and reads what it finds.
WriteRead == c1 :> <<AppendTo(k, v1)>> @@ c2 :> <<AppendTo(k, v2), Get(k)>>

\* Two clerks read one key, one of them after it has written it.
ReadRead == c1 :> <<Get(k)>> @@ c2 :> <<Put(k, v1), Get(k)>>

\* Two clerks append the same value.
SameAppend == c1 :> <<AppendTo(k, v1)>> @@ c2 :> <<AppendTo(k, v1)>>

Symmetry == Permutations(Server)
=============================================================================
