----------------------------- MODULE MCShardKV -----------------------------
(* Instances of ShardKV for TLC. *)
EXTENDS ShardKV

App(i, v)    == [cmd |-> "append", shard |-> i, value |-> v]
Get(i)       == [cmd |-> "get", shard |-> i, value |-> 0]

\* Every clerk appends; or appends and reads; or calls nothing.
OneAppend     == [c \in Clerk |-> <<App(1, <<c, 1>>)>>]
AppendThenRead == [c \in Clerk |-> <<App(1, <<c, 1>>), Get(1)>>]
Nothing       == [c \in Clerk |-> <<>>]

\* Numbers of replicas, and of entries.
One == [g \in Group |-> 1]
TwoAndOne == <<2, 1>>
FiveEntries == [g \in Group |-> 5]
SixEntries == [g \in Group |-> 6]
ThreeAndTwo == <<3, 2>>
FourAndThree == <<4, 3>>
SixAndFive == <<6, 5>>

Owners(s) == [n \in 0..Len(s) |-> [i \in Shard |-> IF n = 0 THEN 0 ELSE s[n][i]]]

\* The configurations: a shard that goes to the second group, and back, and
\* there again; one that is taken from the first group, and given to the
\* second later; two shards of which one moves, and then the other too.
Forth        == Owners(<< <<1>>, <<2>> >>)
BackAndForth == Owners(<< <<1>>, <<2>>, <<1>> >>)
Again        == Owners(<< <<1>>, <<2>>, <<1>>, <<2>> >>)
Orphan       == Owners(<< <<1>>, <<0>>, <<2>> >>)
OneByOne     == Owners(<< <<1, 1>>, <<1, 2>>, <<2, 2>> >>)
=============================================================================
