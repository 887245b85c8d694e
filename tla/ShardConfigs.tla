---------------------------- MODULE ShardConfigs ----------------------------
(***************************************************************************)
(* The configurations of the shard controller: what applyJoin, applyLeave  *)
(* and applyMove make of the last one (shardctrler/server.go).             *)
(*                                                                         *)
(* Every replica computes the next configuration by itself, from the log:  *)
(* the operators here are functions of the configuration and the command.  *)
(* In the code the maps are iterated in no fixed order; sortedKeys() makes *)
(* the choice of a group independent of it.                                *)
(***************************************************************************)
EXTENDS Integers, Sequences, FiniteSets, FiniteSetsExt

CONSTANTS
    NShards,
    GID,         \* the groups there may be; 0 is no group
    MaxConfigs,  \* bound: on configurations
    MaxMoves     \* bound: on Moves

ASSUME ConfigAssumption ==
    /\ NShards \in Nat \ {0} /\ GID \subseteq Nat \ {0}
    /\ MaxConfigs \in Nat /\ MaxMoves \in Nat

VARIABLES
    num,      \* Num of the last configuration
    shards,   \* its Shards: shards[i] is the group that serves shard i
    groups,   \* the keys of its Groups
    moves

vars == <<num, shards, groups, moves>>

Shard == 0..(NShards - 1)

Init ==
    /\ num = 0
    /\ shards = [i \in Shard |-> 0]
    /\ groups = {}
    /\ moves = 0
-----------------------------------------------------------------------------
\* The shards of group g, in increasing order.
ShardsOf(a, g) ==
    LET S == {i \in Shard : a[i] = g} IN
    [n \in 1..Cardinality(S) |-> CHOOSE i \in S : Cardinality({j \in S : j <= i}) = n]

\* Of the groups in all, the one with most shards and the one with fewest,
\* the smallest gid of several; shards that belong to no group go first.
maxGroup(all) ==
    IF 0 \in DOMAIN all /\ all[0] # <<>> THEN 0
    ELSE CHOOSE g \in DOMAIN all : \A h \in DOMAIN all :
            \/ Len(all[h]) < Len(all[g])
            \/ Len(all[h]) = Len(all[g]) /\ g <= h

\* Mutant of minGroup: the first group, however many shards it has.
minGroupFirst(all) ==
    IF DOMAIN all \subseteq {0} THEN 0
    ELSE CHOOSE g \in DOMAIN all \ {0} : \A h \in DOMAIN all \ {0} : g <= h

minGroup(all) ==
    IF DOMAIN all \subseteq {0} THEN 0
    ELSE CHOOSE g \in DOMAIN all \ {0} : \A h \in DOMAIN all \ {0} :
            \/ Len(all[g]) < Len(all[h])
            \/ Len(all[g]) = Len(all[h]) /\ g <= h

\* The assignment when no two groups in all differ by more than one shard.
RECURSIVE balance(_, _)
balance(all, a) ==
    LET max == maxGroup(all)
        min == minGroup(all)
        first == Head(all[max])
    IN  IF max # 0 /\ Len(all[max]) <= 1 + Len(all[min])
        THEN a
        ELSE balance([all EXCEPT ![max] = Tail(@), ![min] = Append(@, first)],
                     [a EXCEPT ![first] = min])

\* Mutant of Joined: every shard is dealt out again.
JoinedAfresh(a, G) ==
    balance([g \in G \cup {a[i] : i \in Shard} \cup {0} |->
                IF g = 0 THEN [n \in 1..NShards |-> n - 1] ELSE <<>>], a)

Joined(a, G) ==
    balance([g \in G \cup {a[i] : i \in Shard} |-> ShardsOf(a, g)], a)

\* The shards of the groups that leave, from i on, go to the smallest group
\* one by one; to none when no group is left.
RECURSIVE assingToMin(_, _, _, _)
assingToMin(i, G, all, a) ==
    IF i = NShards THEN a
    ELSE IF a[i] \notin G THEN assingToMin(i + 1, G, all, a)
    ELSE LET min == minGroup(all) IN
         assingToMin(i + 1, G,
             IF min = 0 THEN all ELSE [all EXCEPT ![min] = Append(@, i)],
             [a EXCEPT ![i] = min])

\* Mutant of Left: the groups that leave are still among those that may get
\* a shard.
LeftAmongAll(a, gs, G) == assingToMin(0, G, [g \in gs |-> ShardsOf(a, g)], a)

Left(a, gs, G) == assingToMin(0, G, [g \in gs \ G |-> ShardsOf(a, g)], a)
-----------------------------------------------------------------------------
NextConfig(a, gs) ==
    /\ num < MaxConfigs
    /\ num' = num + 1
    /\ shards' = a
    /\ groups' = gs

\* Clerks name at least one group: balance() with no group at all would
\* never end.
applyJoin(G) ==
    /\ G # {}
    /\ NextConfig(Joined(shards, G), groups \cup G)
    /\ UNCHANGED moves

applyLeave(G) ==
    /\ NextConfig(Left(shards, groups, G), groups \ G)
    /\ UNCHANGED moves

applyMove(i, g) ==
    /\ moves < MaxMoves
    /\ moves' = moves + 1
    /\ NextConfig([shards EXCEPT ![i] = g], groups)

Next ==
    \/ \E G \in SUBSET GID : applyJoin(G)
    \/ \E G \in SUBSET groups : applyLeave(G)
    \/ \E i \in Shard, g \in groups : applyMove(i, g)

Spec == Init /\ [][Next]_vars
-----------------------------------------------------------------------------
(* Properties *)

Size(a, g) == Cardinality({i \in Shard : a[i] = g})

Even(a, gs) == \A g, h \in gs : Size(a, g) <= Size(a, h) + 1

\* Until the first Move, the groups' numbers of shards never differ by more
\* than one (balance and assingToMin).
Balanced == moves = 0 => Even(shards, groups)

\* Every shard is at a group of the configuration; it is at none only when
\* there is none.
OwnersLive ==
    \A i \in Shard : shards[i] \in groups \/ (shards[i] = 0 /\ groups = {})

\* How many shards can stay where they are when gs is to be balanced: each
\* group keeps its share, and the groups that have more keep one more as far
\* as the remainder goes.
Stay(a, gs) ==
    LET k == Cardinality(gs)
        q == NShards \div k
        More == {g \in gs : Size(a, g) > q}
        r == NShards % k
    IN  MapThenSumSet(LAMBDA g : Min({Size(a, g), q}), gs) + Min({Cardinality(More), r})

Moved == {i \in Shard : shards'[i] # shards[i]}

\* Until the first Move, a Join or a Leave moves as few shards as possible.
FewestMoves ==
    [][moves' = 0 /\ groups' # {}
        => Cardinality(Moved) = NShards - Stay(shards, groups')]_vars

\* In one change a group only gains or only loses shards: two groups never
\* wait for each other's.
OneWay ==
    [][\A i, j \in Moved : shards'[i] # shards[j] \/ shards[j] = 0]_vars

\* A Join leaves the groups balanced, whatever Moves came before.
JoinBalances == [][groups' \ groups # {} => Even(shards', groups')]_vars

\* A Leave leaves the groups balanced, whatever Moves came before.
LeaveBalances == [][groups \ groups' # {} => Even(shards', groups')]_vars
=============================================================================
