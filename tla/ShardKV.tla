------------------------------ MODULE ShardKV ------------------------------
(***************************************************************************)
(* The sharded key/value service (a3b-sharding/shardkv): groups of         *)
(* replicas that serve shards, take the configurations of the controller   *)
(* one by one, and hand shards over to each other.                         *)
(*                                                                         *)
(* The log of a group is abstract: a proposal is under way until it is     *)
(* chosen, or for ever, and what is chosen stays.  Any replica may take    *)
(* itself for the leader.  Every shard has one key, and its value is the   *)
(* sequence of the strings that it is put together from.  Config is what   *)
(* the controller decides: Config[n][i] is the group of shard i in         *)
(* configuration n, 0 for none (ShardConfigs has how it comes about).      *)
(***************************************************************************)
EXTENDS Integers, Sequences, FiniteSets

CONSTANTS
    Group,        \* the gids
    Replicas,     \* Replicas[g]: the number of replicas of group g
    Shard,
    Config,       \* Config[n], for n in 0..
    Clerk,
    Script,       \* Script[c]: the operations that c calls, one by one
    None,
    Paced,        \* TRUE: the controller waits for the groups to catch up
    MaxLog,       \* bound: MaxLog[g], on the entries of the log of g
    MaxFaults     \* bound: on restarts, and on attempts to catch up that end
                  \* unanswered, together

Replica == UNION {{g} \X (1..Replicas[g]) : g \in Group}

ASSUME ShardAssumption ==
    /\ Replicas \in [Group -> Nat \ {0}] /\ MaxLog \in [Group -> Nat]
    /\ MaxFaults \in Nat
    /\ Paced \in BOOLEAN /\ 0 \notin Group
    /\ Config[0] = [i \in Shard |-> 0]

VARIABLES
    log,        \* log[g]: the entries that are chosen in group g
    pend,       \* pend[g]: the proposals of g that are not chosen yet
    config,     \* config[r]: Num of the configuration of replica r
    store,      \* store[r][i]: the value of shard i
    prevReq,    \* prevReq[r][c]: the last request of c that r knows of
    applied,    \* applied[r]: how many entries r has applied
    catch,      \* catch[r]: where r's catchUp() is
    deletes,    \* the Deletes under way
    published,  \* the last configuration the controller has
    request,    \* request[c]: the request that c wants answered
    number,     \* number[c]: ck.requestId
    results,    \* results[c]: the values it may be answered with by now
    answer,     \* history: answer[c] is what c's last call returned
    acked,      \* history: the writes whose calls have returned
    before,     \* history: before[c] is acked when c's call began
    faults

groupVars == <<log, pend>>
replicaVars == <<config, store, prevReq, applied>>
clerkVars == <<request, number, answer, acked, before>>
vars == <<groupVars, replicaVars, catch, deletes, published, clerkVars, results, faults>>

Idle == [pc |-> "idle", i |-> 0, num |-> 0, latest |-> 0]

NoStore == [i \in Shard |-> <<>>]
NoReqs  == [c \in Clerk |-> 0]

Init ==
    /\ log = [g \in Group |-> <<>>]
    /\ pend = [g \in Group |-> {}]
    /\ config = [r \in Replica |-> 0]
    /\ store = [r \in Replica |-> NoStore]
    /\ prevReq = [r \in Replica |-> NoReqs]
    /\ applied = [r \in Replica |-> 0]
    /\ catch = [r \in Replica |-> Idle]
    /\ deletes = {}
    /\ published = 0
    /\ request = [c \in Clerk |-> None]
    /\ number = NoReqs
    /\ results = [c \in Clerk |-> {}]
    /\ answer = [c \in Clerk |-> None]
    /\ acked = {}
    /\ before = [c \in Clerk |-> {}]
    /\ faults = 0
-----------------------------------------------------------------------------
(* The controller and the logs *)

Publish ==
    /\ published + 1 \in DOMAIN Config
    /\ Paced => \A r \in Replica : config[r] = published
    /\ published' = published + 1
    /\ UNCHANGED <<groupVars, replicaVars, catch, deletes, clerkVars, results, faults>>

Propose(g, x) == pend' = [pend EXCEPT ![g] = @ \cup {x}]

\* The next entry of the log.  A request may be under way more than once.
Choose(g, x) ==
    /\ x \in pend[g]
    /\ Len(log[g]) < MaxLog[g]
    /\ log' = [log EXCEPT ![g] = Append(@, x)]
    /\ pend' = IF x.cmd \in {"change", "delete"} THEN [pend EXCEPT ![g] = @ \ {x}] ELSE pend
    /\ UNCHANGED <<replicaVars, catch, deletes, published, clerkVars, results, faults>>
-----------------------------------------------------------------------------
(* Clerks *)

Invoke(c) ==
    /\ request[c] = None
    /\ number[c] < Len(Script[c])
    /\ number' = [number EXCEPT ![c] = @ + 1]
    /\ LET o == Script[c][number[c] + 1] IN
        request' = [request EXCEPT ![c] =
            [cmd |-> o.cmd, shard |-> o.shard, value |-> o.value, clerk |-> c, req |-> number[c] + 1]]
    /\ before' = [before EXCEPT ![c] = acked]
    /\ UNCHANGED <<groupVars, replicaVars, catch, deletes, published, results, answer, acked, faults>>

\* The clerk calls the group that some configuration names, the one it had
\* or the one it has asked for; a leader there proposes.
Request(c) ==
    /\ request[c] # None
    /\ \E n \in 1..published :
        LET g == Config[n][request[c].shard] IN
        /\ g \in Group
        /\ Propose(g, request[c])
    /\ UNCHANGED <<log, replicaVars, catch, deletes, published, clerkVars, results, faults>>

\* The result of the request reaches the clerk.
Return(c) ==
    /\ request[c] # None
    /\ \E v \in results[c] : answer' = [answer EXCEPT ![c] = v]
    /\ acked' = IF request[c].cmd = "get" THEN acked ELSE acked \cup {request[c]}
    /\ request' = [request EXCEPT ![c] = None]
    /\ results' = [results EXCEPT ![c] = {}]
    /\ UNCHANGED <<groupVars, replicaVars, catch, deletes, published, number, before, faults>>
-----------------------------------------------------------------------------
(* catchUp(): the configurations after one's own, in a loop *)

\* The configuration to take next: i + kv.config.Num, where kv.config.Num
\* has moved on with every round of the loop.
Goal(r, i, latest) ==
    IF i <= latest - config[r]
    THEN [pc |-> "get", i |-> i, num |-> i + config[r], latest |-> latest]
    ELSE Idle

CatchUp(r) ==
    /\ catch[r].pc = "idle"
    /\ config[r] < published
    /\ catch' = [catch EXCEPT ![r] = Goal(r, 1, published)]
    /\ UNCHANGED <<groupVars, replicaVars, deletes, published, clerkVars, results, faults>>

\* The shards that r has to fetch for configuration n, by the group that has
\* them in r's own configuration.
shardsToTransfer(r, n) ==
    {i \in Shard :
        /\ Config[n][i] = r[1]
        /\ Config[config[r]][i] \notin {r[1], 0}}

Sources(r, n) == {Config[config[r]][i] : i \in shardsToTransfer(r, n)}

\* Mutant: a source gives its store before it comes to configuration n.
TransfersEarly(r, n) ==
    {f \in [Sources(r, n) -> Replica] : \A g \in DOMAIN f : f[g][1] = g}

\* Transfer: a replica that has come to configuration n gives its store.
Transfers(r, n) ==
    {f \in [Sources(r, n) -> {t \in Replica : config[t] >= n}] :
        \A g \in DOMAIN f : f[g][1] = g}

Largest(S) == CHOOSE x \in S : \A y \in S : y <= x

\* getChangeOp(): every source has answered, and the Change is proposed.
getChangeOp(r) ==
    /\ catch[r].pc = "get"
    /\ LET n == catch[r].num IN
        \E from \in Transfers(r, n) :
            Propose(r[1],
                [cmd |-> "change", num |-> n,
                 store |-> [i \in Shard |->
                    IF i \in shardsToTransfer(r, n)
                    THEN store[from[Config[config[r]][i]]][i] ELSE <<>>],
                 prev |-> [c \in Clerk |->
                    Largest({0} \cup {prevReq[from[g]][c] : g \in DOMAIN from})]])
    /\ catch' = [catch EXCEPT ![r].pc = "wait"]
    /\ UNCHANGED <<log, replicaVars, deletes, published, clerkVars, results, faults>>

\* The Change, or one of the same number, was applied: the loop goes on.
CatchUpNext(r) ==
    /\ catch[r].pc = "wait"
    /\ \E k \in 1..applied[r] :
        log[r[1]][k].cmd = "change" /\ log[r[1]][k].num = catch[r].num
    /\ catch' = [catch EXCEPT ![r] = Goal(r, @.i + 1, @.latest)]
    /\ UNCHANGED <<groupVars, replicaVars, deletes, published, clerkVars, results, faults>>

\* No replica of a source is that far: the loop ends.
NoTransfer(r) ==
    /\ catch[r].pc = "get"
    /\ \E g \in Sources(r, catch[r].num) :
        \A t \in Replica : t[1] = g => config[t] < catch[r].num
    /\ catch' = [catch EXCEPT ![r] = Idle]
    /\ UNCHANGED <<groupVars, replicaVars, deletes, published, clerkVars, results, faults>>

\* Calls are lost, the proposal is late, or its index has another result:
\* the loop ends.
TimeOut(r) ==
    /\ catch[r].pc \in {"get", "wait"}
    /\ faults < MaxFaults
    /\ faults' = faults + 1
    /\ catch' = [catch EXCEPT ![r] = Idle]
    /\ UNCHANGED <<groupVars, replicaVars, deletes, published, clerkVars, results>>
-----------------------------------------------------------------------------
(* applier() *)

HasNext(r) == applied[r] < Len(log[r[1]])

Entry(r) == log[r[1]][applied[r] + 1]

isNew(r, x) == x.req > prevReq[r][x.clerk]

\* Mutant: the group of the shard is not looked at.
isWrongGroupNever(r, x) == FALSE

isWrongGroup(r, x) == Config[config[r]][x.shard] # r[1]

\* A result for a request that its clerk still wants answered.
Answered(x, v) ==
    [results EXCEPT ![x.clerk] = IF request[x.clerk] = x THEN @ \cup {v} ELSE @]

applyWrongGroup(r) ==
    /\ HasNext(r) /\ Entry(r).cmd \in {"get", "put", "append"}
    /\ isWrongGroup(r, Entry(r))
    /\ applied' = [applied EXCEPT ![r] = @ + 1]
    /\ UNCHANGED <<groupVars, config, store, prevReq, catch, deletes, published, clerkVars, results, faults>>

applyPutAppend(r) ==
    LET x == Entry(r) IN
    /\ HasNext(r) /\ x.cmd \in {"put", "append"}
    /\ ~isWrongGroup(r, x)
    /\ store' = [store EXCEPT ![r][x.shard] =
        IF ~isNew(r, x) THEN @ ELSE IF x.cmd = "put" THEN <<x.value>> ELSE Append(@, x.value)]
    /\ prevReq' = [prevReq EXCEPT ![r][x.clerk] = IF isNew(r, x) THEN x.req ELSE @]
    /\ results' = Answered(x, <<>>)
    /\ applied' = [applied EXCEPT ![r] = @ + 1]
    /\ UNCHANGED <<groupVars, config, catch, deletes, published, clerkVars, faults>>

applyGet(r) ==
    LET x == Entry(r) IN
    /\ HasNext(r) /\ x.cmd = "get"
    /\ ~isWrongGroup(r, x)
    /\ prevReq' = [prevReq EXCEPT ![r][x.clerk] = IF isNew(r, x) THEN x.req ELSE @]
    /\ results' = Answered(x, store[r][x.shard])
    /\ applied' = [applied EXCEPT ![r] = @ + 1]
    /\ UNCHANGED <<groupVars, config, store, catch, deletes, published, clerkVars, faults>>

\* The shards of a Change that came with data: what was transferred goes
\* over the store, and a Delete to the group that had it.  The goroutine
\* that sends it reads kv.config.Num before or after it is replaced.
WithData(x) == {i \in Shard : x.store[i] # <<>>}

DeletesFor(r, x) ==
    {f \in [WithData(x) -> [to : Group, num : {config[r], x.num}, shard : Shard]] :
        \A i \in WithData(x) : f[i].shard = i /\ f[i].to = Config[config[r]][i]}

\* Mutant: the request numbers of the shards do not come along.
applyChangeForgets(r) ==
    LET x == Entry(r) IN
    /\ HasNext(r) /\ x.cmd = "change"
    /\ x.num - config[r] = 1
    /\ store' = [store EXCEPT ![r] =
        [i \in Shard |-> IF i \in WithData(x) THEN x.store[i] ELSE @[i]]]
    /\ \E f \in DeletesFor(r, x) : deletes' = deletes \cup {f[i] : i \in WithData(x)}
    /\ config' = [config EXCEPT ![r] = x.num]
    /\ applied' = [applied EXCEPT ![r] = @ + 1]
    /\ UNCHANGED <<groupVars, prevReq, catch, published, clerkVars, results, faults>>

applyChange(r) ==
    LET x == Entry(r) IN
    /\ HasNext(r) /\ x.cmd = "change"
    /\ x.num - config[r] = 1
    /\ prevReq' = [prevReq EXCEPT ![r] =
        [c \in Clerk |-> Largest({@[c], x.prev[c]})]]
    /\ store' = [store EXCEPT ![r] =
        [i \in Shard |-> IF i \in WithData(x) THEN x.store[i] ELSE @[i]]]
    /\ \E f \in DeletesFor(r, x) : deletes' = deletes \cup {f[i] : i \in WithData(x)}
    /\ config' = [config EXCEPT ![r] = x.num]
    /\ applied' = [applied EXCEPT ![r] = @ + 1]
    /\ UNCHANGED <<groupVars, catch, published, clerkVars, results, faults>>

applyOldChange(r) ==
    /\ HasNext(r) /\ Entry(r).cmd = "change"
    /\ Entry(r).num - config[r] # 1
    /\ applied' = [applied EXCEPT ![r] = @ + 1]
    /\ UNCHANGED <<groupVars, config, store, prevReq, catch, deletes, published, clerkVars, results, faults>>

Deletable(r, x) == x.num <= config[r] /\ Config[config[r]][x.shard] # r[1]

applyDelete(r) ==
    LET x == Entry(r) IN
    /\ HasNext(r) /\ x.cmd = "delete"
    /\ store' = [store EXCEPT ![r][x.shard] = IF Deletable(r, x) THEN <<>> ELSE @]
    /\ applied' = [applied EXCEPT ![r] = @ + 1]
    /\ UNCHANGED <<groupVars, config, prevReq, catch, deletes, published, clerkVars, results, faults>>

Apply(r) ==
    \/ applyWrongGroup(r) \/ applyPutAppend(r) \/ applyGet(r)
    \/ applyChange(r) \/ applyOldChange(r) \/ applyDelete(r)

\* A Delete reaches a replica of the group that takes itself for the leader.
DeleteHandler(r, d) ==
    /\ d \in deletes /\ d.to = r[1]
    /\ deletes' = deletes \ {d}
    /\ IF d.num > config[r] THEN UNCHANGED pend
       ELSE Propose(r[1], [cmd |-> "delete", num |-> d.num, shard |-> d.shard])
    /\ UNCHANGED <<log, replicaVars, catch, published, clerkVars, results, faults>>

\* Mutant: prevReq survives a restart that replays the log.
RestartKeepsReqs(r) ==
    /\ faults < MaxFaults
    /\ faults' = faults + 1
    /\ config' = [config EXCEPT ![r] = 0]
    /\ store' = [store EXCEPT ![r] = NoStore]
    /\ applied' = [applied EXCEPT ![r] = 0]
    /\ catch' = [catch EXCEPT ![r] = Idle]
    /\ UNCHANGED <<groupVars, prevReq, deletes, published, clerkVars, results>>

\* r is built again and applies its log from the start.
Restart(r) ==
    /\ faults < MaxFaults
    /\ faults' = faults + 1
    /\ config' = [config EXCEPT ![r] = 0]
    /\ store' = [store EXCEPT ![r] = NoStore]
    /\ prevReq' = [prevReq EXCEPT ![r] = NoReqs]
    /\ applied' = [applied EXCEPT ![r] = 0]
    /\ catch' = [catch EXCEPT ![r] = Idle]
    /\ UNCHANGED <<groupVars, deletes, published, clerkVars, results>>
-----------------------------------------------------------------------------
Next ==
    \/ Publish
    \/ \E g \in Group : \E x \in pend[g] : Choose(g, x)
    \/ \E c \in Clerk : Invoke(c) \/ Request(c) \/ Return(c)
    \/ \E r \in Replica :
        \/ CatchUp(r) \/ getChangeOp(r) \/ CatchUpNext(r)
        \/ NoTransfer(r) \/ TimeOut(r)
        \/ Apply(r) \/ Restart(r)
    \/ \E r \in Replica : \E d \in deletes : DeleteHandler(r, d)

Spec == Init /\ [][Next]_vars

\* Every group has a leader for long enough, and what it proposes is chosen;
\* applier() and catchUp() are loops that never end.
Fairness ==
    /\ WF_vars(Publish)
    /\ \A g \in Group : WF_vars(\E x \in pend[g] : Choose(g, x))
    /\ \A r \in Replica :
        WF_vars(Apply(r)) /\ WF_vars(CatchUp(r) \/ getChangeOp(r) \/ CatchUpNext(r) \/ NoTransfer(r))

FairSpec == Spec /\ Fairness
-----------------------------------------------------------------------------
(* Properties *)

\* The configuration that the log of g leads to.
ConfigOf(g) ==
    LET n[k \in 0..Len(log[g])] ==
            IF k = 0 THEN 0
            ELSE IF log[g][k].cmd = "change" /\ log[g][k].num = n[k - 1] + 1
            THEN log[g][k].num ELSE n[k - 1]
    IN  n[Len(log[g])]

\* At any time at most one group serves a shard: going by their logs, no two
\* groups have configurations that make both the owner (applyChange comes
\* after Transfer, which waits for the former owner to have changed).
OneOwner ==
    \A g, h \in Group, i \in Shard :
        Config[ConfigOf(g)][i] = g /\ Config[ConfigOf(h)][i] = h => g = h

\* A replica that has applied its log and serves a shard has every write to
\* it whose call has returned, whichever group took the write.
Current(r) == applied[r] = Len(log[r[1]])

AckedKept ==
    \A r \in Replica : Current(r) =>
        \A x \in acked : Config[config[r]][x.shard] = r[1] =>
            \E k \in 1..Len(store[r][x.shard]) : store[r][x.shard][k] = x.value

\* No replica applies a write twice, also when the clerk has repeated it at
\* another group after the shard has moved (prevReq goes with the shard).
AppendedOnce ==
    \A r \in Replica, i \in Shard : \A j, k \in 1..Len(store[r][i]) :
        store[r][i][j] = store[r][i][k] => j = k

\* What a Get returns has every write whose call had returned before the Get
\* began.
GetsFresh ==
    \A c \in Clerk : \A v \in results[c] :
        request[c].cmd = "get" =>
            \A x \in before[c] : x.shard = request[c].shard =>
                \E k \in 1..Len(v) : v[k] = x.value

\* Every replica comes to every configuration that the controller decides on
\* and stays with the last: though a round of catchUp() asks for every second
\* configuration only, and waits for other groups, none waits for ever.
CaughtUp ==
    <>[](\A r \in Replica, n \in DOMAIN Config : n <= config[r])
=============================================================================
