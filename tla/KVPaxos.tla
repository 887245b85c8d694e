------------------------------ MODULE KVPaxos ------------------------------
(***************************************************************************)
(* The replicated key/value service (a3-kvpaxos): clerks, the RPC handlers *)
(* Get and PutAppend, and readApply, over the log of AgreedLog.            *)
(*                                                                         *)
(* A clerk tries the servers one by one until one of them answers without  *)
(* an error.  A call that is lost before it reaches a server, or reaches   *)
(* one that does not lead, changes nothing; one whose reply is lost, or    *)
(* whose handler times out, is GiveUp.  A value is the sequence of the     *)
(* strings that it is put together from.                                   *)
(***************************************************************************)
EXTENDS AgreedLog

CONSTANTS
    Clerk, Key,
    Script,       \* Script[c]: the operations that clerk c calls, one by one
    NoCommand,
    MaxFaults     \* bound: on restarts, lost replies and timeouts together

ASSUME ScriptAssumption ==
    /\ \A c \in Clerk : Len(Script[c]) \in Nat /\ \A i \in 1..Len(Script[c]) :
        Script[c][i].op \in {"Get", "Put", "Append"} /\ Script[c][i].key \in Key
    /\ MaxFaults \in Nat

VARIABLES
    m,          \* m[s]: the map of s
    seq,        \* seq[s][c]: the number of c's last request that s has seen
    response,   \* response[s]: what was applied, by index
    number,     \* number[c]: ck.seq
    call,       \* call[c]: the request that c wants answered
    rpc,        \* rpc[c]: the server and index that a handler waits for
    began,      \* history: began[c] is the length of log when c's Get began
    answer,     \* history: answer[c] is what c's last call returned
    ran,        \* history: ran[s] is what changed m[s], in order
    faults

kvVars     == <<m, seq, response, ran>>
clerkVars  == <<number, call, began, answer>>
vars == <<logVars, kvVars, clerkVars, rpc, faults>>

NoRpc == [srv |-> NoCommand, idx |-> -1]

NoValues == [k \in Key |-> <<>>]

Init ==
    /\ LogInit
    /\ m = [s \in Server |-> NoValues]
    /\ seq = [s \in Server |-> [c \in Clerk |-> 0]]
    /\ response = [s \in Server |-> <<>>]
    /\ number = [c \in Clerk |-> 0]
    /\ call = [c \in Clerk |-> NoCommand]
    /\ rpc = [c \in Clerk |-> NoRpc]
    /\ began = [c \in Clerk |-> 0]
    /\ answer = [c \in Clerk |-> <<>>]
    /\ ran = [s \in Server |-> <<>>]
    /\ faults = 0
-----------------------------------------------------------------------------
LogStep == LogNext /\ UNCHANGED <<kvVars, clerkVars, rpc, faults>>

(* Clerks *)

Invoke(c) ==
    /\ call[c] = NoCommand
    /\ number[c] < Len(Script[c])
    /\ number' = [number EXCEPT ![c] = @ + 1]
    /\ LET o == Script[c][number[c] + 1] IN
        call' = [call EXCEPT ![c] =
            [clerk |-> c, seq |-> number[c] + 1, op |-> o.op, key |-> o.key, value |-> o.value]]
    /\ began' = [began EXCEPT ![c] = IF call'[c].op = "Get" THEN Len(log) ELSE 0]
    /\ UNCHANGED <<logVars, kvVars, answer, rpc, faults>>

\* The handler of s hands the command to Proposal.  Index -1 is taken for
\* "not a leader", although a leader that prepares has buffered the command.
Request(c, s) ==
    /\ call[c] # NoCommand /\ rpc[c] = NoRpc
    /\ ProposeAccept(s, call[c]) \/ ProposePrepare(s, call[c])
    /\ rpc' = [rpc EXCEPT ![c] =
        IF IndexAt(s) = -1 THEN NoRpc ELSE [srv |-> s, idx |-> IndexAt(s)]]
    /\ UNCHANGED <<kvVars, clerkVars, faults>>

\* Mutant: the values of the two commands are not compared.
AnswersSameOp(r, x) == x.op = r.op /\ x.key = r.key

\* The entry that was applied at the index is the one the handler waits for.
Answers(r, x) ==
    IF r.op = "Get"
    THEN x.op = "Get" /\ x.key = r.key
    ELSE x.op = r.op /\ x.key = r.key /\ x.value = r.value

Applied(c) == rpc[c] # NoRpc /\ Len(response[rpc[c].srv]) > rpc[c].idx

Response(c) == response[rpc[c].srv][rpc[c].idx + 1]

Return(c) ==
    /\ Applied(c)
    /\ Answers(call[c], Response(c).command)
    /\ answer' = [answer EXCEPT ![c] = Response(c).value]
    /\ call' = [call EXCEPT ![c] = NoCommand]
    /\ rpc' = [rpc EXCEPT ![c] = NoRpc]
    /\ UNCHANGED <<logVars, kvVars, number, began, faults>>

TryAgain(c) ==
    /\ Applied(c)
    /\ ~Answers(call[c], Response(c).command)
    /\ rpc' = [rpc EXCEPT ![c] = NoRpc]
    /\ UNCHANGED <<logVars, kvVars, clerkVars, faults>>

\* No entry is coming at the index of the handler.
Lost(c) == ~Leader(rpc[c].srv) \/ Len(plog[rpc[c].srv]) <= rpc[c].idx

\* The bound is on the calls that fail although an entry is coming.
GiveUp(c) ==
    /\ rpc[c] # NoRpc
    /\ \/ Lost(c) /\ UNCHANGED faults
       \/ ~Lost(c) /\ faults < MaxFaults /\ faults' = faults + 1
    /\ rpc' = [rpc EXCEPT ![c] = NoRpc]
    /\ UNCHANGED <<logVars, kvVars, clerkVars>>
-----------------------------------------------------------------------------
(* readApply() *)

Effect(old, x) == IF x.op = "Put" THEN <<x.value>> ELSE Append(old, x.value)

\* Mutant: the last request of a clerk counts as new.
IsNewOrLast(s, x) == seq[s][x.clerk] <= x.seq

IsNew(s, x) == seq[s][x.clerk] < x.seq

HasNext(s) == Delivers(s, Len(response[s]))

NextEntry(s) == log[Len(response[s]) + 1]

\* Mutant: a Get is not recorded in seq.
ApplyGetUnseen(s) ==
    /\ HasNext(s) /\ NextEntry(s).op = "Get"
    /\ LET x == NextEntry(s) IN
        response' = [response EXCEPT ![s] = Append(@, [command |-> x, value |-> m[s][x.key]])]
    /\ UNCHANGED <<logVars, m, ran, seq, clerkVars, rpc, faults>>

ApplyGet(s) ==
    /\ HasNext(s) /\ NextEntry(s).op = "Get"
    /\ LET x == NextEntry(s) IN
        /\ seq' = [seq EXCEPT ![s][x.clerk] = IF IsNew(s, x) THEN x.seq ELSE @]
        /\ response' = [response EXCEPT ![s] = Append(@, [command |-> x, value |-> m[s][x.key]])]
    /\ UNCHANGED <<logVars, m, ran, clerkVars, rpc, faults>>

ApplyPutAppend(s) ==
    /\ HasNext(s) /\ NextEntry(s).op # "Get"
    /\ LET x == NextEntry(s) IN
        /\ m' = [m EXCEPT ![s][x.key] = IF IsNew(s, x) THEN Effect(@, x) ELSE @]
        /\ ran' = [ran EXCEPT ![s] = IF IsNew(s, x) THEN Append(@, x) ELSE @]
        /\ seq' = [seq EXCEPT ![s][x.clerk] = IF IsNew(s, x) THEN x.seq ELSE @]
        /\ response' = [response EXCEPT ![s] = Append(@, [command |-> x, value |-> <<>>])]
    /\ UNCHANGED <<logVars, clerkVars, rpc, faults>>

Apply(s) == ApplyGet(s) \/ ApplyPutAppend(s)

\* Mutant: the map survives a restart that replays the log.
RestartKeepsMap(s) ==
    /\ faults < MaxFaults
    /\ faults' = faults + 1
    /\ LogRestart(s)
    /\ seq' = [seq EXCEPT ![s] = [c \in Clerk |-> 0]]
    /\ response' = [response EXCEPT ![s] = <<>>]
    /\ ran' = [ran EXCEPT ![s] = <<>>]
    /\ rpc' = [c \in Clerk |-> IF rpc[c].srv = s THEN NoRpc ELSE rpc[c]]
    /\ UNCHANGED <<m, clerkVars>>

\* s starts again: the log is saved, and what is decided of it comes through
\* the applyCh once more.  The handlers of s are gone.
Restart(s) ==
    /\ faults < MaxFaults
    /\ faults' = faults + 1
    /\ LogRestart(s)
    /\ m' = [m EXCEPT ![s] = NoValues]
    /\ seq' = [seq EXCEPT ![s] = [c \in Clerk |-> 0]]
    /\ response' = [response EXCEPT ![s] = <<>>]
    /\ ran' = [ran EXCEPT ![s] = <<>>]
    /\ rpc' = [c \in Clerk |-> IF rpc[c].srv = s THEN NoRpc ELSE rpc[c]]
    /\ UNCHANGED <<clerkVars>>
-----------------------------------------------------------------------------
Next ==
    \/ LogStep
    \/ \E s \in Server : Apply(s) \/ Restart(s)
    \/ \E c \in Clerk : Invoke(c) \/ Return(c) \/ TryAgain(c) \/ GiveUp(c)
    \/ \E c \in Clerk, s \in Server : Request(c, s)

Spec == Init /\ [][Next]_vars

\* The leader gets its promises and its entries chosen, the others hear of
\* it, every server applies, and clerks and handlers go on.
Fairness ==
    /\ \A s \in Server :
        /\ WF_vars(LogStep /\ (Prepared(s) \/ Choose(s)))
        /\ WF_vars(LogStep /\ \E l \in Server : Follow(s, l))
        /\ WF_vars(Apply(s))
    /\ \A c \in Clerk :
        /\ WF_vars(\E s \in Server : phase[s] = "ACCEPT" /\ Request(c, s))
        /\ WF_vars(Return(c) \/ TryAgain(c))
        /\ WF_vars(GiveUp(c) /\ UNCHANGED faults)

FairSpec == Spec /\ Fairness
-----------------------------------------------------------------------------
(* Properties *)

Value == UNION {{Script[c][i].value : i \in 1..Len(Script[c])} : c \in Clerk}

Command ==
    [clerk : Clerk, seq : Nat \ {0}, op : {"Get", "Put", "Append"}, key : Key, value : Value]

\* Every variable has its type.
TypeOK ==
    /\ log \in Seq(Command)
    /\ plog \in [Server -> Seq(Command)] /\ buffer \in [Server -> Seq(Command)]
    /\ phase \in [Server -> {"FOLLOWER", "PREPARE", "ACCEPT"}] /\ elected \in Seq(Server)
    /\ m \in [Server -> [Key -> Seq(Value)]]
    /\ seq \in [Server -> [Clerk -> Nat]]
    /\ response \in [Server -> Seq([command : Command, value : Seq(Value)])]
    /\ number \in [Clerk -> Nat]
    /\ call \in [Clerk -> Command \cup {NoCommand}]
    /\ rpc \in [Clerk -> [srv : Server, idx : Nat] \cup {NoRpc}]
    /\ began \in [Clerk -> Nat] /\ answer \in [Clerk -> Seq(Value)]
    /\ ran \in [Server -> Seq(Command)] /\ faults \in Nat

\* The positions of l up to n at which a Put or an Append takes effect.
Effective(l, n) ==
    {i \in 1..n :
        /\ l[i].op # "Get"
        /\ \A j \in 1..(i - 1) : l[j].clerk = l[i].clerk => l[j].seq < l[i].seq}

\* The writes that the value of k is put together from after n entries of l:
\* the last Put of k, and the Appends since.
Parts(l, n, k) ==
    {i \in Effective(l, n) :
        /\ l[i].key = k
        /\ \A j \in Effective(l, n) : l[j].key = k /\ l[j].op = "Put" => j <= i}

\* v is the value of k after n entries of l: one string for each of its
\* parts, in the order of the log.
Makes(l, n, k, v) ==
    LET P == Parts(l, n, k) IN
    /\ Len(v) = Cardinality(P)
    /\ \A i \in P : v[Cardinality(P \cap 1..i)] = l[i].value

MapIs(l, n, map) == \A k \in Key : Makes(l, n, k, map[k])

\* The entry at its index, and for a Get what its key had there.
ResponsesAre(l, resp) ==
    \A i \in 1..Len(resp) :
        /\ resp[i].command = l[i]
        /\ l[i].op = "Get" => Makes(l, i, l[i].key, resp[i].value)

\* The map of every server is the one that the log up to the entry applied
\* last gives, each write counted once, however often a clerk has repeated it
\* and whether or not the server has been restarted; and what a Get found is
\* the value at its own place in the log, on every server (readApply).
ReplicasExact ==
    \A s \in Server :
        MapIs(log, Len(response[s]), m[s]) /\ ResponsesAre(log, response[s])

InOrder(r) ==
    \A i, j \in 1..Len(r) : i < j /\ r[i].clerk = r[j].clerk => r[i].seq < r[j].seq

\* On every server the writes of one clerk take effect once each, in the
\* order in which the clerk has called them (the seq table of readApply).
SessionOrder == \A s \in Server : InOrder(ran[s])

\* t has the last number of each clerk in the first n entries of l.
TableIs(l, n, t) ==
    /\ n <= Len(l)
    /\ \A j \in 1..n : l[j].seq <= t[l[j].clerk]
    /\ \A c \in Clerk : t[c] > 0 => \E j \in 1..n : l[j].clerk = c /\ l[j].seq = t[c]

\* The inductive invariant of the two: the seq table of a server is that of
\* the entries it has applied, and no write that ran is past it.
KInv ==
    /\ TypeOK
    /\ ReplicasExact
    /\ SessionOrder
    /\ \A s \in Server :
        /\ TableIs(log, Len(response[s]), seq[s])
        /\ \A i \in 1..Len(ran[s]) : ran[s][i].seq <= seq[s][ran[s][i].clerk]

\* The values of key k after the first entries of l, by their number.
Values(l, k) ==
    LET E == Effective(l, Len(l))
        v[i \in 0..Len(l)] ==
            IF i = 0 THEN <<>>
            ELSE IF i \notin E \/ l[i].key # k THEN v[i - 1]
            ELSE IF l[i].op = "Put" THEN <<l[i].value>> ELSE Append(v[i - 1], l[i].value)
    IN  v

ValueAfter(l, k) == Values(l, k)[Len(l)]

\* The values that the key of c's Get has had since the call began.
FoundBy(c) ==
    IF call[c] = NoCommand \/ call[c].op # "Get" THEN {}
    ELSE {Values(log, call[c].key)[i] : i \in began[c]..Len(log)}

Store == INSTANCE KVStore WITH
    store <- [k \in Key |-> ValueAfter(log, k)],
    pending <- call,
    done <- {log[i] : i \in Effective(log, Len(log))},
    read <- [c \in Clerk |-> FoundBy(c)]

\* The service is linearizable: it implements KVStore, where every call takes
\* effect at one moment between its start and its return.
Linearizable == Store!StoreSpec

\* When the leader no longer changes, and the bound on its log is not met,
\* every call returns (the loops of the clerk, of the handlers and of
\* readApply never wait for one another).
CallsReturn ==
    <>[](\E s \in Server : Leader(s) /\ phase[s] # "FOLLOWER" /\ Len(plog[s]) < MaxLog)
        => \A c \in Clerk : []<>(call[c] = NoCommand)
=============================================================================
