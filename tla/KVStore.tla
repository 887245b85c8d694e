------------------------------ MODULE KVStore ------------------------------
(***************************************************************************)
(* What the key/value service promises its clerks: one map, and every Get, *)
(* Put and Append takes effect on it at one moment between its call and    *)
(* its return, a Put or an Append at that moment only.  A value is the     *)
(* sequence of the strings it was put together from.                       *)
(***************************************************************************)
EXTENDS Sequences

CONSTANTS Clerk, Key,
          NoCommand   \* of a clerk that has no call under way

VARIABLES
    store,     \* store[k]
    pending,   \* pending[c]: the call that c waits for
    done,      \* the Puts and Appends that have taken effect
    read,      \* read[c]: the values that the key of c's Get had during the call
    answer     \* answer[c]: what c's last call returned

storeVars == <<store, pending, done, read, answer>>

StoreInit ==
    /\ store = [k \in Key |-> <<>>]
    /\ pending = [c \in Clerk |-> NoCommand]
    /\ done = {}
    /\ read = [c \in Clerk |-> {}]
    /\ answer = [c \in Clerk |-> <<>>]

Reads(r, k) == r # NoCommand /\ r.op = "Get" /\ r.key = k

Begin(c) ==
    /\ pending[c] = NoCommand
    /\ pending'[c] # NoCommand
    /\ pending' = [pending EXCEPT ![c] = pending'[c]]
    /\ read' = [read EXCEPT ![c] = {store[k] : k \in {j \in Key : Reads(pending'[c], j)}}]
    /\ UNCHANGED <<store, done, answer>>

\* A Get that is under way may be placed before the write or after it.
Write(c) ==
    LET r == pending[c] IN
    /\ r # NoCommand /\ r.op # "Get" /\ r \notin done
    /\ store' = [store EXCEPT ![r.key] = IF r.op = "Put" THEN <<r.value>> ELSE Append(@, r.value)]
    /\ done' = done \cup {r}
    /\ read' = [d \in Clerk |->
        IF Reads(pending[d], r.key) THEN read[d] \cup {store'[r.key]} ELSE read[d]]
    /\ UNCHANGED <<pending, answer>>

End(c) ==
    LET r == pending[c] IN
    /\ r # NoCommand
    /\ \/ r.op = "Get" /\ answer'[c] \in read[c]
       \/ r \in done /\ answer'[c] = <<>>
    /\ answer' = [answer EXCEPT ![c] = answer'[c]]
    /\ pending' = [pending EXCEPT ![c] = NoCommand]
    /\ read' = [read EXCEPT ![c] = {}]
    /\ UNCHANGED <<store, done>>

StoreNext == \E c \in Clerk : Begin(c) \/ Write(c) \/ End(c)

StoreSpec == StoreInit /\ [][StoreNext]_storeVars
=============================================================================
