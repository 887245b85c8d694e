------------------------------- MODULE Futures -------------------------------
(***************************************************************************)
(* Futures and Wait() (a1-futures/future.go): one call of Wait() for n of  *)
(* the futures, the goroutine it starts for each of them, and the          *)
(* goroutines of GetWeatherData() that complete them.                      *)
(*                                                                         *)
(* A goroutine of Wait() goes through the steps "get", "put", "lock",      *)
(* "count", "send", "unlock" and "done", or stops at "done" when the       *)
(* postCompletionLogic refuses the value.  doneN has no buffer: "send"     *)
(* waits for the select of Wait(), and holds mu while it does.             *)
(***************************************************************************)
EXTENDS Integers, FiniteSets, Sequences

CONSTANTS
    Future,      \* the futures handed to Wait()
    Temperature, \* the temperatures the weather service may answer
    n            \* how many of them Wait() waits for

Nobody == "nobody"

ASSUME FuturesAssumption ==
    IsFiniteSet(Future) /\ Nobody \notin Future /\ n \in Nat /\ Temperature \subseteq Int

VARIABLES
    result,      \* result[f]: what the channel of f holds, NoValue when empty
    pc,          \* pc[f]: the next step of the goroutine that waits for f
    mu,          \* the goroutine that holds the mutex, or Nobody
    doneCount,
    doneValues,  \* the channel of values, buffered for all futures
    wait,        \* "select", "done" or "timeout": how Wait() returned
    returned     \* what Wait() returned

vars == <<result, pc, mu, doneCount, doneValues, wait, returned>>

NoValue == [f |-> "none", Err |-> TRUE, Value |-> 0]

\* WeatherDataResult, with the future it is the result of.
Results(f) == [f : {f}, Err : {TRUE}, Value : {0}] \cup [f : {f}, Err : {FALSE}, Value : Temperature]

heatWaveWarning(res) == ~res.Err /\ res.Value > 35

Init ==
    /\ result = [f \in Future |-> NoValue]
    /\ pc = [f \in Future |-> "get"]
    /\ mu = Nobody
    /\ doneCount = 0
    /\ doneValues = <<>>
    /\ wait = "select"
    /\ returned = <<>>
-----------------------------------------------------------------------------
\* GetWeatherData: the request ends, with a temperature or with an error.
CompleteFuture(f) ==
    /\ result[f] = NoValue
    /\ \E r \in Results(f) : result' = [result EXCEPT ![f] = r]
    /\ UNCHANGED <<pc, mu, doneCount, doneValues, wait, returned>>

GetResult(f) ==
    /\ pc[f] = "get"
    /\ result[f] # NoValue
    /\ pc' = [pc EXCEPT ![f] = IF heatWaveWarning(result[f]) THEN "put" ELSE "done"]
    /\ UNCHANGED <<result, mu, doneCount, doneValues, wait, returned>>

\* Mutant: the value is handed over under the mutex.
PutLocked(f) ==
    /\ pc[f] = "put"
    /\ mu = Nobody
    /\ doneValues' = Append(doneValues, result[f])
    /\ pc' = [pc EXCEPT ![f] = "lock"]
    /\ UNCHANGED <<result, mu, doneCount, wait, returned>>

\* Mutant: the value is handed over and not counted.
PutUncounted(f) ==
    /\ pc[f] = "put"
    /\ doneValues' = Append(doneValues, result[f])
    /\ pc' = [pc EXCEPT ![f] = "done"]
    /\ UNCHANGED <<result, mu, doneCount, wait, returned>>

Put(f) ==
    /\ pc[f] = "put"
    /\ doneValues' = Append(doneValues, result[f])
    /\ pc' = [pc EXCEPT ![f] = "lock"]
    /\ UNCHANGED <<result, mu, doneCount, wait, returned>>

Lock(f) ==
    /\ pc[f] = "lock"
    /\ mu = Nobody
    /\ mu' = f
    /\ pc' = [pc EXCEPT ![f] = "count"]
    /\ UNCHANGED <<result, doneCount, doneValues, wait, returned>>

\* Mutant: the n-th value is not enough.
CountPast(f) ==
    /\ pc[f] = "count"
    /\ doneCount' = doneCount + 1
    /\ pc' = [pc EXCEPT ![f] = IF doneCount' > n THEN "send" ELSE "unlock"]
    /\ UNCHANGED <<result, mu, doneValues, wait, returned>>

Count(f) ==
    /\ pc[f] = "count"
    /\ doneCount' = doneCount + 1
    /\ pc' = [pc EXCEPT ![f] = IF doneCount' >= n THEN "send" ELSE "unlock"]
    /\ UNCHANGED <<result, mu, doneValues, wait, returned>>

Unlock(f) ==
    /\ pc[f] = "unlock"
    /\ mu' = Nobody
    /\ pc' = [pc EXCEPT ![f] = "done"]
    /\ UNCHANGED <<result, doneCount, doneValues, wait, returned>>

\* Mutant: the last value stays in the channel.
ReturnsShort ==
    LET l == IF n <= Len(doneValues) THEN n - 1 ELSE Len(doneValues) IN
    /\ returned' = SubSeq(doneValues, 1, l)
    /\ doneValues' = SubSeq(doneValues, l + 1, Len(doneValues))

\* chanToSlice(doneValues, n)
Returns ==
    LET l == IF n < Len(doneValues) THEN n ELSE Len(doneValues) IN
    /\ returned' = SubSeq(doneValues, 1, l)
    /\ doneValues' = SubSeq(doneValues, l + 1, Len(doneValues))

\* The select of Wait(): a goroutine that sends on doneN ...
DoneN(f) ==
    /\ wait = "select"
    /\ pc[f] = "send"
    /\ pc' = [pc EXCEPT ![f] = "unlock"]
    /\ wait' = "done"
    /\ Returns
    /\ UNCHANGED <<result, mu, doneCount>>

\* ... or time.After(timeout).
Timeout ==
    /\ wait = "select"
    /\ wait' = "timeout"
    /\ Returns
    /\ UNCHANGED <<result, pc, mu, doneCount>>

Goroutine(f) == GetResult(f) \/ Put(f) \/ Lock(f) \/ Count(f) \/ Unlock(f) \/ DoneN(f)

Next == Timeout \/ \E f \in Future : CompleteFuture(f) \/ Goroutine(f)

Spec == Init /\ [][Next]_vars

\* Goroutines are scheduled; neither the requests nor the timeout need end.
FairSpec == Spec /\ \A f \in Future : WF_vars(Goroutine(f))
-----------------------------------------------------------------------------
Steps == {"get", "put", "lock", "count", "send", "unlock", "done"}

AnyResult == UNION {Results(f) : f \in Future} \cup {NoValue}

\* Every variable has its type, and a future holds its own result only.
TypeOK ==
    /\ DOMAIN result = Future
    /\ \A f \in Future : result[f] \in Results(f) \cup {NoValue}
    /\ pc \in [Future -> Steps]
    /\ mu \in Future \cup {Nobody}
    /\ doneCount \in Nat
    /\ returned \in Seq(AnyResult) /\ doneValues \in Seq(AnyResult)
    /\ wait \in {"select", "done", "timeout"}

Passing == {f \in Future : result[f] # NoValue /\ heatWaveWarning(result[f])}

\* What the goroutines handed over, Wait() returned or doneValues still holds.
HandedOver == returned \o doneValues

DoneMeansN == wait = "done" => Len(returned) = n

OnlyWarnings ==
    /\ \A i, j \in DOMAIN HandedOver : i # j => HandedOver[i].f # HandedOver[j].f
    /\ \A i \in DOMAIN HandedOver : ~HandedOver[i].Err /\ HandedOver[i].Value > 35

\* Wait() that returns before its timeout returns n values, although count
\* and values are kept apart: the count never runs ahead of the values.  They
\* are those of different futures, all without error and above 35 degrees:
\* none is handed over twice, none that the filter refuses.
WaitCorrect == DoneMeansN /\ OnlyWarnings

Uncounted == {f \in Future : pc[f] \in {"lock", "count"}}

\* The inductive invariant behind WaitCorrect: doneCount is counted by the
\* goroutine that holds mu; the values handed over are the ones counted and
\* the ones about to be, each the result of a future whose goroutine is past
\* handing it over.
WInv ==
    /\ TypeOK
    /\ \A f \in Future : pc[f] \in {"count", "send", "unlock"} => mu = f
    /\ wait = "select" => returned = <<>>
    /\ DoneMeansN
    /\ doneCount + Cardinality(Uncounted) = Len(returned) + Len(doneValues)
    /\ \A f \in Future :
        /\ pc[f] = "send" => doneCount >= n
        /\ pc[f] = "put" => heatWaveWarning(result[f])
    /\ \A i \in DOMAIN HandedOver :
        /\ HandedOver[i].f \in Future
        /\ HandedOver[i] = result[HandedOver[i].f]
        /\ heatWaveWarning(HandedOver[i])
        /\ pc[HandedOver[i].f] \notin {"get", "put"}
    /\ \A i, j \in DOMAIN HandedOver : i # j => HandedOver[i].f # HandedOver[j].f

\* A value that passes the filter is handed over, although a goroutine that
\* comes after the return of Wait() stays on doneN and keeps mu for ever.
ValuesHandedOver ==
    \A f \in Future :
        (f \in Passing) ~> (\E i \in DOMAIN HandedOver : HandedOver[i].f = f)

\* Wait() returns when n values pass the filter, without a timeout.
WaitReturns == (Cardinality(Passing) >= n) ~> (wait # "select")
=============================================================================
