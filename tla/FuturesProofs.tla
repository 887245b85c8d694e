--------------------------- MODULE FuturesProofs ---------------------------
(***************************************************************************)
(* Proofs about Futures, for any number of futures and any n: a Wait()     *)
(* that is not timed out returns n values, and every value it hands over   *)
(* is a different future's and passes the filter.                          *)
(***************************************************************************)
EXTENDS Futures, FiniteSetTheorems, SequenceTheorems, TLAPS

\* WInv without mu: what the values and their count are.
WCore ==
    /\ pc \in [Future -> Steps]
    /\ DOMAIN result = Future
    /\ \A f \in Future : result[f] \in Results(f) \cup {NoValue}
    /\ doneCount \in Nat
    /\ returned \in Seq(AnyResult) /\ doneValues \in Seq(AnyResult)
    /\ wait = "select" => returned = <<>>
    /\ DoneMeansN
    /\ doneCount + Cardinality(Uncounted) = Len(returned) + Len(doneValues)
    /\ \A f \in Future :
        /\ pc[f] = "send" => doneCount >= n
        /\ pc[f] = "put" => heatWaveWarning(result[f])
    /\ \A i \in DOMAIN HandedOver :
        /\ HandedOver[i].f \in Future
        /\ HandedOver[i] = result[HandedOver[i].f]
        /\ heatWaveWarning(HandedOver[i])
        /\ pc[HandedOver[i].f] \notin {"get", "put"}
    /\ \A i, j \in DOMAIN HandedOver : i # j => HandedOver[i].f # HandedOver[j].f

\* mu, and how Wait() stands.
MuInv ==
    /\ mu \in Future \cup {Nobody} /\ wait \in {"select", "done", "timeout"}
    /\ \A f \in Future : pc[f] \in {"count", "send", "unlock"} => mu = f

\* The values handed over, as one sequence.
LEMMA HandedOverType ==
  ASSUME WCore
  PROVE  /\ HandedOver \in Seq(AnyResult)
         /\ Len(HandedOver) = Len(returned) + Len(doneValues)
         /\ DOMAIN HandedOver = 1 .. Len(HandedOver)
<1>1. returned \in Seq(AnyResult) /\ doneValues \in Seq(AnyResult)
  BY DEF WCore
<1>2. /\ returned \o doneValues \in Seq(AnyResult)
      /\ Len(returned \o doneValues) = Len(returned) + Len(doneValues)
  BY <1>1, ConcatProperties
<1> QED BY <1>2 DEF HandedOver

\* A value that passes the filter is the result of its own future.
LEMMA WarningIsResult ==
  ASSUME WCore, NEW f \in Future, heatWaveWarning(result[f])
  PROVE  result[f].f = f /\ result[f] \in AnyResult
<1>1. result[f] \in Results(f) \cup {NoValue}
  BY DEF WCore
<1>2. result[f] # NoValue
  BY DEF heatWaveWarning, NoValue
<1>3. result[f] \in Results(f)
  BY <1>1, <1>2
<1> QED BY Zenon, <1>3 DEF Results, AnyResult

\* The goroutines that have handed over and not counted are finitely many.
LEMMA UncountedFinite == IsFiniteSet(Uncounted) /\ Cardinality(Uncounted) \in Nat
<1>1. Uncounted \in SUBSET Future
  BY DEF Uncounted
<1>2. IsFiniteSet(Uncounted)
  BY <1>1, FuturesAssumption, FS_Subset
<1> QED BY <1>2, FS_CardinalityType

\* Wait() starts with empty channels.
LEMMA WInit == Init => WCore
<1> SUFFICES ASSUME Init PROVE WCore
  OBVIOUS
<1>1. Uncounted = {}
  BY DEF Init, Uncounted
<1>2. Cardinality(Uncounted) = 0
  BY <1>1, FS_EmptySet
<1>3. HandedOver = <<>>
  BY DEF Init, HandedOver
<1>4. pc \in [Future -> Steps] /\ \A f \in Future : pc[f] = "get"
  BY DEF Init, Steps
<1>5. DOMAIN result = Future /\ \A f \in Future : result[f] \in Results(f) \cup {NoValue}
  BY DEF Init
<1>6. DOMAIN HandedOver = {}
  BY <1>3
<1>7. Len(returned) = 0 /\ Len(doneValues) = 0 /\ doneCount = 0 /\ wait = "select"
      /\ returned = <<>> /\ doneValues = <<>>
  BY DEF Init
<1>8. doneCount + Cardinality(Uncounted) = Len(returned) + Len(doneValues)
  BY <1>2, <1>7
<1> QED BY <1>4, <1>5, <1>6, <1>7, <1>8 DEF WCore, DoneMeansN

\* What a step that hands nothing over and counts nothing must keep.
LEMMA QuietStep ==
  ASSUME WCore, NEW f \in Future,
         pc' \in [Future -> Steps],
         \A g \in Future : g # f => pc'[g] = pc[g],
         pc[f] \in {"lock", "count"} <=> pc'[f] \in {"lock", "count"},
         pc[f] \notin {"get", "put"} => pc'[f] \notin {"get", "put"},
         pc'[f] = "send" => doneCount >= n,
         pc'[f] = "put" => heatWaveWarning(result[f]),
         UNCHANGED <<result, doneCount, doneValues, wait, returned>>
  PROVE  WCore'
<1>1. Uncounted' = Uncounted
  BY DEF Uncounted, WCore
<1>2. HandedOver' = HandedOver
  BY DEF HandedOver
<1>3. \A i \in DOMAIN HandedOver : pc'[HandedOver[i].f] \notin {"get", "put"}
  BY DEF WCore
<1>4. \A g \in Future :
        /\ pc'[g] = "send" => doneCount >= n
        /\ pc'[g] = "put" => heatWaveWarning(result[g])
  BY DEF WCore
<1>5. heatWaveWarning(result[f])' = heatWaveWarning(result[f])
  BY DEF heatWaveWarning
<1> QED BY <1>1, <1>2, <1>3, <1>4 DEF WCore, DoneMeansN, heatWaveWarning

\* GetResult(), the mutex and the return from it change no value.
LEMMA StepsInv ==
  ASSUME WCore, NEW f \in Future, GetResult(f) \/ Lock(f) \/ Unlock(f)
  PROVE  WCore'
<1>1. CASE GetResult(f)
  <2>1. /\ pc[f] = "get"
        /\ pc' = [pc EXCEPT ![f] = IF heatWaveWarning(result[f]) THEN "put" ELSE "done"]
        /\ UNCHANGED <<result, doneCount, doneValues, wait, returned>>
    BY <1>1 DEF GetResult
  <2>2. pc' \in [Future -> Steps]
    BY <2>1 DEF WCore, Steps
  <2>3. pc'[f] = IF heatWaveWarning(result[f]) THEN "put" ELSE "done"
    BY <2>1 DEF WCore
  <2>4. \A g \in Future : g # f => pc'[g] = pc[g]
    BY <2>1 DEF WCore
  <2> QED BY <2>1, <2>2, <2>3, <2>4, QuietStep
<1>2. CASE Lock(f)
  <2>1. /\ pc[f] = "lock"
        /\ pc' = [pc EXCEPT ![f] = "count"]
        /\ UNCHANGED <<result, doneCount, doneValues, wait, returned>>
    BY <1>2 DEF Lock
  <2>2. pc' \in [Future -> Steps] /\ pc'[f] = "count"
        /\ \A g \in Future : g # f => pc'[g] = pc[g]
    BY <2>1 DEF WCore, Steps
  <2> QED BY <2>1, <2>2, QuietStep
<1>3. CASE Unlock(f)
  <2>1. /\ pc[f] = "unlock"
        /\ pc' = [pc EXCEPT ![f] = "done"]
        /\ UNCHANGED <<result, doneCount, doneValues, wait, returned>>
    BY <1>3 DEF Unlock
  <2>2. pc' \in [Future -> Steps] /\ pc'[f] = "done"
        /\ \A g \in Future : g # f => pc'[g] = pc[g]
    BY <2>1 DEF WCore, Steps
  <2> QED BY <2>1, <2>2, QuietStep
<1> QED BY <1>1, <1>2, <1>3

\* GetWeatherData() completes a future whose value nobody has.
LEMMA CompleteInv ==
  ASSUME WCore, NEW f \in Future, CompleteFuture(f)
  PROVE  WCore'
<1>1. PICK r \in Results(f) : result' = [result EXCEPT ![f] = r]
  BY Zenon DEF CompleteFuture
<1>2. /\ result[f] = NoValue
      /\ UNCHANGED <<pc, doneCount, doneValues, wait, returned>>
  BY DEF CompleteFuture
<1>3. ~heatWaveWarning(result[f])
  BY <1>2 DEF heatWaveWarning, NoValue
<1>4. Uncounted' = Uncounted /\ HandedOver' = HandedOver
  BY <1>2 DEF Uncounted, HandedOver
<1>5. \A i \in DOMAIN HandedOver : HandedOver[i].f # f
  BY <1>3 DEF WCore
<1>6. \A g \in Future : g # f => result'[g] = result[g]
  BY <1>1 DEF WCore
<1>7. /\ DOMAIN result' = Future
      /\ \A g \in Future : result'[g] \in Results(g) \cup {NoValue}
  BY <1>1 DEF WCore
<1>8. \A g \in Future : pc[g] = "put" => heatWaveWarning(result'[g])
  BY <1>3, <1>6 DEF WCore
<1>9. \A i \in DOMAIN HandedOver : HandedOver[i] = result'[HandedOver[i].f]
  BY <1>5, <1>6 DEF WCore
<1> QED BY <1>2, <1>4, <1>7, <1>8, <1>9 DEF WCore, DoneMeansN

\* A goroutine hands over the value of its future, before it counts it.
LEMMA PutInv ==
  ASSUME WCore, NEW f \in Future, Put(f)
  PROVE  WCore'
<1>1. /\ pc[f] = "put"
      /\ doneValues' = Append(doneValues, result[f])
      /\ pc' = [pc EXCEPT ![f] = "lock"]
      /\ UNCHANGED <<result, doneCount, wait, returned>>
  BY DEF Put
<1>2. heatWaveWarning(result[f]) /\ result[f].f = f /\ result[f] \in AnyResult
  BY <1>1, WarningIsResult DEF WCore
<1>3. /\ returned \in Seq(AnyResult) /\ doneValues \in Seq(AnyResult)
      /\ doneValues' \in Seq(AnyResult)
      /\ Len(doneValues') = Len(doneValues) + 1
  BY <1>1, <1>2 DEF WCore
<1>4. HandedOver' = Append(HandedOver, result[f])
  BY <1>1, <1>2, <1>3 DEF HandedOver
<1>5. /\ HandedOver \in Seq(AnyResult)
      /\ DOMAIN HandedOver = 1 .. Len(HandedOver) /\ Len(HandedOver) \in Nat
  BY HandedOverType
<1>6. /\ DOMAIN HandedOver' = 1 .. Len(HandedOver) + 1
      /\ HandedOver'[Len(HandedOver) + 1] = result[f]
      /\ \A i \in 1 .. Len(HandedOver) : HandedOver'[i] = HandedOver[i]
  BY <1>2, <1>4, <1>5
<1>7. /\ pc' \in [Future -> Steps] /\ pc'[f] = "lock"
      /\ \A g \in Future : g # f => pc'[g] = pc[g]
  BY <1>1 DEF WCore, Steps
<1>8. Uncounted' = Uncounted \cup {f} /\ f \notin Uncounted
  BY <1>1, <1>7 DEF Uncounted
<1>9. Cardinality(Uncounted') = Cardinality(Uncounted) + 1
  BY <1>8, UncountedFinite, FS_AddElement
<1>10. doneCount' + Cardinality(Uncounted') = Len(returned') + Len(doneValues')
  BY <1>1, <1>3, <1>9, UncountedFinite DEF WCore
<1>11. \A i \in 1 .. Len(HandedOver) : HandedOver[i].f # f
  BY <1>1, <1>5 DEF WCore
<1>12. ASSUME NEW i \in DOMAIN HandedOver'
       PROVE  /\ HandedOver'[i].f \in Future
              /\ HandedOver'[i] = result[HandedOver'[i].f]
              /\ heatWaveWarning(HandedOver'[i])
              /\ pc'[HandedOver'[i].f] \notin {"get", "put"}
  <2>1. CASE i = Len(HandedOver) + 1
    BY <1>2, <1>6, <1>7, <2>1
  <2>2. CASE i \in 1 .. Len(HandedOver)
    <3>1. HandedOver'[i] = HandedOver[i] /\ i \in DOMAIN HandedOver
      BY <1>5, <1>6, <2>2
    <3>2. pc'[HandedOver[i].f] = pc[HandedOver[i].f]
      BY <1>7, <1>11, <2>2, <3>1 DEF WCore
    <3> QED BY <3>1, <3>2 DEF WCore
  <2> QED BY <1>5, <1>6, <2>1, <2>2
<1>13. ASSUME NEW i \in DOMAIN HandedOver', NEW j \in DOMAIN HandedOver', i # j
       PROVE  HandedOver'[i].f # HandedOver'[j].f
  <2>1. CASE i \in 1 .. Len(HandedOver) /\ j \in 1 .. Len(HandedOver)
    BY <1>5, <1>6, <1>13, <2>1 DEF WCore
  <2>2. CASE i = Len(HandedOver) + 1
    BY <1>2, <1>5, <1>6, <1>11, <1>13, <2>2
  <2>3. CASE j = Len(HandedOver) + 1
    BY <1>2, <1>5, <1>6, <1>11, <1>13, <2>3
  <2> QED BY <1>5, <1>6, <2>1, <2>2, <2>3
<1>14. \A g \in Future :
        /\ pc'[g] = "send" => doneCount' >= n
        /\ pc'[g] = "put" => heatWaveWarning(result'[g])
  BY <1>1, <1>7 DEF WCore
<1> QED BY <1>1, <1>3, <1>7, <1>10, <1>12, <1>13, <1>14 DEF WCore, DoneMeansN

\* A goroutine counts its value, and goes on to doneN when it is the n-th.
LEMMA CountInv ==
  ASSUME WCore, NEW f \in Future, Count(f)
  PROVE  WCore'
<1>1. /\ pc[f] = "count"
      /\ doneCount' = doneCount + 1
      /\ pc' = [pc EXCEPT ![f] = IF doneCount' >= n THEN "send" ELSE "unlock"]
      /\ UNCHANGED <<result, doneValues, wait, returned>>
  BY DEF Count
<1>2. /\ pc' \in [Future -> Steps]
      /\ pc'[f] \in {"send", "unlock"} /\ (pc'[f] = "send" => doneCount' >= n)
      /\ \A g \in Future : g # f => pc'[g] = pc[g]
  BY <1>1 DEF WCore, Steps
<1>3. Uncounted' = Uncounted \ {f} /\ f \in Uncounted
  BY <1>1, <1>2 DEF Uncounted
<1>4. Cardinality(Uncounted') = Cardinality(Uncounted) - 1
  BY <1>3, UncountedFinite, FS_RemoveElement
<1>5. doneCount' \in Nat /\ doneCount' > doneCount /\ doneCount \in Nat /\ n \in Nat
  BY <1>1, FuturesAssumption DEF WCore
<1>6. doneCount' + Cardinality(Uncounted') = Len(returned') + Len(doneValues')
  BY <1>1, <1>4, UncountedFinite DEF WCore
<1>7. HandedOver' = HandedOver
  BY <1>1 DEF HandedOver
<1>8. \A i \in DOMAIN HandedOver : pc'[HandedOver[i].f] \notin {"get", "put"}
  BY <1>2 DEF WCore
<1>9. \A g \in Future :
        /\ pc'[g] = "send" => doneCount' >= n
        /\ pc'[g] = "put" => heatWaveWarning(result[g])
  BY <1>2, <1>5 DEF WCore
<1> QED BY <1>1, <1>2, <1>5, <1>6, <1>7, <1>8, <1>9 DEF WCore, DoneMeansN

\* chanToSlice() moves values from the channel to the caller, in order.
LEMMA ReturnsKeeps ==
  ASSUME WCore, wait = "select", Returns
  PROVE  /\ returned' \in Seq(AnyResult) /\ doneValues' \in Seq(AnyResult)
         /\ Len(returned') = IF n < Len(doneValues) THEN n ELSE Len(doneValues)
         /\ Len(returned') + Len(doneValues') = Len(returned) + Len(doneValues)
         /\ HandedOver' = HandedOver
<1> DEFINE l == IF n < Len(doneValues) THEN n ELSE Len(doneValues)
           d == doneValues
<1>1. returned = <<>> /\ d \in Seq(AnyResult) /\ n \in Nat
  BY FuturesAssumption DEF WCore
<1>2. Len(d) \in Nat /\ l \in 0 .. Len(d) /\ \A i \in 1 .. Len(d) : d[i] \in AnyResult
  BY <1>1
<1>3. returned' = SubSeq(d, 1, l) /\ doneValues' = SubSeq(d, l + 1, Len(d))
  BY DEF Returns
<1> HIDE DEF l
<1>4. /\ SubSeq(d, 1, l) \in Seq(AnyResult) /\ Len(SubSeq(d, 1, l)) = l
      /\ \A i \in 1 .. l : SubSeq(d, 1, l)[i] = d[i]
  BY <1>2, SubSeqProperties
<1>5. /\ SubSeq(d, l + 1, Len(d)) \in Seq(AnyResult)
      /\ Len(SubSeq(d, l + 1, Len(d))) = Len(d) - l
      /\ \A i \in 1 .. Len(d) - l : SubSeq(d, l + 1, Len(d))[i] = d[l + i]
  BY <1>2, SubSeqProperties
<1>6. HandedOver = d
  BY <1>1, ConcatEmptySeq DEF HandedOver
<1>7. SubSeq(d, 1, l) \o SubSeq(d, l + 1, Len(d)) = d
  <2>1. SubSeq(d, 1, l) \o SubSeq(d, l + 1, Len(d)) = SubSeq(d, 1, Len(d))
    <3>1. 1 \in 1 .. Len(d) + 1 /\ l \in 1 - 1 .. Len(d) /\ Len(d) \in l .. Len(d)
      BY <1>2
    <3> QED BY Zenon, <1>1, <3>1, ConcatAdjacentSubSeq
  <2> QED BY Zenon, <1>1, <2>1, SubSeqFull
<1>8. Len(returned) = 0
  BY <1>1
<1>9. HandedOver' = HandedOver
  BY Zenon, <1>3, <1>6, <1>7 DEF HandedOver
<1>10. Len(returned') + Len(doneValues') = Len(returned) + Len(doneValues)
  <2>1. Len(returned') = l /\ Len(doneValues') = Len(d) - l
    BY <1>3, <1>4, <1>5
  <2> QED BY <1>2, <1>8, <2>1
<1> QED BY Zenon, <1>3, <1>4, <1>5, <1>9, <1>10 DEF l

\* The select of Wait(): a send on doneN finds n values in the channel.
LEMMA DoneNInv ==
  ASSUME WCore, NEW f \in Future, DoneN(f)
  PROVE  WCore'
<1>1. /\ wait = "select" /\ wait' = "done" /\ Returns
      /\ pc[f] = "send" /\ pc' = [pc EXCEPT ![f] = "unlock"]
      /\ UNCHANGED <<result, doneCount>>
  BY DEF DoneN
<1>2. /\ pc' \in [Future -> Steps] /\ pc'[f] = "unlock"
      /\ \A g \in Future : g # f => pc'[g] = pc[g]
  BY <1>1 DEF WCore, Steps
<1>3. Uncounted' = Uncounted
  BY <1>1, <1>2 DEF Uncounted
<1>4. Len(doneValues) >= n /\ Len(doneValues) \in Nat /\ n \in Nat
  <2>1. returned = <<>> /\ doneCount >= n /\ doneCount \in Nat
    BY <1>1 DEF WCore
  <2>2. Len(returned) = 0
    BY <2>1
  <2>3. doneCount + Cardinality(Uncounted) = Len(returned) + Len(doneValues)
        /\ Len(doneValues) \in Nat
    BY DEF WCore
  <2> QED BY <2>1, <2>2, <2>3, UncountedFinite, FuturesAssumption
<1>5. DoneMeansN'
  BY <1>1, <1>4, ReturnsKeeps DEF DoneMeansN
<1>6. \A i \in DOMAIN HandedOver : pc'[HandedOver[i].f] \notin {"get", "put"}
  BY <1>2 DEF WCore
<1>7. \A g \in Future :
        /\ pc'[g] = "send" => doneCount >= n
        /\ pc'[g] = "put" => heatWaveWarning(result[g])
  BY <1>2 DEF WCore
<1>8. /\ returned' \in Seq(AnyResult) /\ doneValues' \in Seq(AnyResult)
      /\ Len(returned') + Len(doneValues') = Len(returned) + Len(doneValues)
      /\ HandedOver' = HandedOver /\ result' = result /\ doneCount' = doneCount
      /\ wait' # "select"
  BY Zenon, <1>1, ReturnsKeeps
<1> QED BY Zenon, <1>2, <1>3, <1>5, <1>6, <1>7, <1>8 DEF WCore

\* The select of Wait(): the timeout.
LEMMA TimeoutInv ==
  ASSUME WCore, Timeout
  PROVE  WCore'
<1>1. /\ wait = "select" /\ wait' = "timeout" /\ Returns
      /\ UNCHANGED <<result, pc, doneCount>>
  BY DEF Timeout
<1>2. Uncounted' = Uncounted
  BY <1>1 DEF Uncounted
<1>3. DoneMeansN'
  BY <1>1 DEF DoneMeansN
<1> QED BY Zenon, <1>1, <1>2, <1>3, ReturnsKeeps DEF WCore

\* Only the goroutine that holds mu counts, sends and unlocks.
LEMMA MuStep ==
  ASSUME MuInv, pc \in [Future -> Steps], Next
  PROVE  MuInv'
<1>1. CASE Timeout
  BY <1>1 DEF Timeout, MuInv
<1>2. ASSUME NEW f \in Future, CompleteFuture(f) \/ GetResult(f) \/ Put(f)
      PROVE  MuInv'
  <2>1. UNCHANGED <<mu, wait>>
    BY <1>2 DEF CompleteFuture, GetResult, Put
  <2>2. \A g \in Future : pc'[g] \in {"count", "send", "unlock"} => pc'[g] = pc[g]
    BY <1>2 DEF CompleteFuture, GetResult, Put
  <2> QED BY <2>1, <2>2 DEF MuInv
<1>3. ASSUME NEW f \in Future, Lock(f)
      PROVE  MuInv'
  BY <1>3, FuturesAssumption DEF Lock, MuInv
<1>4. ASSUME NEW f \in Future, Count(f) \/ DoneN(f)
      PROVE  MuInv'
  <2>1. /\ mu' = mu /\ wait' \in {wait, "done"}
        /\ pc[f] \in {"count", "send"} /\ \A g \in Future : g # f => pc'[g] = pc[g]
    BY <1>4 DEF Count, DoneN
  <2> QED BY <2>1 DEF MuInv
<1>5. ASSUME NEW f \in Future, Unlock(f)
      PROVE  MuInv'
  <2>1. /\ mu' = Nobody /\ wait' = wait /\ pc[f] = "unlock" /\ pc'[f] = "done"
        /\ \A g \in Future : g # f => pc'[g] = pc[g]
    BY <1>5 DEF Unlock
  <2> QED BY <2>1 DEF MuInv
<1> QED BY Zenon, <1>1, <1>2, <1>3, <1>4, <1>5 DEF Next, Goroutine

\* WInv holds always.
THEOREM WaitInvariant == Spec => []WInv
<1>1. Init => WCore /\ MuInv
  BY WInit DEF Init, MuInv
<1>2. WCore /\ MuInv /\ [Next]_vars => WCore' /\ MuInv'
  <2> SUFFICES ASSUME WCore, MuInv, [Next]_vars PROVE WCore' /\ MuInv'
    OBVIOUS
  <2>1. CASE UNCHANGED vars
    BY <2>1 DEF vars, WCore, DoneMeansN, HandedOver, Uncounted, MuInv
  <2>2. CASE Next
    <3>1. WCore'
      BY <2>2, TimeoutInv, CompleteInv, StepsInv, PutInv, CountInv, DoneNInv DEF Next, Goroutine
    <3>2. MuInv'
      BY Zenon, <2>2, MuStep DEF WCore
    <3> QED BY <3>1, <3>2
  <2> QED BY <2>1, <2>2
<1>3. WCore /\ MuInv => WInv
  BY Zenon DEF WCore, MuInv, WInv, TypeOK
<1> QED BY <1>1, <1>2, <1>3, PTL DEF Spec

\* Wait() that returns before its timeout returns n values, of different
\* futures, and only ones that heatWaveWarning() lets pass.
THEOREM WaitIsCorrect == Spec => []WaitCorrect
<1>1. WInv => WaitCorrect
  BY DEF WInv, WaitCorrect, OnlyWarnings, heatWaveWarning
<1> QED BY <1>1, WaitInvariant, PTL
=============================================================================
