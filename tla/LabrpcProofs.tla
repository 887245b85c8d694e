---------------------------- MODULE LabrpcProofs ----------------------------
(***************************************************************************)
(* Proof that a Call of the simulated network that returns true has its    *)
(* write saved: RInv is inductive, and AcksSaved is one of its conjuncts.  *)
(***************************************************************************)
EXTENDS Labrpc, TLAPS

\* The steps of a Call that only go on, and of the network's settings, touch
\* neither handlers, instances nor Persisters.
LEMMA GoesOn ==
    ASSUME RInv, NEW k \in Call,
           \/ Send(k) \/ SendNowhere(k) \/ Unreachable(k) \/ TimedOut(k)
           \/ DropRequest(k) \/ Receive(k) \/ Poll(k) \/ ReplyDead(k) \/ DropReply(k)
    PROVE  RInv'
<1>1. CASE Send(k)        BY <1>1 DEF Send, Goto, RInv, TypeOK, netVars, testVars
<1>2. CASE SendNowhere(k) BY <1>2 DEF SendNowhere, Goto, RInv, TypeOK, netVars, testVars
<1>3. CASE Unreachable(k) BY <1>3 DEF Unreachable, Goto, RInv, TypeOK, netVars, testVars
<1>4. CASE TimedOut(k)    BY <1>4 DEF TimedOut, Goto, RInv, TypeOK, netVars, testVars
<1>5. CASE DropRequest(k) BY <1>5 DEF DropRequest, Goto, RInv, TypeOK, netVars, testVars
<1>6. CASE Receive(k)     BY <1>6 DEF Receive, Goto, RInv, TypeOK, netVars, testVars
<1>7. CASE Poll(k)        BY <1>7 DEF Poll, Goto, RInv, TypeOK, netVars, testVars
<1>8. CASE ReplyDead(k)   BY <1>8 DEF ReplyDead, Goto, RInv, TypeOK, netVars, testVars
<1>9. CASE DropReply(k)   BY <1>9 DEF DropReply, Goto, RInv, TypeOK, netVars, testVars
<1> QED BY <1>1, <1>2, <1>3, <1>4, <1>5, <1>6, <1>7, <1>8, <1>9

\* processReq() finds an instance, and starts its handler.
LEMMA Reaches ==
    ASSUME RInv, NEW k \in Call, Reach(k) \/ Execute(k)
    PROVE  RInv'
<1>1. CASE Reach(k)
    <2>1. server # 0 /\ server <= instance
        BY <1>1, SMT DEF Reach, RInv, TypeOK
    <2> QED BY <1>1, <2>1 DEF Reach, Goto, RInv, TypeOK, netVars, testVars
<1>2. CASE Execute(k) BY <1>2 DEF Execute, Goto, RInv, TypeOK, netVars, testVars
<1> QED BY <1>1, <1>2

\* A handler that returns has saved in its own instance, dead or alive.
LEMMA Handles ==
    ASSUME RInv, NEW k \in Call, Handler(k)
    PROVE  RInv'
<1>1. srv[k] \in 1..MaxStarts
    BY CallAssumption DEF Handler, RInv, TypeOK
<1>2. saved' \in [1..MaxStarts -> SUBSET Call]
    BY <1>1 DEF Handler, RInv, TypeOK
<1>3. k \in saved'[srv[k]] /\ \A i \in 1..MaxStarts : saved[i] \subseteq saved'[i]
    BY <1>1 DEF Handler, RInv, TypeOK
<1>4. TypeOK'
    BY <1>2 DEF Handler, RInv, TypeOK, callVars, netVars, testVars
<1>5. \A x \in handled' : srv'[x] # 0 /\ x \in saved'[srv'[x]]
    BY <1>1, <1>3, CallAssumption DEF Handler, RInv, TypeOK, callVars
<1>6. \A x \in Call : pc'[x] \in {"delayed", "true"} => x \in saved'[instance']
    BY <1>3 DEF Handler, RInv, TypeOK, callVars, testVars
<1> QED BY <1>4, <1>5, <1>6 DEF Handler, RInv, TypeOK, callVars, netVars, testVars

\* A reply leaves processReq() only while the instance that ran the handler
\* is the last one.
LEMMA Replies ==
    ASSUME RInv, NEW k \in Call, DelayReply(k) \/ Reply(k) \/ ReplyLate(k)
    PROVE  RInv'
<1>1. ASSUME ~isServerDead(k), pc[k] = "check"
      PROVE  k \in saved[instance]
    <2>1. server = srv[k] /\ srv[k] # 0 BY <1>1 DEF isServerDead, RInv
    <2>2. server = instance BY <2>1 DEF RInv, TypeOK
    <2> QED BY <1>1, <2>1, <2>2 DEF RInv
<1>2. CASE DelayReply(k) BY <1>1, <1>2 DEF DelayReply, Goto, RInv, TypeOK, netVars, testVars
<1>3. CASE Reply(k)      BY <1>1, <1>3 DEF Reply, Goto, RInv, TypeOK, netVars, testVars
<1>4. CASE ReplyLate(k)  BY <1>4 DEF ReplyLate, Goto, RInv, TypeOK, netVars, testVars
<1> QED BY <1>2, <1>3, <1>4

\* What the tester sets in the network, and the end of the network.
LEMMA Settings ==
    ASSUME RInv,
           \/ \E e \in End : Enable(e)
           \/ \E t \in Temper : SetTemper(t)
           \/ Cleanup \/ LoopEnds
    PROVE  RInv'
<1>1. ASSUME NEW e \in End, Enable(e) PROVE RInv'
    BY <1>1 DEF Enable, RInv, TypeOK, callVars, testVars
<1>2. ASSUME NEW t \in Temper, SetTemper(t) PROVE RInv'
    BY <1>2 DEF SetTemper, RInv, TypeOK, callVars, testVars
<1>3. CASE Cleanup  BY <1>3 DEF Cleanup, RInv, TypeOK, callVars, testVars
<1>4. CASE LoopEnds BY <1>4 DEF LoopEnds, RInv, TypeOK, callVars, testVars
<1> QED BY <1>1, <1>2, <1>3, <1>4

\* crash1() and start1(): only Copy changes Persisters, and the new one has
\* all that the last one had.
LEMMA RestartsKeep ==
    ASSUME RInv, Restarts
    PROVE  RInv'
<1>1. CASE disconnect   BY <1>1 DEF disconnect, Tester, RInv, TypeOK, callVars
<1>2. CASE DeleteServer BY <1>2, CallAssumption DEF DeleteServer, Tester, RInv, TypeOK, callVars
<1>3. CASE Copy
    <2>1. /\ instance \in 1..MaxStarts /\ instance + 1 \in 1..MaxStarts
          /\ instance' = instance + 1
        BY <1>3, CallAssumption DEF Copy, Tester, RInv, TypeOK
    <2>2. /\ saved' \in [1..MaxStarts -> SUBSET Call]
          /\ saved'[instance'] = saved[instance]
          /\ \A i \in 0..instance : i # 0 => saved'[i] = saved[i]
        BY <1>3, <2>1 DEF Copy, RInv, TypeOK
    <2>3. \A x \in Call : srv[x] \in 0..instance /\ srv'[x] = srv[x]
        BY <1>3 DEF Copy, RInv, TypeOK, callVars
    <2>4. TypeOK' BY <1>3, <2>1, <2>2 DEF Copy, Tester, RInv, TypeOK, callVars, netVars
    <2>5. \A x \in handled' : srv'[x] # 0 /\ x \in saved'[srv'[x]]
        BY <1>3, <2>2, <2>3 DEF Copy, RInv, TypeOK
    <2>6. \A x \in Call : srv'[x] <= instance'
        BY <2>1, <2>3
    <2>7. \A x \in Call : pc'[x] \in {"delayed", "true"} => x \in saved'[instance']
        BY <1>3, <2>2 DEF Copy, RInv, callVars
    <2> QED BY <1>3, <2>4, <2>5, <2>6, <2>7 DEF Copy, Tester, RInv, TypeOK, callVars, netVars
<1>4. CASE AddServer BY <1>4 DEF AddServer, Tester, RInv, TypeOK, callVars
<1>5. CASE connect   BY <1>5 DEF connect, Tester, RInv, TypeOK, callVars
<1> QED BY <1>1, <1>2, <1>3, <1>4, <1>5 DEF Restarts

\* The inductive invariant of processReq(), the handlers and the restarts.
THEOREM RpcInvariant == Spec => []RInv
<1>1. Init => RInv
    BY CallAssumption DEF Init, RInv, TypeOK, Temper, Calm
<1>2. RInv /\ [Next]_vars => RInv'
    <2> SUFFICES ASSUME RInv, [Next]_vars PROVE RInv'
        OBVIOUS
    <2>1. ASSUME NEW k \in Call, Send(k) \/ SendNowhere(k) \/ processReq(k) \/ Handler(k)
          PROVE  RInv'
        BY <2>1, GoesOn, Reaches, Handles, Replies DEF processReq
    <2>2. CASE UNCHANGED vars
        BY <2>2 DEF vars, callVars, netVars, testVars, RInv, TypeOK
    <2> QED BY <2>1, <2>2, Settings, RestartsKeep DEF Next
<1> QED BY <1>1, <1>2, PTL DEF Spec

\* A Call that returns true has its write in the Persister that the present
\* instance of the server uses, or that the next one starts from.
THEOREM AcknowledgedSaved == Spec => []AcksSaved
<1>1. RInv => AcksSaved BY DEF RInv, AcksSaved
<1> QED BY <1>1, RpcInvariant, PTL
=============================================================================
