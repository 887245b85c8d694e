------------------------------- MODULE Labrpc -------------------------------
(***************************************************************************)
(* The simulated network (labrpc/labrpc.go) with a server that the tester  *)
(* crashes and starts again (crash1, start1 of a2-omnipaxos/config.go and  *)
(* persister.go).                                                          *)
(*                                                                         *)
(* A Call is a goroutine of its caller, one of processReq() and one that   *)
(* runs the handler; the last goes on when the others have given up.  A    *)
(* handler saves what it is told in the Persister of the instance it       *)
(* belongs to, which may be one that was killed: instances are numbered,   *)
(* and so are their Persisters.                                            *)
(***************************************************************************)
EXTENDS Integers, FiniteSets

CONSTANTS
    Call,        \* the Calls, each made once
    End,         \* the ClientEnds, all connected to the server
    Stuck,       \* the Calls whose handlers do not return
    MaxStarts,   \* bound: on the instances of the server
    MaxChanges   \* bound: on changes of an end or of the network's temper

ASSUME CallAssumption ==
    Stuck \subseteq Call /\ MaxStarts \in Nat \ {0} /\ MaxChanges \in Nat

VARIABLES
    pc,         \* pc[k]: where Call k and its processReq() are
    end,        \* end[k]: the ClientEnd of k
    srv,        \* srv[k]: the instance that processReq() has found, or 0
    temper,     \* temper[k]: `reliable' and `longreordering' as it found them
    running,    \* the Calls whose handlers run
    handled,    \* the Calls whose handlers have returned
    enabled,    \* enabled[e]
    server,     \* the instance in rn.servers, 0 for nil
    network,    \* rn.reliable and rn.longReordering
    cleaned,    \* rn.done is closed
    looping,    \* the goroutine of the network takes requests
    tester,     \* where crash1() and start1() are
    instance,   \* the number of the last instance
    saved,      \* saved[i]: what the Persister of instance i holds
    changes

callVars == <<pc, end, srv, temper>>
netVars == <<enabled, server, network, cleaned, looping>>
testVars == <<tester, instance>>
vars == <<callVars, running, handled, netVars, testVars, saved, changes>>

Temper == [reliable : BOOLEAN, longReordering : BOOLEAN]

Calm == [reliable |-> TRUE, longReordering |-> FALSE]

\* One instance runs, and every end is enabled.
Init ==
    /\ pc = [k \in Call |-> "idle"]
    /\ end \in [Call -> End]
    /\ srv = [k \in Call |-> 0]
    /\ temper = [k \in Call |-> Calm]
    /\ running = {}
    /\ handled = {}
    /\ enabled = [e \in End |-> TRUE]
    /\ server = 1
    /\ network = Calm
    /\ cleaned = FALSE
    /\ looping = TRUE
    /\ tester = "up"
    /\ instance = 1
    /\ saved = [i \in 1..MaxStarts |-> {}]
    /\ changes = 0
-----------------------------------------------------------------------------
(* Call() *)

Goto(k, from, to) == pc[k] = from /\ pc' = [pc EXCEPT ![k] = to]

Send(k) ==
    /\ looping
    /\ Goto(k, "idle", "sent")
    /\ UNCHANGED <<end, srv, temper, running, handled, netVars, testVars, saved, changes>>

SendNowhere(k) ==
    /\ cleaned
    /\ Goto(k, "idle", "false")
    /\ UNCHANGED <<end, srv, temper, running, handled, netVars, testVars, saved, changes>>
-----------------------------------------------------------------------------
(* processReq() *)

\* readEndnameInfo(), when the end leads to a server.
Reach(k) ==
    /\ enabled[end[k]] /\ server # 0
    /\ Goto(k, "sent", "reached")
    /\ srv' = [srv EXCEPT ![k] = server]
    /\ temper' = [temper EXCEPT ![k] = network]
    /\ UNCHANGED <<end, running, handled, netVars, testVars, saved, changes>>

\* When it does not, the Call is answered by a timer.
Unreachable(k) ==
    /\ ~enabled[end[k]] \/ server = 0
    /\ Goto(k, "sent", "timer")
    /\ UNCHANGED <<end, srv, temper, running, handled, netVars, testVars, saved, changes>>

TimedOut(k) ==
    /\ Goto(k, "timer", "false")
    /\ UNCHANGED <<end, srv, temper, running, handled, netVars, testVars, saved, changes>>

DropRequest(k) ==
    /\ ~temper[k].reliable
    /\ Goto(k, "reached", "false")
    /\ UNCHANGED <<end, srv, temper, running, handled, netVars, testVars, saved, changes>>

Execute(k) ==
    /\ Goto(k, "reached", "wait")
    /\ running' = running \cup {k}
    /\ UNCHANGED <<end, srv, temper, handled, netVars, testVars, saved, changes>>

\* Mutant: an old instance saves to the persister of the new one.
HandlerSharedPersister(k) ==
    /\ k \in running
    /\ running' = running \ {k}
    /\ handled' = handled \cup {k}
    /\ saved' = [saved EXCEPT ![instance] = saved[srv[k]] \cup {k}]
    /\ UNCHANGED <<callVars, netVars, testVars, changes>>

\* dispatch() and the handler, which saves all that its instance knows before
\* it returns.
Handler(k) ==
    /\ k \in running
    /\ running' = running \ {k}
    /\ handled' = handled \cup {k}
    /\ saved' = [saved EXCEPT ![srv[k]] = @ \cup {k}]
    /\ UNCHANGED <<callVars, netVars, testVars, changes>>

\* Mutant: only the end is looked at, not the server.
isServerDeadEnd(k) == ~enabled[end[k]]

isServerDead(k) == ~enabled[end[k]] \/ server # srv[k]

\* The wait ends with the handler, or with a look that finds the server dead.
Receive(k) ==
    /\ k \in handled
    /\ Goto(k, "wait", "check")
    /\ UNCHANGED <<end, srv, temper, running, handled, netVars, testVars, saved, changes>>

\* Mutant: only a server that is gone behind an enabled end counts as dead.
PollForgets(k) ==
    /\ enabled[end[k]] /\ server = 0
    /\ Goto(k, "wait", "false")
    /\ UNCHANGED <<end, srv, temper, running, handled, netVars, testVars, saved, changes>>

Poll(k) ==
    /\ isServerDead(k)
    /\ Goto(k, "wait", "false")
    /\ UNCHANGED <<end, srv, temper, running, handled, netVars, testVars, saved, changes>>

\* The reply is checked once more, and then lost, delayed or delivered.
ReplyDead(k) ==
    /\ isServerDead(k)
    /\ Goto(k, "check", "false")
    /\ UNCHANGED <<end, srv, temper, running, handled, netVars, testVars, saved, changes>>

DropReply(k) ==
    /\ ~isServerDead(k) /\ ~temper[k].reliable
    /\ Goto(k, "check", "false")
    /\ UNCHANGED <<end, srv, temper, running, handled, netVars, testVars, saved, changes>>

DelayReply(k) ==
    /\ ~isServerDead(k) /\ temper[k].longReordering
    /\ Goto(k, "check", "delayed")
    /\ UNCHANGED <<end, srv, temper, running, handled, netVars, testVars, saved, changes>>

Reply(k) ==
    /\ ~isServerDead(k)
    /\ Goto(k, "check", "true")
    /\ UNCHANGED <<end, srv, temper, running, handled, netVars, testVars, saved, changes>>

ReplyLate(k) ==
    /\ Goto(k, "delayed", "true")
    /\ UNCHANGED <<end, srv, temper, running, handled, netVars, testVars, saved, changes>>
-----------------------------------------------------------------------------
(* The network as the tester sets it *)

\* connect() or disconnect() of one end, while no crash1() is under way.
Enable(e) ==
    /\ tester \in {"up", "copied"}
    /\ changes < MaxChanges
    /\ changes' = changes + 1
    /\ enabled' = [enabled EXCEPT ![e] = ~@]
    /\ UNCHANGED <<callVars, running, handled, server, network, cleaned, looping, testVars, saved>>

\* Reliable() and LongReordering().
SetTemper(t) ==
    /\ t # network
    /\ changes < MaxChanges
    /\ changes' = changes + 1
    /\ network' = t
    /\ UNCHANGED <<callVars, running, handled, enabled, server, cleaned, looping, testVars, saved>>

Cleanup ==
    /\ ~cleaned
    /\ cleaned' = TRUE
    /\ UNCHANGED <<callVars, running, handled, enabled, server, network, looping, testVars, saved, changes>>

LoopEnds ==
    /\ cleaned /\ looping
    /\ looping' = FALSE
    /\ UNCHANGED <<callVars, running, handled, enabled, server, network, cleaned, testVars, saved, changes>>
-----------------------------------------------------------------------------
(* crash1() and start1() *)

Tester(from, to) == tester = from /\ tester' = to

disconnect ==
    /\ Tester("up", "detached")
    /\ instance < MaxStarts
    /\ enabled' = [e \in End |-> FALSE]
    /\ UNCHANGED <<callVars, running, handled, server, network, cleaned, looping, instance, saved, changes>>

DeleteServer ==
    /\ Tester("detached", "deleted")
    /\ server' = 0
    /\ UNCHANGED <<callVars, running, handled, enabled, network, cleaned, looping, instance, saved, changes>>

\* The Persister is copied, and so is superseded for the old instance.
Copy ==
    /\ Tester("deleted", "copied")
    /\ instance' = instance + 1
    /\ saved' = [saved EXCEPT ![instance + 1] = saved[instance]]
    /\ UNCHANGED <<callVars, running, handled, netVars, changes>>

AddServer ==
    /\ Tester("copied", "added")
    /\ server' = instance
    /\ UNCHANGED <<callVars, running, handled, enabled, network, cleaned, looping, instance, saved, changes>>

connect ==
    /\ Tester("added", "up")
    /\ enabled' = [e \in End |-> TRUE]
    /\ UNCHANGED <<callVars, running, handled, server, network, cleaned, looping, instance, saved, changes>>
-----------------------------------------------------------------------------
processReq(k) ==
    \/ Reach(k) \/ Unreachable(k) \/ TimedOut(k) \/ DropRequest(k) \/ Execute(k)
    \/ Receive(k) \/ Poll(k) \/ ReplyDead(k) \/ DropReply(k) \/ DelayReply(k)
    \/ Reply(k) \/ ReplyLate(k)

Restarts == disconnect \/ DeleteServer \/ Copy \/ AddServer \/ connect

Next ==
    \/ \E k \in Call : Send(k) \/ SendNowhere(k) \/ processReq(k) \/ Handler(k)
    \/ \E e \in End : Enable(e)
    \/ \E t \in Temper : SetTemper(t)
    \/ Cleanup \/ LoopEnds \/ Restarts

Spec == Init /\ [][Next]_vars

\* The goroutines of a Call are scheduled, and its timers end; so do handlers,
\* except those that are stuck.
Fairness ==
    /\ \A k \in Call : WF_vars(processReq(k))
    /\ \A k \in Call \ Stuck : WF_vars(Handler(k))

FairSpec == Spec /\ Fairness
-----------------------------------------------------------------------------
(* Properties *)

\* Every variable has its type.
TypeOK ==
    /\ pc \in [Call -> {"idle", "sent", "timer", "reached", "wait", "check", "delayed", "true", "false"}]
    /\ end \in [Call -> End] /\ enabled \in [End -> BOOLEAN]
    /\ srv \in [Call -> 0..MaxStarts]
    /\ temper \in [Call -> Temper] /\ network \in Temper
    /\ running \subseteq Call /\ handled \subseteq Call
    /\ server \in 0..MaxStarts /\ instance \in 1..MaxStarts
    /\ saved \in [1..MaxStarts -> SUBSET Call]
    /\ tester \in {"up", "detached", "deleted", "copied", "added"}

\* A Call that returns true has its write saved where the server's present
\* instance, and every later one, finds it, although handlers of a killed
\* instance go on and save: processReq() does not reply for a server that was
\* deleted, and crash1() deletes it before it copies the Persister.
AcksSaved == \A k \in Call : pc[k] = "true" => k \in saved[instance]

\* The inductive invariant behind AcksSaved: a handler that has returned has
\* saved in its own instance; a reply that has passed the last check was
\* saved before the copy; the network has the last instance or none.
RInv ==
    /\ TypeOK
    /\ \A k \in Call : pc[k] \in {"reached", "wait", "check"} \/ k \in running => srv[k] # 0
    /\ \A k \in Call : pc[k] = "check" => k \in handled
    /\ \A k \in handled : srv[k] # 0 /\ k \in saved[srv[k]]
    /\ \A k \in running : pc[k] \notin {"idle", "sent", "reached"}
    /\ \A k \in handled : pc[k] \notin {"idle", "sent", "reached"}
    /\ \A k \in Call : pc[k] \in {"delayed", "true"} => k \in saved[instance]
    /\ tester \in {"up", "detached", "added"} => server = instance
    /\ tester \in {"deleted", "copied"} => server = 0
    /\ tester \in {"detached", "deleted"} => instance < MaxStarts
    /\ \A k \in Call : srv[k] <= instance

\* "Call() is guaranteed to return (perhaps after a delay) *except* if the
\* handler function on the server side does not return": and then, too, when
\* the server is dead for good, since processReq() keeps looking.
CallReturns ==
    \A k \in Call :
        (pc[k] = "sent") ~>
            (pc[k] \in {"true", "false"} \/ (k \in Stuck /\ [](~isServerDead(k))))
=============================================================================
