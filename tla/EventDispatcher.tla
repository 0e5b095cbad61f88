-------------------------- MODULE EventDispatcher --------------------------
(***************************************************************************)
(* The goroutines between the Docker event stream and the two workers:     *)
(* watchDocker, which reads events and owns the lanes, one goroutine per   *)
(* lane, createRules and deleteRules, and the shutdown that drains them.   *)
(*                                                                         *)
(* An event is a number in stream order.  Operations on the firewall are   *)
(* reduced to "a worker is busy"; RuleManager and Tracker say what they do.*)
(***************************************************************************)
EXTENDS Naturals, Sequences, FiniteSets

CONSTANTS
    Containers,   \* container IDs
    None,         \* no lane
    Depth,        \* dockerEventLaneDepth
    MaxEvents     \* bound on the events Docker sends

ASSUME DispatcherAssumption ==
    Depth \in Nat \ {0} /\ MaxEvents \in Nat /\ None \notin 1..MaxEvents

Lanes == 1..MaxEvents     \* every event allocates at most one lane
Workers == {"create", "delete"}

VARIABLES
    ctxDone,      \* a signal has canceled the context
    stopping,     \* Stop has closed the channel
    event,        \* the events received: the container and what it calls for
    watcher,      \* where watchDocker is
    lanes,        \* dockerEventDispatcher.lanes: ID -> lane
    made,         \* lanes allocated so far
    queue,        \* the buffered channel of each lane
    pending,      \* dockerEventLane.pending
    activeN,      \* dockerEventDispatcher.activeN
    closed,       \* lanes whose channel is closed
    runner,       \* where the goroutine of each lane is
    handles,      \* the event it handles, or 0
    worker,       \* the event each worker is busy with, or 0
    exited,       \* workers that have returned
    results       \* events whose result was sent

watchVars == <<event, watcher, lanes, made, closed>>
laneVars  == <<queue, pending, activeN, runner, handles>>
workVars  == <<worker, exited, results>>
lifeVars  == <<ctxDone, stopping>>
vars == <<watchVars, laneVars, workVars, lifeVars>>

WatcherSteps == {"select", "send", "check", "reconcile", "backoff", "drain", "wait", "returned"}
RunnerSteps == {"none", "receive", "handle", "offer", "await", "handled", "counted", "exited"}

TypeOK ==
    /\ ctxDone \in BOOLEAN /\ stopping \in BOOLEAN
    /\ event \in Seq([id : Containers, kind : Workers]) /\ Len(event) <= MaxEvents
    /\ watcher \in WatcherSteps
    /\ lanes \in [Containers -> Lanes \cup {None}]
    /\ made \in 0..MaxEvents
    /\ queue \in [Lanes -> Seq(1..MaxEvents)] /\ \A l \in Lanes : Len(queue[l]) <= Depth
    /\ pending \in [Lanes -> Nat]
    /\ activeN \in Nat
    /\ closed \subseteq Lanes
    /\ runner \in [Lanes -> RunnerSteps]
    /\ handles \in [Lanes -> 0..MaxEvents]
    /\ worker \in [Workers -> 0..MaxEvents] /\ exited \subseteq Workers
    /\ results \subseteq 1..MaxEvents

ShuttingDown == ctxDone \/ stopping

-----------------------------------------------------------------------------
(* watchDocker and the dispatcher *)

Open == {lanes[c] : c \in Containers} \ {None}
\* Mutant: a lane is idle when its channel is empty.
Idle_EmptyQueue == {l \in Open : queue[l] = <<>>}

Idle == {l \in Open : pending[l] = 0}
Reaped == [c \in Containers |-> IF lanes[c] \in Idle THEN None ELSE lanes[c]]

\* The event being sent, and the lane it goes to.
Last == Len(event)
Target == lanes[event[Last].id]

\* An event arrives: reap idle lanes, find or make the lane, count the event.
dispatch(c, k) ==
    LET fresh == Reaped[c] = None
        l == IF fresh THEN made + 1 ELSE Reaped[c]
    IN
    /\ watcher = "select" /\ Last < MaxEvents
    /\ watcher' = "send"
    /\ event' = Append(event, [id |-> c, kind |-> k])
    /\ closed' = closed \cup Idle
    /\ lanes' = [Reaped EXCEPT ![c] = l]
    /\ made' = IF fresh THEN made + 1 ELSE made
    /\ runner' = IF fresh THEN [runner EXCEPT ![l] = "receive"] ELSE runner
    /\ pending' = [pending EXCEPT ![l] = @ + 1]
    /\ activeN' = activeN + 1
    /\ UNCHANGED <<queue, handles, workVars, lifeVars>>

\* Mutant: the channel takes what it is given.
accept_Unbounded ==
    /\ watcher = "send" /\ watcher' = "select"
    /\ queue' = [queue EXCEPT ![Target] = Append(@, Last)]
    /\ UNCHANGED <<event, lanes, made, closed, pending, activeN, runner, handles, workVars, lifeVars>>

\* The channel has room.
accept ==
    /\ watcher = "send" /\ watcher' = "select"
    /\ Len(queue[Target]) < Depth
    /\ queue' = [queue EXCEPT ![Target] = Append(@, Last)]
    /\ UNCHANGED <<event, lanes, made, closed, pending, activeN, runner, handles, workVars, lifeVars>>

refuse ==
    /\ watcher = "send" /\ watcher' = "drain"
    /\ ShuttingDown
    /\ pending' = [pending EXCEPT ![Target] = @ - 1]
    /\ activeN' = activeN - 1
    /\ UNCHANGED <<event, lanes, made, closed, queue, runner, handles, workVars, lifeVars>>

WatchOnly == UNCHANGED <<event, made, laneVars, workVars, lifeVars>>

\* The ticker, or the stream back after an interruption.
reapIdle ==
    /\ watcher \in {"select", "backoff"} /\ watcher' = "check"
    /\ closed' = closed \cup Idle
    /\ lanes' = Reaped
    /\ WatchOnly

\* Mutant: active handlers do not defer the reconciliation.
active_Ignored ==
    /\ watcher = "check" /\ watcher' = "reconcile"
    /\ WatchOnly /\ UNCHANGED <<lanes, closed>>

\* Reconcile unless a handler is active.
active ==
    /\ watcher = "check"
    /\ watcher' = IF activeN # 0 THEN "select" ELSE "reconcile"
    /\ WatchOnly /\ UNCHANGED <<lanes, closed>>

reconcile ==
    /\ watcher = "reconcile" /\ watcher' = "select"
    /\ WatchOnly /\ UNCHANGED <<lanes, closed>>

streamErr ==
    /\ watcher = "select" /\ watcher' = "backoff"
    /\ WatchOnly /\ UNCHANGED <<lanes, closed>>

\* Mutant: break leaves the select and not the loop.
watchStops_InnerBreak ==
    /\ watcher \in {"select", "backoff"} /\ watcher' = "select"
    /\ ShuttingDown
    /\ WatchOnly /\ UNCHANGED <<lanes, closed>>

watchStops ==
    /\ watcher \in {"select", "backoff"} /\ watcher' = "drain"
    /\ ShuttingDown
    /\ WatchOnly /\ UNCHANGED <<lanes, closed>>

closeAndWait ==
    /\ watcher = "drain" /\ watcher' = "wait"
    /\ closed' = closed \cup Open
    /\ lanes' = [c \in Containers |-> None]
    /\ WatchOnly

\* Mutant: lanes are closed and not waited for.
watchReturns_NoWait ==
    /\ watcher = "wait" /\ watcher' = "returned"
    /\ WatchOnly /\ UNCHANGED <<lanes, closed>>

\* The wait group is empty; deferred functions close createCh and deleteCh.
watchReturns ==
    /\ watcher = "wait" /\ watcher' = "returned"
    /\ \A l \in 1..made : runner[l] = "exited"
    /\ WatchOnly /\ UNCHANGED <<lanes, closed>>

watchDocker ==
    \/ accept \/ refuse \/ active \/ reconcile \/ watchStops \/ closeAndWait \/ watchReturns

-----------------------------------------------------------------------------
(* runLane and handleDockerEvent *)

Run(l, from, to) == runner[l] = from /\ runner' = [runner EXCEPT ![l] = to]
KindOf(e) == event[e].kind

receive(l) ==
    /\ Run(l, "receive", "handle")
    /\ queue[l] # <<>>
    /\ queue' = [queue EXCEPT ![l] = Tail(@)]
    /\ handles' = [handles EXCEPT ![l] = Head(queue[l])]
    /\ UNCHANGED <<watchVars, pending, activeN, workVars, lifeVars>>

\* Mutant: a lane stops when its channel is closed, whatever is left in it.
exitLane_DropsQueue(l) ==
    /\ Run(l, "receive", "exited")
    /\ l \in closed
    /\ UNCHANGED <<watchVars, queue, pending, activeN, handles, workVars, lifeVars>>

exitLane(l) ==
    /\ Run(l, "receive", "exited")
    /\ queue[l] = <<>> /\ l \in closed
    /\ UNCHANGED <<watchVars, queue, pending, activeN, handles, workVars, lifeVars>>

RunOnly == UNCHANGED <<watchVars, queue, pending, activeN, handles, lifeVars>>

\* A start is inspected first, with the context; a die is not.
inspect(l) ==
    /\ Run(l, "handle", "offer")
    /\ KindOf(handles[l]) = "delete" \/ ~ctxDone
    /\ RunOnly /\ UNCHANGED workVars

inspectFails(l) ==
    /\ Run(l, "handle", "handled")
    /\ KindOf(handles[l]) = "create"
    /\ RunOnly /\ UNCHANGED workVars

\* The unbuffered channel of the worker.
offer(l) ==
    LET e == handles[l] IN
    /\ Run(l, "offer", "await")
    /\ worker[KindOf(e)] = 0 /\ KindOf(e) \notin exited
    /\ worker' = [worker EXCEPT ![KindOf(e)] = e]
    /\ RunOnly /\ UNCHANGED <<exited, results>>

\* Mutant: a handler returns once its worker has taken the event.
await_Skipped(l) ==
    /\ Run(l, "await", "handled")
    /\ RunOnly /\ UNCHANGED workVars

await(l) ==
    /\ Run(l, "await", "handled")
    /\ handles[l] \in results
    /\ RunOnly /\ UNCHANGED workVars

giveUp(l) ==
    /\ Run(l, "offer", "handled") \/ Run(l, "await", "handled")
    /\ ShuttingDown
    /\ RunOnly /\ UNCHANGED workVars

\* Mutant: the aggregate is counted down first.
pendingDone_AggregateFirst(l) ==
    /\ Run(l, "handled", "counted")
    /\ activeN' = activeN - 1
    /\ UNCHANGED <<watchVars, queue, pending, handles, workVars, lifeVars>>

\* The lane is counted down before the aggregate.
pendingDone(l) ==
    /\ Run(l, "handled", "counted")
    /\ pending' = [pending EXCEPT ![l] = @ - 1]
    /\ UNCHANGED <<watchVars, queue, activeN, handles, workVars, lifeVars>>

activeDone(l) ==
    /\ Run(l, "counted", "receive")
    /\ activeN' = activeN - 1
    /\ handles' = [handles EXCEPT ![l] = 0]
    /\ UNCHANGED <<watchVars, queue, pending, workVars, lifeVars>>

runLane(l) ==
    \/ receive(l) \/ exitLane(l) \/ inspect(l) \/ inspectFails(l) \/ offer(l)
    \/ await(l) \/ giveUp(l) \/ pendingDone(l) \/ activeDone(l)

-----------------------------------------------------------------------------
(* createRules and deleteRules *)

\* The operation returns and its result goes to a channel of capacity one.
sendResult(k) ==
    /\ worker[k] \in 1..MaxEvents
    /\ results' = results \cup {worker[k]}
    /\ worker' = [worker EXCEPT ![k] = 0]
    /\ UNCHANGED <<exited, watchVars, laneVars, lifeVars>>

exitWorker(k) ==
    /\ worker[k] = 0 /\ k \notin exited /\ watcher = "returned"
    /\ exited' = exited \cup {k}
    /\ UNCHANGED <<watchVars, laneVars, worker, results, lifeVars>>

work(k) == sendResult(k) \/ exitWorker(k)

-----------------------------------------------------------------------------
(* Shutdown: a signal cancels the context, then mainRetCode calls Stop, which
   waits for the three goroutines that Start made. *)

signal ==
    /\ ~ctxDone /\ ctxDone' = TRUE
    /\ UNCHANGED <<watchVars, laneVars, workVars, stopping>>

Stop ==
    /\ ctxDone /\ ~stopping /\ stopping' = TRUE
    /\ UNCHANGED <<watchVars, laneVars, workVars, ctxDone>>

Stopped == watcher = "returned" /\ exited = Workers

finished == Stopped /\ stopping /\ UNCHANGED vars

Init ==
    /\ ctxDone = FALSE /\ stopping = FALSE
    /\ event = <<>> /\ watcher = "select"
    /\ lanes = [c \in Containers |-> None] /\ made = 0 /\ closed = {}
    /\ queue = [l \in Lanes |-> <<>>]
    /\ pending = [l \in Lanes |-> 0] /\ activeN = 0
    /\ runner = [l \in Lanes |-> "none"] /\ handles = [l \in Lanes |-> 0]
    /\ worker = [k \in Workers |-> 0] /\ exited = {} /\ results = {}

Next ==
    \/ \E c \in Containers, k \in Workers : dispatch(c, k)
    \/ watchDocker \/ reapIdle \/ streamErr
    \/ \E l \in Lanes : runLane(l)
    \/ \E k \in Workers : work(k)
    \/ signal \/ Stop \/ finished

Spec == Init /\ [][Next]_vars

\* Goroutines are scheduled, operations return, mainRetCode goes on to Stop, and a
\* select that stays ready to stop does not prefer the ticker for ever.
FairSpec ==
    /\ Spec
    /\ WF_vars(watchDocker) /\ SF_vars(watchStops) /\ WF_vars(Stop)
    /\ WF_vars(reapIdle /\ watcher = "backoff")
    /\ \A l \in Lanes : WF_vars(runLane(l)) /\ SF_vars(offer(l))
    /\ \A k \in Workers : WF_vars(work(k))

-----------------------------------------------------------------------------
(* Properties *)

\* events.go: "Observing activeN == 0 must guarantee reapIdle can also observe
\* every lane as idle".
IdleIsReapable == activeN = 0 => \A l \in Open : pending[l] = 0

\* No goroutine sends on a closed channel: neither the dispatcher on a lane it
\* has reaped, nor a handler on createCh and deleteCh after the drain.  And no
\* lane is reaped with events in it.
NoSendOnClosed ==
    /\ watcher = "send" => Target \notin closed
    /\ watcher = "returned" => \A l \in Lanes : runner[l] \in {"none", "exited"} /\ queue[l] = <<>>
    /\ \A l \in closed : queue[l] # <<>> => ShuttingDown

\* A reconciliation runs alone: no handler is in progress and, until shutdown
\* lets handlers give up, neither worker is busy.
ReconcileAlone ==
    watcher = "reconcile" =>
        /\ \A l \in Lanes : runner[l] \notin {"handle", "offer", "await"}
        /\ ShuttingDown \/ \A k \in Workers : worker[k] = 0

\* manager.go: "a restart-policy start for the same ID must not overtake the
\* preceding policy deletion".  While the delete worker is busy with a container,
\* the create worker is not given a later event of it, at shutdown either.
StartWaitsForDie ==
    \A e, d \in 1..Last :
        worker["create"] = e /\ worker["delete"] = d /\ event[e].id = event[d].id
            => e < d /\ ShuttingDown

\* Two events of one container are never in progress in two lanes.
OneLanePerContainer ==
    \A l, m \in Lanes : l # m /\ handles[l] # 0 /\ handles[m] # 0
                        /\ runner[l] # "counted" /\ runner[m] # "counted"
        => event[handles[l]].id # event[handles[m]].id

Handled(e) == \E l \in Lanes : handles[l] = e
Queued(e) == \E l \in Lanes : \E i \in 1..Len(queue[l]) : queue[l][i] = e

\* Every event read from the stream is handled unless shutdown begins first, and
\* one that a lane has accepted is handled, shutdown or not.
EventuallyHandled ==
    \A e \in 1..MaxEvents : /\ watcher = "send" /\ Last = e ~> Handled(e) \/ ShuttingDown
                            /\ Queued(e) ~> Handled(e)

\* Shutdown terminates: lanes drain, workers exit and Stop returns.
StopReturns == ctxDone ~> Stopped
=============================================================================
