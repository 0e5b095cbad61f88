----------------------- MODULE EventDispatcherProofs -----------------------
(***************************************************************************)
(* Proofs about EventDispatcher, for any containers, any depth of a lane   *)
(* and any number of events.                                               *)
(***************************************************************************)
EXTENDS EventDispatcher, FiniteSetTheorems, SequenceTheorems, TLAPS

-----------------------------------------------------------------------------
(* The inductive invariant *)

Events == 1..MaxEvents
Id(e) == event[e].id

\* The goroutine of the lane has an event that its counter includes.
Busy(l) == runner[l] \in {"handle", "offer", "await", "handled"}
Sending(l) == watcher = "send" /\ Target = l

\* Event e is in the hands of lane l: queued, being sent to it, or handled by it.
Queues(l, e) == \E i \in 1..Len(queue[l]) : queue[l][i] = e
InLane(e, l) == Queues(l, e) \/ (Busy(l) /\ handles[l] = e) \/ (Sending(l) /\ e = Last)
Counting(e, l) == runner[l] = "counted" /\ handles[l] = e

\* What pending and activeN count.
LaneEvents(l) == {e \in Events : InLane(e, l)}
Live == {e \in Events : \E l \in Lanes : InLane(e, l) \/ Counting(e, l)}

\* Lanes are made in turn; those in the map are not closed, and a closed one is
\* left only when it is empty.
LanesOk ==
    /\ made <= Last
    /\ \A l \in Lanes : runner[l] = "none" <=> l > made
    /\ \A l \in Lanes : l > made => queue[l] = <<>>
    /\ closed \subseteq 1..made
    /\ \A c \in Containers : lanes[c] # None => lanes[c] \in 1..made /\ lanes[c] \notin closed
    /\ \A l \in Lanes : runner[l] = "exited" => l \in closed /\ queue[l] = <<>>
    /\ watcher = "send" => Last > 0 /\ Target # None

\* A lane has an event exactly from receiving it to the end of its handling.
HandlesOk == \A l \in Lanes : handles[l] # 0 <=> Busy(l) \/ runner[l] = "counted"

\* Events are queued in stream order, behind the one being handled and before the
\* one being sent.
Ordered(l) ==
    /\ \A i, j \in 1..Len(queue[l]) : i < j => queue[l][i] < queue[l][j]
    /\ \A i \in 1..Len(queue[l]) : /\ queue[l][i] <= Last
                                   /\ watcher = "send" => queue[l][i] < Last
                                   /\ Busy(l) => handles[l] < queue[l][i]
    /\ handles[l] <= Last
    /\ watcher = "send" => handles[l] < Last
OrderOk == \A l \in Lanes : Ordered(l)

\* The watcher drains lanes only at shutdown, and afterwards has none in its map.
DrainOk ==
    /\ stopping => ctxDone
    /\ watcher \in {"drain", "wait", "returned"} => ShuttingDown
    /\ watcher \in {"wait", "returned"} => \A c \in Containers : lanes[c] = None
    /\ watcher = "returned" => \A l \in 1..made : runner[l] = "exited"
    /\ \A l \in closed : queue[l] # <<>> => ShuttingDown

\* The events of a container are in the lane it is mapped to ...
Routed ==
    watcher \notin {"wait", "returned"} =>
        \A l \in Lanes, e \in Events : InLane(e, l) => lanes[Id(e)] = l

\* ... and in one lane still when the map is gone.
OneLane ==
    \A l, m \in Lanes, e, f \in Events :
        InLane(e, l) /\ InLane(f, m) /\ Id(e) = Id(f) => l = m

\* An event that its lane no longer counts is in no lane and counted once.
CountedOk ==
    \A l \in Lanes, e \in Events : Counting(e, l) =>
        \A m \in Lanes : ~InLane(e, m) /\ (Counting(e, m) => l = m)

\* The counters count.
CountOk ==
    /\ \A l \in Lanes : pending[l] = Cardinality(LaneEvents(l))
    /\ activeN = Cardinality(Live)

\* Until the watcher is back from a reconciliation nothing is counted.
ReconcileOk == watcher = "reconcile" => activeN = 0

\* An event that was not offered yet has no result and no worker.
Unoffered(e, l) == InLane(e, l) /\ ~(handles[l] = e /\ runner[l] \in {"await", "handled"})
FreshOk ==
    /\ \A l \in Lanes, e \in Events : Unoffered(e, l) => e \notin results /\ \A k \in Workers : worker[k] # e
    /\ \A k \in Workers : worker[k] \notin results
    /\ \A e \in results : e <= Last

\* A worker's event is awaited by its lane until shutdown, and every other event
\* of the container that is still in a lane is a later one.
WorkerOk ==
    \A k \in Workers : worker[k] # 0 =>
        /\ worker[k] <= Last /\ KindOf(worker[k]) = k
        /\ ctxDone \/ \E l \in Lanes : runner[l] = "await" /\ handles[l] = worker[k]
        /\ \A l \in Lanes, e \in Events :
             InLane(e, l) /\ Id(e) = Id(worker[k]) /\ e # worker[k] => worker[k] < e

\* A create that has passed its inspection finds no delete of its container at
\* work: before shutdown the lane would still await that, and afterwards no create
\* passes.
StartOk ==
    \A l \in Lanes : runner[l] = "offer" /\ KindOf(handles[l]) = "create" /\ worker["delete"] # 0
        => Id(handles[l]) # Id(worker["delete"])

Layout == LanesOk /\ HandlesOk /\ OrderOk /\ DrainOk
Places == Routed /\ OneLane /\ CountedOk
Offers == FreshOk /\ WorkerOk /\ StartOk /\ StartWaitsForDie
DInv == TypeOK /\ Layout /\ Places /\ CountOk /\ ReconcileOk /\ Offers

USE DispatcherAssumption

-----------------------------------------------------------------------------
(* Facts about the invariant *)

\* A step that leaves every event where it is.
Unmoved ==
    \A e \in Events, l \in Lanes :
        (InLane(e, l)' <=> InLane(e, l)) /\ (Counting(e, l)' <=> Counting(e, l))

\* What the counters count is finite.
LEMMA Counted ==
    /\ IsFiniteSet(Live) /\ Cardinality(Live) \in Nat
    /\ \A l \in Lanes : IsFiniteSet(LaneEvents(l)) /\ Cardinality(LaneEvents(l)) \in Nat
<1>1. IsFiniteSet(Events)
  BY FS_Interval DEF Events
<1>2. Live \subseteq Events /\ \A l \in Lanes : LaneEvents(l) \subseteq Events
  BY DEF Live, LaneEvents
<1> QED
  BY <1>1, <1>2, FS_Subset, FS_CardinalityType

\* A lane whose counter is zero has no event.
LEMMA IdleHasNone ==
    ASSUME CountOk, NEW l \in Lanes, pending[l] = 0, NEW e \in Events
    PROVE  ~InLane(e, l)
<1>1. LaneEvents(l) = {}
  BY Counted, FS_EmptySet DEF CountOk
<1> QED
  BY <1>1 DEF LaneEvents

\* An event in a lane has been received.
LEMMA InLaneKnown ==
    ASSUME TypeOK, Layout, NEW l \in Lanes, NEW e \in Events, InLane(e, l)
    PROVE  e \in 1..Last /\ Id(e) \in Containers /\ KindOf(e) \in Workers
<1>1. Last \in Nat /\ handles[l] \in 0..MaxEvents
  BY DEF TypeOK, Last
<1>2. e <= Last
  BY <1>1 DEF Layout, OrderOk, Ordered, InLane, Queues, Events
<1>3. event[e] \in [id : Containers, kind : Workers]
  <2> DEFINE R == [id : Containers, kind : Workers]
  <2>1. event \in Seq(R) /\ e \in 1..Len(event)
    BY <1>1, <1>2 DEF TypeOK, Events, Last
  <2> HIDE DEF R
  <2>2. event[e] \in R
    BY <2>1, ElementOfSeq
  <2> QED
    BY <2>2 DEF R
<1> QED
  BY <1>1, <1>2, <1>3 DEF Events, Id, KindOf

\* Where nothing moves, nothing is counted differently.
LEMMA UnmovedPlaces ==
    ASSUME DInv, Unmoved, UNCHANGED <<event, pending, activeN>>
    PROVE  OneLane' /\ CountedOk' /\ CountOk'
<1>1. \A l \in Lanes : LaneEvents(l)' = LaneEvents(l)
  BY DEF Unmoved, LaneEvents
<1>2. Live' = Live
  BY DEF Unmoved, Live
<1>3. CountOk'
  BY <1>1, <1>2 DEF DInv, CountOk
<1>4. OneLane'
  BY DEF Unmoved, DInv, Places, OneLane, Id
<1>5. CountedOk'
  BY DEF Unmoved, DInv, Places, CountedOk
<1> QED
  BY <1>3, <1>4, <1>5

\* ... and the workers and what is ahead of them are the same.
LEMMA UnmovedOffers ==
    ASSUME DInv, Unmoved, UNCHANGED <<event, runner, handles, workVars, ctxDone, stopping>>
    PROVE  Offers'
<1> USE DEF DInv, Offers, workVars
<1>1. FreshOk'
  BY DEF Unmoved, FreshOk, Unoffered, Last
<1>2. WorkerOk'
  BY DEF Unmoved, WorkerOk, Id, KindOf, Last
<1>3. StartOk' /\ StartWaitsForDie'
  BY DEF StartOk, StartWaitsForDie, Id, KindOf, Last, ShuttingDown
<1> QED
  BY <1>1, <1>2, <1>3

\* The lanes in the map.
LEMMA OpenLanes ==
    ASSUME TypeOK, Layout
    PROVE  Open \subseteq 1..made /\ Open \subseteq Lanes /\ Idle \subseteq Open
<1>1. made \in 0..MaxEvents
  BY DEF TypeOK
<1> QED
  BY <1>1 DEF Layout, LanesOk, Open, Idle, Lanes

\* What is reaped has nothing in its channel.
LEMMA IdleIsEmpty ==
    ASSUME DInv, NEW l \in Idle
    PROVE  queue[l] = <<>>
<1> SUFFICES ASSUME queue[l] # <<>> PROVE FALSE
  OBVIOUS
<1>1. l \in Lanes /\ pending[l] = 0
  BY OpenLanes DEF DInv, Idle
<1>2. queue[l] \in Seq(1..MaxEvents)
  BY <1>1 DEF DInv, TypeOK
<1>3. 1 \in 1..Len(queue[l]) /\ queue[l][1] \in Events
  BY <1>2, EmptySeq, LenProperties, ElementOfSeq DEF Events
<1>4. InLane(queue[l][1], l)
  BY <1>3 DEF InLane, Queues
<1> QED
  BY <1>1, <1>3, <1>4, IdleHasNone DEF DInv

-----------------------------------------------------------------------------
(* The watcher *)

watchSteps == reapIdle \/ active \/ reconcile \/ streamErr \/ watchStops \/ closeAndWait \/ watchReturns

\* Reaping, reconciling and draining move no event.
LEMMA WatchKeeps == ASSUME DInv, watchSteps PROVE DInv'
<1> USE DEF DInv
<1>1. /\ UNCHANGED <<event, made, laneVars, workVars, lifeVars>>
      /\ watcher # "send" /\ watcher' # "send" /\ watcher' \in WatcherSteps
  BY DEF watchSteps, reapIdle, active, reconcile, streamErr, watchStops, closeAndWait, watchReturns,
         WatchOnly, WatcherSteps
<1>2. \/ closed' = closed \cup Idle /\ lanes' = Reaped /\ watcher' = "check"
      \/ closed' = closed \cup Open /\ lanes' = [c \in Containers |-> None]
         /\ watcher = "drain" /\ watcher' = "wait"
      \/ UNCHANGED <<lanes, closed>>
  BY DEF watchSteps, reapIdle, active, reconcile, streamErr, watchStops, closeAndWait, watchReturns
<1>3. Unmoved
  BY <1>1 DEF Unmoved, InLane, Counting, Queues, Busy, Sending, laneVars
<1>4. OneLane' /\ CountedOk' /\ CountOk'
  BY <1>1, <1>3, UnmovedPlaces DEF laneVars
<1>5. Offers'
  BY <1>1, <1>3, UnmovedOffers DEF laneVars, lifeVars
<1>6. \A c \in Containers : lanes'[c] = lanes[c] \/ lanes'[c] = None
  BY <1>2 DEF Reaped
<1>7. Open \subseteq 1..made /\ Open \subseteq Lanes /\ Idle \subseteq Open
  BY OpenLanes
<1>8. TypeOK'
  <2>1. lanes' \in [Containers -> Lanes \cup {None}] /\ closed' \subseteq Lanes
    BY <1>2, <1>7 DEF TypeOK, Reaped
  <2> QED
    BY <1>1, <2>1 DEF TypeOK, laneVars, workVars, lifeVars
<1>9. Layout'
  <2>1. \A c \in Containers : lanes'[c] # None => lanes'[c] \in 1..made /\ lanes'[c] \notin closed'
    <3> SUFFICES ASSUME NEW c \in Containers, lanes'[c] # None
                 PROVE  lanes'[c] \in 1..made /\ lanes'[c] \notin closed'
      OBVIOUS
    <3>1. lanes'[c] = lanes[c] /\ lanes[c] \in 1..made /\ lanes[c] \notin closed
      BY <1>6 DEF Layout, LanesOk
    <3> QED
      BY <1>2, <3>1 DEF Reaped
  <2>2. closed \subseteq closed' /\ closed' \subseteq 1..made
    BY <1>2, <1>7 DEF Layout, LanesOk
  <2>3. LanesOk'
    BY <1>1, <2>1, <2>2 DEF Layout, LanesOk, Last, laneVars
  <2>4. HandlesOk' /\ OrderOk'
    BY <1>1 DEF Layout, HandlesOk, OrderOk, Ordered, Busy, Last, laneVars
  <2>5. \A l \in closed' : queue[l] # <<>> => ShuttingDown
    BY <1>2, IdleIsEmpty DEF Layout, DrainOk
  <2>6. DrainOk'
    <3>1. watcher' \in {"drain", "wait", "returned"} => ShuttingDown
      BY DEF Layout, DrainOk, watchSteps, reapIdle, active, reconcile, streamErr, watchStops,
             closeAndWait, watchReturns
    <3>2. watcher' \in {"wait", "returned"} => \A c \in Containers : lanes'[c] = None
      BY DEF Layout, DrainOk, watchSteps, reapIdle, active, reconcile, streamErr, watchStops,
             closeAndWait, watchReturns
    <3>3. watcher' = "returned" => \A l \in 1..made : runner[l] = "exited"
      BY DEF watchSteps, reapIdle, active, reconcile, streamErr, watchStops, closeAndWait, watchReturns
    <3> QED
      BY <1>1, <2>5, <3>1, <3>2, <3>3 DEF Layout, DrainOk, ShuttingDown, laneVars, lifeVars
  <2> QED
    BY <2>3, <2>4, <2>6 DEF Layout
<1>10. Routed'
  <2> SUFFICES ASSUME watcher' \notin {"wait", "returned"}, NEW l \in Lanes, NEW e \in Events,
                      InLane(e, l)'
               PROVE  lanes'[Id(e)'] = l
    BY DEF Routed
  <2>1. InLane(e, l) /\ Id(e)' = Id(e) /\ Id(e) \in Containers
    BY <1>1, <1>3, InLaneKnown DEF Unmoved, Id
  <2>2. watcher \notin {"wait", "returned"}
    BY DEF watchSteps, reapIdle, active, reconcile, streamErr, watchStops, closeAndWait, watchReturns
  <2>3. lanes[Id(e)] = l
    BY <2>1, <2>2 DEF Places, Routed
  <2>4. pending[l] # 0
    BY <2>1, IdleHasNone
  <2> QED
    BY <1>2, <2>1, <2>3, <2>4 DEF Reaped, Idle
<1>11. ReconcileOk'
  <2>1. watcher' = "reconcile" => activeN = 0
    BY DEF watchSteps, reapIdle, active, reconcile, streamErr, watchStops, closeAndWait, watchReturns
  <2> QED
    BY <1>1, <2>1 DEF ReconcileOk, laneVars
<1> QED
  BY <1>4, <1>5, <1>8, <1>9, <1>10, <1>11 DEF Places

-----------------------------------------------------------------------------
(* The workers and the shutdown *)

\* A step of a worker, a signal and Stop leave the lanes and the watcher alone.
LEMMA LanesUntouched ==
    ASSUME DInv, UNCHANGED <<watchVars, laneVars>>, (ctxDone => ctxDone') /\ (stopping' => ctxDone'),
           stopping => stopping'
    PROVE  Unmoved /\ Layout' /\ Places' /\ CountOk' /\ ReconcileOk'
<1> USE DEF DInv, watchVars, laneVars
<1>1. Unmoved
  BY DEF Unmoved, InLane, Counting, Queues, Busy, Sending, Target, Last
<1>2. OneLane' /\ CountedOk' /\ CountOk'
  BY <1>1, UnmovedPlaces
<1>3. Routed'
  BY <1>1 DEF Unmoved, Places, Routed, Id
<1>4. LanesOk' /\ HandlesOk' /\ OrderOk'
  BY DEF Layout, LanesOk, HandlesOk, OrderOk, Ordered, Busy, Last, Target
<1>5. DrainOk'
  BY DEF Layout, DrainOk, ShuttingDown
<1>6. ReconcileOk'
  BY DEF ReconcileOk
<1> QED
  BY <1>1, <1>2, <1>3, <1>4, <1>5, <1>6 DEF Layout, Places

\* An operation returns, or a worker does.
LEMMA WorkKeeps == ASSUME DInv, NEW k \in Workers, work(k) PROVE DInv'
<1> USE DEF DInv
<1>1. UNCHANGED <<watchVars, laneVars, lifeVars>>
  BY DEF work, sendResult, exitWorker
<1>2. Unmoved /\ Layout' /\ Places' /\ CountOk' /\ ReconcileOk'
  BY <1>1, LanesUntouched DEF lifeVars, Layout, DrainOk
<1>3. worker \in [Workers -> 0..MaxEvents] /\ results \subseteq 1..MaxEvents /\ exited \subseteq Workers
  BY DEF TypeOK
<1>4. TypeOK'
  <2>1. worker' \in [Workers -> 0..MaxEvents]
    <3>1. 0 \in 0..MaxEvents
      OBVIOUS
    <3> QED
      BY <1>3, <3>1 DEF work, sendResult, exitWorker
  <2>2. results' \subseteq 1..MaxEvents
    BY <1>3 DEF work, sendResult, exitWorker
  <2>3. exited' \subseteq Workers
    BY <1>3 DEF work, sendResult, exitWorker
  <2> QED
    BY <1>1, <2>1, <2>2, <2>3 DEF TypeOK, watchVars, laneVars, lifeVars
<1>5. /\ \A x \in Workers : worker'[x] = worker[x] \/ worker'[x] = 0
      /\ \/ results' = results /\ worker' = worker
         \/ results' = results \cup {worker[k]} /\ worker'[k] = 0 /\ worker[k] # 0
  BY <1>3 DEF work, sendResult, exitWorker
<1>6. \A x \in Workers : worker[x] # 0 => KindOf(worker[x]) = x /\ worker[x] <= Last
  BY DEF Offers, WorkerOk
<1>7. FreshOk'
  <2>1. \A l \in Lanes, e \in Events : Unoffered(e, l)' =>
            e \notin results /\ \A x \in Workers : worker[x] # e
    BY <1>1, <1>2 DEF Unmoved, Unoffered, Offers, FreshOk, watchVars, laneVars
  <2>2. ASSUME NEW l \in Lanes, NEW e \in Events, Unoffered(e, l)'
        PROVE  e \notin results' /\ \A x \in Workers : worker'[x] # e
    BY <1>5, <2>1, <2>2 DEF Events
  <2>3. \A x \in Workers : worker'[x] \notin results'
    BY <1>3, <1>5, <1>6 DEF Offers, FreshOk
  <2>4. \A e \in results' : e <= Last'
    <3>1. Last' = Last
      BY <1>1 DEF Last, watchVars
    <3> QED
      BY <1>5, <1>6, <3>1 DEF Offers, FreshOk
  <2> QED
    BY <2>2, <2>3, <2>4 DEF FreshOk
<1>8. WorkerOk'
  BY <1>1, <1>2, <1>5 DEF Unmoved, Offers, WorkerOk, Id, KindOf, Last, watchVars, laneVars, lifeVars
<1>9. StartOk'
  BY <1>1, <1>5 DEF Offers, StartOk, Id, KindOf, watchVars, laneVars, Workers
<1>10. StartWaitsForDie'
  <2>1. \A e \in 1..Last : e # 0
    OBVIOUS
  <2> QED
    BY <1>1, <1>5, <2>1 DEF Offers, StartWaitsForDie, Last, watchVars, lifeVars, ShuttingDown, Workers
<1> QED
  BY <1>2, <1>4, <1>7, <1>8, <1>9, <1>10 DEF Offers

\* A signal, Stop, and nothing at all.
LEMMA ShutdownKeeps == ASSUME DInv, signal \/ Stop \/ UNCHANGED vars PROVE DInv'
<1> USE DEF DInv
<1>1. UNCHANGED <<watchVars, laneVars, workVars>>
  BY DEF signal, Stop, vars
<1>2. /\ ctxDone' \in BOOLEAN /\ stopping' \in BOOLEAN
      /\ ctxDone => ctxDone'
      /\ stopping' => ctxDone'
      /\ stopping => stopping'
  <2>1. ctxDone \in BOOLEAN /\ stopping \in BOOLEAN /\ (stopping => ctxDone)
    BY DEF TypeOK, Layout, DrainOk
  <2>2. CASE signal
    BY <2>1, <2>2 DEF signal
  <2>3. CASE Stop
    BY <2>1, <2>3 DEF Stop
  <2>4. CASE UNCHANGED vars
    BY <2>1, <2>4 DEF vars, lifeVars
  <2> QED
    BY <2>2, <2>3, <2>4
<1>3. Unmoved /\ Layout' /\ Places' /\ CountOk' /\ ReconcileOk'
  BY <1>1, <1>2, LanesUntouched
<1>4. TypeOK'
  BY <1>1, <1>2 DEF TypeOK, watchVars, laneVars, workVars
<1>5. FreshOk' /\ StartOk'
  BY <1>1, <1>3 DEF Unmoved, Unoffered, Offers, FreshOk, StartOk, Last, Id, KindOf, watchVars, laneVars, workVars
<1>6. WorkerOk'
  BY <1>1, <1>2, <1>3 DEF Unmoved, Offers, WorkerOk, Id, KindOf, Last, watchVars, laneVars, workVars
<1>7. StartWaitsForDie'
  BY <1>1, <1>2 DEF Offers, StartWaitsForDie, Last, watchVars, workVars, ShuttingDown
<1> QED
  BY <1>3, <1>4, <1>5, <1>6, <1>7 DEF Offers

-----------------------------------------------------------------------------
(* The goroutines of the lanes *)

Handling == {"handle", "offer", "await", "handled"}

\* A lane goes on with its event, or exits.
LEMMA StayKeeps ==
    ASSUME DInv, NEW l \in Lanes, NEW from, NEW to, Run(l, from, to),
           UNCHANGED <<watchVars, queue, pending, activeN, handles, lifeVars>>,
           \/ from \in Handling /\ to \in Handling
           \/ from = "receive" /\ to = "exited" /\ queue[l] = <<>> /\ l \in closed
    PROVE  /\ Unmoved /\ Layout' /\ Places' /\ CountOk' /\ ReconcileOk'
           /\ runner' \in [Lanes -> RunnerSteps]
           /\ runner'[l] = to /\ \A m \in Lanes : m # l => runner'[m] = runner[m]
<1> USE DEF DInv, watchVars, lifeVars, Handling
<1>1. /\ runner' \in [Lanes -> RunnerSteps]
      /\ runner'[l] = to /\ \A m \in Lanes : m # l => runner'[m] = runner[m]
  BY DEF Run, TypeOK, RunnerSteps
<1>2. runner[l] = from
  BY DEF Run
<1>3. \A m \in Lanes : /\ Busy(m)' <=> Busy(m)
                       /\ runner'[m] = "counted" <=> runner[m] = "counted"
                       /\ runner'[m] = "none" <=> runner[m] = "none"
                       /\ runner'[m] = "exited" =>
                            runner[m] = "exited" \/ (m \in closed /\ queue[m] = <<>>)
  BY <1>1, <1>2 DEF Busy
<1>4. Unmoved
  BY <1>3 DEF Unmoved, InLane, Counting, Queues, Sending, Target, Last
<1>5. OneLane' /\ CountedOk' /\ CountOk'
  BY <1>4, UnmovedPlaces
<1>6. Routed'
  BY <1>4 DEF Unmoved, Places, Routed, Id
<1>7. LanesOk'
  BY <1>3 DEF Layout, LanesOk, Last, Target
<1>8. HandlesOk' /\ OrderOk'
  BY <1>3 DEF Layout, HandlesOk, OrderOk, Ordered, Last
<1>9. DrainOk'
  <2>1. made \in Nat /\ l \in 1..MaxEvents
    BY DEF TypeOK, Lanes
  <2>2. l \in 1..made
    BY <1>2, <2>1 DEF Layout, LanesOk
  <2> QED
    BY <1>2, <2>2 DEF Layout, DrainOk, ShuttingDown
<1>10. ReconcileOk'
  BY DEF ReconcileOk
<1> QED
  BY <1>1, <1>4, <1>5, <1>6, <1>7, <1>8, <1>9, <1>10 DEF Layout, Places

\* The event a lane is busy with is one of its events.
LEMMA BusyInLane ==
    ASSUME TypeOK, Layout, NEW l \in Lanes, Busy(l)
    PROVE  /\ handles[l] \in Events /\ InLane(handles[l], l)
           /\ handles[l] \in 1..Last /\ Id(handles[l]) \in Containers /\ KindOf(handles[l]) \in Workers
<1>1. handles[l] \in Events
  BY DEF TypeOK, Layout, HandlesOk, Events
<1> QED
  BY <1>1, InLaneKnown DEF InLane

\* Two lanes are not busy with one container.
LEMMA BusyApart ==
    ASSUME DInv, NEW l \in Lanes, NEW m \in Lanes, Busy(l), Busy(m), Id(handles[l]) = Id(handles[m])
    PROVE  l = m
BY BusyInLane DEF DInv, Places, OneLane

\* A lane that exits, or goes on without a worker.
LEMMA AloneKeeps ==
    ASSUME DInv, NEW l \in Lanes,
           exitLane(l) \/ inspect(l) \/ inspectFails(l) \/ await(l) \/ giveUp(l)
    PROVE  DInv'
<1> USE DEF DInv
<1>1. UNCHANGED <<watchVars, queue, pending, activeN, handles, lifeVars, workVars>>
  BY DEF exitLane, inspect, inspectFails, await, giveUp, RunOnly
<1>2. PICK from \in RunnerSteps, to \in RunnerSteps :
        /\ Run(l, from, to)
        /\ \/ from \in Handling /\ to \in Handling
           \/ from = "receive" /\ to = "exited" /\ queue[l] = <<>> /\ l \in closed
        /\ to \in {"offer", "exited", "handled"} /\ from # "handled"
        /\ from = "await" => handles[l] \in results \/ ShuttingDown
        /\ to = "offer" => from = "handle" /\ (KindOf(handles[l]) = "delete" \/ ~ctxDone)
  BY DEF exitLane, inspect, inspectFails, await, giveUp, Handling, RunnerSteps
<1>3. /\ Unmoved /\ Layout' /\ Places' /\ CountOk' /\ ReconcileOk'
      /\ runner' \in [Lanes -> RunnerSteps]
      /\ runner'[l] = to /\ \A m \in Lanes : m # l => runner'[m] = runner[m]
  BY <1>1, <1>2, StayKeeps
<1>4. runner[l] = from
  BY <1>2 DEF Run
<1>5. TypeOK'
  BY <1>1, <1>3 DEF TypeOK, watchVars, workVars, lifeVars
<1>6. FreshOk'
  <2>1. \A m \in Lanes, e \in Events : Unoffered(e, m)' => Unoffered(e, m)
    BY <1>1, <1>2, <1>3, <1>4 DEF Unmoved, Unoffered, Handling
  <2> QED
    BY <1>1, <2>1 DEF Offers, FreshOk, Last, watchVars, workVars
<1>7. WorkerOk'
  <2> SUFFICES ASSUME NEW k \in Workers, worker[k] # 0, ~ctxDone
               PROVE  \E m \in Lanes : runner'[m] = "await" /\ handles[m] = worker[k]
    BY <1>1, <1>3 DEF Unmoved, Offers, WorkerOk, Id, KindOf, Last, watchVars, workVars, lifeVars
  <2>1. PICK m \in Lanes : runner[m] = "await" /\ handles[m] = worker[k]
    BY DEF Offers, WorkerOk
  <2>2. m # l
    BY <1>2, <1>4, <2>1 DEF Offers, FreshOk, Layout, DrainOk, ShuttingDown
  <2> QED
    BY <1>3, <2>1, <2>2
<1>8. StartOk'
  <2> SUFFICES ASSUME NEW m \in Lanes, runner'[m] = "offer", KindOf(handles[m]) = "create",
                      worker["delete"] # 0, Id(handles[m]) = Id(worker["delete"])
               PROVE  FALSE
    BY <1>1 DEF StartOk, KindOf, Id, watchVars, workVars
  <2>1. m = l
    BY <1>3 DEF Offers, StartOk
  <2>2. ~ctxDone /\ runner[l] = "handle"
    BY <1>2, <1>3, <1>4, <2>1
  <2>3. PICK n \in Lanes : runner[n] = "await" /\ handles[n] = worker["delete"]
    BY <2>2 DEF Offers, WorkerOk, Workers
  <2> QED
    BY <2>1, <2>2, <2>3, BusyApart DEF Busy
<1>9. StartWaitsForDie'
  BY <1>1 DEF Offers, StartWaitsForDie, Last, watchVars, workVars, lifeVars, ShuttingDown
<1> QED
  BY <1>3, <1>5, <1>6, <1>7, <1>8, <1>9 DEF Offers

\* A worker takes the event of a lane.
LEMMA OfferKeeps == ASSUME DInv, NEW l \in Lanes, offer(l) PROVE DInv'
<1> USE DEF DInv
<1> DEFINE e == handles[l]
           k == KindOf(e)
<1>1. /\ UNCHANGED <<watchVars, queue, pending, activeN, handles, lifeVars, exited, results>>
      /\ Run(l, "offer", "await") /\ runner[l] = "offer"
      /\ worker[k] = 0 /\ worker' = [worker EXCEPT ![k] = e]
  BY DEF offer, RunOnly, Run
<1>2. /\ Unmoved /\ Layout' /\ Places' /\ CountOk' /\ ReconcileOk'
      /\ runner' \in [Lanes -> RunnerSteps]
      /\ runner'[l] = "await" /\ \A m \in Lanes : m # l => runner'[m] = runner[m]
  BY <1>1, StayKeeps DEF Handling
<1>3. /\ e \in Events /\ InLane(e, l) /\ e \in 1..Last /\ k \in Workers /\ e # 0
  BY <1>1, BusyInLane DEF Busy, Events
<1>4. worker' \in [Workers -> 0..MaxEvents] /\ worker'[k] = e
      /\ \A x \in Workers : x # k => worker'[x] = worker[x]
  BY <1>1, <1>3 DEF TypeOK, Events
<1>5. TypeOK'
  BY <1>1, <1>2, <1>4 DEF TypeOK, watchVars, lifeVars
<1>6. Unoffered(e, l)
  BY <1>1, <1>3 DEF Unoffered
<1>7. \A m \in Lanes, f \in Events : InLane(f, m) /\ Id(f) = Id(e) => m = l
  BY <1>3 DEF Places, OneLane
<1>8. FreshOk'
  <2>1. ASSUME NEW m \in Lanes, NEW f \in Events, Unoffered(f, m)'
        PROVE  Unoffered(f, m) /\ f # e
    <3>1. InLane(f, m) /\ ~(handles[m] = f /\ runner'[m] \in {"await", "handled"})
      BY <1>1, <1>2, <2>1 DEF Unmoved, Unoffered
    <3> QED
      BY <1>1, <1>2, <1>7, <3>1 DEF Unoffered
  <2>2. \A m \in Lanes, f \in Events : Unoffered(f, m)' =>
            f \notin results /\ \A x \in Workers : worker'[x] # f
    BY <1>4, <2>1 DEF Offers, FreshOk
  <2>3. \A x \in Workers : worker'[x] \notin results
    BY <1>3, <1>4, <1>6 DEF Offers, FreshOk
  <2> QED
    BY <1>1, <2>2, <2>3 DEF Offers, FreshOk, Last, watchVars
<1>9. WorkerOk'
  <2>1. ASSUME NEW x \in Workers, worker'[x] # 0
        PROVE  /\ worker'[x] <= Last /\ KindOf(worker'[x]) = x
               /\ ctxDone \/ \E m \in Lanes : runner'[m] = "await" /\ handles[m] = worker'[x]
               /\ \A m \in Lanes, f \in Events :
                    InLane(f, m) /\ Id(f) = Id(worker'[x]) /\ f # worker'[x] => worker'[x] < f
    <3>1. CASE x = k
      <4>1. e <= Last /\ runner'[l] = "await" /\ handles[l] = worker'[x]
        BY <1>2, <1>3, <1>4, <3>1 DEF Last, TypeOK
      <4>2. ASSUME NEW m \in Lanes, NEW f \in Events, InLane(f, m), Id(f) = Id(e), f # e
            PROVE  e < f
        <5>1. m = l
          BY <1>7, <4>2
        <5> QED
          BY <1>1, <4>2, <5>1 DEF InLane, Queues, Sending, Layout, OrderOk, Ordered, Busy
      <4> QED
        BY <1>4, <3>1, <4>1, <4>2
    <3>2. CASE x # k
      <4>1. worker'[x] = worker[x]
        BY <1>4, <3>2
      <4>2. ctxDone \/ \E m \in Lanes : runner'[m] = "await" /\ handles[m] = worker[x]
        BY <1>1, <1>2, <2>1, <4>1 DEF Offers, WorkerOk
      <4> QED
        BY <2>1, <4>1, <4>2 DEF Offers, WorkerOk
    <3> QED
      BY <3>1, <3>2
  <2>2. \A f : Id(f)' = Id(f) /\ KindOf(f)' = KindOf(f)
    BY <1>1 DEF Id, KindOf, watchVars
  <2>3. Last' = Last /\ ctxDone' = ctxDone /\ handles' = handles
    BY <1>1 DEF Last, watchVars, lifeVars
  <2> QED
    BY <1>2, <2>1, <2>2, <2>3 DEF WorkerOk, Unmoved, Id, KindOf
<1>10. StartOk'
  <2> SUFFICES ASSUME NEW m \in Lanes, runner'[m] = "offer", KindOf(handles[m]) = "create",
                      worker'["delete"] # 0, Id(handles[m]) = Id(worker'["delete"])
               PROVE  FALSE
    BY <1>1 DEF StartOk, KindOf, Id, watchVars
  <2>1. m # l /\ runner[m] = "offer"
    BY <1>2
  <2>2. k = "delete"
    BY <1>4, <2>1 DEF Offers, StartOk, Workers
  <2>3. Id(handles[m]) = Id(e)
    BY <1>4, <2>2
  <2> QED
    BY <1>1, <2>1, <2>3, BusyApart DEF Busy
<1>11. StartWaitsForDie'
  <2> SUFFICES ASSUME NEW c \in 1..Last, NEW d \in 1..Last, worker'["create"] = c,
                      worker'["delete"] = d, Id(c) = Id(d)
               PROVE  c < d /\ ShuttingDown
    BY <1>1 DEF StartWaitsForDie, Id, Last, watchVars, ShuttingDown, lifeVars
  <2>1. CASE k = "create"
    <3>1. worker["delete"] = d /\ e = c /\ d # 0
      BY <1>4, <2>1 DEF Workers
    <3> QED
      BY <1>1, <2>1, <3>1 DEF Offers, StartOk
  <2>2. CASE k = "delete"
    <3>1. worker["create"] = c /\ e = d /\ c # 0
      BY <1>4, <2>2 DEF Workers
    <3>2. e # c
      BY <1>3, <1>6, <3>1 DEF Offers, FreshOk, Workers
    <3>3. c < d
      BY <1>3, <3>1, <3>2 DEF Offers, WorkerOk, Workers
    <3>4. ASSUME ~ctxDone PROVE FALSE
      <4>1. PICK m \in Lanes : runner[m] = "await" /\ handles[m] = c
        BY <3>1, <3>4 DEF Offers, WorkerOk, Workers
      <4> QED
        BY <1>1, <3>1, <4>1, BusyApart DEF Busy
    <3> QED
      BY <3>3, <3>4 DEF ShuttingDown
  <2> QED
    BY <1>3, <2>1, <2>2 DEF Workers
<1> QED
  BY <1>2, <1>5, <1>8, <1>9, <1>10, <1>11 DEF Offers

\* The first element of a queue and the rest.
LEMMA FrontOfQueue ==
    ASSUME NEW S, NEW q \in Seq(S), q # <<>>
    PROVE  /\ Head(q) \in S /\ Tail(q) \in Seq(S)
           /\ Len(q) \in Nat \ {0} /\ Len(Tail(q)) = Len(q) - 1 /\ q[1] = Head(q)
           /\ \A i \in 1..Len(Tail(q)) : Tail(q)[i] = q[i + 1]
<1>1. Len(q) \in Nat \ {0}
  BY EmptySeq, LenProperties
<1>2. q[1] = Head(q)
  OBVIOUS
<1> QED
  BY <1>1, <1>2, HeadTailProperties

\* A lane takes the oldest event from its channel.
LEMMA ReceiveKeeps == ASSUME DInv, NEW l \in Lanes, receive(l) PROVE DInv'
<1> USE DEF DInv
<1> DEFINE q == queue[l]
           e == Head(queue[l])
<1>0. q \in Seq(1..MaxEvents) /\ q # <<>> /\ Len(q) <= Depth
  BY DEF receive, TypeOK
<1>1. /\ UNCHANGED <<watchVars, pending, activeN, workVars, lifeVars>>
      /\ runner[l] = "receive" /\ runner' = [runner EXCEPT ![l] = "handle"]
      /\ queue' = [queue EXCEPT ![l] = Tail(q)]
      /\ handles' = [handles EXCEPT ![l] = e]
  BY DEF receive, Run
<1>2. /\ e \in Events /\ Tail(q) \in Seq(1..MaxEvents)
      /\ Len(q) \in Nat \ {0} /\ Len(Tail(q)) = Len(q) - 1 /\ q[1] = e
      /\ \A i \in 1..Len(Tail(q)) : Tail(q)[i] = q[i + 1]
  BY <1>0, FrontOfQueue DEF Events
<1>3. /\ runner'[l] = "handle" /\ \A m \in Lanes : m # l => runner'[m] = runner[m]
      /\ queue'[l] = Tail(q) /\ \A m \in Lanes : m # l => queue'[m] = queue[m]
      /\ handles'[l] = e /\ \A m \in Lanes : m # l => handles'[m] = handles[m]
  BY <1>1 DEF TypeOK
<1>4. TypeOK'
  <2>1. runner' \in [Lanes -> RunnerSteps]
    BY <1>1 DEF TypeOK, RunnerSteps
  <2>2. queue' \in [Lanes -> Seq(1..MaxEvents)]
    BY <1>1, <1>2 DEF TypeOK
  <2>3. Len(Tail(q)) <= Depth
    BY <1>0, <1>2
  <2>4. \A m \in Lanes : Len(queue'[m]) <= Depth
    BY <1>3, <2>3 DEF TypeOK
  <2>5. handles' \in [Lanes -> 0..MaxEvents]
    BY <1>1, <1>2 DEF TypeOK, Events
  <2> QED
    BY <1>1, <2>1, <2>2, <2>4, <2>5 DEF TypeOK, watchVars, workVars, lifeVars
<1>5. \A f \in Events : Queues(l, f) <=> Queues(l, f)' \/ f = e
  <2> SUFFICES ASSUME NEW f \in Events
               PROVE  (\E i \in 1..Len(q) : q[i] = f) <=>
                         (\E i \in 1..Len(Tail(q)) : Tail(q)[i] = f) \/ f = e
    BY <1>3 DEF Queues
  <2>1. ASSUME NEW i \in 1..Len(q), q[i] = f, f # e
        PROVE  \E j \in 1..Len(Tail(q)) : Tail(q)[j] = f
    <3>1. i - 1 \in 1..Len(Tail(q)) /\ (i - 1) + 1 = i
      BY <1>2, <2>1
    <3> QED
      BY <1>2, <2>1, <3>1
  <2>2. ASSUME NEW j \in 1..Len(Tail(q)), Tail(q)[j] = f
        PROVE  \E i \in 1..Len(q) : q[i] = f
    <3>1. j + 1 \in 1..Len(q)
      BY <1>2
    <3> QED
      BY <1>2, <2>2, <3>1
  <2>3. 1 \in 1..Len(q)
    BY <1>2
  <2> QED
    BY <1>2, <2>1, <2>2, <2>3
<1>6. /\ Busy(l)' /\ ~Busy(l) /\ \A m \in Lanes : m # l => (Busy(m)' <=> Busy(m))
      /\ \A m \in Lanes : Sending(m)' <=> Sending(m)
      /\ Last' = Last
  BY <1>1, <1>3 DEF Busy, Sending, Target, Last, watchVars
<1>7. Unmoved
  <2>1. ASSUME NEW f \in Events PROVE InLane(f, l)' <=> InLane(f, l)
    BY <1>3, <1>5, <1>6 DEF InLane
  <2>2. ASSUME NEW f \in Events, NEW m \in Lanes, m # l PROVE InLane(f, m)' <=> InLane(f, m)
    BY <1>3, <1>6, <2>2 DEF InLane, Queues
  <2>3. \A f \in Events, m \in Lanes : Counting(f, m)' <=> Counting(f, m)
    BY <1>1, <1>3 DEF Counting
  <2> QED
    BY <2>1, <2>2, <2>3 DEF Unmoved
<1>8. OneLane' /\ CountedOk' /\ CountOk'
  BY <1>1, <1>7, UnmovedPlaces DEF watchVars
<1>9. Routed'
  BY <1>1, <1>7 DEF Unmoved, Places, Routed, Id, watchVars
<1>10. LanesOk'
  <2>1. ~(l > made) /\ \A m \in Lanes : m > made => m # l
    BY <1>1 DEF Layout, LanesOk
  <2> QED
    BY <1>1, <1>3, <2>1 DEF Layout, LanesOk, Last, Target, watchVars
<1>11. HandlesOk'
  <2>1. e # 0
    BY <1>2 DEF Events
  <2> QED
    BY <1>3, <1>6, <2>1 DEF Layout, HandlesOk
<1>12. OrderOk'
  <2>1. ASSUME NEW m \in Lanes, m # l PROVE Ordered(m)'
    BY <1>1, <1>3, <1>6, <2>1 DEF Layout, OrderOk, Ordered, watchVars
  <2>2. /\ \A i, j \in 1..Len(q) : i < j => q[i] < q[j]
        /\ \A i \in 1..Len(q) : q[i] <= Last /\ (watcher = "send" => q[i] < Last)
    BY DEF Layout, OrderOk, Ordered
  <2>3. /\ 1 \in 1..Len(q)
        /\ \A i \in 1..Len(Tail(q)) : i + 1 \in 1..Len(q) /\ 1 < i + 1
        /\ \A i, j \in 1..Len(Tail(q)) : i < j => i + 1 < j + 1
    BY <1>2
  <2>4. /\ \A i, j \in 1..Len(Tail(q)) : i < j => Tail(q)[i] < Tail(q)[j]
        /\ \A i \in 1..Len(Tail(q)) : /\ Tail(q)[i] <= Last
                                      /\ watcher = "send" => Tail(q)[i] < Last
                                      /\ e < Tail(q)[i]
        /\ e <= Last
        /\ watcher = "send" => e < Last
    BY <1>2, <2>2, <2>3
  <2>5. Ordered(l)'
    BY <1>1, <1>3, <1>6, <2>4 DEF Ordered, watchVars
  <2> QED
    BY <2>1, <2>5 DEF OrderOk
<1>13. DrainOk'
  <2>1. \A m \in Lanes : queue'[m] # <<>> => queue[m] # <<>>
    BY <1>0, <1>3
  <2>2. l \in 1..made
    BY <1>1 DEF Layout, LanesOk, TypeOK, Lanes
  <2>3. closed \subseteq Lanes
    BY DEF TypeOK
  <2> QED
    BY <1>1, <2>1, <2>2, <2>3 DEF Layout, DrainOk, ShuttingDown, watchVars, lifeVars
<1>14. FreshOk'
  <2>1. \A m \in Lanes, f \in Events : Unoffered(f, m)' => Unoffered(f, m)
    BY <1>1, <1>3, <1>7 DEF Unmoved, Unoffered
  <2> QED
    BY <1>1, <1>6, <2>1 DEF Offers, FreshOk, workVars
<1>15. WorkerOk'
  BY <1>1, <1>3, <1>7 DEF Unmoved, Offers, WorkerOk, Id, KindOf, Last, watchVars, workVars, lifeVars
<1>16. StartOk' /\ StartWaitsForDie' /\ ReconcileOk'
  BY <1>1, <1>3 DEF Offers, StartOk, StartWaitsForDie, ReconcileOk, Id, KindOf, Last, ShuttingDown,
         watchVars, workVars, lifeVars
<1> QED
  BY <1>4, <1>8, <1>9, <1>10, <1>11, <1>12, <1>13, <1>14, <1>15, <1>16 DEF Layout, Places, Offers

\* A step that changes only the lane's position, its event and the counters keeps
\* what the layout says of the channels.
LEMMA CountingLayout ==
    ASSUME DInv, NEW l \in Lanes, NEW from, NEW to, Run(l, from, to),
           UNCHANGED <<watchVars, queue, workVars, lifeVars>>,
           \/ from = "handled" /\ to = "counted" /\ handles' = handles
           \/ from = "counted" /\ to = "receive" /\ handles' = [handles EXCEPT ![l] = 0]
    PROVE  /\ Layout' /\ StartOk' /\ StartWaitsForDie'
           /\ runner' \in [Lanes -> RunnerSteps] /\ handles' \in [Lanes -> 0..MaxEvents]
           /\ runner[l] = from /\ runner'[l] = to
           /\ \A m \in Lanes : m # l => runner'[m] = runner[m] /\ handles'[m] = handles[m]
<1> USE DEF DInv, watchVars, workVars, lifeVars
<1>1. /\ runner' \in [Lanes -> RunnerSteps] /\ handles' \in [Lanes -> 0..MaxEvents]
      /\ runner[l] = from /\ runner'[l] = to
      /\ \A m \in Lanes : m # l => runner'[m] = runner[m] /\ handles'[m] = handles[m]
  BY DEF Run, TypeOK, RunnerSteps
<1>2. handles'[l] = IF from = "handled" THEN handles[l] ELSE 0
  BY DEF TypeOK
<1>3. LanesOk'
  BY <1>1 DEF Layout, LanesOk, Last, Target
<1>4. HandlesOk'
  BY <1>1, <1>2 DEF Layout, HandlesOk, Busy
<1>5. OrderOk'
  <2>1. Last' = Last /\ Last \in Nat
    BY DEF Last, TypeOK
  <2>2. ASSUME NEW m \in Lanes, m # l PROVE Ordered(m)'
    BY <1>1, <2>1, <2>2 DEF Layout, OrderOk, Ordered, Busy
  <2>3. watcher = "send" => Last > 0
    BY DEF Layout, LanesOk
  <2>4. Ordered(l)'
    BY <1>1, <1>2, <2>1, <2>3 DEF Layout, OrderOk, Ordered, Busy
  <2> QED
    BY <2>2, <2>4 DEF OrderOk
<1>6. DrainOk'
  <2>1. l \in 1..made
    <3>1. made \in Nat /\ l \in 1..MaxEvents /\ runner[l] # "none"
      BY <1>1 DEF TypeOK, Lanes
    <3> QED
      BY <3>1 DEF Layout, LanesOk
  <2> QED
    BY <1>1, <2>1 DEF Layout, DrainOk, ShuttingDown
<1>7. StartOk' /\ StartWaitsForDie'
  BY <1>1 DEF Offers, StartOk, StartWaitsForDie, Id, KindOf, Last, ShuttingDown
<1> QED
  BY <1>1, <1>3, <1>4, <1>5, <1>6, <1>7 DEF Layout

\* The lane counts its event down: it leaves the lane, and stays counted.
LEMMA PendingDoneKeeps == ASSUME DInv, NEW l \in Lanes, pendingDone(l) PROVE DInv'
<1> USE DEF DInv
<1> DEFINE e == handles[l]
<1>1. /\ Run(l, "handled", "counted") /\ UNCHANGED <<watchVars, queue, activeN, handles, workVars, lifeVars>>
      /\ pending' = [pending EXCEPT ![l] = @ - 1]
  BY DEF pendingDone
<1>2. /\ Layout' /\ StartOk' /\ StartWaitsForDie'
      /\ runner' \in [Lanes -> RunnerSteps]
      /\ runner[l] = "handled" /\ runner'[l] = "counted"
      /\ \A m \in Lanes : m # l => runner'[m] = runner[m]
  BY <1>1, CountingLayout
<1>3. Busy(l) /\ ~Busy(l)' /\ \A m \in Lanes : m # l => (Busy(m)' <=> Busy(m))
  BY <1>2 DEF Busy
<1>4. e \in Events /\ InLane(e, l)
  BY <1>3, BusyInLane
<1>5. \A f \in Events, m \in Lanes : InLane(f, m)' <=> InLane(f, m) /\ f # e
  <2>1. \A m \in Lanes : (Sending(m)' <=> Sending(m)) /\ Last' = Last
    BY <1>1 DEF Sending, Target, Last, watchVars
  <2>2. \A f \in Events, m \in Lanes : Queues(m, f)' <=> Queues(m, f)
    BY <1>1 DEF Queues
  <2>3. ~Queues(l, e) /\ ~(Sending(l) /\ e = Last)
    BY <1>3, <1>4 DEF Queues, Sending, Layout, OrderOk, Ordered, Events
  <2>4. \A m \in Lanes : InLane(e, m) => m = l
    BY <1>4 DEF Places, OneLane
  <2>5. ASSUME NEW f \in Events, NEW m \in Lanes, m # l PROVE InLane(f, m)' <=> InLane(f, m)
    BY <1>1, <1>3, <2>1, <2>2, <2>5 DEF InLane
  <2>6. ASSUME NEW f \in Events PROVE InLane(f, l)' <=> InLane(f, l) /\ f # e
    BY <1>1, <1>3, <2>1, <2>2, <2>3 DEF InLane
  <2> QED
    BY <2>4, <2>5, <2>6
<1>6. \A f \in Events, m \in Lanes : Counting(f, m)' <=> Counting(f, m) \/ (f = e /\ m = l)
  BY <1>1, <1>2 DEF Counting
<1>7. Routed'
  BY <1>1, <1>5 DEF Places, Routed, Id, watchVars
<1>8. OneLane'
  BY <1>1, <1>5 DEF Places, OneLane, Id, watchVars
<1>9. CountedOk'
  <2>1. \A m \in Lanes : ~Counting(e, m)
    BY <1>4 DEF Places, CountedOk
  <2> QED
    BY <1>5, <1>6, <2>1 DEF Places, CountedOk
<1>10. CountOk'
  <2>1. Live' = Live
    BY <1>4, <1>5, <1>6 DEF Live
  <2>2. \A m \in Lanes : m # l => LaneEvents(m)' = LaneEvents(m)
    <3>1. \A m \in Lanes : m # l => ~InLane(e, m)
      BY <1>4 DEF Places, OneLane
    <3> QED
      BY <1>5, <3>1 DEF LaneEvents
  <2>3. LaneEvents(l)' = LaneEvents(l) \ {e} /\ e \in LaneEvents(l)
    BY <1>4, <1>5 DEF LaneEvents
  <2>4. Cardinality(LaneEvents(l) \ {e}) = Cardinality(LaneEvents(l)) - 1
    BY <2>3, Counted, FS_RemoveElement
  <2> QED
    BY <1>1, <2>1, <2>2, <2>3, <2>4 DEF CountOk, TypeOK
<1>11. TypeOK'
  <2>1. pending[l] # 0
    BY <1>4, IdleHasNone
  <2>2. pending' \in [Lanes -> Nat]
    BY <1>1, <2>1 DEF TypeOK
  <2> QED
    BY <1>1, <1>2, <2>2 DEF TypeOK, watchVars, workVars, lifeVars
<1>12. FreshOk'
  <2>1. \A m \in Lanes, f \in Events : Unoffered(f, m)' => Unoffered(f, m)
    BY <1>1, <1>2, <1>5 DEF Unoffered
  <2> QED
    BY <1>1, <2>1 DEF Offers, FreshOk, Last, watchVars, workVars
<1>13. WorkerOk'
  BY <1>1, <1>2, <1>5 DEF Offers, WorkerOk, Id, KindOf, Last, watchVars, workVars, lifeVars
<1>14. ReconcileOk'
  BY <1>1 DEF ReconcileOk, watchVars
<1> QED
  BY <1>2, <1>7, <1>8, <1>9, <1>10, <1>11, <1>12, <1>13, <1>14 DEF Places, Offers

\* The aggregate is counted down and the lane is free for its next event.
LEMMA ActiveDoneKeeps == ASSUME DInv, NEW l \in Lanes, activeDone(l) PROVE DInv'
<1> USE DEF DInv
<1> DEFINE e == handles[l]
<1>1. /\ Run(l, "counted", "receive") /\ UNCHANGED <<watchVars, queue, pending, workVars, lifeVars>>
      /\ activeN' = activeN - 1 /\ handles' = [handles EXCEPT ![l] = 0]
  BY DEF activeDone
<1>2. /\ Layout' /\ StartOk' /\ StartWaitsForDie'
      /\ runner' \in [Lanes -> RunnerSteps] /\ handles' \in [Lanes -> 0..MaxEvents]
      /\ runner[l] = "counted" /\ runner'[l] = "receive"
      /\ \A m \in Lanes : m # l => runner'[m] = runner[m] /\ handles'[m] = handles[m]
  BY <1>1, CountingLayout
<1>3. e \in Events /\ Counting(e, l)
  BY <1>2 DEF TypeOK, Layout, HandlesOk, Events, Counting
<1>4. \A f \in Events, m \in Lanes : InLane(f, m)' <=> InLane(f, m)
  <2>1. \A m \in Lanes : (Sending(m)' <=> Sending(m)) /\ Last' = Last
    BY <1>1 DEF Sending, Target, Last, watchVars
  <2>2. \A f \in Events, m \in Lanes : Queues(m, f)' <=> Queues(m, f)
    BY <1>1 DEF Queues
  <2> QED
    BY <1>2, <2>1, <2>2 DEF InLane, Busy
<1>5. \A f \in Events, m \in Lanes : Counting(f, m)' <=> Counting(f, m) /\ m # l
  BY <1>2 DEF Counting
<1>6. Routed' /\ OneLane'
  BY <1>1, <1>4 DEF Places, Routed, OneLane, Id, watchVars
<1>7. CountedOk'
  BY <1>4, <1>5 DEF Places, CountedOk
<1>8. activeN' = Cardinality(Live') /\ activeN' \in Nat
  <2>1. \A m \in Lanes : ~InLane(e, m) /\ (Counting(e, m) => m = l)
    BY <1>3 DEF Places, CountedOk
  <2>2. \A f \in Events, m \in Lanes : Counting(f, m) /\ f # e => m # l
    BY DEF Counting
  <2>3. Live' = Live \ {e} /\ e \in Live
    BY <1>3, <1>4, <1>5, <2>1, <2>2 DEF Live
  <2>4. Cardinality(Live \ {e}) = Cardinality(Live) - 1 /\ Cardinality(Live \ {e}) \in Nat
    BY <2>3, Counted, FS_RemoveElement, FS_CardinalityType
  <2> QED
    BY <1>1, <2>3, <2>4 DEF CountOk
<1>9. CountOk'
  <2>1. \A m \in Lanes : LaneEvents(m)' = LaneEvents(m)
    BY <1>4 DEF LaneEvents
  <2> QED
    BY <1>1, <1>8, <2>1 DEF CountOk
<1>10. TypeOK'
  BY <1>1, <1>2, <1>8 DEF TypeOK, watchVars, workVars, lifeVars
<1>11. FreshOk'
  <2>1. \A m \in Lanes, f \in Events : Unoffered(f, m)' => Unoffered(f, m)
    BY <1>2, <1>4 DEF Unoffered
  <2> QED
    BY <1>1, <2>1 DEF Offers, FreshOk, Last, watchVars, workVars
<1>12. WorkerOk'
  BY <1>1, <1>2, <1>4 DEF Offers, WorkerOk, Id, KindOf, Last, watchVars, workVars, lifeVars
<1>13. ReconcileOk'
  <2>1. watcher = "reconcile" => activeN = 0
    BY DEF ReconcileOk
  <2>2. activeN # 0
    BY <1>1, <1>8 DEF TypeOK
  <2> QED
    BY <1>1, <2>1, <2>2 DEF ReconcileOk, watchVars
<1> QED
  BY <1>2, <1>6, <1>7, <1>9, <1>10, <1>11, <1>12, <1>13 DEF Places, Offers

-----------------------------------------------------------------------------
(* Sending to a lane *)

\* The event being sent has a lane, open and in the map, and is nowhere else.
LEMMA SendingTo ==
    ASSUME DInv, watcher = "send"
    PROVE  /\ Last \in Events /\ Target \in Lanes /\ Target \notin closed /\ Target \in 1..made
           /\ InLane(Last, Target)
           /\ \A m \in Lanes : ~Queues(m, Last) /\ handles[m] # Last /\ (InLane(Last, m) => m = Target)
<1> USE DEF DInv
<1>1. Last \in Nat /\ Last <= MaxEvents /\ Last > 0 /\ Target # None
  BY DEF TypeOK, Layout, LanesOk, Last
<1>2. Last \in Events /\ Last \in 1..Len(event)
  BY <1>1 DEF Events, Last
<1>3. event[Last].id \in Containers
  <2> DEFINE R == [id : Containers, kind : Workers]
  <2>1. event \in Seq(R)
    BY DEF TypeOK
  <2> HIDE DEF R
  <2>2. event[Last] \in R
    BY <1>2, <2>1, ElementOfSeq
  <2> QED
    BY <2>2 DEF R
<1>4. Target \in Lanes /\ Target \notin closed /\ Target \in 1..made
  BY <1>1, <1>3 DEF TypeOK, Layout, LanesOk, Target
<1>5. \A m \in Lanes : ~Queues(m, Last) /\ handles[m] # Last
  <2> SUFFICES ASSUME NEW m \in Lanes PROVE ~Queues(m, Last) /\ handles[m] # Last
    OBVIOUS
  <2>1. handles[m] < Last /\ \A i \in 1..Len(queue[m]) : queue[m][i] < Last
    BY DEF Layout, OrderOk, Ordered
  <2>2. handles[m] \in Nat
    BY DEF TypeOK
  <2> QED
    BY <1>1, <2>1, <2>2 DEF Queues
<1>6. InLane(Last, Target) /\ \A m \in Lanes : InLane(Last, m) => m = Target
  BY <1>5 DEF InLane, Sending
<1> QED
  BY <1>2, <1>4, <1>5, <1>6

\* The event goes into the channel.
LEMMA AcceptKeeps == ASSUME DInv, accept PROVE DInv'
<1> USE DEF DInv
<1> DEFINE t == Target
           q == queue[Target]
<1>1. /\ watcher = "send" /\ watcher' = "select" /\ Len(q) < Depth
      /\ queue' = [queue EXCEPT ![t] = Append(q, Last)]
      /\ UNCHANGED <<event, lanes, made, closed, pending, activeN, runner, handles, workVars, lifeVars>>
  BY DEF accept
<1>2. /\ Last \in Events /\ t \in Lanes /\ t \notin closed /\ t \in 1..made
      /\ InLane(Last, t)
      /\ \A m \in Lanes : ~Queues(m, Last) /\ handles[m] # Last /\ (InLane(Last, m) => m = t)
  BY <1>1, SendingTo
<1>3. q \in Seq(1..MaxEvents)
  BY <1>2 DEF TypeOK
<1>4. /\ Append(q, Last) \in Seq(1..MaxEvents) /\ Append(q, Last) # <<>>
      /\ Len(q) \in Nat /\ Len(Append(q, Last)) = Len(q) + 1
      /\ \A i \in 1..Len(q) : Append(q, Last)[i] = q[i]
      /\ Append(q, Last)[Len(q) + 1] = Last
  BY <1>2, <1>3, AppendProperties, LenProperties DEF Events
<1>5. queue'[t] = Append(q, Last) /\ \A m \in Lanes : m # t => queue'[m] = queue[m]
  BY <1>1, <1>2 DEF TypeOK
<1>6. TypeOK'
  <2>1. queue' \in [Lanes -> Seq(1..MaxEvents)]
    BY <1>1, <1>2, <1>4 DEF TypeOK
  <2>2. Len(Append(q, Last)) <= Depth
    BY <1>1, <1>4
  <2>3. \A m \in Lanes : Len(queue'[m]) <= Depth
    BY <1>5, <2>2 DEF TypeOK
  <2> QED
    BY <1>1, <2>1, <2>3 DEF TypeOK, workVars, lifeVars, WatcherSteps
<1>7. Unmoved
  <2>1. ASSUME NEW f \in Events PROVE Queues(t, f)' <=> Queues(t, f) \/ f = Last
    <3>1. Queues(t, f)' <=> \E i \in 1..Len(q) + 1 : Append(q, Last)[i] = f
      BY <1>1, <1>4, <1>5 DEF Queues, Target, Last
    <3>2. ASSUME NEW i \in 1..Len(q) + 1, i \notin 1..Len(q) PROVE i = Len(q) + 1
      BY <1>4, <3>2
    <3>3. Len(q) + 1 \in 1..Len(q) + 1 /\ 1..Len(q) \subseteq 1..Len(q) + 1
      BY <1>4
    <3> QED
      BY <1>4, <3>1, <3>2, <3>3 DEF Queues
  <2>2. \A f \in Events, m \in Lanes : m # t => (Queues(m, f)' <=> Queues(m, f))
    BY <1>5 DEF Queues
  <2>3. \A m \in Lanes : (Busy(m)' <=> Busy(m)) /\ ~Sending(m)' /\ (Sending(m) <=> m = t)
    BY <1>1 DEF Busy, Sending
  <2>4. Last' = Last /\ Target' = Target
    BY <1>1 DEF Last, Target
  <2>5. ASSUME NEW f \in Events, NEW m \in Lanes PROVE InLane(f, m)' <=> InLane(f, m)
    <3>1. CASE m = t
      BY <1>1, <2>1, <2>3, <2>4, <3>1 DEF InLane
    <3>2. CASE m # t
      BY <1>1, <2>2, <2>3, <2>4, <3>2 DEF InLane
    <3> QED
      BY <3>1, <3>2
  <2> QED
    BY <1>1, <2>5 DEF Unmoved, Counting
<1>8. OneLane' /\ CountedOk' /\ CountOk'
  BY <1>1, <1>7, UnmovedPlaces
<1>9. Offers'
  BY <1>1, <1>7, UnmovedOffers DEF lifeVars
<1>10. Routed'
  BY <1>1, <1>7 DEF Unmoved, Places, Routed, Id
<1>11. LanesOk'
  <2>1. ~(t > made) /\ runner[t] # "exited"
    BY <1>2 DEF TypeOK, Layout, LanesOk
  <2> QED
    BY <1>1, <1>5, <2>1 DEF Layout, LanesOk, Last
<1>12. HandlesOk'
  BY <1>1 DEF Layout, HandlesOk, Busy
<1>13. OrderOk'
  <2>1. Last \in Nat /\ Last' = Last
    BY <1>1, <1>2 DEF Events, Last
  <2>2. ASSUME NEW m \in Lanes, m # t PROVE Ordered(m)'
    BY <1>1, <1>5, <2>1, <2>2 DEF Layout, OrderOk, Ordered, Busy
  <2>3. /\ \A i, j \in 1..Len(q) : i < j => q[i] < q[j]
        /\ \A i \in 1..Len(q) : q[i] < Last /\ (Busy(t) => handles[t] < q[i])
        /\ handles[t] < Last
    BY <1>1, <1>2 DEF Layout, OrderOk, Ordered
  <2> DEFINE a == Append(q, Last)
  <2>4. /\ \A i, j \in 1..Len(a) : i < j => i \in 1..Len(q) /\ (j \in 1..Len(q) \/ j = Len(q) + 1)
        /\ \A i \in 1..Len(a) : i \in 1..Len(q) \/ i = Len(q) + 1
    <3>1. Len(a) = Len(q) + 1 /\ Len(q) \in Nat
      BY <1>4
    <3> HIDE DEF a
    <3> QED
      BY <3>1
  <2>5. \A i \in 1..Len(q) : q[i] \in 1..MaxEvents
    BY <1>3, ElementOfSeq
  <2>6. handles[t] \in Nat
    BY <1>2 DEF TypeOK
  <2>7. /\ \A i, j \in 1..Len(a) : i < j => a[i] < a[j]
        /\ \A i \in 1..Len(a) : a[i] <= Last /\ (Busy(t) => handles[t] < a[i])
        /\ handles[t] <= Last
    <3>1. \A i \in 1..Len(q) : a[i] = q[i] /\ q[i] \in Nat
      BY <1>4, <2>5
    <3>2. a[Len(q) + 1] = Last
      BY <1>4
    <3> HIDE DEF a
    <3>3. ASSUME NEW i \in 1..Len(a), NEW j \in 1..Len(a), i < j PROVE a[i] < a[j]
      BY <2>1, <2>3, <2>4, <3>1, <3>2, <3>3
    <3>4. ASSUME NEW i \in 1..Len(a) PROVE a[i] <= Last /\ (Busy(t) => handles[t] < a[i])
      BY <2>1, <2>3, <2>4, <3>1, <3>2
    <3> QED
      BY <2>1, <2>3, <2>6, <3>3, <3>4
  <2>8. Ordered(t)'
    <3>1. t' = t /\ (Busy(t)' <=> Busy(t))
      BY <1>1 DEF Target, Last, Busy
    <3> QED
      BY <1>1, <1>5, <2>1, <2>7, <3>1 DEF Ordered
  <2>9. t' = t
    BY <1>1 DEF Target, Last
  <2> QED
    BY <2>2, <2>8, <2>9 DEF OrderOk
<1>14. DrainOk'
  <2>1. \A m \in closed : queue'[m] = queue[m]
    BY <1>2, <1>5 DEF TypeOK
  <2> QED
    BY <1>1, <2>1 DEF Layout, DrainOk, ShuttingDown, lifeVars
<1>15. ReconcileOk'
  BY <1>1 DEF ReconcileOk
<1> QED
  BY <1>6, <1>8, <1>9, <1>10, <1>11, <1>12, <1>13, <1>14, <1>15 DEF Layout, Places

\* Shutdown begins before there is room: the event is counted down and dropped.
LEMMA RefuseKeeps == ASSUME DInv, refuse PROVE DInv'
<1> USE DEF DInv
<1>1. PICK t : t = Target
  OBVIOUS
<1>2. PICK e : e = Last
  OBVIOUS
<1>3. /\ watcher = "send" /\ watcher' = "drain" /\ ShuttingDown
      /\ pending' = [pending EXCEPT ![t] = @ - 1] /\ activeN' = activeN - 1
      /\ UNCHANGED <<event, lanes, made, closed, queue, runner, handles, workVars, lifeVars>>
  BY <1>1 DEF refuse
<1>4. /\ e \in Events /\ t \in Lanes /\ InLane(e, t)
      /\ \A m \in Lanes : ~Queues(m, e) /\ handles[m] # e /\ (InLane(e, m) => m = t)
  BY <1>1, <1>2, <1>3, SendingTo
<1>5. \A f \in Events, m \in Lanes : InLane(f, m)' <=> InLane(f, m) /\ f # e
  <2>1. \A m \in Lanes : (Busy(m)' <=> Busy(m)) /\ ~Sending(m)'
    BY <1>3 DEF Busy, Sending
  <2>2. \A f \in Events, m \in Lanes : Queues(m, f)' <=> Queues(m, f)
    BY <1>3 DEF Queues
  <2> QED
    BY <1>2, <1>3, <1>4, <2>1, <2>2 DEF InLane
<1>6. \A f \in Events, m \in Lanes : (Counting(f, m)' <=> Counting(f, m)) /\ ~Counting(e, m)
  BY <1>3, <1>4 DEF Counting
<1>7. Routed' /\ OneLane'
  BY <1>3, <1>5 DEF Places, Routed, OneLane, Id
<1>8. CountedOk'
  BY <1>5, <1>6 DEF Places, CountedOk
<1>9. CountOk' /\ activeN' \in Nat /\ pending' \in [Lanes -> Nat]
  <2>1. Live' = Live \ {e} /\ e \in Live
    BY <1>4, <1>5, <1>6 DEF Live
  <2>2. \A m \in Lanes : m # t => LaneEvents(m)' = LaneEvents(m)
    BY <1>4, <1>5 DEF LaneEvents
  <2>3. LaneEvents(t)' = LaneEvents(t) \ {e} /\ e \in LaneEvents(t)
    BY <1>4, <1>5 DEF LaneEvents
  <2>4. /\ Cardinality(LaneEvents(t) \ {e}) = Cardinality(LaneEvents(t)) - 1
        /\ Cardinality(LaneEvents(t) \ {e}) \in Nat
    BY <1>4, <2>3, Counted, FS_RemoveElement, FS_CardinalityType
  <2>5. Cardinality(Live \ {e}) = Cardinality(Live) - 1 /\ Cardinality(Live \ {e}) \in Nat
    BY <2>1, Counted, FS_RemoveElement, FS_CardinalityType
  <2>6. pending[t] = Cardinality(LaneEvents(t)) /\ activeN = Cardinality(Live)
    BY <1>4 DEF CountOk
  <2>7. activeN' = Cardinality(Live') /\ activeN' \in Nat
    BY <1>3, <2>1, <2>5, <2>6
  <2>8. pending' \in [Lanes -> Nat]
    BY <1>3, <1>4, <2>4, <2>6 DEF TypeOK
  <2>9. \A m \in Lanes : pending'[m] = Cardinality(LaneEvents(m)')
    BY <1>3, <1>4, <2>2, <2>3, <2>4, <2>6 DEF CountOk, TypeOK
  <2> QED
    BY <2>7, <2>8, <2>9 DEF CountOk
<1>10. TypeOK'
  BY <1>3, <1>9 DEF TypeOK, workVars, lifeVars, WatcherSteps
<1>11. Layout'
  <2>1. LanesOk' /\ HandlesOk'
    BY <1>3 DEF Layout, LanesOk, HandlesOk, Busy, Last
  <2>2. OrderOk'
    BY <1>3 DEF Layout, OrderOk, Ordered, Busy, Last
  <2>3. DrainOk'
    BY <1>3 DEF Layout, DrainOk, ShuttingDown, lifeVars
  <2> QED
    BY <2>1, <2>2, <2>3 DEF Layout
<1>12. FreshOk'
  <2>1. \A m \in Lanes, f \in Events : Unoffered(f, m)' => Unoffered(f, m)
    BY <1>3, <1>5 DEF Unoffered
  <2> QED
    BY <1>3, <2>1 DEF Offers, FreshOk, Last, workVars
<1>13. WorkerOk'
  BY <1>3, <1>5 DEF Offers, WorkerOk, Id, KindOf, Last, workVars, lifeVars
<1>14. StartOk' /\ StartWaitsForDie' /\ ReconcileOk'
  BY <1>3 DEF Offers, StartOk, StartWaitsForDie, ReconcileOk, Id, KindOf, Last, ShuttingDown,
         workVars, lifeVars
<1> QED
  BY <1>7, <1>8, <1>9, <1>10, <1>11, <1>12, <1>13, <1>14 DEF Places, Offers

\* An event arrives: idle lanes are reaped, and it is counted in the lane of its
\* container.
LEMMA DispatchKeeps ==
    ASSUME DInv, NEW c \in Containers, NEW k \in Workers, dispatch(c, k)
    PROVE  DInv'
<1> USE DEF DInv
<1> DEFINE R == [id : Containers, kind : Workers]
           fresh == Reaped[c] = None
<1>1. PICK l : l = IF fresh THEN made + 1 ELSE Reaped[c]
  OBVIOUS
<1>2. PICK n : n = Last + 1
  OBVIOUS
<1>3. /\ watcher = "select" /\ Last < MaxEvents /\ watcher' = "send"
      /\ event' = Append(event, [id |-> c, kind |-> k])
      /\ closed' = closed \cup Idle
      /\ lanes' = [Reaped EXCEPT ![c] = l]
      /\ made' = IF fresh THEN made + 1 ELSE made
      /\ runner' = IF fresh THEN [runner EXCEPT ![l] = "receive"] ELSE runner
      /\ pending' = [pending EXCEPT ![l] = @ + 1]
      /\ activeN' = activeN + 1
      /\ UNCHANGED <<queue, handles, workVars, lifeVars>>
  BY <1>1 DEF dispatch
<1>4. /\ Last \in Nat /\ n \in Events /\ Last' = n /\ made \in Nat /\ made <= Last
      /\ n \in Nat /\ n > Last
      /\ \A f \in 1..Last : event'[f] = event[f]
      /\ event'[n] = [id |-> c, kind |-> k] /\ event' \in Seq(R)
  <2>1. event \in Seq(R) /\ [id |-> c, kind |-> k] \in R
    BY DEF TypeOK
  <2>2. Len(event) = Last /\ Len(event') = Last'
    BY DEF Last
  <2>3. made \in Nat /\ made <= Last
    BY DEF TypeOK, Layout, LanesOk
  <2> HIDE DEF R
  <2>4. /\ Append(event, [id |-> c, kind |-> k]) \in Seq(R)
        /\ Len(event) \in Nat
        /\ Len(Append(event, [id |-> c, kind |-> k])) = Len(event) + 1
        /\ \A i \in 1..Len(event) : Append(event, [id |-> c, kind |-> k])[i] = event[i]
        /\ Append(event, [id |-> c, kind |-> k])[Len(event) + 1] = [id |-> c, kind |-> k]
    BY <2>1, AppendProperties, LenProperties
  <2>5. n \in Events
    BY <1>2, <1>3, <2>2, <2>4 DEF Events
  <2> QED
    BY <1>2, <1>3, <2>2, <2>3, <2>4, <2>5
<1>5. Open \subseteq 1..made /\ Open \subseteq Lanes /\ Idle \subseteq Open
  BY OpenLanes
<1>6. /\ \A x \in Containers : Reaped[x] # None =>
            /\ Reaped[x] = lanes[x] /\ lanes[x] \in 1..made /\ lanes[x] \in Lanes
            /\ lanes[x] \notin closed \cup Idle
      /\ \A x \in Containers : lanes[x] # None /\ lanes[x] \notin Idle => Reaped[x] = lanes[x]
  BY DEF Reaped, TypeOK, Layout, LanesOk
<1>7. /\ l \in Lanes /\ l # None /\ l \in 1..made' /\ l \notin closed'
      /\ made' \in 0..MaxEvents /\ made' <= Last' /\ made <= made'
  <2>1. CASE fresh
    <3>1. l = made + 1 /\ made' = made + 1
      BY <1>1, <1>3, <2>1
    <3>2. closed \subseteq 1..made
      BY DEF Layout, LanesOk
    <3>3. l \notin 1..made /\ l \in 1..MaxEvents
      BY <1>3, <1>4, <3>1
    <3> QED
      BY <1>2, <1>3, <1>4, <1>5, <3>1, <3>2, <3>3 DEF Lanes
  <2>2. CASE ~fresh
    <3>1. l = Reaped[c] /\ made' = made
      BY <1>1, <1>3, <2>2
    <3>2. l \in 1..made /\ l \in Lanes /\ l # None /\ l \notin closed \cup Idle
      BY <1>2, <1>3, <1>6, <2>2, <3>1
    <3> QED
      BY <1>2, <1>3, <1>4, <3>1, <3>2 DEF TypeOK
  <2> QED
    BY <2>1, <2>2
<1>8. lanes'[c] = l /\ \A x \in Containers : x # c => lanes'[x] = Reaped[x]
  BY <1>3 DEF Reaped
<1>9. /\ runner' \in [Lanes -> RunnerSteps]
      /\ \A m \in Lanes : \/ runner'[m] = runner[m]
                          \/ m = l /\ fresh /\ runner[m] = "none" /\ runner'[m] = "receive"
      /\ fresh => runner'[l] = "receive" /\ l = made + 1
  <2>1. CASE fresh
    <3>1. runner' = [runner EXCEPT ![l] = "receive"] /\ l = made + 1
      BY <1>1, <1>3, <2>1
    <3>2. runner[l] = "none"
      BY <1>4, <1>7, <3>1 DEF Layout, LanesOk
    <3> QED
      BY <1>7, <2>1, <3>1, <3>2 DEF TypeOK, RunnerSteps
  <2>2. CASE ~fresh
    BY <1>3, <2>2 DEF TypeOK
  <2> QED
    BY <2>1, <2>2
<1>10. TypeOK'
  <2>1. lanes' \in [Containers -> Lanes \cup {None}]
    BY <1>3, <1>7 DEF TypeOK, Reaped
  <2>2. pending' \in [Lanes -> Nat] /\ activeN' \in Nat
    BY <1>3, <1>7 DEF TypeOK
  <2>3. closed' \subseteq Lanes
    BY <1>3, <1>5 DEF TypeOK
  <2>4. Len(event') <= MaxEvents
    BY <1>4 DEF Last, Events
  <2>5. watcher' \in WatcherSteps
    BY <1>3 DEF WatcherSteps
  <2> QED
    BY <1>3, <1>4, <1>7, <1>9, <2>1, <2>2, <2>3, <2>4, <2>5 DEF TypeOK, workVars, lifeVars
<1>11. \A f \in 1..Last : Id(f)' = Id(f) /\ KindOf(f)' = KindOf(f)
  BY <1>4 DEF Id, KindOf
<1>12. \A f \in Events, m \in Lanes :
            /\ InLane(f, m) => f \in 1..Last /\ f # n
            /\ Counting(f, m) => f # n
  <2>1. ASSUME NEW f \in Events, NEW m \in Lanes, InLane(f, m) PROVE f \in 1..Last /\ f # n
    BY <1>4, <2>1, InLaneKnown
  <2>2. ASSUME NEW f \in Events, NEW m \in Lanes, Counting(f, m) PROVE f # n
    BY <1>4, <2>2 DEF Counting, Layout, OrderOk, Ordered, TypeOK
  <2> QED
    BY <2>1, <2>2
<1>13. /\ \A m \in Lanes : Busy(m)' <=> Busy(m)
       /\ \A f \in Events, m \in Lanes : Counting(f, m)' <=> Counting(f, m)
       /\ \A f \in Events, m \in Lanes : InLane(f, m)' <=> InLane(f, m) \/ (f = n /\ m = l)
  <2>1. \A m \in Lanes : (Busy(m)' <=> Busy(m)) /\ (runner'[m] = "counted" <=> runner[m] = "counted")
    BY <1>9 DEF Busy
  <2>2. Target' = l
    BY <1>4, <1>8 DEF Target
  <2>3. \A m \in Lanes : (Sending(m)' <=> m = l) /\ ~Sending(m)
    BY <1>3, <2>2 DEF Sending
  <2>4. \A f \in Events, m \in Lanes : Queues(m, f)' <=> Queues(m, f)
    BY <1>3 DEF Queues
  <2> QED
    BY <1>3, <1>4, <2>1, <2>3, <2>4 DEF InLane, Counting
<1>14. Routed' /\ OneLane'
  <2>1. ASSUME NEW m \in Lanes, NEW f \in Events, InLane(f, m)' PROVE lanes'[Id(f)'] = m
    <3>1. CASE f = n
      BY <1>4, <1>8, <1>12, <1>13, <2>1, <3>1 DEF Id
    <3>2. CASE f # n
      <4>1. InLane(f, m) /\ Id(f)' = Id(f) /\ Id(f) \in Containers
        BY <1>11, <1>12, <1>13, <2>1, <3>2, InLaneKnown
      <4>2. lanes[Id(f)] = m /\ pending[m] # 0
        BY <1>3, <4>1, IdleHasNone DEF Places, Routed
      <4>3. Reaped[Id(f)] = m /\ m # None
        <5>1. m \notin Idle /\ m # None
          BY <4>2 DEF Idle, Lanes
        <5> QED
          BY <1>6, <4>1, <4>2, <5>1
      <4> QED
        BY <1>1, <1>8, <4>1, <4>3
    <3> QED
      BY <3>1, <3>2
  <2> QED
    BY <2>1 DEF Routed, OneLane
<1>15. CountedOk'
  BY <1>12, <1>13 DEF Places, CountedOk
<1>16. CountOk'
  <2>1. Live' = Live \cup {n} /\ n \notin Live
    BY <1>4, <1>7, <1>12, <1>13 DEF Live
  <2>2. \A m \in Lanes : m # l => LaneEvents(m)' = LaneEvents(m)
    BY <1>13 DEF LaneEvents
  <2>3. LaneEvents(l)' = LaneEvents(l) \cup {n} /\ n \notin LaneEvents(l)
    BY <1>4, <1>7, <1>12, <1>13 DEF LaneEvents
  <2>4. Cardinality(LaneEvents(l) \cup {n}) = Cardinality(LaneEvents(l)) + 1
    BY <1>7, <2>3, Counted, FS_AddElement
  <2>5. Cardinality(Live \cup {n}) = Cardinality(Live) + 1
    BY <2>1, Counted, FS_AddElement
  <2>6. activeN' = Cardinality(Live')
    BY <1>3, <2>1, <2>5 DEF CountOk
  <2>7. \A m \in Lanes : pending'[m] = Cardinality(LaneEvents(m)')
    BY <1>3, <1>7, <2>2, <2>3, <2>4 DEF CountOk, TypeOK
  <2> QED
    BY <2>6, <2>7 DEF CountOk
<1>17. Layout'
  <2>1. LanesOk'
    <3>1. \A m \in Lanes : runner'[m] = "none" <=> m > made'
      <4>1. CASE fresh
        <5>1. l = made + 1 /\ made' = made + 1 /\ runner'[l] = "receive"
          BY <1>3, <1>9, <4>1
        <5>2. \A m \in Lanes : m # l => runner'[m] = runner[m] /\ (m > made' <=> m > made)
          BY <1>4, <1>9, <5>1 DEF Lanes
        <5>3. ~(l > made')
          BY <1>4, <5>1
        <5> QED
          BY <5>1, <5>2, <5>3 DEF Layout, LanesOk
      <4>2. CASE ~fresh
        BY <1>3, <1>9, <4>2 DEF Layout, LanesOk
      <4> QED
        BY <4>1, <4>2
    <3>2. \A m \in Lanes : m > made' => m > made
      BY <1>4, <1>7 DEF Lanes
    <3>3. 1..made \subseteq 1..made' /\ closed' \subseteq 1..made'
      <4>1. closed \subseteq 1..made
        BY DEF Layout, LanesOk
      <4>2. 1..made \subseteq 1..made'
        BY <1>4, <1>7
      <4> QED
        BY <1>3, <1>5, <4>1, <4>2
    <3>4. \A x \in Containers : lanes'[x] # None => lanes'[x] \in 1..made' /\ lanes'[x] \notin closed'
      BY <1>3, <1>6, <1>7, <1>8, <3>3
    <3>5. \A m \in Lanes : runner'[m] = "exited" => m \in closed' /\ queue'[m] = <<>>
      BY <1>3, <1>9 DEF Layout, LanesOk
    <3>6. Last' > 0 /\ Target' # None
      BY <1>4, <1>7, <1>8 DEF Target
    <3> QED
      BY <1>3, <1>7, <3>1, <3>2, <3>3, <3>4, <3>5, <3>6 DEF Layout, LanesOk
  <2>2. HandlesOk'
    <3>1. \A m \in Lanes : runner'[m] = "counted" <=> runner[m] = "counted"
      BY <1>9
    <3> QED
      BY <1>3, <1>13, <3>1 DEF Layout, HandlesOk
  <2>3. OrderOk'
    <3> SUFFICES ASSUME NEW m \in Lanes PROVE Ordered(m)'
      BY DEF OrderOk
    <3>1. Ordered(m)
      BY DEF Layout, OrderOk
    <3>2. /\ queue[m] \in Seq(1..MaxEvents) /\ handles[m] \in Nat
      BY DEF TypeOK
    <3>3. \A i \in 1..Len(queue[m]) : queue[m][i] \in Nat
      BY <3>2, ElementOfSeq
    <3>4. /\ \A i \in 1..Len(queue[m]) : queue[m][i] < Last' /\ queue[m][i] <= Last'
          /\ handles[m] < Last' /\ handles[m] <= Last'
      BY <1>4, <3>1, <3>2, <3>3 DEF Ordered
    <3> QED
      BY <1>3, <1>13, <3>1, <3>4 DEF Ordered
  <2>4. DrainOk'
    <3>1. \A m \in closed' : queue[m] # <<>> => ShuttingDown
      BY <1>3, IdleIsEmpty DEF Layout, DrainOk
    <3> QED
      BY <1>3, <3>1 DEF Layout, DrainOk, ShuttingDown, lifeVars
  <2> QED
    BY <2>1, <2>2, <2>3, <2>4 DEF Layout
<1>18. worker' = worker /\ results' = results /\ handles' = handles /\ ctxDone' = ctxDone
       /\ stopping' = stopping
  BY <1>3 DEF workVars, lifeVars
<1>19. \A x \in Workers : worker[x] # 0 => worker[x] \in 1..Last /\ worker[x] < n
  <2> SUFFICES ASSUME NEW x \in Workers, worker[x] # 0 PROVE worker[x] \in 1..Last /\ worker[x] < n
    OBVIOUS
  <2>1. worker[x] \in 0..MaxEvents /\ worker[x] <= Last
    BY DEF TypeOK, Offers, WorkerOk
  <2> QED
    BY <1>4, <2>1
<1>20. FreshOk'
  <2>1. \A f \in Events, m \in Lanes : Unoffered(f, m)' => Unoffered(f, m) \/ f = n
    BY <1>9, <1>13, <1>18 DEF Unoffered
  <2>2. n \notin results /\ \A x \in Workers : worker[x] # n
    BY <1>2, <1>4, <1>19 DEF Offers, FreshOk
  <2>3. \A e \in results : e <= Last'
    <3>1. \A e \in results : e \in Nat /\ e <= Last
      BY DEF Offers, FreshOk, TypeOK
    <3> QED
      BY <1>4, <3>1
  <2> QED
    BY <1>18, <2>1, <2>2, <2>3 DEF Offers, FreshOk
<1>21. WorkerOk'
  <2> SUFFICES ASSUME NEW x \in Workers, worker[x] # 0
               PROVE  /\ worker[x] <= Last' /\ KindOf(worker[x])' = x
                      /\ ctxDone \/ \E m \in Lanes : runner'[m] = "await" /\ handles[m] = worker[x]
                      /\ \A m \in Lanes, f \in Events :
                           InLane(f, m)' /\ Id(f)' = Id(worker[x])' /\ f # worker[x] => worker[x] < f
    BY <1>18 DEF WorkerOk, Id, KindOf
  <2>1. worker[x] \in 1..Last /\ worker[x] < n
    BY <1>19
  <2>2. /\ worker[x] <= Last' /\ Id(worker[x])' = Id(worker[x])
        /\ KindOf(worker[x])' = KindOf(worker[x]) /\ KindOf(worker[x]) = x
    BY <1>4, <1>11, <1>18, <2>1 DEF Offers, WorkerOk, Id, KindOf
  <2>3. ctxDone \/ \E m \in Lanes : runner'[m] = "await" /\ handles[m] = worker[x]
    BY <1>9 DEF Offers, WorkerOk
  <2>4. ASSUME NEW m \in Lanes, NEW f \in Events, InLane(f, m)', Id(f)' = Id(worker[x])', f # worker[x]
        PROVE  worker[x] < f
    <3>1. CASE f = n
      BY <2>1, <3>1
    <3>2. CASE f # n
      <4>1. InLane(f, m) /\ Id(f)' = Id(f)
        BY <1>11, <1>12, <1>13, <2>4, <3>2
      <4> QED
        BY <2>2, <2>4, <4>1 DEF Offers, WorkerOk
    <3> QED
      BY <3>1, <3>2
  <2> QED
    BY <2>2, <2>3, <2>4
<1>22. StartOk'
  <2> SUFFICES ASSUME NEW m \in Lanes, runner'[m] = "offer", KindOf(handles[m])' = "create",
                      worker["delete"] # 0, Id(handles[m])' = Id(worker["delete"])'
               PROVE  FALSE
    BY <1>18 DEF StartOk, KindOf, Id
  <2>1. runner[m] = "offer"
    BY <1>9
  <2>2. handles[m] \in 1..Last
    BY <2>1, BusyInLane DEF Busy
  <2>3. KindOf(handles[m]) = "create" /\ Id(handles[m])' = Id(handles[m])
    BY <1>11, <1>18, <2>2 DEF KindOf, Id
  <2>4. Id(worker["delete"])' = Id(worker["delete"])
    BY <1>11, <1>18, <1>19 DEF Id, Workers
  <2> QED
    BY <2>1, <2>3, <2>4 DEF Offers, StartOk
<1>23. StartWaitsForDie'
  <2> SUFFICES ASSUME NEW e \in 1..Last', NEW d \in 1..Last', worker["create"] = e,
                      worker["delete"] = d, event'[e].id = event'[d].id
               PROVE  e < d /\ ShuttingDown
    BY <1>18 DEF StartWaitsForDie, ShuttingDown
  <2>1. e \in 1..Last /\ d \in 1..Last
    BY <1>4, <1>19 DEF Workers
  <2> QED
    BY <1>4, <2>1 DEF Offers, StartWaitsForDie
<1>24. ReconcileOk'
  BY <1>3 DEF ReconcileOk
<1> QED
  BY <1>10, <1>14, <1>15, <1>16, <1>17, <1>20, <1>21, <1>22, <1>23, <1>24 DEF Places, Offers

-----------------------------------------------------------------------------
(* The inductive argument *)

\* At first there is no event and no lane.
LEMMA DispatcherInit == Init => DInv
<1> SUFFICES ASSUME Init PROVE DInv
  OBVIOUS
<1>1. TypeOK
  <2> DEFINE R == [id : Containers, kind : Workers]
  <2>1. event \in Seq(R) /\ Len(event) = 0
    BY EmptySeq DEF Init
  <2>2. queue \in [Lanes -> Seq(1..MaxEvents)] /\ \A l \in Lanes : Len(queue[l]) = 0
    BY EmptySeq DEF Init
  <2>3. 0 \in 0..MaxEvents /\ 0 <= MaxEvents /\ 0 <= Depth
    OBVIOUS
  <2> QED
    BY <2>1, <2>2, <2>3 DEF Init, TypeOK, WatcherSteps, RunnerSteps
<1>2. /\ Last = 0 /\ \A l \in Lanes : Len(queue[l]) = 0 /\ queue[l] = <<>> /\ runner[l] = "none"
                                      /\ handles[l] = 0 /\ ~Busy(l)
      /\ \A k \in Workers : worker[k] = 0
  BY EmptySeq DEF Init, Last, Busy
<1>3. \A l \in Lanes, e \in Events : ~InLane(e, l) /\ ~Counting(e, l)
  BY <1>2 DEF Init, InLane, Queues, Sending, Counting
<1>4. Layout
  <2>1. LanesOk
    <3>1. \A l \in Lanes : l > 0
      BY DEF Lanes
    <3> QED
      BY <1>2, <3>1 DEF Init, LanesOk
  <2>2. OrderOk
    BY <1>2 DEF Init, OrderOk, Ordered
  <2>3. HandlesOk /\ DrainOk
    BY <1>2 DEF Init, HandlesOk, DrainOk
  <2> QED
    BY <2>1, <2>2, <2>3 DEF Layout
<1>5. Places
  BY <1>3 DEF Places, Routed, OneLane, CountedOk
<1>6. CountOk
  <2>1. Live = {} /\ \A l \in Lanes : LaneEvents(l) = {}
    BY <1>3 DEF Live, LaneEvents
  <2> QED
    BY <2>1, FS_EmptySet DEF Init, CountOk
<1>7. Offers
  BY <1>2, <1>3 DEF Init, Offers, FreshOk, WorkerOk, StartOk, StartWaitsForDie, Unoffered, Workers
<1> QED
  BY <1>1, <1>4, <1>5, <1>6, <1>7 DEF DInv, ReconcileOk, Init

\* Every step keeps the invariant.
LEMMA DispatcherNext == DInv /\ [Next]_vars => DInv'
<1> SUFFICES ASSUME DInv, [Next]_vars PROVE DInv'
  OBVIOUS
<1>1. ASSUME NEW c \in Containers, NEW k \in Workers, dispatch(c, k) PROVE DInv'
  BY <1>1, DispatchKeeps
<1>2. CASE watchDocker \/ reapIdle \/ streamErr
  BY <1>2, AcceptKeeps, RefuseKeeps, WatchKeeps DEF watchDocker, watchSteps
<1>3. ASSUME NEW l \in Lanes, runLane(l) PROVE DInv'
  BY <1>3, ReceiveKeeps, AloneKeeps, OfferKeeps, PendingDoneKeeps, ActiveDoneKeeps DEF runLane
<1>4. ASSUME NEW k \in Workers, work(k) PROVE DInv'
  BY <1>4, WorkKeeps
<1>5. CASE signal \/ Stop \/ finished \/ UNCHANGED vars
  BY <1>5, ShutdownKeeps DEF finished
<1> QED
  BY <1>1, <1>2, <1>3, <1>4, <1>5 DEF Next

\* The invariant holds in every reachable state.
LEMMA DispatcherInvariance == Spec => []DInv
BY DispatcherInit, DispatcherNext, PTL DEF Spec

\* The state of the dispatcher is of its type: no counter goes below zero and no
\* channel holds more than its capacity.
THEOREM DispatcherTypeCorrect == Spec => []TypeOK
<1>1. DInv => TypeOK
  BY DEF DInv
<1> QED
  BY <1>1, DispatcherInvariance, PTL

\* When the aggregate counter is zero every lane can be reaped, for any containers,
\* lane depth and number of events.
THEOREM ZeroMeansIdle == Spec => []IdleIsReapable
<1>1. ASSUME DInv, activeN = 0, NEW l \in Open PROVE pending[l] = 0
  <2>1. l \in Lanes
    BY <1>1, OpenLanes DEF DInv
  <2>2. Live = {}
    BY <1>1, Counted, FS_EmptySet DEF DInv, CountOk
  <2>3. LaneEvents(l) = {}
    BY <2>1, <2>2 DEF Live, LaneEvents
  <2> QED
    BY <1>1, <2>1, <2>3, FS_EmptySet DEF DInv, CountOk
<1>2. DInv => IdleIsReapable
  BY <1>1 DEF IdleIsReapable
<1> QED
  BY <1>2, DispatcherInvariance, PTL

\* Nothing is sent on a closed channel: the target of a send is in the map, the map
\* has no closed lane, and createCh and deleteCh close after every lane has exited
\* with its channel empty.
THEOREM ClosedIsNotSentOn == Spec => []NoSendOnClosed
<1>1. ASSUME DInv, watcher = "returned", NEW l \in Lanes
      PROVE  runner[l] \in {"none", "exited"} /\ queue[l] = <<>>
  <2>1. made \in Nat /\ l \in Nat \ {0}
    BY <1>1 DEF DInv, TypeOK, Lanes
  <2>2. CASE l > made
    BY <1>1, <2>2 DEF DInv, Layout, LanesOk
  <2>3. CASE ~(l > made)
    <3>1. l \in 1..made
      BY <2>1, <2>3
    <3> QED
      BY <1>1, <3>1 DEF DInv, Layout, LanesOk, DrainOk
  <2> QED
    BY <2>2, <2>3
<1>2. DInv => NoSendOnClosed
  BY <1>1, SendingTo DEF NoSendOnClosed, DInv, Layout, DrainOk
<1> QED
  BY <1>2, DispatcherInvariance, PTL

\* While watchDocker reconciles no handler is in progress, and until shutdown no
\* worker is busy: nothing is counted, so no lane has an event to await.
THEOREM ReconcilesAlone == Spec => []ReconcileAlone
<1>1. ASSUME DInv, watcher = "reconcile", NEW l \in Lanes PROVE ~Busy(l)
  <2>1. Live = {}
    BY <1>1, Counted, FS_EmptySet DEF DInv, CountOk, ReconcileOk
  <2>2. Busy(l) => handles[l] \in Live
    BY <1>1, BusyInLane DEF DInv, Live
  <2> QED
    BY <2>1, <2>2
<1>2. ASSUME DInv, watcher = "reconcile", NEW k \in Workers, worker[k] # 0 PROVE ShuttingDown
  BY <1>1, <1>2 DEF DInv, Offers, WorkerOk, ShuttingDown, Busy
<1>3. DInv => ReconcileAlone
  BY <1>1, <1>2 DEF ReconcileAlone, Busy
<1> QED
  BY <1>3, DispatcherInvariance, PTL

\* A start never overtakes the die before it: its worker is not given a start while
\* the other is busy with an earlier die of the container.
THEOREM StartsWaitForDies == Spec => []StartWaitsForDie
<1>1. DInv => StartWaitsForDie
  BY DEF DInv, Offers
<1> QED
  BY <1>1, DispatcherInvariance, PTL

\* The events of one container are handled one at a time.
THEOREM LanesAreApart == Spec => []OneLanePerContainer
<1>1. ASSUME DInv, NEW l \in Lanes, handles[l] # 0, runner[l] # "counted" PROVE Busy(l)
  BY <1>1 DEF DInv, Layout, HandlesOk
<1>2. DInv => OneLanePerContainer
  BY <1>1, BusyApart DEF OneLanePerContainer, Id
<1> QED
  BY <1>2, DispatcherInvariance, PTL
=============================================================================
