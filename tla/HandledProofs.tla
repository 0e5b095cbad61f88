--------------------------- MODULE HandledProofs ---------------------------
(***************************************************************************)
(* Proof that events alone, without waiting for the next tick, bring the   *)
(* verdict map to what Docker's state asks for: when all of them have been *)
(* handled, exactly the running opted-in containers are filtered, at their *)
(* current addresses.                                                      *)
(***************************************************************************)
EXTENDS PassProofs

\* No address is ever given to two containers.  Lanes are not ordered among each
\* other: with shared addresses a create that works with an old inspection can take
\* back an address that meanwhile leads to its new holder.
PoolsApart == \A c, o \in Containers : c # o => Pool[c] \cap Pool[o] = {}

-----------------------------------------------------------------------------
(* The inductive invariant *)

\* The last event of a container says whether it runs.
Up == {c \in Containers : Running(c)}
Tells(e, up) == e.type = "die" <=> e.id \notin up
LastOf(s, i) == \A j \in 1..Len(s) : j > i => s[j].id # s[i].id
TellsLast(s, up) == \A i \in 1..Len(s) : LastOf(s, i) => Tells(s[i], up)

InStream(c) == \E i \in 1..Len(stream) : stream[i].id = c

OrderOk ==
    /\ TellsLast(stream, Up)
    /\ phase = "down" => TellsLast(recent, Up)
    /\ \A c \in Containers :
          lane[c] # <<>> /\ ~InStream(c) => (lane[c][Len(lane[c])] = "die" <=> ~Running(c))

\* Before Start there is nothing.
DownOk ==
    phase = "down" => stream = <<>> /\ pc = "free" /\ chains = {} /\ \A a \in Addrs : vmap[a] = None

\* Addresses stay with the container that Docker may give them to.
PoolOk ==
    /\ \A c \in Containers : {dockerAddr[c], snap[c]} \subseteq Pool[c] \cup {None}
    /\ pc \in CreateSteps => caddr \in Pool[cid] \cup {None}
    /\ \A a \in Addrs : vmap[a] # None => a \in Pool[vmap[a]]

\* An event of the container that its handler has not begun to look at.
Unseen(c) == InStream(c) \/ Len(lane[c]) > 1 \/ (lane[c] # <<>> /\ req[c] = "none")

\* Without one, what is being done is what Docker's state asks for.
TaskOk ==
    /\ \A c \in Containers : req[c] # "none" /\ ~Unseen(c) =>
          /\ req[c] = "create" <=> c \in Protected
          /\ req[c] = "create" => snap[c] = dockerAddr[c]
    /\ pc # "free" /\ ~Unseen(cid) =>
          /\ pc \in CreateSteps <=> cid \in Protected
          /\ pc \in CreateSteps => caddr = dockerAddr[cid]
    /\ phase = "sync" => \A c \in todo : Running(c) \/ Unseen(c)

\* The verdict map and the chains are as Docker's state asks for.
Right(c) ==
    /\ \A a \in Addrs : vmap[a] = c <=> c \in Protected /\ a = dockerAddr[c]
    /\ c \in chains => c \in Protected

\* Steps before the one that changes the verdict map.
Early == {"ensureDrop", "map", "deleteFlush"}

\* The first pass has still to visit the container.
WillVisit(c) == starting /\ (phase = "cleanup" \/ (phase = "sync" /\ c \in todo))

Settles(c) ==
    \/ Unseen(c)
    \/ c \in Protected /\ WillVisit(c)
    \/ req[c] # "none" /\ ~(pc # "free" /\ cid = c)
    \/ cid = c /\ pc \in Early
    \/ Right(c)

SettleOk == phase # "down" => \A c \in Containers : Settles(c)

HInv == OrderOk /\ DownOk /\ PoolOk /\ TaskOk /\ SettleOk

USE ConstantsAssumption

-----------------------------------------------------------------------------
(* The order of events *)

LEMMA TellsAppended ==
    ASSUME NEW s \in Seq(Event), NEW e \in Event, NEW up, NEW upNow, TellsLast(s, up), Tells(e, upNow),
           \A o \in Containers \ {e.id} : o \in upNow <=> o \in up
    PROVE  TellsLast(Append(s, e), upNow)
<1>1. /\ Len(s) \in Nat /\ Len(Append(s, e)) = Len(s) + 1 /\ Append(s, e)[Len(s) + 1] = e
      /\ \A i \in 1..Len(s) : Append(s, e)[i] = s[i]
  OBVIOUS
<1> DEFINE u == Append(s, e)
<1>2. \A i \in 1..Len(s) : s[i] \in Event
  OBVIOUS
<1> HIDE DEF u
<1> SUFFICES ASSUME NEW i \in 1..Len(u), LastOf(u, i) PROVE Tells(u[i], upNow)
  BY DEF TellsLast, u
<1>3. CASE i = Len(s) + 1
  BY <1>1, <1>3 DEF u
<1>4. CASE i \in 1..Len(s)
  <2>1. u[i] = s[i] /\ u[Len(s) + 1] = e /\ Len(s) + 1 \in 1..Len(u) /\ Len(s) + 1 > i
    BY <1>1, <1>4 DEF u
  <2>2. s[i].id # e.id
    BY <2>1 DEF LastOf
  <2>3. LastOf(s, i)
    BY <1>1, <1>4, <2>1 DEF LastOf, u
  <2>4. Tells(s[i], up) /\ s[i].id \in Containers
    BY <1>2, <1>4, <2>3 DEF TellsLast, Event
  <2> QED
    BY <2>1, <2>2, <2>4 DEF Tells
<1> QED
  BY <1>1, <1>3, <1>4 DEF u

LEMMA TellsSuffix ==
    ASSUME NEW s \in Seq(Event), NEW k \in Nat, NEW u, Len(u) \in Nat, Len(u) + k = Len(s),
           \A i \in 1..Len(u) : u[i] = s[i + k], NEW up, TellsLast(s, up)
    PROVE  TellsLast(u, up)
<1> SUFFICES ASSUME NEW i \in 1..Len(u), LastOf(u, i) PROVE Tells(u[i], up)
  BY DEF TellsLast
<1>1. i + k \in 1..Len(s) /\ u[i] = s[i + k]
  OBVIOUS
<1>2. LastOf(s, i + k)
  <2> SUFFICES ASSUME NEW j \in 1..Len(s), j > i + k PROVE s[j].id # s[i + k].id
    BY DEF LastOf
  <2>1. PICK m \in 1..Len(u) : m + k = j /\ m > i
    <3>1. j - k \in 1..Len(u) /\ (j - k) + k = j /\ j - k > i
      BY <1>1
    <3> QED
      BY <3>1
  <2>2. u[m] = s[j]
    BY <2>1
  <2> QED
    BY <1>1, <2>1, <2>2 DEF LastOf
<1> QED
  BY <1>1, <1>2 DEF TellsLast

\* What Docker reports keeps telling the truth.
LEMMA EmitTells ==
    ASSUME IInv, OrderOk, NEW c \in Containers, NEW t \in EventTypes, Emit(c, t), t = "die" <=> ~Running(c)',
           \A o \in Containers : o # c => (Running(o)' <=> Running(o))
    PROVE  /\ connected => TellsLast(stream, Up)'
           /\ phase = "down" => TellsLast(recent, Up)'
<1> DEFINE e == [id |-> c, type |-> t]
           all == Append(recent, e)
<1>1. stream \in Seq(Event) /\ recent \in Seq(Event) /\ MaxReplay \in Nat
  BY DEF IInv, TypeOK, StreamType
<1>2. e \in Event /\ e.id = c /\ e.type = t
  BY DEF Event
<1>3. /\ connected => stream' = Append(stream, e)
      /\ recent' = IF Len(all) > MaxReplay THEN Tail(all) ELSE all
  BY DEF Emit
<1> HIDE DEF e
<1>4. Tells(e, Up') /\ \A o \in Containers \ {e.id} : o \in Up' <=> o \in Up
  BY <1>2 DEF Tells, Up
<1>5. connected => TellsLast(stream', Up')
  <2>1. TellsLast(stream, Up)
    BY DEF OrderOk
  <2>2. TellsLast(Append(stream, e), Up')
    BY <1>1, <1>2, <1>4, <2>1, TellsAppended
  <2> QED
    BY <1>3, <2>2
<1>6. ASSUME phase = "down" PROVE TellsLast(recent', Up')
  <2>1. TellsLast(all, Up') /\ all \in Seq(Event) /\ Len(all) \in Nat
    BY <1>1, <1>2, <1>4, <1>6, TellsAppended DEF OrderOk
  <2>2. CASE Len(all) > MaxReplay
    <3>1. PICK a \in Seq(Event) : a = all
      BY <2>1
    <3>2. Len(a) \in Nat /\ Len(a) > 0
      BY <1>1, <2>1, <2>2, <3>1
    <3>3. a # <<>>
      BY <3>2
    <3>4. /\ Len(Tail(a)) \in Nat /\ Len(Tail(a)) + 1 = Len(a)
          /\ \A i \in 1..Len(Tail(a)) : Tail(a)[i] = a[i + 1]
      BY <3>2, <3>3
    <3>5. TellsLast(Tail(a), Up')
      BY <2>1, <3>1, <3>2, <3>4, TellsSuffix
    <3> QED
      BY <1>3, <2>2, <3>1, <3>5
  <2>3. CASE ~(Len(all) > MaxReplay)
    BY <1>3, <2>1, <2>3
  <2> QED
    BY <2>2, <2>3
<1> QED
  BY <1>5, <1>6 DEF TellsLast

LEMMA DockerOrders ==
    ASSUME IInv, PInv, SInv, DownOk, OrderOk, Docker
    PROVE  OrderOk'
<1>1. PICK c \in Containers :
        DockerStart(c) \/ DockerDie(c) \/ DockerRemove(c) \/ DockerDisconnect(c) \/ DockerConnect(c)
  BY DEF Docker
<1>2. UNCHANGED <<connected, lane, phase>>
  BY <1>1 DEF DockerStart, DockerDie, DockerRemove, DockerDisconnect, DockerConnect, DockerChange, laneVars, recVars
<1>3. dockerState \in [Containers -> DockerStates] /\ stream \in Seq(Event)
  BY DEF IInv, TypeOK, DockerType, StreamType
<1>4. CASE DockerRemove(c)
  <2>1. UNCHANGED <<stream, recent>> /\ \A o \in Containers : Running(o)' <=> Running(o)
    BY <1>3, <1>4 DEF DockerRemove, Running
  <2>2. Up' = Up
    BY <2>1 DEF Up
  <2> QED
    BY <1>2, <2>1, <2>2 DEF OrderOk, InStream
<1>5. ASSUME NEW t \in EventTypes, Emit(c, t), t = "die" <=> ~Running(c)',
             \A o \in Containers : o # c => (Running(o)' <=> Running(o))
      PROVE  OrderOk'
  <2>1. (connected => TellsLast(stream, Up)') /\ (phase = "down" => TellsLast(recent, Up)')
    BY <1>5, EmitTells
  <2>2. CASE connected
    <3> DEFINE e == [id |-> c, type |-> t]
    <3>1. stream' = Append(stream, e) /\ e \in Event /\ e.id = c
      BY <1>5, <2>2 DEF Emit, Event
    <3> HIDE DEF e
    <3>2. /\ Len(stream) \in Nat /\ Len(stream') = Len(stream) + 1 /\ stream'[Len(stream) + 1] = e
          /\ \A i \in 1..Len(stream) : i \in 1..Len(stream') /\ stream'[i] = stream[i]
      BY <1>3, <3>1
    <3>3. InStream(c)'
      <4>1. Len(stream) + 1 \in 1..Len(stream')
        BY <3>2
      <4> QED
        BY <3>1, <3>2, <4>1 DEF InStream
    <3>4. \A o \in Containers : InStream(o) => InStream(o)'
      BY <3>2 DEF InStream
    <3> QED
      BY <1>2, <1>5, <2>1, <2>2, <3>3, <3>4 DEF OrderOk
  <2>3. CASE ~connected
    <3>1. phase = "down" /\ stream' = <<>> /\ LanesIdle
      BY <1>5, <2>3 DEF SInv, StreamOk, DownOk, Emit, PInv, PhaseOk
    <3>2. TellsLast(stream, Up)'
      BY <3>1 DEF TellsLast
    <3> QED
      BY <1>2, <2>1, <3>1, <3>2 DEF OrderOk, LanesIdle
  <2> QED
    BY <2>2, <2>3
<1>6. CASE DockerStart(c)
  BY <1>3, <1>5, <1>6 DEF DockerStart, Running, EventTypes
<1>7. CASE DockerDie(c)
  BY <1>3, <1>5, <1>7 DEF DockerDie, Running, EventTypes
<1>8. CASE DockerDisconnect(c) \/ DockerConnect(c)
  BY <1>3, <1>5, <1>8 DEF DockerDisconnect, DockerConnect, Running, EventTypes
<1> QED
  BY <1>1, <1>4, <1>6, <1>7, <1>8

LEMMA DispatchOrders ==
    ASSUME IInv, OrderOk, dispatch
    PROVE  OrderOk'
<1>1. stream \in Seq(Event) /\ stream # <<>> /\ lane \in [Containers -> Seq(EventTypes)]
  BY DEF dispatch, IInv, TypeOK, StreamType, LaneType
<1> DEFINE e == Head(stream)
<1>2. /\ e \in Event /\ stream' = Tail(stream) /\ lane' = [lane EXCEPT ![e.id] = Append(lane[e.id], e.type)]
      /\ UNCHANGED <<dockerState, recent, phase>>
  BY <1>1 DEF dispatch, dockerVars, recVars
<1>3. /\ Len(stream) \in Nat /\ Len(stream) > 0 /\ e = stream[1] /\ Len(stream') + 1 = Len(stream)
      /\ Len(stream') \in Nat /\ \A i \in 1..Len(stream') : stream'[i] = stream[i + 1]
  BY <1>1, <1>2
<1>4. e.id \in Containers /\ e.type \in EventTypes
  BY <1>2 DEF Event
<1> HIDE DEF e
<1>5. Up' = Up
  BY <1>2 DEF Up, Running
<1>6. TellsLast(stream', Up)
  <2>1. TellsLast(stream, Up)
    BY DEF OrderOk
  <2> QED
    BY <1>1, <1>3, <2>1, TellsSuffix
<1>7. ASSUME NEW i \in 1..Len(stream), i > 1
      PROVE  \E m \in 1..Len(stream') : stream'[m] = stream[i]
  <2>1. i - 1 \in 1..Len(stream') /\ (i - 1) + 1 = i
    BY <1>3, <1>7
  <2> QED
    BY <1>3, <2>1
<1>8. ASSUME NEW c \in Containers, lane'[c] # <<>>, ~InStream(c)'
      PROVE  lane'[c][Len(lane'[c])] = "die" <=> ~Running(c)
  <2>1. \A i \in 1..Len(stream) : i > 1 => stream[i].id # c
    BY <1>7, <1>8 DEF InStream
  <2>2. CASE c = e.id
    <3>1. LastOf(stream, 1) /\ 1 \in 1..Len(stream)
      BY <1>3, <2>1, <2>2 DEF LastOf
    <3>2. Tells(e, Up)
      BY <1>3, <3>1 DEF OrderOk, TellsLast
    <3>3. lane'[c] = Append(lane[c], e.type) /\ lane[c] \in Seq(EventTypes)
      BY <1>1, <1>2, <2>2
    <3>4. lane'[c][Len(lane'[c])] = e.type
      BY <1>4, <3>3
    <3> QED
      BY <2>2, <3>2, <3>4 DEF Tells, Up
  <2>3. CASE c # e.id
    <3>1. ~InStream(c)
      BY <1>3, <2>1, <2>3 DEF InStream
    <3>2. lane'[c] = lane[c]
      BY <1>1, <1>2, <1>4, <2>3
    <3> QED
      BY <1>8, <3>1, <3>2 DEF OrderOk
  <2> QED
    BY <2>2, <2>3
<1> QED
  BY <1>2, <1>5, <1>6, <1>8 DEF OrderOk, Running

\* Lanes lose their heads only, and the stream stays.
LEMMA PoppedOrders ==
    ASSUME IInv, OrderOk, UNCHANGED <<dockerState, stream, recent>>, phase' = "down" => phase = "down",
           \A c \in Containers : lane'[c] = lane[c] \/ (lane[c] # <<>> /\ lane'[c] = Tail(lane[c]))
    PROVE  OrderOk'
<1>1. Up' = Up /\ \A c \in Containers : (InStream(c)' <=> InStream(c)) /\ (Running(c)' <=> Running(c))
  BY DEF Up, Running, InStream
<1>2. ASSUME NEW c \in Containers, lane'[c] # <<>> PROVE lane[c] # <<>> /\ lane'[c][Len(lane'[c])] = lane[c][Len(lane[c])]
  <2>1. CASE lane[c] # <<>> /\ lane'[c] = Tail(lane[c])
    <3>1. PICK s \in Seq(EventTypes) : s = lane[c]
      BY DEF IInv, TypeOK, LaneType
    <3>2. Len(s) \in Nat /\ Len(Tail(s)) + 1 = Len(s) /\ Len(Tail(s)) \in Nat
          /\ \A i \in 1..Len(Tail(s)) : Tail(s)[i] = s[i + 1]
      BY <2>1, <3>1
    <3>3. Tail(s) \in Seq(EventTypes) /\ Tail(s) # <<>>
      BY <1>2, <2>1, <3>1
    <3>4. PICK u \in Seq(EventTypes) : u = Tail(s)
      BY <3>3
    <3>5. Len(u) \in 1..Len(u)
      BY <3>3, <3>4
    <3> QED
      BY <2>1, <3>1, <3>2, <3>4, <3>5
  <2> QED
    BY <1>2, <2>1
<1> QED
  BY <1>1, <1>2 DEF OrderOk

LEMMA StartOrders ==
    ASSUME IInv, PInv, OrderOk, Start, phase' # "down", connected'
    PROVE  OrderOk'
<1>1. LanesIdle /\ UNCHANGED <<lane, dockerState>> /\ phase = "down"
  BY DEF Start, RecOnly, dockerVars, laneVars, PInv, PhaseOk
<1>2. recent \in Seq(Event) /\ TellsLast(recent, Up) /\ Up' = Up
  BY <1>1 DEF IInv, TypeOK, StreamType, OrderOk, Up, Running
<1>3. PICK k \in 0..Len(recent) : stream' = SubSeq(recent, k + 1, Len(recent))
  BY DEF Start, addFilters
<1>4. Len(recent) \in Nat /\ k \in Nat
  BY <1>2
<1>5. /\ Len(stream') \in Nat /\ Len(stream') + k = Len(recent)
      /\ \A i \in 1..Len(stream') : stream'[i] = recent[i + k]
  BY <1>2, <1>3, <1>4
<1>6. TellsLast(stream', Up)
  BY <1>2, <1>4, <1>5, TellsSuffix
<1> QED
  BY <1>1, <1>2, <1>6 DEF OrderOk, LanesIdle

-----------------------------------------------------------------------------
(* Docker and the dispatcher *)

\* It is enough that a container which has changed has an event.
LEMMA UnseenCarries ==
    ASSUME IInv, HInv, UNCHANGED <<req, snap, recVars, opVars, fwVars>>,
           \A c \in Containers : \/ Unseen(c)'
                                 \/ ~Unseen(c) /\ dockerAddr'[c] = dockerAddr[c] /\ (Running(c)' <=> Running(c))
    PROVE  TaskOk' /\ SettleOk'
<1>1. pc # "free" => cid \in Containers
  BY DEF IInv, OpOk
<1>2. todo \subseteq Containers
  BY DEF IInv, TypeOK, RecType
<1>3. \A c \in Containers : Unseen(c)' \/ (c \in Protected' <=> c \in Protected)
  BY DEF Protected
<1>4. TaskOk'
  <2>1. (\A c \in Containers : req[c] # "none" /\ ~Unseen(c) =>
          (req[c] = "create" <=> c \in Protected) /\ (req[c] = "create" => snap[c] = dockerAddr[c]))'
    BY <1>3 DEF HInv, TaskOk
  <2>2. (pc # "free" /\ ~Unseen(cid) =>
          (pc \in CreateSteps <=> cid \in Protected) /\ (pc \in CreateSteps => caddr = dockerAddr[cid]))'
    BY <1>1, <1>3 DEF HInv, TaskOk, opVars
  <2>3. (phase = "sync" => \A c \in todo : Running(c) \/ Unseen(c))'
    BY <1>2 DEF HInv, TaskOk, recVars
  <2> QED
    BY <2>1, <2>2, <2>3 DEF TaskOk
<1>5. ASSUME phase' # "down", NEW c \in Containers PROVE Settles(c)'
  <2>1. CASE Unseen(c)'
    BY <2>1 DEF Settles
  <2>2. CASE ~Unseen(c)'
    <3>1. ~Unseen(c) /\ (c \in Protected' <=> c \in Protected) /\ dockerAddr'[c] = dockerAddr[c]
      BY <1>3, <2>2
    <3>2. Settles(c)
      BY <1>5 DEF HInv, SettleOk, recVars
    <3>3. Right(c) => Right(c)'
      BY <3>1 DEF Right, fwVars
    <3> QED
      BY <3>1, <3>2, <3>3 DEF Settles, WillVisit, recVars, opVars
  <2> QED
    BY <2>1, <2>2
<1> QED
  BY <1>4, <1>5 DEF SettleOk

LEMMA DockerHandled ==
    ASSUME IInv, PInv, SInv, HInv, Docker
    PROVE  HInv'
<1>1. PICK c \in Containers :
        DockerStart(c) \/ DockerDie(c) \/ DockerRemove(c) \/ DockerDisconnect(c) \/ DockerConnect(c)
  BY DEF Docker
<1>2. UNCHANGED <<connected, laneVars, recVars, opVars, fwVars>>
  BY <1>1 DEF DockerStart, DockerDie, DockerRemove, DockerDisconnect, DockerConnect, DockerChange
<1>3. /\ dockerState \in [Containers -> DockerStates] /\ dockerAddr \in [Containers -> MaybeAddr]
      /\ stream \in Seq(Event)
  BY DEF IInv, TypeOK, DockerType, StreamType
<1>4. OrderOk'
  BY DockerOrders DEF HInv
<1>5. PICK t \in EventTypes :
        \/ Emit(c, t)
        \/ UNCHANGED <<dockerAddr, stream>> /\ (\A o \in Containers : Running(o)' <=> Running(o))
  BY <1>1, <1>3 DEF DockerStart, DockerDie, DockerRemove, DockerDisconnect, DockerConnect, Running, EventTypes
<1>6. /\ \A o \in Containers \ {c} : dockerAddr'[o] = dockerAddr[o] /\ dockerState'[o] = dockerState[o]
      /\ dockerAddr'[c] \in FreeAddrs(c) \cup {None, dockerAddr[c]}
  BY <1>1, <1>3 DEF DockerStart, DockerDie, DockerRemove, DockerDisconnect, DockerConnect
<1>7. DownOk'
  <2>1. phase = "down" => stream' = stream
    BY <1>5 DEF Emit, SInv, StreamOk
  <2> QED
    BY <1>2, <2>1 DEF HInv, DownOk, recVars, opVars, fwVars
<1>8. PoolOk'
  <2>1. \A o \in Containers : dockerAddr'[o] \in Pool[o] \cup {None}
    BY <1>6 DEF HInv, PoolOk, FreeAddrs
  <2> QED
    BY <1>2, <2>1 DEF HInv, PoolOk, laneVars, opVars, fwVars
<1>9. TaskOk' /\ SettleOk'
  <2>1. CASE phase = "down"
    <3>1. pc = "free" /\ \A o \in Containers : req[o] = "none"
      BY <2>1 DEF SInv, StreamOk
    <3> QED
      BY <1>2, <2>1, <3>1 DEF TaskOk, SettleOk, laneVars, recVars, opVars
  <2>2. CASE phase # "down"
    <3>1. connected
      BY <2>2 DEF SInv, StreamOk
    <3>2. CASE Emit(c, t)
      <4> DEFINE e == [id |-> c, type |-> t]
      <4>1. stream' = Append(stream, e) /\ e \in Event /\ e.id = c
        BY <3>1, <3>2 DEF Emit, Event
      <4> HIDE DEF e
      <4>2. /\ Len(stream) \in Nat /\ Len(stream') = Len(stream) + 1 /\ stream'[Len(stream) + 1] = e
            /\ \A i \in 1..Len(stream) : i \in 1..Len(stream') /\ stream'[i] = stream[i]
        BY <1>3, <4>1
      <4>3. InStream(c)'
        <5>1. Len(stream) + 1 \in 1..Len(stream')
          BY <4>2
        <5> QED
          BY <4>1, <4>2, <5>1 DEF InStream
      <4>4. \A o \in Containers : InStream(o) => InStream(o)'
        BY <4>2 DEF InStream
      <4>5. Unseen(c)' /\ \A o \in Containers : Unseen(o) => Unseen(o)'
        BY <1>2, <4>3, <4>4 DEF Unseen, laneVars
      <4> QED
        BY <1>2, <1>6, <4>5, UnseenCarries DEF Running, laneVars
    <3>3. CASE UNCHANGED <<dockerAddr, stream>> /\ (\A o \in Containers : Running(o)' <=> Running(o))
      <4>1. \A o \in Containers : Unseen(o)' <=> Unseen(o)
        BY <1>2, <3>3 DEF Unseen, InStream, laneVars
      <4> QED
        BY <1>2, <3>3, <4>1, UnseenCarries DEF laneVars
    <3> QED
      BY <1>5, <3>2, <3>3
  <2> QED
    BY <2>1, <2>2
<1> QED
  BY <1>4, <1>7, <1>8, <1>9 DEF HInv

LEMMA DispatchHandled ==
    ASSUME IInv, HInv, dispatch
    PROVE  HInv'
<1>1. UNCHANGED <<req, snap, dockerVars, recVars, opVars, fwVars>> /\ phase = "idle"
  BY DEF dispatch
<1>2. stream \in Seq(Event) /\ stream # <<>> /\ lane \in [Containers -> Seq(EventTypes)]
  BY DEF dispatch, IInv, TypeOK, StreamType, LaneType
<1> DEFINE e == Head(stream)
<1>3. /\ e \in Event /\ stream' = Tail(stream) /\ lane' = [lane EXCEPT ![e.id] = Append(lane[e.id], e.type)]
  BY <1>2 DEF dispatch
<1>4. /\ Len(stream) \in Nat /\ e = stream[1] /\ Len(stream') + 1 = Len(stream)
      /\ Len(stream') \in Nat /\ \A i \in 1..Len(stream') : stream'[i] = stream[i + 1]
  BY <1>2, <1>3
<1>5. e.id \in Containers /\ e.type \in EventTypes
  BY <1>3 DEF Event
<1> HIDE DEF e
<1>6. ASSUME NEW c \in Containers, Unseen(c) PROVE Unseen(c)'
  <2>1. /\ lane[c] \in Seq(EventTypes) /\ Len(lane[c]) \in Nat
        /\ lane'[c] = IF c = e.id THEN Append(lane[c], e.type) ELSE lane[c]
    BY <1>2, <1>3, <1>5
  <2>2. CASE c = e.id
    <3>1. Len(lane'[c]) = Len(lane[c]) + 1 /\ lane'[c] # <<>>
      BY <1>5, <2>1, <2>2
    <3>2. lane[c] = <<>> => req'[c] = "none"
      BY <1>1 DEF IInv, LaneOk
    <3>3. lane[c] # <<>> => Len(lane[c]) > 0
      BY <2>1
    <3> QED
      BY <2>1, <3>1, <3>2, <3>3 DEF Unseen
  <2>3. CASE c # e.id
    <3>1. ASSUME NEW i \in 1..Len(stream), stream[i].id = c PROVE InStream(c)'
      <4>1. i - 1 \in 1..Len(stream') /\ (i - 1) + 1 = i
        BY <1>4, <2>3, <3>1
      <4> QED
        BY <1>4, <3>1, <4>1 DEF InStream
    <3> QED
      BY <1>1, <1>6, <2>1, <2>3, <3>1 DEF Unseen, InStream
  <2> QED
    BY <2>2, <2>3
<1>7. TaskOk' /\ SettleOk'
  BY <1>1, <1>6, UnseenCarries DEF dockerVars, Running
<1>8. OrderOk'
  BY DispatchOrders DEF HInv
<1>9. DownOk' /\ PoolOk'
  BY <1>1 DEF HInv, DownOk, PoolOk, dockerVars, recVars, opVars, fwVars
<1> QED
  BY <1>7, <1>8, <1>9 DEF HInv

-----------------------------------------------------------------------------
(* Lanes *)

LEMMA TailRemains ==
    ASSUME NEW S, NEW s \in Seq(S), Len(s) > 1
    PROVE  Tail(s) # <<>>
<1>1. s # <<>> /\ Len(s) \in Nat
  OBVIOUS
<1>2. PICK n \in Nat : n = Len(s)
  BY <1>1
<1>3. PICK u \in Seq(S) : u = Tail(s)
  <2>1. Tail(s) \in Seq(S)
    BY <1>1
  <2> QED
    BY <2>1
<1>4. PICK m \in Nat : m = Len(u) /\ m + 1 = n
  BY <1>1, <1>2, <1>3
<1>5. m # 0
  BY <1>2, <1>4
<1>6. u # <<>>
  BY <1>4, <1>5
<1> QED
  BY <1>3, <1>6

LEMMA HandlerHandled ==
    ASSUME NothingFails, IInv, PInv, HInv, NEW c \in Containers, handleDockerEvent(c)
    PROVE  HInv'
<1>1. lane[c] # <<>> /\ req[c] = "none" /\ UNCHANGED HandlerVars
  BY DEF handleDockerEvent, handleDie, handleIgnored, handleInspected, HandlerReady
<1>2. phase = "idle" /\ ~InPass
  BY <1>1, BusyIsIdle
<1>3. pc # "free" => cid # c /\ cid \in Containers
  BY <1>1, <1>2 DEF PInv, PhaseOk, IInv, OpOk
<1>4. lane \in [Containers -> Seq(EventTypes)] /\ req \in [Containers -> {"none", "create", "delete"}]
      /\ snap \in [Containers -> MaybeAddr]
  BY DEF IInv, TypeOK, LaneType
<1>5. PICK s \in Seq(EventTypes) : s = lane[c] /\ Len(s) \in Nat /\ Len(s) > 0 /\ Head(s) = s[1]
  BY <1>1, <1>4
<1>6. ~InStream(c) => (s[Len(s)] = "die" <=> ~Running(c))
  BY <1>1, <1>5 DEF HInv, OrderOk
<1>7. UNCHANGED <<dockerAddr, dockerState, stream, recent, phase, todo, starting, pc, cid, caddr, vmap, chains>>
  BY <1>1 DEF HandlerVars, dockerVars, streamVars, recVars, opVars, fwVars
<1>8. \/ lane' = [lane EXCEPT ![c] = Tail(lane[c])] /\ UNCHANGED <<req, snap>>
      \/ /\ UNCHANGED lane
         /\ \E kind \in {"create", "delete"}, addr \in {dockerAddr[c], None} :
               req' = [req EXCEPT ![c] = kind] /\ snap' = [snap EXCEPT ![c] = addr]
  BY DEF handleDockerEvent, handleDie, handleIgnored, handleInspected, HandlerReturns, HandlerSends
<1>9. \A o \in Containers : o # c => lane'[o] = lane[o] /\ req'[o] = req[o] /\ snap'[o] = snap[o]
  BY <1>4, <1>8
<1>10. OrderOk'
  <2>1. \A o \in Containers : lane'[o] = lane[o] \/ (lane[o] # <<>> /\ lane'[o] = Tail(lane[o]))
    BY <1>1, <1>4, <1>8
  <2> QED
    BY <1>2, <1>7, <2>1, PoppedOrders DEF HInv
<1>11. DownOk'
  BY <1>2, <1>7 DEF DownOk
<1>12. PoolOk'
  <2>1. snap'[c] \in Pool[c] \cup {None}
    BY <1>4, <1>8 DEF HInv, PoolOk
  <2> QED
    BY <1>7, <1>9, <2>1 DEF HInv, PoolOk
<1>13. \A o \in Containers : (o \in Protected' <=> o \in Protected) /\ (InStream(o)' <=> InStream(o))
                             /\ (Right(o)' <=> Right(o)) /\ (WillVisit(o)' <=> WillVisit(o))
  BY <1>7 DEF Protected, Running, InStream, Right, WillVisit
<1>14. \A o \in Containers : o # c => (Unseen(o)' <=> Unseen(o))
  BY <1>9, <1>13 DEF Unseen
<1>15. CASE handleIgnored(c)
  <2>1. s[1] # "die" /\ ~Running(c) /\ lane'[c] = Tail(s) /\ req'[c] = "none"
    BY <1>1, <1>4, <1>5, <1>15, NoFaults DEF handleIgnored, Fails, HandlerReturns, Running
  <2>2. Unseen(c)'
    <3>1. CASE InStream(c)
      BY <1>13, <3>1 DEF Unseen
    <3>2. CASE ~InStream(c)
      <4>1. s[Len(s)] = "die"
        BY <1>6, <2>1, <3>2
      <4>2. Len(s) > 1
        BY <1>5, <2>1, <4>1
      <4>3. Tail(s) # <<>>
        BY <4>2, TailRemains
      <4> QED
        BY <2>1, <4>3 DEF Unseen
    <3> QED
      BY <3>1, <3>2
  <2>3. TaskOk'
    BY <1>2, <1>3, <1>7, <1>9, <1>13, <1>14, <2>2 DEF HInv, TaskOk
  <2>4. SettleOk'
    BY <1>2, <1>7, <1>9, <1>13, <1>14, <2>2 DEF HInv, SettleOk, Settles
  <2> QED
    BY <1>10, <1>11, <1>12, <2>3, <2>4 DEF HInv
<1>16. CASE handleDie(c) \/ handleInspected(c)
  <2>1. lane' = lane /\ req'[c] \in {"create", "delete"}
    BY <1>4, <1>16 DEF handleDie, handleInspected, HandlerSends
  <2>2. ASSUME ~Unseen(c)' PROVE /\ req'[c] = "create" <=> c \in Protected
                                 /\ req'[c] = "create" => snap'[c] = dockerAddr[c]
    <3>1. ~InStream(c) /\ Len(s) = 1
      <4>1. ~InStream(c)' /\ ~(Len(lane'[c]) > 1)
        BY <2>2 DEF Unseen
      <4>2. lane'[c] = s
        BY <1>5, <2>1
      <4>3. ~(Len(s) > 1)
        BY <4>1, <4>2
      <4>4. PICK n \in Nat : n = Len(s) /\ n > 0 /\ ~(n > 1)
        BY <1>5, <4>3
      <4>5. n = 1
        BY <4>4
      <4> QED
        BY <1>13, <4>1, <4>4, <4>5
    <3>2. Head(lane[c]) = "die" <=> ~Running(c)
      BY <1>5, <1>6, <3>1
    <3>3. CASE handleDie(c)
      BY <1>4, <3>2, <3>3 DEF handleDie, HandlerSends, Protected
    <3>4. CASE handleInspected(c)
      BY <1>4, <3>2, <3>4 DEF handleInspected, HandlerSends, Protected
    <3> QED
      BY <1>16, <3>3, <3>4
  <2>3. TaskOk'
    BY <1>2, <1>3, <1>7, <1>9, <1>13, <1>14, <2>2 DEF HInv, TaskOk
  <2>4. Settles(c)'
    BY <1>3, <1>7, <2>1 DEF Settles
  <2>5. SettleOk'
    BY <1>2, <1>7, <1>9, <1>13, <1>14, <2>4 DEF HInv, SettleOk, Settles
  <2> QED
    BY <1>10, <1>11, <1>12, <2>3, <2>5 DEF HInv
<1> QED
  BY <1>15, <1>16 DEF handleDockerEvent

-----------------------------------------------------------------------------
(* Operations begin *)

\* The lanes or the pass begin an operation that does what Docker's state asks for.
LEMMA BeginHandled ==
    ASSUME IInv, HInv, phase # "down", UNCHANGED <<dockerVars, streamVars, laneVars, fwVars>>, UNCHANGED phase,
           NEW c \in Containers, NEW kind \in {"create", "delete"}, NEW addr \in Pool[c] \cup {None},
           NEW who, BeginOp(c, kind, addr, who),
           UNCHANGED recVars \/ (UNCHANGED starting /\ todo' = todo \ {c}),
           ~Unseen(c) => (kind = "create" <=> c \in Protected) /\ (kind = "create" => addr = dockerAddr[c])
    PROVE  HInv'
<1>1. /\ pc = "free" /\ cid' = c /\ caddr' = addr
      /\ pc' = IF kind = "create" THEN "ensureDrop" ELSE "deleteFlush"
  BY DEF BeginOp
<1>2. UNCHANGED <<dockerState, dockerAddr, stream, recent, lane, req, snap, vmap, chains, starting>>
      /\ todo' \subseteq todo /\ \A o \in Containers : o # c => (o \in todo' <=> o \in todo)
  BY DEF dockerVars, streamVars, laneVars, fwVars, recVars
<1>3. pc' \in Early /\ (pc' \in CreateSteps <=> kind = "create") /\ pc' # "free"
  BY <1>1 DEF Early, CreateSteps
<1>4. \A o \in Containers : /\ o \in Protected' <=> o \in Protected
                            /\ Unseen(o)' <=> Unseen(o)
                            /\ Right(o)' <=> Right(o)
                            /\ Running(o)' <=> Running(o)
  BY <1>2 DEF Protected, Running, Unseen, InStream, Right
<1>5. OrderOk'
  BY <1>2, PoppedOrders DEF HInv
<1>6. DownOk' /\ PoolOk'
  BY <1>1, <1>2, <1>3 DEF HInv, DownOk, PoolOk
<1>7. TaskOk'
  <2>1. todo \subseteq Containers
    BY DEF IInv, TypeOK, RecType
  <2> QED
    BY <1>1, <1>2, <1>3, <1>4, <2>1 DEF HInv, TaskOk
<1>8. ASSUME NEW o \in Containers PROVE Settles(o)'
  <2>1. CASE o = c
    BY <1>1, <1>3, <2>1 DEF Settles
  <2>2. CASE o # c
    <3>1. Settles(o) /\ (WillVisit(o)' <=> WillVisit(o))
      BY <1>2, <2>2 DEF HInv, SettleOk, WillVisit
    <3>2. ~(cid = o /\ pc \in Early)
      BY <1>1 DEF Early
    <3> QED
      BY <1>1, <1>2, <1>4, <2>2, <3>1, <3>2 DEF Settles
  <2> QED
    BY <2>1, <2>2
<1> QED
  BY <1>5, <1>6, <1>7, <1>8 DEF HInv, SettleOk

LEMMA LockHandled ==
    ASSUME IInv, PInv, HInv, NEW c \in Containers, lockPolicyMu(c)
    PROVE  HInv'
<1>1. phase = "idle" /\ pc = "free" /\ UNCHANGED <<dockerVars, streamVars, laneVars, recVars, fwVars>>
  BY BusyIsIdle DEF lockPolicyMu, BeginOp
<1>2. req[c] \in {"create", "delete"} /\ BeginOp(c, req[c], snap[c], "lane")
  BY DEF lockPolicyMu, IInv, TypeOK, LaneType
<1>3. snap[c] \in Pool[c] \cup {None}
  BY DEF HInv, PoolOk
<1>4. ~Unseen(c) => (req[c] = "create" <=> c \in Protected) /\ (req[c] = "create" => snap[c] = dockerAddr[c])
  BY <1>2 DEF HInv, TaskOk
<1> QED
  BY <1>1, <1>2, <1>3, <1>4, BeginHandled DEF recVars

LEMMA VisitHandled ==
    ASSUME NothingFails, IInv, PInv, HInv, NEW c \in Containers,
           cleanupRules(c) \/ syncContainers(c) \/ inspectFails(c)
    PROVE  HInv'
<1>1. /\ UNCHANGED <<dockerVars, streamVars, laneVars, fwVars, phase, starting>> /\ pc = "free" /\ InPass
      /\ c \in todo /\ todo' = todo \ {c}
  BY DEF cleanupRules, syncContainers, inspectFails, Visit, RecOnly, InPass
<1>2. dockerAddr[c] \in Pool[c] \cup {None}
  BY DEF HInv, PoolOk
<1>3. CASE /\ phase = "cleanup" /\ ~Running(c)
           /\ BeginOp(c, "delete", None, "rec")
  BY <1>1, <1>3, BeginHandled DEF Protected, InPass
<1>4. CASE /\ phase = "sync" /\ ~Enforced(c)
           /\ BeginOp(c, "delete", None, "rec")
  BY <1>1, <1>4, BeginHandled DEF Protected, InPass
<1>5. CASE phase = "sync" /\ Enforced(c) /\ BeginOp(c, "create", dockerAddr[c], "rec")
  <2>1. ~Unseen(c) => c \in Protected
    BY <1>1, <1>5 DEF HInv, TaskOk, Protected
  <2> QED
    BY <1>1, <1>2, <1>5, <2>1, BeginHandled DEF InPass
<1>6. CASE UNCHANGED opVars /\ (phase = "cleanup" \/ c \notin Protected)
  <2>1. UNCHANGED <<dockerState, dockerAddr, stream, recent, lane, req, snap, vmap, chains, pc, cid, caddr>>
    BY <1>1, <1>6 DEF dockerVars, streamVars, laneVars, fwVars, opVars
  <2>2. \A o \in Containers : /\ o \in Protected' <=> o \in Protected
                              /\ Unseen(o)' <=> Unseen(o)
                              /\ Right(o)' <=> Right(o)
                              /\ Running(o)' <=> Running(o)
    BY <2>1 DEF Protected, Running, Unseen, InStream, Right
  <2>3. OrderOk'
    BY <1>1, <2>1, PoppedOrders DEF HInv
  <2>4. DownOk' /\ PoolOk'
    BY <1>1, <2>1 DEF HInv, DownOk, PoolOk
  <2>5. TaskOk'
    <3>1. todo \subseteq Containers
      BY DEF IInv, TypeOK, RecType
    <3> QED
      BY <1>1, <2>1, <2>2, <3>1 DEF HInv, TaskOk
  <2>6. SettleOk'
    <3>1. \A o \in Containers : o \in Protected /\ WillVisit(o) => WillVisit(o)'
      BY <1>1, <1>6 DEF WillVisit
    <3> QED
      BY <1>1, <2>1, <2>2, <3>1 DEF HInv, SettleOk, Settles
  <2> QED
    BY <2>3, <2>4, <2>5, <2>6 DEF HInv
<1> QED
  BY <1>3, <1>4, <1>5, <1>6, NoFaults DEF cleanupRules, syncContainers, inspectFails, Visit, Protected, Running

LEMMA PassHandled ==
    ASSUME NothingFails, StreamHolds, IInv, PInv, SInv, HInv,
           Start \/ reconcile \/ reconnect \/ listContainers \/ reconcileDone \/ listContainersFails \/ streamErr
    PROVE  HInv'
<1>1. ~reconnect
  BY DEF reconnect, SInv, StreamOk
<1>2. ~streamErr
  BY DEF streamErr, StreamHolds, IInv, TypeOK, StreamType
<1>3. ~listContainersFails
  BY NoFaults DEF listContainersFails
<1>4. UNCHANGED <<dockerState, dockerAddr, recent, lane, req, snap, vmap, chains, pc, cid, caddr>> /\ pc = "free"
      /\ phase' # "down"
  <2>1. CASE Start
    BY <2>1, NoFaults DEF Start, BeginReconcile, RecOnly, dockerVars, laneVars, fwVars, opVars, HInv, DownOk
  <2>2. CASE reconcile
    <3>1. pc = "free"
      BY <2>2, IdleIsFree DEF reconcile, InPass
    <3> QED
      BY <2>2, <3>1, NoFaults DEF reconcile, BeginReconcile, RecOnly, dockerVars, streamVars, laneVars, fwVars, opVars
  <2>3. CASE listContainers \/ reconcileDone
    BY <2>3 DEF listContainers, reconcileDone, PhaseOver, EndReconcile, RecOnly, dockerVars, streamVars, laneVars,
       fwVars, opVars
  <2> QED
    BY <1>1, <1>2, <1>3, <2>1, <2>2, <2>3
<1>5. DownOk' /\ PoolOk'
  BY <1>4 DEF HInv, DownOk, PoolOk
<1>6. \A o \in Containers : (o \in Protected' <=> o \in Protected) /\ (Right(o)' <=> Right(o))
  BY <1>4 DEF Protected, Running, Right
<1>7. CASE Start
  <2>1. phase = "down" /\ phase' = "cleanup" /\ starting' /\ connected'
    BY <1>7, NoFaults DEF Start, BeginReconcile
  <2>2. \A o \in Containers : req[o] = "none"
    BY <2>1 DEF SInv, StreamOk
  <2>3. TaskOk'
    BY <1>4, <2>1, <2>2 DEF TaskOk
  <2>4. ASSUME NEW o \in Containers PROVE Settles(o)'
    <3>1. CASE o \in Protected
      BY <1>6, <2>1, <3>1 DEF Settles, WillVisit
    <3>2. CASE o \notin Protected
      <4>1. Right(o)
        BY <2>1, <3>2 DEF HInv, DownOk, Right
      <4> QED
        BY <1>6, <4>1 DEF Settles
    <3> QED
      BY <3>1, <3>2
  <2>5. OrderOk'
    BY <1>7, <2>1, StartOrders DEF HInv
  <2> QED
    BY <1>5, <2>3, <2>4, <2>5 DEF HInv, SettleOk
<1>8. CASE reconcile \/ listContainers \/ reconcileDone
  <2>1. UNCHANGED stream /\ phase # "down"
    BY <1>8 DEF reconcile, listContainers, reconcileDone, PhaseOver, streamVars
  <2>2. OrderOk'
    BY <1>4, <2>1, PoppedOrders DEF HInv
  <2>3. \A o \in Containers : Unseen(o)' <=> Unseen(o)
    BY <1>4, <2>1 DEF Unseen, InStream
  <2>4. phase' = "sync" => \A o \in todo' : Running(o)
    BY <1>8, NoFaults DEF reconcile, BeginReconcile, listContainers, reconcileDone, EndReconcile
  <2>5. \A o \in Containers : o \in Protected /\ WillVisit(o) => WillVisit(o)'
    <3>1. CASE reconcile
      BY <3>1 DEF reconcile, WillVisit
    <3>2. CASE listContainers
      BY <3>2 DEF listContainers, PhaseOver, WillVisit, Protected, Enforced
    <3>3. CASE reconcileDone
      BY <3>3 DEF reconcileDone, PhaseOver, WillVisit
    <3> QED
      BY <1>8, <3>1, <3>2, <3>3
  <2>6. TaskOk'
    BY <1>4, <1>6, <2>3, <2>4 DEF HInv, TaskOk, Running
  <2>7. SettleOk'
    BY <1>4, <1>6, <2>1, <2>3, <2>5 DEF HInv, SettleOk, Settles
  <2> QED
    BY <1>5, <2>2, <2>6, <2>7 DEF HInv
<1> QED
  BY <1>1, <1>2, <1>3, <1>7, <1>8

-----------------------------------------------------------------------------
(* The steps of an operation *)

\* The verdict map and the chains change in three steps only.
LEMMA StepMaps ==
    ASSUME NothingFails, IInv, PInv, operationSteps
    PROVE  \/ ensureContainerDropPolicy \/ replaceContainerAddressMappings \/ deleteContainerRulesUntracked
           \/ pc \notin Early /\ pc' \notin Early /\ UNCHANGED <<vmap, chains>>
<1>1. CASE \/ replaceContainerMetadata \/ populateOutputRules \/ createWaitingContainerRules
           \/ finalizeContainerPolicy \/ clearContainerPolicyMetadata
  BY <1>1 DEF replaceContainerMetadata, populateOutputRules, createWaitingContainerRules, finalizeContainerPolicy,
     clearContainerPolicyMetadata, AtStep, Goto, Finish, Early, fwVars
<1>2. CASE replaceContainerPolicy \/ quarantineContainerPolicy
  BY <1>2 DEF replaceContainerPolicy, quarantineContainerPolicy, ReplaceBatch, AtStep, Goto, Early
<1>3. CASE \/ replaceContainerMetadataFails \/ populateOutputRulesFails
           \/ createWaitingContainerRulesFails \/ replaceContainerPolicyFails
  BY <1>3 DEF replaceContainerMetadataFails, populateOutputRulesFails, createWaitingContainerRulesFails,
     replaceContainerPolicyFails, AtStep, Goto, Early, fwVars
<1>4. CASE deleteContainer
  BY <1>4 DEF deleteContainer, AtStep, Finish, Early, fwVars
<1> QED
  BY <1>1, <1>2, <1>3, <1>4, NoFaults, NoRefusals
     DEF operationSteps, createContainerRules, deleteContainerRules, deleteContainerFails,
         ensureContainerDropPolicyFails, newFirewallClientFails, finalizeContainerPolicyFails, clearContainerPolicyMetadataFails

\* With addresses apart, an operation changes the verdicts of its own container only.
LEMMA OwnMapsOnly ==
    ASSUME PoolsApart, NothingFails, IInv, PInv, HInv, operationSteps
    PROVE  /\ \A a \in Addrs : vmap'[a] # None => a \in Pool[vmap'[a]]
           /\ \A a \in Addrs, o \in Containers \ {cid} : vmap'[a] = o <=> vmap[a] = o
<1>1. cid \in Containers /\ vmap \in [Addrs -> MaybeContainer]
  BY StepShape DEF IInv, OpOk, TypeOK, FwType
<1>2. CASE replaceContainerAddressMappings
  <2>1. vmap' = Retargeted /\ pc = "map"
    BY <1>2 DEF replaceContainerAddressMappings, RetargetBatch, AtStep
  <2>2. \A a \in DesiredAddrs : a \in Pool[cid]
    BY <2>1 DEF DesiredAddrs, HInv, PoolOk, CreateSteps
  <2>3. \A a \in DesiredAddrs : vmap[a] \in {None, cid} \/ a \notin Addrs
    <3> SUFFICES ASSUME NEW a \in DesiredAddrs, a \in Addrs, vmap[a] \notin {None, cid} PROVE FALSE
      OBVIOUS
    <3>1. vmap[a] \in Containers /\ a \in Pool[vmap[a]]
      BY <1>1 DEF HInv, PoolOk, MaybeContainer
    <3> QED
      BY <1>1, <2>2, <3>1 DEF PoolsApart
  <2>4. \A a \in Addrs : vmap'[a] = IF a \in DesiredAddrs THEN cid ELSE IF vmap[a] = cid THEN None ELSE vmap[a]
    BY <2>1 DEF Retargeted
  <2> QED
    BY <1>1, <2>2, <2>3, <2>4 DEF HInv, PoolOk
<1>3. CASE deleteContainerRulesUntracked
  <2>1. \A a \in Addrs : vmap'[a] = IF vmap[a] = cid THEN None ELSE vmap[a]
    BY <1>3 DEF deleteContainerRulesUntracked
  <2> QED
    BY <1>1, <2>1 DEF HInv, PoolOk
<1>4. CASE vmap' = vmap
  BY <1>4 DEF HInv, PoolOk
<1> QED
  BY <1>2, <1>3, <1>4, StepMaps DEF ensureContainerDropPolicy

\* What the step that changes the verdict map leaves for its own container.
LEMMA OwnMapsRight ==
    ASSUME NothingFails, IInv, PInv, HInv, operationSteps, NEW c, c = cid, ~Unseen(c), Right(c) \/ pc \in Early
    PROVE  Right(c)' \/ (pc' \in Early /\ cid' = c)
<1>1. cid \in Containers /\ vmap \in [Addrs -> MaybeContainer] /\ pc # "free"
  BY StepShape DEF IInv, OpOk, TypeOK, FwType
<1>2. UNCHANGED dockerVars
  BY StepShape
<1>3. /\ pc \in CreateSteps <=> cid \in Protected
      /\ pc \in CreateSteps => caddr = dockerAddr[cid]
  BY <1>1 DEF HInv, TaskOk
<1>4. Protected' = Protected
  BY <1>2 DEF Protected, Running, dockerVars
<1>5. CASE ensureContainerDropPolicy
  BY <1>5 DEF ensureContainerDropPolicy, Goto, Early
<1>6. CASE replaceContainerAddressMappings
  <2>1. vmap' = Retargeted /\ pc = "map" /\ cid' = cid /\ chains' = chains
    BY <1>6 DEF replaceContainerAddressMappings, RetargetBatch, AtStep, Goto
  <2>2. cid \in Protected /\ caddr = dockerAddr[cid]
    BY <1>3, <2>1 DEF CreateSteps
  <2>3. \A a \in Addrs : vmap'[a] = IF a \in DesiredAddrs THEN cid ELSE IF vmap[a] = cid THEN None ELSE vmap[a]
    BY <2>1 DEF Retargeted
  <2>4. \A a \in Addrs : a \in DesiredAddrs <=> a = dockerAddr[cid]
    BY <2>2 DEF DesiredAddrs
  <2> QED
    BY <1>1, <1>2, <1>4, <2>1, <2>2, <2>3, <2>4 DEF Right, dockerVars
<1>7. CASE deleteContainerRulesUntracked
  <2>1. /\ pc = "deleteFlush" /\ cid' = cid /\ cid \notin chains'
        /\ \A a \in Addrs : vmap'[a] = IF vmap[a] = cid THEN None ELSE vmap[a]
    BY <1>7 DEF deleteContainerRulesUntracked, AtStep, Goto
  <2>2. cid \notin Protected
    BY <1>3, <2>1 DEF CreateSteps
  <2> QED
    BY <1>1, <1>4, <2>1, <2>2 DEF Right
<1>8. CASE pc \notin Early /\ pc' \notin Early /\ UNCHANGED <<vmap, chains>>
  BY <1>2, <1>4, <1>8 DEF Right, dockerVars
<1> QED
  BY <1>5, <1>6, <1>7, <1>8, StepMaps

\* Nothing that was still to be looked at gets lost when an operation returns.
LEMMA UnseenStays ==
    ASSUME IInv, operationSteps, NEW c \in Containers, Unseen(c)
    PROVE  Unseen(c)'
<1>1. pc # "free" /\ UNCHANGED stream /\ cid \in Containers
  BY StepShape DEF streamVars, IInv, OpOk
<1>2. lane \in [Containers -> Seq(EventTypes)] /\ req \in [Containers -> {"none", "create", "delete"}]
  BY DEF IInv, TypeOK, LaneType
<1>3. CASE lane'[c] = lane[c] /\ req'[c] = req[c]
  BY <1>1, <1>3 DEF Unseen, InStream
<1>4. CASE Finish /\ by = "lane" /\ c = cid
  <2>1. req[c] # "none" /\ lane'[c] = Tail(lane[c]) /\ req'[c] = "none"
    BY <1>1, <1>2, <1>4 DEF Finish, IInv, OpOk
  <2>2. CASE InStream(c)
    BY <1>1, <2>2 DEF Unseen, InStream
  <2>3. CASE Len(lane[c]) > 1
    <3>1. Tail(lane[c]) # <<>>
      BY <1>2, <2>3, TailRemains
    <3> QED
      BY <2>1, <3>1 DEF Unseen
  <2> QED
    BY <2>1, <2>2, <2>3 DEF Unseen
<1>5. CASE Finish /\ (by # "lane" \/ c # cid)
  BY <1>1, <1>2, <1>3, <1>5 DEF Finish, laneVars
<1> QED
  BY <1>3, <1>4, <1>5, StepShape DEF laneVars

LEMMA StepHandled ==
    ASSUME PoolsApart, NothingFails, IInv, PInv, SInv, HInv, operationSteps
    PROVE  HInv'
<1>1. pc # "free" /\ cid \in Containers /\ UNCHANGED <<dockerVars, streamVars, recVars>>
  BY StepShape DEF IInv, OpOk
<1>2. phase # "down"
  BY <1>1 DEF HInv, DownOk
<1>3. /\ lane \in [Containers -> Seq(EventTypes)] /\ req \in [Containers -> {"none", "create", "delete"}]
      /\ snap \in [Containers -> MaybeAddr] /\ pc \in {"free"} \cup CreateSteps \cup DeleteSteps
  BY DEF IInv, TypeOK, LaneType, OpType
<1>4. \/ pc' = "free" /\ cid' = None
      \/ /\ pc' # "free" /\ UNCHANGED <<cid, caddr, laneVars>>
         /\ pc' \in CreateSteps => pc \in CreateSteps
         /\ pc' \in DeleteSteps => pc \in DeleteSteps
  BY StepShape DEF Finish
<1>5. \A c \in Containers : /\ lane'[c] = lane[c] \/ (lane[c] # <<>> /\ lane'[c] = Tail(lane[c]))
                            /\ \/ req'[c] = req[c] /\ snap'[c] = snap[c]
                               \/ c = cid /\ req'[c] = "none" /\ snap'[c] = None
  <2>1. CASE Finish /\ by = "lane"
    <3>1. lane[cid] # <<>>
      BY <1>1, <2>1 DEF IInv, OpOk, LaneOk
    <3> QED
      BY <1>1, <1>3, <2>1, <3>1 DEF Finish
  <2>2. CASE UNCHANGED laneVars
    BY <2>2 DEF laneVars
  <2> QED
    BY <2>1, <2>2, StepShape DEF Finish
<1>6. OrderOk'
  BY <1>1, <1>5, PoppedOrders DEF HInv, dockerVars, streamVars, recVars
<1>7. DownOk'
  BY <1>1, <1>2 DEF DownOk, recVars
<1>8. PoolOk'
  <2>1. \A c \in Containers : {dockerAddr'[c], snap'[c]} \subseteq Pool[c] \cup {None}
    BY <1>1, <1>5 DEF HInv, PoolOk, dockerVars
  <2>2. pc' \in CreateSteps => caddr' \in Pool[cid'] \cup {None}
    BY <1>4 DEF HInv, PoolOk, CreateSteps
  <2> QED
    BY <2>1, <2>2, OwnMapsOnly DEF PoolOk
<1>9. Protected' = Protected /\ UNCHANGED dockerAddr
      /\ \A c \in Containers : (WillVisit(c)' <=> WillVisit(c)) /\ (Running(c)' <=> Running(c))
  BY <1>1 DEF Protected, Running, WillVisit, dockerVars, recVars
<1>10. \A c \in Containers : Unseen(c) => Unseen(c)'
  BY UnseenStays
<1>11. TaskOk'
  <2>1. (\A c \in Containers : req[c] # "none" /\ ~Unseen(c) =>
          (req[c] = "create" <=> c \in Protected) /\ (req[c] = "create" => snap[c] = dockerAddr[c]))'
    BY <1>5, <1>9, <1>10 DEF HInv, TaskOk
  <2>2. pc' # "free" => (pc' \in CreateSteps <=> pc \in CreateSteps)
    <3>1. pc' \in {"free"} \cup CreateSteps \cup DeleteSteps /\ CreateSteps \cap DeleteSteps = {}
      BY NextInv DEF IInv, TypeOK, OpType, Next, operationSteps, CreateSteps, DeleteSteps
    <3> QED
      BY <1>4, <3>1
  <2>3. (pc # "free" /\ ~Unseen(cid) =>
          (pc \in CreateSteps <=> cid \in Protected) /\ (pc \in CreateSteps => caddr = dockerAddr[cid]))'
    BY <1>1, <1>4, <1>9, <1>10, <2>2 DEF HInv, TaskOk
  <2>4. (phase = "sync" => \A c \in todo : Running(c) \/ Unseen(c))'
    <3>1. todo \subseteq Containers
      BY DEF IInv, TypeOK, RecType
    <3> QED
      BY <1>1, <1>9, <1>10, <3>1 DEF HInv, TaskOk, recVars
  <2> QED
    BY <2>1, <2>3, <2>4 DEF TaskOk
<1>12. ASSUME NEW c \in Containers, c # cid PROVE Settles(c)'
  <2>1. Settles(c) /\ req'[c] = req[c] /\ ~(pc' # "free" /\ cid' = c)
    BY <1>2, <1>4, <1>5, <1>12 DEF HInv, SettleOk
  <2>2. Right(c) => Right(c)'
    <3>1. \A a \in Addrs : vmap'[a] = c <=> vmap[a] = c
      BY <1>12, OwnMapsOnly
    <3>2. c \in chains' => c \in chains
      BY <1>12, StepShape
    <3> QED
      BY <1>9, <3>1, <3>2 DEF Right
  <2> QED
    BY <1>9, <1>10, <1>12, <2>1, <2>2 DEF Settles
<1>13. ASSUME NEW c \in Containers, c = cid PROVE Settles(c)'
  <2>1. CASE Unseen(c)
    BY <1>10, <2>1 DEF Settles
  <2>2. CASE c \in Protected /\ WillVisit(c)
    BY <1>9, <2>2 DEF Settles
  <2>3. CASE ~Unseen(c) /\ (Right(c) \/ pc \in Early)
    BY <1>13, <2>3, OwnMapsRight DEF Settles
  <2> QED
    BY <1>1, <1>2, <1>13, <2>1, <2>2, <2>3 DEF HInv, SettleOk, Settles
<1> QED
  BY <1>6, <1>7, <1>8, <1>11, <1>12, <1>13 DEF HInv, SettleOk

-----------------------------------------------------------------------------
(* The inductive argument *)

LEMMA InitHandled == ASSUME Init PROVE HInv
<1>1. OrderOk
  BY DEF Init, OrderOk, TellsLast
<1>2. DownOk /\ TaskOk /\ SettleOk
  BY DEF Init, DownOk, TaskOk, SettleOk
<1>3. PoolOk
  BY DEF Init, DockerInit, PoolOk, CreateSteps
<1> QED
  BY <1>1, <1>2, <1>3 DEF HInv

LEMMA NextHandled ==
    ASSUME PoolsApart, NothingFails, StreamHolds, IInv, PInv, SInv, HInv, [Next]_vars
    PROVE  HInv'
<1>1. CASE Docker
  BY <1>1, DockerHandled
<1>2. CASE Events
  BY <1>2, DispatchHandled, HandlerHandled, LockHandled DEF Events
<1>3. CASE operationSteps
  BY <1>3, StepHandled
<1>4. CASE Reconciliation \/ streamErr
  BY <1>4, PassHandled, VisitHandled DEF Reconciliation
<1>5. CASE UNCHANGED vars
  <2>1. UNCHANGED <<dockerVars, streamVars, laneVars, recVars, opVars, fwVars>>
    BY <1>5 DEF vars
  <2>2. OrderOk' /\ DownOk' /\ PoolOk'
    BY <2>1, PoppedOrders DEF HInv, DownOk, PoolOk, dockerVars, streamVars, laneVars, recVars, opVars, fwVars
  <2>3. \A c \in Containers : Unseen(c)' <=> Unseen(c)
    BY <2>1 DEF Unseen, InStream, streamVars, laneVars
  <2> QED
    BY <2>1, <2>2, <2>3, UnseenCarries DEF HInv, Running, dockerVars, laneVars
<1> QED
  BY <1>1, <1>2, <1>3, <1>4, <1>5, NoFaults DEF Next, operationSteps

\* When nothing fails, the stream holds and no address is shared: whenever all
\* events are handled, the verdict map filters exactly the running opted-in
\* containers, at the addresses they have, however Docker's changes, the replay at
\* Start, the lanes and the passes of syncContainers and cleanupRules interleave.
THEOREM EventsSuffice ==
    ASSUME PoolsApart, NothingFails, StreamHolds
    PROVE  Spec => []HandledMeansEnforced
<1>1. Init => HInv
  BY InitHandled
<1>2. IInv /\ PInv /\ SInv /\ HInv /\ [Next]_vars => HInv'
  BY NextHandled
<1>3. ASSUME IInv, HInv, Quiescent PROVE AddressesEnforced /\ NothingElseMapped
  <2>1. /\ phase = "idle" /\ pc = "free" /\ stream = <<>> /\ \A c \in Containers : lane[c] = <<>> /\ req[c] = "none"
    BY <1>3 DEF Quiescent, LanesIdle, IInv, LaneOk
  <2>2. \A c \in Containers : ~Unseen(c)
    BY <2>1 DEF Unseen, InStream
  <2>3. \A c \in Containers : Right(c)
    BY <1>3, <2>1, <2>2 DEF HInv, SettleOk, Settles, WillVisit, Early
  <2>4. dockerAddr \in [Containers -> MaybeAddr] /\ vmap \in [Addrs -> MaybeContainer] /\ chains \subseteq Containers
    BY <1>3 DEF IInv, TypeOK, DockerType, FwType
  <2>5. AddressesEnforced
    BY <2>3, <2>4 DEF AddressesEnforced, Right, Protected, MaybeAddr
  <2>6. NothingElseMapped
    BY <2>3, <2>4 DEF NothingElseMapped, Right, MaybeContainer
  <2> QED
    BY <2>5, <2>6
<1>4. IInv /\ PInv /\ SInv /\ HInv => HandledMeansEnforced
  BY <1>3 DEF HandledMeansEnforced
<1> QED
  BY <1>1, <1>2, <1>4, StaleInvariance, PTL DEF Spec
=============================================================================
