------------------------- MODULE RuleManagerProofs -------------------------
(***************************************************************************)
(* Proofs about RuleManager for any containers, addresses, labels, rules   *)
(* and bounds.                                                             *)
(***************************************************************************)
EXTENDS RuleManager, SequenceTheorems, TLAPS

-----------------------------------------------------------------------------
(* The inductive invariant *)

\* A handler that waits for a result still owns the event at the head of its lane.
LaneOk == \A c \in Containers : req[c] # "none" => lane[c] # <<>>

\* What holds while an operation is under way: its container, that of a lane's
\* operation the handler is waiting, that a create past its first step has its
\* chain, and that edges are only built for a known address.
OpOk ==
    /\ pc # "free" => cid \in Containers
    /\ by = "lane" => pc # "free" /\ req[cid] # "none"
    /\ pc \in CreateSteps \ {"ensureDrop"} => cid \in chains
    /\ pc \in {"populate", "waiting"} => caddr \in Addrs

\* The planned rules are whole edges of the container being worked on.
PlanOk ==
    /\ pc \in {"free", "ensureDrop", "deleteFlush"} => plan = {}
    /\ \A r \in plan : (r.chain = cid \/ r.tag = cid) /\ Mirror(r) \in plan

FwOk == FailClosed /\ EdgesPaired

IInv == TypeOK /\ LaneOk /\ OpOk /\ PlanOk /\ FwOk

USE ConstantsAssumption

-----------------------------------------------------------------------------
(* Lemmas on rules and edges *)

\* The empty stream and the empty lane.
LEMMA NoEvents == <<>> \in Seq(Event) /\ <<>> \in Seq(EventTypes)
OBVIOUS

\* One more event, with or without the first of all.
LEMMA AppendedEvents ==
    ASSUME NEW s \in Seq(Event), NEW e \in Event
    PROVE  Append(s, e) \in Seq(Event) /\ Tail(Append(s, e)) \in Seq(Event)
<1>1. PICK t \in Seq(Event) : t = Append(s, e) /\ t # <<>>
  BY AppendProperties
<1>2. Tail(t) \in Seq(Event)
  BY <1>1, HeadTailProperties
<1> QED
  BY <1>1, <1>2

\* What a new stream replays is made of events.
LEMMA ReplayIsEvents ==
    ASSUME recent \in Seq(Event), addFilters
    PROVE  stream' \in Seq(Event)
<1>1. PICK k \in 0..Len(recent) : stream' = SubSeq(recent, k + 1, Len(recent))
  BY DEF addFilters
<1>2. Len(recent) \in Nat /\ k \in Nat
  OBVIOUS
<1>3. \A i \in (k + 1)..Len(recent) : recent[i] \in Event
  BY <1>2
<1> QED
  BY <1>1, <1>2, <1>3

\* Mirroring a rule twice gives it back.
LEMMA MirrorRule ==
    ASSUME NEW r \in Rule
    PROVE  /\ Mirror(r) \in Rule
           /\ Mirror(r).chain = r.tag /\ Mirror(r).tag = r.chain
           /\ Mirror(Mirror(r)) = r
BY DEF Mirror, Rule

\* Removing every rule incident to some containers keeps the others paired.
LEMMA RemovalKeepsPairs ==
    ASSUME FwType, EdgesPaired, NEW ids, NEW r \in rules \ Incident(ids)
    PROVE  /\ Mirror(r) \in rules \ Incident(ids)
           /\ r.chain \notin ids /\ r.tag \notin ids
<1>1. r \in Rule /\ Mirror(r) \in rules
  BY DEF FwType, EdgesPaired
<1>2. r.chain \notin ids /\ r.tag \notin ids
  BY DEF Incident
<1> QED
  BY <1>1, <1>2, MirrorRule DEF Incident

-----------------------------------------------------------------------------
(* The four nftables batches keep the firewall in order *)

\* The floor is added before anything refers to it.
LEMMA FloorBatch ==
    ASSUME IInv, ensureContainerDropPolicy
    PROVE  FwType' /\ FwOk'
<1>1. cid \in Containers
  BY DEF IInv, OpOk, ensureContainerDropPolicy, AtStep
<1>2. FwType'
  BY <1>1 DEF IInv, TypeOK, FwType, ensureContainerDropPolicy
<1>3. FailClosed'
  BY <1>1 DEF IInv, TypeOK, FwType, FwOk, FailClosed, ensureContainerDropPolicy
<1>4. EdgesPaired'
  BY DEF IInv, FwOk, EdgesPaired, ensureContainerDropPolicy
<1> QED
  BY <1>2, <1>3, <1>4 DEF FwOk

\* Retargeting addresses quarantines the chains that lose one.
LEMMA MapBatch ==
    ASSUME IInv, replaceContainerAddressMappings
    PROVE  FwType' /\ FwOk'
<1>1. cid \in chains /\ cid \in Containers
  BY DEF IInv, OpOk, replaceContainerAddressMappings, RetargetBatch, Retargeted, AtStep, CreateSteps
<1>2. /\ Displaced \subseteq chains
      /\ rules' = rules \ Incident(Displaced)
      /\ shadow' = shadow \ Incident(Displaced)
      /\ drop' = drop \cup Displaced
      /\ chains' = chains
      /\ vmap' = [a \in Addrs |-> IF a \in DesiredAddrs THEN cid
                                 ELSE IF vmap[a] = cid THEN None ELSE vmap[a]]
  BY DEF replaceContainerAddressMappings, RetargetBatch, Retargeted
<1>3. FwType'
  BY <1>1, <1>2 DEF IInv, TypeOK, FwType, MaybeContainer
<1>4. FailClosed'
  <2>1. chains' = drop'
    BY <1>2 DEF IInv, FwOk, FailClosed
  <2>2. ASSUME NEW a \in Addrs, vmap'[a] # None PROVE vmap'[a] \in chains'
    BY <1>1, <1>2, <2>2 DEF IInv, FwOk, FailClosed, TypeOK, FwType
  <2> QED
    BY <2>1, <2>2 DEF FailClosed
<1>5. EdgesPaired'
  <2> SUFFICES ASSUME NEW r \in rules'
               PROVE  r.chain \in chains' /\ r.tag \in chains' /\ Mirror(r) \in rules'
    BY DEF EdgesPaired
  <2>1. r \in rules \ Incident(Displaced)
    BY <1>2
  <2>2. Mirror(r) \in rules \ Incident(Displaced)
    BY <2>1, RemovalKeepsPairs DEF IInv, TypeOK, FwOk
  <2> QED
    BY <1>2, <2>1, <2>2 DEF IInv, FwOk, EdgesPaired
<1> QED
  BY <1>3, <1>4, <1>5 DEF FwOk

\* Rebuilding a container's policy replaces whole edges by whole edges.
LEMMA PolicyBatch ==
    ASSUME IInv, cid \in Containers, NEW desired, ReplaceBatch(desired),
           desired \subseteq Rule,
           \A r \in desired : r.chain \in chains /\ r.tag \in chains /\ Mirror(r) \in desired
    PROVE  FwType' /\ FwOk'
<1>1. /\ cid \in chains
      /\ rules' = (rules \ Incident({cid})) \cup desired
      /\ shadow' = shadow \ Incident({cid})
      /\ drop' = drop \cup {cid}
      /\ chains' = chains /\ vmap' = vmap
  BY DEF ReplaceBatch
<1>2. FwType'
  BY <1>1 DEF IInv, TypeOK, FwType
<1>3. FailClosed'
  BY <1>1 DEF IInv, FwOk, FailClosed
<1>4. EdgesPaired'
  <2> SUFFICES ASSUME NEW r \in rules'
               PROVE  r.chain \in chains' /\ r.tag \in chains' /\ Mirror(r) \in rules'
    BY DEF EdgesPaired
  <2>1. CASE r \in desired
    BY <1>1, <2>1
  <2>2. CASE r \in rules \ Incident({cid})
    <3>1. Mirror(r) \in rules \ Incident({cid})
      BY <2>2, RemovalKeepsPairs DEF IInv, TypeOK, FwOk
    <3> QED
      BY <1>1, <2>2, <3>1 DEF IInv, FwOk, EdgesPaired
  <2> QED
    BY <1>1, <2>1, <2>2
<1> QED
  BY <1>2, <1>3, <1>4 DEF FwOk

\* Deleting a container takes its chain, its mappings and its edges at once.
LEMMA DeleteBatch ==
    ASSUME IInv, deleteContainerRulesUntracked
    PROVE  FwType' /\ FwOk'
<1>1. /\ rules' = rules \ Incident({cid})
      /\ shadow' = shadow \ Incident({cid})
      /\ drop' = drop \ {cid}
      /\ chains' = chains \ {cid}
      /\ vmap' = [a \in Addrs |-> IF vmap[a] = cid THEN None ELSE vmap[a]]
  BY DEF deleteContainerRulesUntracked
<1>2. FwType'
  BY <1>1 DEF IInv, TypeOK, FwType, MaybeContainer
<1>3. FailClosed'
  <2>1. chains' = drop'
    BY <1>1 DEF IInv, FwOk, FailClosed
  <2>2. ASSUME NEW a \in Addrs, vmap'[a] # None PROVE vmap'[a] \in chains'
    BY <1>1, <2>2 DEF IInv, FwOk, FailClosed, TypeOK, FwType
  <2> QED
    BY <2>1, <2>2 DEF FailClosed
<1>4. EdgesPaired'
  <2> SUFFICES ASSUME NEW r \in rules'
               PROVE  r.chain \in chains' /\ r.tag \in chains' /\ Mirror(r) \in rules'
    BY DEF EdgesPaired
  <2>1. r \in rules \ Incident({cid})
    BY <1>1
  <2>2. Mirror(r) \in rules \ Incident({cid}) /\ r.chain # cid /\ r.tag # cid
    BY <2>1, RemovalKeepsPairs DEF IInv, TypeOK, FwOk
  <2> QED
    BY <1>1, <2>1, <2>2 DEF IInv, FwOk, EdgesPaired
<1> QED
  BY <1>2, <1>3, <1>4 DEF FwOk

-----------------------------------------------------------------------------
(* The operation in progress and the lanes *)

OpInv == OpType /\ OpOk /\ PlanOk
LaneInv == LaneType /\ LaneOk

\* An operation that returns hands its lane the next event.
LEMMA FinishKeeps ==
    ASSUME IInv, pc # "free", Finish
    PROVE  OpInv' /\ LaneInv'
<1>1. OpInv'
  BY DEF Finish, OpInv, OpType, OpOk, PlanOk, CreateSteps, MaybeContainer, MaybeAddr
<1>2. LaneInv'
  <2>1. CASE by = "lane"
    <3>1. cid \in Containers /\ lane[cid] # <<>> /\ lane[cid] \in Seq(EventTypes)
      BY <2>1 DEF IInv, OpOk, LaneOk, TypeOK, LaneType
    <3>2. Tail(lane[cid]) \in Seq(EventTypes)
      BY <3>1
    <3>3. /\ lane' = [lane EXCEPT ![cid] = Tail(lane[cid])]
          /\ req' = [req EXCEPT ![cid] = "none"]
          /\ snap' = [snap EXCEPT ![cid] = None]
      BY <2>1 DEF Finish
    <3>4. LaneType'
      BY <3>1, <3>2, <3>3 DEF LaneType, IInv, TypeOK, MaybeAddr
    <3>5. ASSUME NEW c \in Containers, req'[c] # "none" PROVE lane'[c] # <<>>
      <4>1. c # cid
        BY <3>1, <3>3, <3>5 DEF LaneType, IInv, TypeOK
      <4>2. req'[c] = req[c] /\ lane'[c] = lane[c]
        BY <3>3, <4>1 DEF LaneType, IInv, TypeOK
      <4> QED
        BY <3>5, <4>2 DEF IInv, LaneOk
    <3> QED
      BY <3>4, <3>5 DEF LaneInv, LaneOk
  <2>2. CASE by # "lane"
    BY <2>2 DEF Finish, LaneInv, LaneType, LaneOk, IInv, TypeOK, laneVars
  <2> QED
    BY <2>1, <2>2
<1> QED
  BY <1>1, <1>2

\* Moving on to another step of the same operation.
LEMMA GotoKeeps ==
    ASSUME IInv, pc # "free", NEW step, Goto(step),
           step \in (CreateSteps \ {"ensureDrop", "waiting"}) \cup {"deleteCommit"},
           step # "deleteCommit" => cid \in chains',
           step = "populate" => caddr # None
    PROVE  OpInv' /\ LaneInv'
<1>1. LaneInv'
  BY DEF Goto, LaneInv, LaneType, LaneOk, IInv, TypeOK, laneVars
<1>2. OpInv'
  BY DEF Goto, OpInv, OpType, OpOk, PlanOk, IInv, TypeOK, CreateSteps, DeleteSteps,
         MaybeAddr, laneVars
<1> QED
  BY <1>1, <1>2

\* Taking policyMu.
LEMMA BeginOpKeeps ==
    ASSUME IInv, NEW c \in Containers, NEW kind, NEW addr \in MaybeAddr, NEW who,
           BeginOp(c, kind, addr, who), who \in {"lane", "rec"},
           who = "lane" => req[c] # "none", UNCHANGED laneVars
    PROVE  OpInv' /\ LaneInv'
<1>1. LaneInv'
  BY DEF LaneInv, LaneType, LaneOk, IInv, TypeOK, laneVars
<1>2. OpInv'
  BY DEF BeginOp, OpInv, OpType, OpOk, PlanOk, IInv, TypeOK, CreateSteps, DeleteSteps,
         MaybeAddr, MaybeContainer, laneVars
<1> QED
  BY <1>1, <1>2

\* populateOutputRules plans edges from the container to its running peers.
LEMMA PopulateKeeps ==
    ASSUME IInv, populateOutputRules
    PROVE  OpInv' /\ LaneInv'
<1>1. LaneInv'
  BY DEF populateOutputRules, createOutputRules, LaneInv, LaneType, LaneOk, IInv, TypeOK, laneVars
<1>2. /\ cid \in Containers /\ caddr \in Addrs /\ cid \in chains
      /\ pc' = "waiting" /\ cid' = cid /\ caddr' = caddr /\ by' = by
      /\ req' = req /\ chains' = chains
  BY DEF populateOutputRules, createOutputRules, AtStep, IInv, OpOk, CreateSteps, laneVars, fwVars
<1> DEFINE peers == UNION {Peers(n) : n \in OutputNames(cid)}
<1>3. /\ plan' = UNION {Edge(cid, caddr, d, dockerAddr[d]) : d \in peers \cap rows}
      /\ newWaiting' =
            {[src |-> cid, dst |-> NameOf[d], resolved |-> d] : d \in peers} \cup
            {[src |-> cid, dst |-> n, resolved |-> None] :
                n \in {m \in OutputNames(cid) : Peers(m) = {}}}
  BY DEF populateOutputRules, createOutputRules
<1>4. ASSUME NEW d \in peers PROVE d \in Containers /\ dockerAddr[d] \in Addrs
  BY DEF populateOutputRules, createOutputRules, PeerError, PeerUnusable, Peers, IInv, TypeOK, DockerType, MaybeAddr
<1>5. plan' \subseteq Rule /\ \A r \in plan' : (r.chain = cid \/ r.tag = cid) /\ Mirror(r) \in plan'
  <2> SUFFICES ASSUME NEW r \in plan'
               PROVE  r \in Rule /\ (r.chain = cid \/ r.tag = cid) /\ Mirror(r) \in plan'
    OBVIOUS
  <2>1. PICK d \in peers \cap rows : r \in Edge(cid, caddr, d, dockerAddr[d])
    BY <1>3
  <2>2. /\ r \in Rule
        /\ Mirror(r) \in Edge(cid, caddr, d, dockerAddr[d])
        /\ {r.chain, r.tag} = {cid, d}
    <3>1. d \in Containers /\ dockerAddr[d] \in Addrs
      BY <1>4
    <3> HIDE DEF peers
    <3> QED
      BY <1>2, <2>1, <3>1 DEF Edge, Rule, Mirror
  <2> QED
    BY <1>3, <2>1, <2>2
<1>6. newWaiting' \subseteq WaitingRow
  <2>1. OutputNames(cid) \subseteq Names
    BY <1>2 DEF OutputNames, ConstantsAssumption
  <2> QED
    BY <1>2, <1>3, <1>4, <2>1 DEF WaitingRow, MaybeContainer, ConstantsAssumption
<1>7. OpType'
  BY <1>2, <1>5, <1>6 DEF OpType, IInv, TypeOK, CreateSteps, MaybeContainer, MaybeAddr
<1>8. OpOk' /\ PlanOk'
  BY <1>2, <1>5 DEF OpOk, PlanOk, IInv
<1> QED
  BY <1>1, <1>7, <1>8 DEF OpInv

\* createWaitingContainerRules adds edges from the sources that waited for it.
LEMMA WaitingKeeps ==
    ASSUME IInv, createWaitingContainerRules
    PROVE  OpInv' /\ LaneInv'
<1>1. LaneInv'
  BY DEF createWaitingContainerRules, LaneInv, LaneType, LaneOk, IInv, TypeOK, laneVars
<1>2. /\ cid \in Containers /\ caddr \in Addrs /\ cid \in chains
      /\ pc' = "replace" /\ cid' = cid /\ caddr' = caddr /\ by' = by
      /\ newWaiting' = newWaiting /\ req' = req /\ chains' = chains
  BY DEF createWaitingContainerRules, AtStep, IInv, OpOk, CreateSteps, laneVars, fwVars
<1>3. plan' = plan \cup UNION {Edge(s, dockerAddr[s], cid, caddr) : s \in ApplicableSources}
  BY DEF createWaitingContainerRules
<1>4. ASSUME NEW s \in ApplicableSources PROVE s \in Containers /\ dockerAddr[s] \in Addrs
  <2>1. s \in Containers
    BY DEF ApplicableSources, IInv, TypeOK, DbType
  <2> QED
    BY <2>1 DEF createWaitingContainerRules, SourceError, SourceUnusable, IInv, TypeOK,
                DockerType, MaybeAddr
<1>5. plan' \subseteq Rule /\ \A r \in plan' : (r.chain = cid \/ r.tag = cid) /\ Mirror(r) \in plan'
  <2> SUFFICES ASSUME NEW r \in plan'
               PROVE  r \in Rule /\ (r.chain = cid \/ r.tag = cid) /\ Mirror(r) \in plan'
    OBVIOUS
  <2>1. CASE r \in plan
    BY <1>3, <2>1 DEF IInv, PlanOk, TypeOK, OpType
  <2>2. CASE r \notin plan
    <3>1. PICK s \in ApplicableSources : r \in Edge(s, dockerAddr[s], cid, caddr)
      BY <1>3, <2>2
    <3>2. /\ r \in Rule
          /\ Mirror(r) \in Edge(s, dockerAddr[s], cid, caddr)
          /\ {r.chain, r.tag} = {s, cid}
      <4>1. s \in Containers /\ dockerAddr[s] \in Addrs
        BY <1>4
      <4> QED
        BY <1>2, <3>1, <4>1 DEF Edge, Rule, Mirror
    <3> QED
      BY <1>3, <3>1, <3>2
  <2> QED
    BY <2>1, <2>2
<1>6. OpType'
  BY <1>2, <1>5 DEF OpType, IInv, TypeOK, CreateSteps
<1>7. OpOk' /\ PlanOk'
  BY <1>2, <1>5 DEF OpOk, PlanOk, IInv
<1> QED
  BY <1>1, <1>6, <1>7 DEF OpInv

-----------------------------------------------------------------------------
(* One lemma per group of actions *)

\* What a step leaves alone keeps its part of the invariant.
LEMMA Untouched ==
    ASSUME IInv
    PROVE  /\ UNCHANGED dockerVars => DockerType'
           /\ UNCHANGED streamVars => StreamType'
           /\ UNCHANGED laneVars => LaneInv'
           /\ UNCHANGED recVars => RecType'
           /\ UNCHANGED fwVars => FwType' /\ FwOk'
           /\ UNCHANGED <<opVars, req, chains>> => OpInv'
           /\ UNCHANGED <<dbVars, faults>> => DbType'
<1>1. UNCHANGED dockerVars => DockerType'
  BY DEF IInv, TypeOK, DockerType, dockerVars
<1>2. UNCHANGED streamVars => StreamType'
  BY DEF IInv, TypeOK, StreamType, streamVars
<1>3. UNCHANGED laneVars => LaneInv'
  BY DEF IInv, TypeOK, LaneInv, LaneType, LaneOk, laneVars
<1>4. UNCHANGED recVars => RecType'
  BY DEF IInv, TypeOK, RecType, recVars
<1>5. UNCHANGED fwVars => FwType' /\ FwOk'
  BY DEF IInv, TypeOK, FwType, FwOk, FailClosed, EdgesPaired, fwVars
<1>6. UNCHANGED <<opVars, req, chains>> => OpInv'
  BY DEF IInv, TypeOK, OpInv, OpType, OpOk, PlanOk, opVars
<1>7. UNCHANGED <<dbVars, faults>> => DbType'
  BY DEF IInv, TypeOK, DbType, dbVars
<1> QED
  BY <1>1, <1>2, <1>3, <1>4, <1>5, <1>6, <1>7

\* A failing call is counted and changes no table.
LEMMA FailureCounts ==
    ASSUME IInv, UNCHANGED dbVars, UNCHANGED faults \/ Fault
    PROVE  DbType'
BY DEF IInv, TypeOK, DbType, dbVars, Fault

\* Docker's own steps only touch Docker and the stream.
LEMMA DockerKeeps ==
    ASSUME IInv, Docker
    PROVE  IInv'
<1>1. PICK c \in Containers :
        DockerStart(c) \/ DockerDie(c) \/ DockerRemove(c) \/ DockerDisconnect(c) \/ DockerConnect(c)
  BY DEF Docker
<1>2. DockerChange
  BY <1>1 DEF DockerStart, DockerDie, DockerRemove, DockerDisconnect, DockerConnect
<1>3. DockerType'
  <2>1. changes' \in Nat
    BY <1>2 DEF DockerChange, IInv, TypeOK, DockerType
  <2>2. FreeAddrs(c) \subseteq Addrs
    BY DEF FreeAddrs
  <2>3. dockerState' \in [Containers -> DockerStates] /\ dockerAddr' \in [Containers -> MaybeAddr]
    <3>1. CASE DockerStart(c)
      BY <2>2, <3>1 DEF DockerStart, IInv, TypeOK, DockerType, DockerStates, MaybeAddr
    <3>2. CASE DockerDie(c)
      BY <3>2 DEF DockerDie, IInv, TypeOK, DockerType, DockerStates, MaybeAddr
    <3>3. CASE DockerRemove(c)
      BY <3>3 DEF DockerRemove, IInv, TypeOK, DockerType, DockerStates, MaybeAddr
    <3>4. CASE DockerDisconnect(c)
      BY <3>4 DEF DockerDisconnect, IInv, TypeOK, DockerType, DockerStates, MaybeAddr
    <3>5. CASE DockerConnect(c)
      BY <2>2, <3>5 DEF DockerConnect, IInv, TypeOK, DockerType, DockerStates, MaybeAddr
    <3> QED
      BY <1>1, <3>1, <3>2, <3>3, <3>4, <3>5
  <2> QED
    BY <2>1, <2>3 DEF DockerType
<1>4. StreamType'
  <2>1. connected' = connected /\ breaks' = breaks
    BY <1>2 DEF DockerChange
  <2>2. CASE UNCHANGED <<stream, recent>>
    BY <2>1, <2>2 DEF IInv, TypeOK, StreamType
  <2>3. ASSUME NEW t \in EventTypes, Emit(c, t) PROVE StreamType'
    <3>1. stream \in Seq(Event) /\ recent \in Seq(Event)
      BY DEF IInv, TypeOK, StreamType
    <3>2. PICK e \in Event : /\ stream' = stream \/ stream' = Append(stream, e)
                             /\ recent' = Tail(Append(recent, e)) \/ recent' = Append(recent, e)
      BY <2>3 DEF Emit, Event
    <3>3. /\ Append(stream, e) \in Seq(Event) /\ Append(recent, e) \in Seq(Event)
          /\ Tail(Append(recent, e)) \in Seq(Event)
      BY <3>1, AppendedEvents, Zenon
    <3>4. stream' \in Seq(Event) /\ recent' \in Seq(Event)
      BY <3>1, <3>2, <3>3, Zenon
    <3> QED
      BY <2>1, <3>4 DEF IInv, TypeOK, StreamType
  <2> QED
    BY <1>1, <2>2, <2>3 DEF DockerStart, DockerDie, DockerRemove, DockerDisconnect, DockerConnect,
                            EventTypes
<1>5. UNCHANGED <<laneVars, recVars, opVars, fwVars, dbVars, faults>>
  BY <1>2 DEF DockerChange
<1> QED
  BY <1>3, <1>4, <1>5, Untouched DEF IInv, TypeOK, LaneInv, OpInv, laneVars, fwVars

\* Dispatching moves one event from the stream to its lane.
LEMMA DispatchKeeps ==
    ASSUME IInv, dispatch
    PROVE  IInv'
<1>1. stream # <<>> /\ stream \in Seq(Event)
  BY DEF dispatch, IInv, TypeOK, StreamType
<1>2. Head(stream) \in Event
  BY <1>1
<1>3. Tail(stream) \in Seq(Event)
  BY <1>1
<1>4. StreamType'
  BY <1>3 DEF dispatch, IInv, TypeOK, StreamType
<1>5. PICK c \in Containers, t \in EventTypes : lane' = [lane EXCEPT ![c] = Append(lane[c], t)]
  BY <1>2 DEF dispatch, Event
<1>6. lane[c] \in Seq(EventTypes)
  BY DEF IInv, TypeOK, LaneType
<1>7. Append(lane[c], t) \in Seq(EventTypes) /\ Append(lane[c], t) # <<>>
  BY <1>6
<1>8. LaneInv'
  <2>0. req' = req /\ snap' = snap
    BY DEF dispatch
  <2>1. LaneType'
    BY <1>5, <1>7, <2>0 DEF IInv, TypeOK, LaneType
  <2>2. ASSUME NEW o \in Containers, req'[o] # "none" PROVE lane'[o] # <<>>
    <3>1. lane'[o] = IF o = c THEN Append(lane[c], t) ELSE lane[o]
      BY <1>5 DEF IInv, TypeOK, LaneType
    <3>2. req[o] # "none"
      BY <2>2 DEF dispatch
    <3> QED
      BY <1>7, <3>1, <3>2 DEF IInv, LaneOk
  <2> QED
    BY <2>1, <2>2 DEF LaneInv, LaneOk
<1>9. UNCHANGED <<req, dockerVars, recVars, opVars, fwVars, dbVars, faults>>
  BY DEF dispatch
<1> QED
  BY <1>4, <1>8, <1>9, Untouched DEF IInv, TypeOK, LaneInv, OpInv, fwVars

\* A handler drops its event or asks for a create or a delete and waits.
LEMMA HandlerKeeps ==
    ASSUME IInv, NEW c \in Containers, handleDockerEvent(c)
    PROVE  IInv'
<1>1. /\ lane[c] # <<>> /\ req[c] = "none" /\ lane[c] \in Seq(EventTypes)
      /\ UNCHANGED HandlerVars
  BY DEF handleDockerEvent, handleDie, handleIgnored, handleInspected, HandlerReady,
         IInv, TypeOK, LaneType
<1>2. DbType'
  BY <1>1, FailureCounts DEF handleDockerEvent, handleDie, handleIgnored, handleInspected,
                             HandlerVars, Fails
<1>3. HandlerReturns(c) \/ \E k \in {"create", "delete"}, a \in MaybeAddr : HandlerSends(c, k, a)
  BY DEF handleDockerEvent, handleDie, handleIgnored, handleInspected, IInv, TypeOK,
         DockerType, MaybeAddr
<1>4. LaneInv' /\ (by = "lane" => req'[cid] # "none")
  <2>1. CASE HandlerReturns(c)
    <3>1. Tail(lane[c]) \in Seq(EventTypes)
      BY <1>1
    <3>2. LaneType'
      BY <2>1, <3>1 DEF HandlerReturns, IInv, TypeOK, LaneType
    <3>3. ASSUME NEW o \in Containers, req'[o] # "none" PROVE lane'[o] # <<>>
      BY <1>1, <2>1, <3>3 DEF HandlerReturns, IInv, TypeOK, LaneType, LaneOk
    <3>4. by = "lane" => req'[cid] # "none"
      BY <2>1 DEF HandlerReturns, IInv, OpOk
    <3> QED
      BY <3>2, <3>3, <3>4 DEF LaneInv, LaneOk
  <2>2. ASSUME NEW k \in {"create", "delete"}, NEW a \in MaybeAddr, HandlerSends(c, k, a)
        PROVE  LaneInv' /\ (by = "lane" => req'[cid] # "none")
    BY <1>1, <2>2 DEF HandlerSends, IInv, TypeOK, LaneType, LaneInv, LaneOk, OpOk
  <2> QED
    BY <1>3, <2>1, <2>2
<1>5. OpInv'
  BY <1>1, <1>4 DEF HandlerVars, IInv, TypeOK, OpInv, OpType, OpOk, PlanOk, opVars, fwVars
<1> QED
  BY <1>1, <1>2, <1>4, <1>5, Untouched DEF HandlerVars, IInv, TypeOK, LaneInv, OpInv

\* An operation starts on behalf of a lane.
LEMMA LockKeeps ==
    ASSUME IInv, NEW c \in Containers, lockPolicyMu(c)
    PROVE  IInv'
<1>1. snap[c] \in MaybeAddr /\ UNCHANGED laneVars
  BY DEF lockPolicyMu, IInv, TypeOK, LaneType
<1>2. OpInv' /\ LaneInv'
  BY <1>1, BeginOpKeeps DEF lockPolicyMu
<1> QED
  BY <1>2, Untouched DEF lockPolicyMu, IInv, TypeOK, LaneInv, OpInv

\* The parts of the invariant an operation's step can disturb.
LEMMA StepKeeps ==
    ASSUME IInv, NEW step, AtStep(step), OpInv', LaneInv', FwType', FwOk', DbType'
    PROVE  IInv'
BY Untouched DEF AtStep, IInv, TypeOK, OpInv, LaneInv

\* The failure branches: to the rollback, or out of the operation.
LEMMA FailureKeeps ==
    ASSUME IInv, NEW step, AtStep(step), step # "free",
           UNCHANGED faults \/ Fault, UNCHANGED <<fwVars, dbVars>>,
           \/ Finish
           \/ Goto("quarantine") /\ cid \in chains
           \/ Goto("clear") /\ cid \in chains
    PROVE  IInv'
<1>1. DbType' /\ FwType' /\ FwOk' /\ pc # "free" /\ chains' = chains
  BY Untouched, FailureCounts DEF AtStep, fwVars
<1>2. OpInv' /\ LaneInv'
  <2>1. CASE Finish
    BY <1>1, <2>1, FinishKeeps
  <2>2. CASE Goto("quarantine") /\ cid \in chains
    BY <1>1, <2>2, GotoKeeps DEF CreateSteps
  <2>3. CASE Goto("clear") /\ cid \in chains
    BY <1>1, <2>3, GotoKeeps DEF CreateSteps
  <2> QED
    BY <2>1, <2>2, <2>3
<1> QED
  BY <1>1, <1>2, StepKeeps

\* The steps of createContainerRules that succeed.
LEMMA CreateKeeps ==
    ASSUME IInv
    PROVE  /\ ensureContainerDropPolicy => IInv'
           /\ replaceContainerAddressMappings => IInv'
           /\ replaceContainerMetadata => IInv'
           /\ populateOutputRules => IInv'
           /\ createWaitingContainerRules => IInv'
           /\ replaceContainerPolicy => IInv'
           /\ finalizeContainerPolicy => IInv'
           /\ quarantineContainerPolicy => IInv'
           /\ clearContainerPolicyMetadata => IInv'
<1>1. ASSUME ensureContainerDropPolicy PROVE IInv'
  <2>1. OpInv' /\ LaneInv'
    BY <1>1, GotoKeeps DEF ensureContainerDropPolicy, AtStep, CreateSteps
  <2> QED
    BY <1>1, <2>1, FloorBatch, Untouched, StepKeeps DEF ensureContainerDropPolicy
<1>2. ASSUME replaceContainerAddressMappings PROVE IInv'
  <2>1. pc = "map" /\ cid \in chains /\ chains' = chains
    BY <1>2 DEF replaceContainerAddressMappings, RetargetBatch, Retargeted, AtStep, IInv, OpOk, CreateSteps
  <2>2. OpInv' /\ LaneInv'
    BY <1>2, <2>1, GotoKeeps DEF replaceContainerAddressMappings, RetargetBatch, Retargeted, CreateSteps
  <2> QED
    BY <1>2, <2>2, MapBatch, Untouched, StepKeeps DEF replaceContainerAddressMappings, RetargetBatch, Retargeted
<1>3. ASSUME replaceContainerMetadata PROVE IInv'
  <2>1. /\ pc = "metadata" /\ cid \in chains /\ cid \in Containers
        /\ UNCHANGED fwVars /\ chains' = chains
    BY <1>3 DEF replaceContainerMetadata, AtStep, IInv, OpOk, CreateSteps, fwVars
  <2>2. OpInv' /\ LaneInv'
    BY <1>3, <2>1, GotoKeeps DEF replaceContainerMetadata, CreateSteps, DesiredAddrs
  <2>3. DbType'
    BY <1>3, <2>1 DEF replaceContainerMetadata, IInv, TypeOK, DbType
  <2> QED
    BY <1>3, <2>1, <2>2, <2>3, Untouched, StepKeeps DEF replaceContainerMetadata
<1>4. ASSUME populateOutputRules PROVE IInv'
  BY <1>4, PopulateKeeps, Untouched, StepKeeps DEF populateOutputRules, createOutputRules
<1>5. ASSUME createWaitingContainerRules PROVE IInv'
  BY <1>5, WaitingKeeps, Untouched, StepKeeps DEF createWaitingContainerRules
<1>6. ASSUME replaceContainerPolicy PROVE IInv'
  <2>1. pc = "replace" /\ cid \in chains /\ cid \in Containers /\ chains' = chains
    BY <1>6 DEF replaceContainerPolicy, ReplaceBatch, AtStep, IInv, OpOk, CreateSteps
  <2>2. OpInv' /\ LaneInv'
    BY <1>6, <2>1, GotoKeeps DEF replaceContainerPolicy, CreateSteps
  <2>3. ASSUME NEW r \in plan
        PROVE  r.chain \in chains /\ r.tag \in chains /\ Mirror(r) \in plan
    <3>1. r \in Rule /\ Mirror(r) \in plan
      BY DEF IInv, TypeOK, OpType, PlanOk
    <3>2. r.chain \in chains /\ Mirror(r).chain \in chains
      BY <1>6, <3>1 DEF replaceContainerPolicy, MissingChain
    <3> QED
      BY <3>1, <3>2, MirrorRule
  <2>4. FwType' /\ FwOk'
    BY <1>6, <2>1, <2>3, PolicyBatch DEF replaceContainerPolicy, IInv, TypeOK, OpType
  <2> QED
    BY <1>6, <2>2, <2>4, Untouched, StepKeeps DEF replaceContainerPolicy
<1>7. ASSUME finalizeContainerPolicy PROVE IInv'
  <2>1. OpInv' /\ LaneInv'
    BY <1>7, FinishKeeps DEF finalizeContainerPolicy, AtStep
  <2>2. DbType'
    BY <1>7 DEF finalizeContainerPolicy, PolicyRows, IInv, TypeOK, DbType, OpType
  <2> QED
    BY <1>7, <2>1, <2>2, Untouched, StepKeeps DEF finalizeContainerPolicy
<1>8. ASSUME quarantineContainerPolicy PROVE IInv'
  <2>1. pc = "quarantine" /\ cid \in chains /\ cid \in Containers /\ chains' = chains
    BY <1>8 DEF quarantineContainerPolicy, ReplaceBatch, AtStep, IInv, OpOk, CreateSteps
  <2>2. OpInv' /\ LaneInv'
    BY <1>8, <2>1, GotoKeeps DEF quarantineContainerPolicy, CreateSteps
  <2>3. FwType' /\ FwOk'
    BY <1>8, <2>1, PolicyBatch DEF quarantineContainerPolicy
  <2> QED
    BY <1>8, <2>2, <2>3, Untouched, StepKeeps DEF quarantineContainerPolicy
<1>9. ASSUME clearContainerPolicyMetadata PROVE IInv'
  <2>1. OpInv' /\ LaneInv'
    BY <1>9, FinishKeeps DEF clearContainerPolicyMetadata, AtStep
  <2>2. DbType'
    BY <1>9 DEF clearContainerPolicyMetadata, IInv, TypeOK, DbType
  <2> QED
    BY <1>9, <2>1, <2>2, Untouched, StepKeeps DEF clearContainerPolicyMetadata
<1> QED
  BY <1>1, <1>2, <1>3, <1>4, <1>5, <1>6, <1>7, <1>8, <1>9

\* The steps of createContainerRules that fail.
LEMMA CreateFailureKeeps ==
    ASSUME IInv
    PROVE  /\ ensureContainerDropPolicyFails => IInv'
           /\ replaceContainerAddressMappingsFails => IInv'
           /\ replaceContainerMetadataFails => IInv'
           /\ populateOutputRulesFails => IInv'
           /\ createWaitingContainerRulesFails => IInv'
           /\ replaceContainerPolicyFails => IInv'
           /\ finalizeContainerPolicyFails => IInv'
           /\ quarantineContainerPolicyFails => IInv'
           /\ clearContainerPolicyMetadataFails => IInv'
           /\ newFirewallClientFails => IInv'
<1>0. pc \in CreateSteps \ {"ensureDrop"} => cid \in chains
  BY DEF IInv, OpOk
<1>1. ensureContainerDropPolicyFails => IInv'
  BY FailureKeeps DEF ensureContainerDropPolicyFails
<1>2. replaceContainerAddressMappingsFails => IInv'
  BY <1>0, FailureKeeps DEF replaceContainerAddressMappingsFails, AtStep, Fails, CreateSteps
<1>3. replaceContainerMetadataFails => IInv'
  BY <1>0, FailureKeeps DEF replaceContainerMetadataFails, AtStep, Fails, CreateSteps
<1>4. populateOutputRulesFails => IInv'
  BY <1>0, FailureKeeps DEF populateOutputRulesFails, AtStep, Fails, CreateSteps
<1>5. createWaitingContainerRulesFails => IInv'
  BY <1>0, FailureKeeps DEF createWaitingContainerRulesFails, AtStep, Fails, CreateSteps
<1>6. replaceContainerPolicyFails => IInv'
  BY <1>0, FailureKeeps DEF replaceContainerPolicyFails, AtStep, Fails, CreateSteps
<1>7. finalizeContainerPolicyFails => IInv'
  BY <1>0, FailureKeeps DEF finalizeContainerPolicyFails, AtStep, CreateSteps
<1>8. quarantineContainerPolicyFails => IInv'
  BY <1>0, FailureKeeps DEF quarantineContainerPolicyFails, AtStep, Fails, CreateSteps
<1>9. clearContainerPolicyMetadataFails => IInv'
  BY FailureKeeps DEF clearContainerPolicyMetadataFails
<1>10. newFirewallClientFails => IInv'
  BY FailureKeeps DEF newFirewallClientFails
<1> QED
  BY <1>1, <1>2, <1>3, <1>4, <1>5, <1>6, <1>7, <1>8, <1>9, <1>10

\* The steps of deleteContainerRules.
LEMMA DeleteKeeps ==
    ASSUME IInv, deleteContainerRules
    PROVE  IInv'
<1>1. CASE deleteContainerRulesUntracked
  <2>1. OpInv' /\ LaneInv'
    BY <1>1, GotoKeeps DEF deleteContainerRulesUntracked, AtStep
  <2> QED
    BY <1>1, <2>1, DeleteBatch, Untouched, StepKeeps DEF deleteContainerRulesUntracked
<1>2. CASE deleteContainer
  <2>1. OpInv' /\ LaneInv'
    BY <1>2, FinishKeeps DEF deleteContainer, AtStep
  <2>2. DbType'
    BY <1>2 DEF deleteContainer, IInv, TypeOK, DbType
  <2> QED
    BY <1>2, <2>1, <2>2, Untouched, StepKeeps DEF deleteContainer
<1>3. CASE deleteContainerFails
  BY <1>3, FailureKeeps DEF deleteContainerFails
<1> QED
  BY <1>1, <1>2, <1>3 DEF deleteContainerRules

\* Beginning, ending and abandoning a reconciliation.
LEMMA PassKeeps ==
    ASSUME IInv
    PROVE  /\ Start => IInv'
           /\ reconcile => IInv'
           /\ reconnect => IInv'
           /\ listContainers => IInv'
           /\ listContainersFails => IInv'
           /\ reconcileDone => IInv'
           /\ streamErr => IInv'
<1>1. ASSUME UNCHANGED <<dockerVars, laneVars, fwVars, dbVars, opVars>>,
             UNCHANGED faults \/ Fault, StreamType', RecType'
      PROVE  IInv'
  BY <1>1, Untouched, FailureCounts
     DEF IInv, TypeOK, LaneInv, OpInv, laneVars, fwVars
<1>2. ASSUME NEW onStart \in BOOLEAN, BeginReconcile(onStart), crashes' = crashes
      PROVE  RecType' /\ (UNCHANGED faults \/ Fault)
  BY <1>2 DEF BeginReconcile, IInv, TypeOK, RecType, DbType, DockerType
<1>3. ASSUME Start PROVE IInv'
  <2>1. StreamType'
    BY <1>3, ReplayIsEvents DEF Start, IInv, TypeOK, StreamType
  <2> QED
    BY <1>1, <1>2, <1>3, <2>1 DEF Start, RecOnly
<1>4. reconcile => IInv'
  BY <1>1, <1>2, Untouched DEF reconcile, RecOnly
<1>5. ASSUME reconnect PROVE IInv'
  <2>1. StreamType'
    BY <1>5, ReplayIsEvents DEF reconnect, IInv, TypeOK, StreamType
  <2>2. RecType' /\ (UNCHANGED faults \/ Fault)
    BY <1>2, <1>5 DEF reconnect, IInv, TypeOK, RecType
  <2> QED
    BY <1>1, <1>5, <2>1, <2>2 DEF reconnect, RecOnly
<1>6. listContainers => IInv'
  BY <1>1, Untouched DEF listContainers, PhaseOver, RecOnly, IInv, TypeOK, RecType
<1>7. listContainersFails => IInv'
  BY <1>1, Untouched DEF listContainersFails, EndReconcile, PhaseOver, RecOnly, IInv, TypeOK, RecType
<1>8. reconcileDone => IInv'
  BY <1>1, Untouched DEF reconcileDone, EndReconcile, PhaseOver, RecOnly, IInv, TypeOK, RecType
<1>9. ASSUME streamErr PROVE IInv'
  <2>1. StreamType'
    <3>1. stream' \in Seq(Event) /\ recent' \in Seq(Event)
      BY <1>9, NoEvents DEF streamErr
    <3>2. connected' = FALSE /\ breaks \in Nat /\ breaks' = breaks + 1
      BY <1>9 DEF streamErr, IInv, TypeOK, StreamType
    <3>3. breaks' \in Nat
      BY <3>2
    <3> QED
      BY <3>1, <3>2, <3>3 DEF StreamType
  <2> QED
    BY <1>1, <1>9, <2>1, Untouched DEF streamErr, RecOnly
<1> QED
  BY <1>3, <1>4, <1>5, <1>6, <1>7, <1>8, <1>9

\* Visiting one container in a reconciliation.
LEMMA VisitKeeps ==
    ASSUME IInv, NEW c \in Containers,
           cleanupRules(c) \/ syncContainers(c) \/ inspectFails(c)
    PROVE  IInv'
<1>1. /\ UNCHANGED <<dockerVars, laneVars, fwVars, dbVars, streamVars>>
      /\ todo' = todo \ {c} /\ UNCHANGED <<phase, starting, mark, crashes>>
  BY DEF cleanupRules, syncContainers, inspectFails, Visit, RecOnly
<1>2. RecType'
  BY <1>1 DEF IInv, TypeOK, RecType
<1>3. DbType'
  BY <1>1, FailureCounts DEF cleanupRules, syncContainers, inspectFails
<1>4. \/ UNCHANGED opVars
      \/ \E kind \in {"create", "delete"}, addr \in MaybeAddr : BeginOp(c, kind, addr, "rec")
  BY DEF cleanupRules, syncContainers, inspectFails, IInv, TypeOK, DockerType, MaybeAddr
<1>5. OpInv' /\ LaneInv'
  <2>1. CASE UNCHANGED opVars
    BY <1>1, <2>1, Untouched DEF laneVars, fwVars
  <2>2. ASSUME NEW kind \in {"create", "delete"}, NEW addr \in MaybeAddr,
               BeginOp(c, kind, addr, "rec")
        PROVE  OpInv' /\ LaneInv'
    BY <1>1, <2>2, BeginOpKeeps
  <2> QED
    BY <1>4, <2>1, <2>2
<1> QED
  BY <1>1, <1>2, <1>3, <1>5, Untouched DEF IInv, TypeOK, OpInv, LaneInv

\* A crash forgets the process and keeps nftables and SQLite.
LEMMA CrashKeeps ==
    ASSUME IInv, Crash
    PROVE  IInv'
<1>1. UNCHANGED <<dockerVars, fwVars, dbVars, faults>>
  BY DEF Crash
<1>2. StreamType' /\ RecType'
  <2>1. stream' \in Seq(Event)
    BY NoEvents DEF Crash
  <2>2. connected' \in BOOLEAN /\ breaks' \in Nat /\ recent' \in Seq(Event)
    BY DEF Crash, IInv, TypeOK, StreamType
  <2>3. RecType'
    <3>1. phase' = "down" /\ starting' = FALSE /\ todo' = {} /\ mark' = mark
      BY DEF Crash
    <3>2. crashes' \in Nat
      <4>1. crashes \in Nat /\ crashes' = crashes + 1
        BY DEF Crash, IInv, TypeOK, RecType
      <4> QED
        BY <4>1
    <3> QED
      BY <3>1, <3>2 DEF IInv, TypeOK, RecType
  <2> QED
    BY <2>1, <2>2, <2>3 DEF StreamType
<1>3. LaneInv'
  BY NoEvents DEF Crash, LaneInv, LaneType, LaneOk, MaybeAddr
<1>4. OpInv'
  BY DEF Crash, OpInv, OpType, OpOk, PlanOk, CreateSteps, MaybeContainer, MaybeAddr
<1> QED
  BY <1>1, <1>2, <1>3, <1>4, Untouched DEF IInv, TypeOK, OpInv, LaneInv

-----------------------------------------------------------------------------
(* The inductive argument *)

\* Whalewall starts with nothing in nftables and SQLite.
LEMMA InitInv == Init => IInv
<1> SUFFICES ASSUME Init PROVE IInv
  OBVIOUS
<1>1. DockerType
  BY DEF Init, DockerInit, DockerType
<1>2. StreamType /\ RecType /\ DbType
  BY NoEvents DEF Init, StreamType, RecType, DbType
<1>3. LaneType /\ LaneOk
  BY NoEvents DEF Init, LaneType, LaneOk, MaybeAddr
<1>4. OpType /\ OpOk /\ PlanOk
  BY DEF Init, OpType, OpOk, PlanOk, CreateSteps, MaybeContainer, MaybeAddr
<1>5. FwType /\ FwOk
  BY DEF Init, FwType, FwOk, FailClosed, EdgesPaired, MaybeContainer
<1> QED
  BY <1>1, <1>2, <1>3, <1>4, <1>5 DEF IInv, TypeOK

\* Every step keeps the invariant.
LEMMA NextInv == IInv /\ [Next]_vars => IInv'
<1> SUFFICES ASSUME IInv, [Next]_vars PROVE IInv'
  OBVIOUS
<1>1. CASE Docker
  BY <1>1, DockerKeeps
<1>2. CASE Events
  BY <1>2, DispatchKeeps, HandlerKeeps, LockKeeps DEF Events
<1>3. CASE createContainerRules
  BY <1>3, CreateKeeps, CreateFailureKeeps DEF createContainerRules
<1>4. CASE deleteContainerRules
  BY <1>4, DeleteKeeps
<1>5. CASE Reconciliation
  BY <1>5, PassKeeps, VisitKeeps DEF Reconciliation
<1>6. CASE streamErr
  BY <1>6, PassKeeps
<1>7. CASE Crash
  BY <1>7, CrashKeeps
<1>8. CASE UNCHANGED vars
  BY <1>8, Untouched DEF vars, IInv, TypeOK, OpInv, LaneInv, laneVars, fwVars
<1> QED
  BY <1>1, <1>2, <1>3, <1>4, <1>5, <1>6, <1>7, <1>8 DEF Next

\* The invariant holds in every reachable state.
LEMMA Invariance == Spec => []IInv
BY InitInv, NextInv, PTL DEF Spec

\* Every variable keeps its type, for any containers, addresses and bounds.
THEOREM TypeCorrect == Spec => []TypeOK
<1>1. IInv => TypeOK
  BY DEF IInv
<1> QED
  BY <1>1, Invariance, PTL

\* The enforcement floor: whatever Docker does, whichever call fails and whenever
\* the process dies, an address is only sent to a chain that exists and drops.
THEOREM FloorHolds == Spec => []FailClosed
<1>1. IInv => FailClosed
  BY DEF IInv, FwOk
<1> QED
  BY <1>1, Invariance, PTL

\* No batch leaves half an edge behind.
THEOREM EdgesStayPaired == Spec => []EdgesPaired
<1>1. IInv => EdgesPaired
  BY DEF IInv, FwOk
<1> QED
  BY <1>1, Invariance, PTL

-----------------------------------------------------------------------------
(* What a step may never do *)

\* Only two batches change the verdict map.
LEMMA MapChanges ==
    ASSUME IInv, [Next]_vars, vmap' # vmap
    PROVE  replaceContainerAddressMappings \/ deleteContainerRulesUntracked
<1>1. ~Docker
  BY DEF Docker, DockerStart, DockerDie, DockerRemove, DockerDisconnect, DockerConnect,
         DockerChange, fwVars
<1>2. ~Events
  BY DEF Events, dispatch, handleDockerEvent, handleDie, handleIgnored, handleInspected,
         HandlerVars, lockPolicyMu, fwVars
<1>3. createContainerRules => replaceContainerAddressMappings
  BY DEF createContainerRules, ensureContainerDropPolicy, ensureContainerDropPolicyFails, newFirewallClientFails,
         replaceContainerAddressMappingsFails, replaceContainerMetadata,
         replaceContainerMetadataFails, populateOutputRules, populateOutputRulesFails,
         createWaitingContainerRules, createWaitingContainerRulesFails,
         replaceContainerPolicy, replaceContainerPolicyFails, ReplaceBatch,
         finalizeContainerPolicy, finalizeContainerPolicyFails,
         quarantineContainerPolicy, quarantineContainerPolicyFails,
         clearContainerPolicyMetadata, clearContainerPolicyMetadataFails, fwVars
<1>4. deleteContainerRules => deleteContainerRulesUntracked
  BY DEF deleteContainerRules, deleteContainer, deleteContainerFails, fwVars
<1>5. ~Reconciliation
  BY DEF Reconciliation, Start, reconcile, reconnect, listContainers, listContainersFails,
         reconcileDone, PhaseOver, cleanupRules, syncContainers, inspectFails, Visit,
         RecOnly, fwVars
<1>6. ~streamErr /\ ~Crash /\ ~UNCHANGED vars
  BY DEF streamErr, RecOnly, Crash, vars, fwVars
<1> QED
  BY <1>1, <1>2, <1>3, <1>4, <1>5, <1>6 DEF Next

\* Only an operation on its owner removes a mapping.
THEOREM OwnersUnmap == Spec => OnlyOwnerUnmaps
<1> DEFINE A == \A a \in Addrs : vmap[a] # None /\ vmap'[a] = None => cid = vmap[a]
<1>1. IInv /\ [Next]_vars => [A]_vars
  <2> SUFFICES ASSUME IInv, [Next]_vars, NEW a \in Addrs, vmap[a] # None, vmap'[a] = None
               PROVE  cid = vmap[a]
    OBVIOUS
  <2>1. vmap' # vmap
    OBVIOUS
  <2>2. CASE replaceContainerAddressMappings
    <3>1. cid # None
      BY <2>2 DEF replaceContainerAddressMappings, RetargetBatch, Retargeted, AtStep, IInv, OpOk
    <3> QED
      BY <2>2, <3>1 DEF replaceContainerAddressMappings, RetargetBatch, Retargeted
  <2>3. CASE deleteContainerRulesUntracked
    BY <2>3 DEF deleteContainerRulesUntracked
  <2> QED
    BY <2>1, <2>2, <2>3, MapChanges
<1> QED
  BY <1>1, Invariance, PTL DEF Spec, OnlyOwnerUnmaps

\* A container that loses its address keeps no permissive rule.
THEOREM DisplacedQuarantined == Spec => DisplacedIsQuarantined
<1> DEFINE A == \A a \in Addrs : vmap[a] # None /\ vmap'[a] \notin {None, vmap[a]}
                    => \A r \in rules' : r.chain # vmap[a] /\ r.tag # vmap[a]
<1>1. IInv /\ [Next]_vars => [A]_vars
  <2> SUFFICES ASSUME IInv, [Next]_vars, NEW a \in Addrs,
                      vmap[a] # None, vmap'[a] \notin {None, vmap[a]}, NEW r \in rules'
               PROVE  r.chain # vmap[a] /\ r.tag # vmap[a]
    OBVIOUS
  <2>1. vmap' # vmap
    OBVIOUS
  <2>2. CASE replaceContainerAddressMappings
    <3>1. a \in DesiredAddrs /\ vmap'[a] = cid
      BY <2>2 DEF replaceContainerAddressMappings, RetargetBatch, Retargeted
    <3>2. vmap[a] \in Displaced
      BY <3>1 DEF Displaced
    <3> QED
      BY <2>2, <3>2 DEF replaceContainerAddressMappings, RetargetBatch, Retargeted, Incident
  <2>3. CASE deleteContainerRulesUntracked
    BY <2>3 DEF deleteContainerRulesUntracked
  <2> QED
    BY <2>1, <2>2, <2>3, MapChanges
<1> QED
  BY <1>1, Invariance, PTL DEF Spec, DisplacedIsQuarantined
-----------------------------------------------------------------------------
(* Refinement *)

\* The other direction of an edge is the same to Firewall.
LEMMA SameOpposite == ASSUME NEW r PROVE Fw!Opposite(r) = Mirror(r)
BY DEF Fw!Opposite, Mirror

\* Incident rules are those that Firewall takes away.
LEMMA LiveWithout ==
    ASSUME FwType, NEW ids
    PROVE  (rules \ Incident(ids)) \ (shadow \ Incident(ids)) = Live \ Fw!Touching(ids)
BY DEF FwType, Incident, Live, Fw!Touching

\* The chain with its drop closes the container.
LEMMA FloorCloses ==
    ASSUME IInv, ensureContainerDropPolicy
    PROVE  Fw!Next
<1>1. cid \in Containers
  BY DEF IInv, OpOk, ensureContainerDropPolicy, AtStep
<1>2. /\ chains' = chains \cup {cid} /\ vmap' = vmap /\ rules' = rules
      /\ \/ shadow' = shadow
         \/ shadow' = shadow \cup {r \in rules : r.chain = cid}
  BY DEF ensureContainerDropPolicy
<1>3. Live' \in {Live, {r \in Live : r.chain # cid}}
  BY <1>2 DEF Live
<1>4. Fw!Close(cid)
  BY <1>2, <1>3 DEF Fw!Close
<1> QED
  BY <1>1, <1>4 DEF Fw!Next

\* Retargeting takes addresses and all that their holders were permitted.
LEMMA MapTakes ==
    ASSUME IInv, replaceContainerAddressMappings
    PROVE  Fw!Next
<1>1. cid \in chains /\ cid \in Containers /\ DesiredAddrs \in SUBSET Addrs
  BY DEF IInv, OpOk, TypeOK, OpType, MaybeAddr, DesiredAddrs, replaceContainerAddressMappings,
         RetargetBatch, AtStep, CreateSteps
<1>2. /\ rules' = rules \ Incident(Displaced)
      /\ shadow' = shadow \ Incident(Displaced)
      /\ chains' = chains /\ vmap' = Retargeted
  BY DEF replaceContainerAddressMappings, RetargetBatch
<1>3. Live' = Live \ Fw!Touching(Displaced)
  BY <1>2, LiveWithout DEF IInv, TypeOK, Live
<1>4. Fw!Take(cid, DesiredAddrs)
  BY <1>1, <1>2, <1>3 DEF Fw!Take, Retargeted, Displaced
<1> QED
  BY <1>1, <1>4 DEF Fw!Next

\* A batch of replaceContainerPolicy rebuilds the container's edges.
LEMMA PolicyRebuilds ==
    ASSUME IInv, cid \in Containers, NEW desired, ReplaceBatch(desired),
           desired \subseteq Rule,
           \A r \in desired : /\ r.chain = cid \/ r.tag = cid
                              /\ r.chain \in chains /\ r.tag \in chains /\ Mirror(r) \in desired
    PROVE  Fw!Next
<1>1. /\ cid \in chains /\ chains' = chains /\ vmap' = vmap
      /\ rules' = (rules \ Incident({cid})) \cup desired
      /\ shadow' = shadow \ Incident({cid})
  BY DEF ReplaceBatch
<1>2. /\ rules \subseteq Rule /\ shadow \subseteq rules
  BY DEF IInv, TypeOK, FwType
<1>3. desired \cap shadow' = {}
  BY <1>1, <1>2 DEF Incident
<1>4. Live' = (Live \ Fw!Touching({cid})) \cup desired
  BY <1>1, <1>3, LiveWithout DEF IInv, TypeOK, Live
<1>5. desired \subseteq Fw!Touching({cid}) /\ Live \subseteq Rule
  BY <1>2 DEF Fw!Touching, Live
<1>6. Live' \cap Fw!Touching({cid}) = desired /\ Live' \subseteq Rule
  BY <1>4, <1>5
<1>7. Live' \ Fw!Touching({cid}) = Live \ Fw!Touching({cid})
  BY <1>4, <1>5
<1>8. \A r \in Live' \cap Fw!Touching({cid}) :
         {r.chain, r.tag} \subseteq chains /\ Fw!Opposite(r) \in Live'
  BY <1>4, <1>6, SameOpposite
<1>9. Fw!Rebuild(cid)
  BY <1>1, <1>6, <1>7, <1>8 DEF Fw!Rebuild
<1> QED
  BY <1>9 DEF Fw!Next

\* The batch of a delete removes the container.
LEMMA DeleteRemoves ==
    ASSUME IInv, deleteContainerRulesUntracked
    PROVE  Fw!Next
<1>1. cid \in Containers
  BY DEF IInv, OpOk, deleteContainerRulesUntracked, AtStep
<1>2. /\ rules' = rules \ Incident({cid})
      /\ shadow' = shadow \ Incident({cid})
      /\ chains' = chains \ {cid}
      /\ vmap' = [a \in Addrs |-> IF vmap[a] = cid THEN None ELSE vmap[a]]
  BY DEF deleteContainerRulesUntracked
<1>3. Live' = Live \ Fw!Touching({cid})
  BY <1>2, LiveWithout DEF IInv, TypeOK, Live
<1>4. Fw!Remove(cid)
  BY <1>2, <1>3 DEF Fw!Remove
<1> QED
  BY <1>1, <1>4 DEF Fw!Next

\* All other steps leave nftables alone.
LEMMA FirewallChanges ==
    ASSUME [Next]_vars
    PROVE  \/ UNCHANGED fwVars
           \/ ensureContainerDropPolicy \/ replaceContainerAddressMappings
           \/ replaceContainerPolicy \/ quarantineContainerPolicy
           \/ deleteContainerRulesUntracked
<1>1. Docker => UNCHANGED fwVars
  BY DEF Docker, DockerStart, DockerDie, DockerRemove, DockerDisconnect, DockerConnect,
         DockerChange
<1>2. Events => UNCHANGED fwVars
  BY DEF Events, dispatch, handleDockerEvent, handleDie, handleIgnored, handleInspected,
         HandlerVars, lockPolicyMu
<1>3. createContainerRules =>
        \/ UNCHANGED fwVars
        \/ ensureContainerDropPolicy \/ replaceContainerAddressMappings
        \/ replaceContainerPolicy \/ quarantineContainerPolicy
  BY DEF createContainerRules, ensureContainerDropPolicyFails, newFirewallClientFails,
         replaceContainerAddressMappingsFails, replaceContainerMetadata,
         replaceContainerMetadataFails, populateOutputRules, populateOutputRulesFails,
         createWaitingContainerRules, createWaitingContainerRulesFails,
         replaceContainerPolicyFails, finalizeContainerPolicy, finalizeContainerPolicyFails,
         quarantineContainerPolicyFails, clearContainerPolicyMetadata,
         clearContainerPolicyMetadataFails
<1>4. deleteContainerRules => UNCHANGED fwVars \/ deleteContainerRulesUntracked
  BY DEF deleteContainerRules, deleteContainer, deleteContainerFails
<1>5. Reconciliation => UNCHANGED fwVars
  BY DEF Reconciliation, Start, reconcile, reconnect, listContainers, listContainersFails,
         reconcileDone, PhaseOver, cleanupRules, syncContainers, inspectFails, Visit, RecOnly
<1>6. streamErr \/ Crash \/ UNCHANGED vars => UNCHANGED fwVars
  BY DEF streamErr, RecOnly, Crash, vars
<1> QED
  BY <1>1, <1>2, <1>3, <1>4, <1>5, <1>6 DEF Next

\* Every step is a step of Firewall or leaves what it speaks of unchanged.
LEMMA StepsRefine == IInv /\ [Next]_vars => [Fw!Next]_(Fw!vars)
<1> SUFFICES ASSUME IInv, [Next]_vars PROVE [Fw!Next]_(Fw!vars)
  OBVIOUS
<1>1. CASE UNCHANGED fwVars
  BY <1>1 DEF fwVars, Fw!vars, Live
<1>2. CASE ensureContainerDropPolicy
  BY <1>2, FloorCloses
<1>3. CASE replaceContainerAddressMappings
  BY <1>3, MapTakes
<1>4. CASE replaceContainerPolicy
  <2>1. cid \in Containers /\ ReplaceBatch(plan) /\ plan \subseteq Rule
    BY <1>4 DEF replaceContainerPolicy, AtStep, IInv, OpOk, TypeOK, OpType
  <2>2. ASSUME NEW r \in plan
        PROVE  /\ r.chain = cid \/ r.tag = cid
               /\ r.chain \in chains /\ r.tag \in chains /\ Mirror(r) \in plan
    <3>1. r \in Rule /\ Mirror(r) \in plan /\ (r.chain = cid \/ r.tag = cid)
      BY <2>1 DEF IInv, PlanOk
    <3>2. r.chain \in chains /\ Mirror(r).chain \in chains
      BY <1>4, <3>1 DEF replaceContainerPolicy, MissingChain
    <3> QED
      BY <3>1, <3>2, MirrorRule
  <2> QED
    BY <2>1, <2>2, PolicyRebuilds
<1>5. CASE quarantineContainerPolicy
  <2>1. cid \in Containers /\ ReplaceBatch({})
    BY <1>5 DEF quarantineContainerPolicy, AtStep, IInv, OpOk
  <2> QED
    BY <2>1, PolicyRebuilds
<1>6. CASE deleteContainerRulesUntracked
  BY <1>6, DeleteRemoves
<1> QED
  BY <1>1, <1>2, <1>3, <1>4, <1>5, <1>6, FirewallChanges

\* The rule manager implements Firewall, for any containers, addresses, labels,
\* rules, failures and crashes.
THEOREM ImplementsFirewall == Spec => FirewallSpec
<1>1. Init => Fw!Init
  BY DEF Init, Fw!Init, Live
<1> QED
  BY <1>1, StepsRefine, Invariance, PTL DEF Spec, FirewallSpec, Fw!Spec
=============================================================================
