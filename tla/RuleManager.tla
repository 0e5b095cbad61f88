---------------------------- MODULE RuleManager ----------------------------
(***************************************************************************)
(* The rule manager of whalewall: how Docker lifecycle events and periodic *)
(* reconciliation are turned into nftables state and SQLite rows.          *)
(*                                                                         *)
(* One operation (a create or a delete of one container's policy) runs at  *)
(* a time, under RuleManager.policyMu.  Between its steps, each one an     *)
(* nftables batch or a database transaction, Docker keeps changing, events *)
(* keep arriving, a step may fail and the process may die.                 *)
(*                                                                         *)
(* Abstracted: a container has at most one managed IPv4 endpoint; an       *)
(* output rule names a peer container; ports, protocols, queues and rules  *)
(* to fixed addresses are left to other modules.  The tables addrs,        *)
(* container_aliases and est_containers are written by the code and never  *)
(* read back by it, so they are left out.                                  *)
(***************************************************************************)
EXTENDS Naturals, Sequences, FiniteSets

CONSTANTS
    Containers,   \* Docker container IDs
    Addrs,        \* IPv4 addresses of the Docker network
    Names,        \* container names
    None,         \* "no address", "not mapped", "not resolved"
    NameOf,       \* the name each ID carries
    Label,        \* the whalewall.enabled label of each ID
    BadPolicy,    \* IDs whose whalewall.rules label does not parse or validate
    RulesTo,      \* names that the output rules of each ID point to
    DependsOn,    \* IDs with a com.docker.compose.depends_on label
    Pool,         \* addresses Docker may give to each ID
    FirstStates,  \* states whalewall may first find each ID in
    MaxChanges,   \* bound on Docker lifecycle changes
    MaxFaults,    \* bound on failing Docker, nftables and SQLite calls
    MaxCrashes,   \* bound on crashes of whalewall
    MaxBreaks,    \* bound on interruptions of the Docker event stream
    MaxReplay     \* bound on events delivered again when the stream opens

DockerStates == {"absent", "stopped", "running"}

ASSUME ConstantsAssumption ==
    /\ None \notin Containers \cup Addrs
    /\ NameOf \in [Containers -> Names]
    /\ Label \in [Containers -> {"absent", "true", "false", "invalid"}]
    /\ BadPolicy \subseteq Containers
    /\ RulesTo \in [Containers -> SUBSET Names]
    /\ DependsOn \subseteq Containers
    /\ Pool \in [Containers -> SUBSET Addrs]
    /\ FirstStates \in [Containers -> SUBSET DockerStates]
    /\ {MaxChanges, MaxFaults, MaxCrashes, MaxBreaks, MaxReplay} \subseteq Nat

VARIABLES
    \* Docker (external)
    dockerState,  \* "absent", "stopped" or "running", per container
    dockerAddr,   \* address of the container's endpoint, or None
    changes,      \* lifecycle changes so far
    \* the event stream and the per-container lanes
    stream,       \* events sent by Docker and not yet dispatched
    connected,    \* the stream is open
    breaks,       \* interruptions so far
    recent,       \* events that may be of the current second
    lane,         \* events accepted for each container, head being handled
    req,          \* what the handler of a lane waits for
    snap,         \* address its ContainerInspect reported
    \* Start, the ticker and reconcile
    phase,        \* "down", "idle" (serving events), "cleanup" or "sync"
    starting,     \* reconciling on behalf of Start
    todo,         \* containers the current phase has still to visit
    mark,         \* changes and faults when the reconciliation began (history)
    crashes,      \* crashes so far
    \* the operation that holds policyMu
    pc, cid, caddr, by, plan, newWaiting,
    \* nftables
    chains,       \* containers that have a chain
    drop,         \* chains with a canonical drop rule
    vmap,         \* verdict map: address -> container whose chain is the target
    rules,        \* permissive rules in container chains
    shadow,       \* those of them that stand behind a drop
    \* SQLite
    rows,         \* table containers
    waiting,      \* table waiting_container_rules
    faults        \* failed calls so far

dockerVars == <<dockerState, dockerAddr, changes>>
streamVars == <<stream, connected, breaks, recent>>
laneVars   == <<lane, req, snap>>
recVars    == <<phase, starting, todo, mark, crashes>>
opVars     == <<pc, cid, caddr, by, plan, newWaiting>>
fwVars     == <<chains, drop, vmap, rules, shadow>>
dbVars     == <<rows, waiting>>
vars == <<dockerVars, streamVars, laneVars, recVars, opVars, fwVars, dbVars, faults>>

MaybeAddr == Addrs \cup {None}
MaybeContainer == Containers \cup {None}
EventTypes == {"start", "die", "net"}
Event == [id : Containers, type : EventTypes]

\* A permissive rule: it stands in the chain of one container and carries the
\* ID of another (or the same) in its UserData; ct tells new traffic from replies.
Rule == [chain : Containers, tag : Containers, from : Addrs, to : Addrs, ct : {"new", "est"}]

\* A row of waiting_container_rules, with the identity gob-encoded in it.
WaitingRow == [src : Containers, dst : Names, resolved : MaybeContainer]

CreateSteps == {"ensureDrop", "map", "metadata", "populate", "waiting",
                "replace", "finalize", "quarantine", "clear"}
DeleteSteps == {"deleteFlush", "deleteCommit"}

DockerType ==
    /\ dockerState \in [Containers -> DockerStates]
    /\ dockerAddr \in [Containers -> MaybeAddr]
    /\ changes \in Nat

StreamType ==
    /\ stream \in Seq(Event)
    /\ connected \in BOOLEAN
    /\ breaks \in Nat
    /\ recent \in Seq(Event)

LaneType ==
    /\ lane \in [Containers -> Seq(EventTypes)]
    /\ req \in [Containers -> {"none", "create", "delete"}]
    /\ snap \in [Containers -> MaybeAddr]

RecType ==
    /\ phase \in {"down", "idle", "cleanup", "sync"}
    /\ starting \in BOOLEAN
    /\ todo \subseteq Containers
    /\ mark \in [changes : Nat, faults : Nat]
    /\ crashes \in Nat

OpType ==
    /\ pc \in {"free"} \cup CreateSteps \cup DeleteSteps
    /\ cid \in MaybeContainer
    /\ caddr \in MaybeAddr
    /\ by \in {"none", "lane", "rec"}
    /\ plan \subseteq Rule
    /\ newWaiting \subseteq WaitingRow

FwType ==
    /\ chains \subseteq Containers
    /\ drop \subseteq Containers
    /\ vmap \in [Addrs -> MaybeContainer]
    /\ rules \subseteq Rule
    /\ shadow \subseteq rules

DbType ==
    /\ rows \subseteq Containers
    /\ waiting \subseteq WaitingRow
    /\ faults \in Nat

TypeOK == DockerType /\ StreamType /\ LaneType /\ RecType /\ OpType /\ FwType /\ DbType

-----------------------------------------------------------------------------
(* Labels *)

\* An invalid opt-in label is taken as intent to enable, with a deny-only policy.
Enforced(c) == Label[c] \in {"true", "invalid"}
denyOnlyContainer(c) == Label[c] = "invalid"
ParseFails(c) == c \in BadPolicy /\ ~denyOnlyContainer(c)
OutputNames(c) == IF denyOnlyContainer(c) THEN {} ELSE RulesTo[c]

-----------------------------------------------------------------------------
(* Docker (external) *)

Running(c) == dockerState[c] = "running"

\* Events go to the stream, if one is open, and stay with Docker for a while.
Emit(c, t) ==
    LET e == [id |-> c, type |-> t]
        all == Append(recent, e)
    IN  /\ stream' = IF connected THEN Append(stream, e) ELSE stream
        /\ recent' = IF Len(all) > MaxReplay THEN Tail(all) ELSE all

DockerChange ==
    /\ changes < MaxChanges
    /\ changes' = changes + 1
    /\ UNCHANGED <<connected, breaks, laneVars, recVars, opVars, fwVars, dbVars, faults>>

FreeAddrs(c) == {a \in Pool[c] : \A o \in Containers : dockerAddr[o] # a}

\* Create if need be, and start.  Docker gives no name to two containers.
DockerStart(c) ==
    /\ ~Running(c)
    /\ \A o \in Containers \ {c} : NameOf[o] = NameOf[c] => dockerState[o] = "absent"
    /\ \E a \in FreeAddrs(c) : dockerAddr' = [dockerAddr EXCEPT ![c] = a]
    /\ dockerState' = [dockerState EXCEPT ![c] = "running"]
    /\ Emit(c, "start")
    /\ DockerChange

DockerDie(c) ==
    /\ Running(c)
    /\ dockerState' = [dockerState EXCEPT ![c] = "stopped"]
    /\ dockerAddr' = [dockerAddr EXCEPT ![c] = None]
    /\ Emit(c, "die")
    /\ DockerChange

\* Removal emits no event that addFilters lets through.
DockerRemove(c) ==
    /\ dockerState[c] = "stopped"
    /\ dockerState' = [dockerState EXCEPT ![c] = "absent"]
    /\ UNCHANGED <<dockerAddr, stream, recent>>
    /\ DockerChange

DockerDisconnect(c) ==
    /\ Running(c) /\ dockerAddr[c] # None
    /\ dockerAddr' = [dockerAddr EXCEPT ![c] = None]
    /\ UNCHANGED dockerState
    /\ Emit(c, "net")
    /\ DockerChange

DockerConnect(c) ==
    /\ Running(c) /\ dockerAddr[c] = None
    /\ \E a \in FreeAddrs(c) : dockerAddr' = [dockerAddr EXCEPT ![c] = a]
    /\ UNCHANGED dockerState
    /\ Emit(c, "net")
    /\ DockerChange

Docker == \E c \in Containers :
    DockerStart(c) \/ DockerDie(c) \/ DockerRemove(c) \/ DockerDisconnect(c) \/ DockerConnect(c)

-----------------------------------------------------------------------------
(* Failing calls *)

Fault == faults < MaxFaults /\ faults' = faults + 1

\* The failure branch of a step: for a reason in the state, or by a fault.
Fails(reason) ==
    \/ reason /\ UNCHANGED faults
    \/ ~reason /\ Fault

-----------------------------------------------------------------------------
(* watchDocker: dispatching events to lanes and handling them *)

LanesIdle == \A c \in Containers : lane[c] = <<>>

dispatch ==
    /\ phase = "idle" /\ stream # <<>>
    /\ LET e == Head(stream) IN lane' = [lane EXCEPT ![e.id] = Append(@, e.type)]
    /\ stream' = Tail(stream)
    /\ UNCHANGED <<connected, breaks, recent, req, snap, dockerVars, recVars, opVars, fwVars, dbVars, faults>>

HandlerVars == <<dockerVars, streamVars, recVars, opVars, fwVars, dbVars>>

HandlerReturns(c) ==
    /\ lane' = [lane EXCEPT ![c] = Tail(@)]
    /\ UNCHANGED <<req, snap>>

HandlerSends(c, kind, addr) ==
    /\ req' = [req EXCEPT ![c] = kind]
    /\ snap' = [snap EXCEPT ![c] = addr]
    /\ UNCHANGED lane

HandlerReady(c) == lane[c] # <<>> /\ req[c] = "none"

handleDie(c) ==
    /\ HandlerReady(c) /\ Head(lane[c]) = "die"
    /\ HandlerSends(c, "delete", None)
    /\ UNCHANGED <<HandlerVars, faults>>

\* The inspection fails, or a network event trails the death of its container.
handleIgnored(c) ==
    /\ HandlerReady(c) /\ Head(lane[c]) # "die"
    /\ Fails(dockerState[c] = "absent" \/ (Head(lane[c]) = "net" /\ ~Running(c)))
    /\ HandlerReturns(c)
    /\ UNCHANGED HandlerVars

handleInspected(c) ==
    /\ HandlerReady(c) /\ Head(lane[c]) # "die"
    /\ dockerState[c] # "absent"
    /\ Head(lane[c]) = "net" => Running(c)
    /\ IF Enforced(c) THEN HandlerSends(c, "create", dockerAddr[c])
                      ELSE HandlerSends(c, "delete", None)
    /\ UNCHANGED <<HandlerVars, faults>>

handleDockerEvent(c) == handleDie(c) \/ handleIgnored(c) \/ handleInspected(c)

-----------------------------------------------------------------------------
(* Taking policyMu and giving it back *)

BeginOp(c, kind, addr, who) ==
    /\ pc = "free"
    /\ pc' = IF kind = "create" THEN "ensureDrop" ELSE "deleteFlush"
    /\ cid' = c
    /\ caddr' = addr
    /\ by' = who
    /\ UNCHANGED <<plan, newWaiting>>

\* createRules and deleteRules receive from their channels in an order the lanes
\* do not control, then lock policyMu.
lockPolicyMu(c) ==
    /\ req[c] # "none"
    /\ BeginOp(c, req[c], snap[c], "lane")
    /\ UNCHANGED <<dockerVars, streamVars, laneVars, recVars, fwVars, dbVars, faults>>

\* The operation returns; a lane's handler receives the result and takes up the
\* next event.
Finish ==
    /\ pc' = "free" /\ cid' = None /\ caddr' = None /\ by' = "none"
    /\ plan' = {} /\ newWaiting' = {}
    /\ IF by = "lane"
       THEN /\ lane' = [lane EXCEPT ![cid] = Tail(@)]
            /\ req' = [req EXCEPT ![cid] = "none"]
            /\ snap' = [snap EXCEPT ![cid] = None]
       ELSE UNCHANGED laneVars

Goto(step) ==
    /\ pc' = step
    /\ UNCHANGED <<cid, caddr, by, plan, newWaiting, laneVars>>

AtStep(step) == pc = step /\ UNCHANGED <<dockerVars, streamVars, recVars>>

-----------------------------------------------------------------------------
(* createContainerRules *)

Live == rules \ shadow

\* Mutant: only the container's own chain is searched.
Incident_OwnChain(ids) == {r \in rules : r.chain \in ids}

\* Rules in the container's own chain, and rules elsewhere that carry its ID.
Incident(ids) == {r \in rules : r.chain \in ids \/ r.tag \in ids}

\* Lane creates carry isNew: true; sync passes true only on behalf of Start.
QuarantineFirst == by = "lane" \/ starting

\* No batch is needed when the drop leads the chain already or, without
\* quarantineFirst, stands anywhere in it.
FloorStands ==
    /\ cid \in chains /\ cid \in drop
    /\ (\A r \in Live : r.chain # cid) \/ ~QuarantineFirst

ensureContainerDropPolicy ==
    /\ AtStep("ensureDrop")
    /\ chains' = chains \cup {cid}
    /\ drop' = drop \cup {cid}
    /\ shadow' = IF FloorStands THEN shadow
                 ELSE shadow \cup {r \in rules : r.chain = cid}
    /\ Goto("map")
    /\ UNCHANGED <<vmap, rules, dbVars, faults>>

\* Mutant: the failure is logged and the create goes on.
ensureContainerDropPolicyFails_GoesOn ==
    /\ AtStep("ensureDrop")
    /\ Fault
    /\ Goto("map")
    /\ UNCHANGED <<fwVars, dbVars>>

\* Nothing is rolled back before the floor exists.
ensureContainerDropPolicyFails ==
    /\ AtStep("ensureDrop")
    /\ Fault
    /\ Finish
    /\ UNCHANGED <<fwVars, dbVars>>

DesiredAddrs == {caddr} \ {None}
Displaced == {vmap[a] : a \in DesiredAddrs} \ {None, cid}

Retargeted == [a \in Addrs |-> IF a \in DesiredAddrs THEN cid
                               ELSE IF vmap[a] = cid THEN None ELSE vmap[a]]

RetargetBatch(newMap, gone, quarantined) ==
    /\ AtStep("map")
    /\ Displaced \subseteq chains
    /\ vmap' = newMap
    /\ rules' = rules \ gone
    /\ shadow' = shadow \ gone
    /\ drop' = drop \cup quarantined
    /\ Goto("metadata")
    /\ UNCHANGED <<chains, dbVars, faults>>

\* Mutants: the container's former addresses stay mapped; displaced containers
\* keep their rules; or lose only those in their own chains.
replaceContainerAddressMappings_KeepsOld ==
    RetargetBatch([a \in Addrs |-> IF a \in DesiredAddrs THEN cid ELSE vmap[a]], Incident(Displaced), Displaced)
replaceContainerAddressMappings_NoQuarantine == RetargetBatch(Retargeted, {}, {})
replaceContainerAddressMappings_OneSided ==
    RetargetBatch(Retargeted, {r \in rules : r.chain \in Displaced}, Displaced)

\* One batch: retarget the desired addresses, drop the container's others and
\* quarantine the chains that lose an address (their drop is re-added).
replaceContainerAddressMappings == RetargetBatch(Retargeted, Incident(Displaced), Displaced)

replaceContainerAddressMappingsFails ==
    /\ AtStep("map")
    /\ Fails(~(Displaced \subseteq chains))
    /\ Goto("quarantine")
    /\ UNCHANGED <<fwVars, dbVars>>

\* containers.name is UNIQUE and AddContainer resolves conflicts on id only.
NameClash == \E o \in rows \ {cid} : NameOf[o] = NameOf[cid]

\* The metadata transaction commits; then the network scope and the rules label
\* are judged without further I/O.
replaceContainerMetadata ==
    /\ AtStep("metadata")
    /\ ~NameClash
    /\ rows' = rows \cup {cid}
    /\ Goto(IF caddr = None \/ ParseFails(cid) THEN "quarantine" ELSE "populate")
    /\ UNCHANGED <<waiting, fwVars, faults>>

replaceContainerMetadataFails ==
    /\ AtStep("metadata")
    /\ Fails(NameClash)
    /\ Goto("quarantine")
    /\ UNCHANGED <<fwVars, dbVars>>

\* createNFTRules for an edge: new traffic in the chain of the source, tagged
\* with the destination, and replies in the chain of the destination.
Edge(s, sAddr, d, dAddr) ==
    {[chain |-> s, tag |-> d, from |-> sAddr, to |-> dAddr, ct |-> "new"],
     [chain |-> d, tag |-> s, from |-> dAddr, to |-> sAddr, ct |-> "est"]}

\* Running containers a rule's name selects; Docker keeps names unique.
Peers(n) == {d \in Containers : Running(d) /\ NameOf[d] = n}

\* Mutant: a peer without an address is accepted.
PeerUnusable_LabelOnly(d) == Label[d] # "true"

\* Such a peer is refused unless its label and its address are in order.
PeerUnusable(d) == Label[d] # "true" \/ dockerAddr[d] = None
PeerError == \E n \in OutputNames(cid) : \E d \in Peers(n) : PeerUnusable(d)

\* The edges to the peers that are known by now.
createOutputRules(peers) == UNION {Edge(cid, caddr, d, dockerAddr[d]) : d \in peers \cap rows}

\* An edge is built when the peer has a row; the waiting row is written anyway,
\* with the ID the name resolved to.
populateOutputRules ==
    /\ AtStep("populate")
    /\ ~PeerError
    /\ LET peers == UNION {Peers(n) : n \in OutputNames(cid)} IN
       /\ plan' = createOutputRules(peers)
       /\ newWaiting' =
            {[src |-> cid, dst |-> NameOf[d], resolved |-> d] : d \in peers} \cup
            {[src |-> cid, dst |-> n, resolved |-> None] :
                n \in {m \in OutputNames(cid) : Peers(m) = {}}}
    /\ pc' = "waiting"
    /\ UNCHANGED <<cid, caddr, by, laneVars, fwVars, dbVars, faults>>

populateOutputRulesFails ==
    /\ AtStep("populate")
    /\ Fails(PeerError)
    /\ Goto("quarantine")
    /\ UNCHANGED <<fwVars, dbVars>>

OwnRows(c) == {w \in waiting : w.src = c}
PolicyRows == (waiting \ OwnRows(cid)) \cup newWaiting

\* Mutant: rows that were resolved when they were written are left out.
ApplicableSources_Unresolved ==
    {w.src : w \in {x \in PolicyRows : x.src \in rows /\ x.dst = NameOf[cid] /\ x.resolved = None}}

\* Rows that name this container, unless they are bound to another ID.
ApplicableSources ==
    {w.src : w \in {x \in PolicyRows : /\ x.src \in rows
                                       /\ x.dst = NameOf[cid]
                                       /\ x.resolved \in {None, cid}}}
SourceUnusable(s) == dockerState[s] = "absent" \/ Label[s] # "true" \/ dockerAddr[s] = None
SourceError == \E s \in ApplicableSources : SourceUnusable(s)

createWaitingContainerRules ==
    /\ AtStep("waiting")
    /\ ~SourceError
    /\ plan' = plan \cup UNION {Edge(s, dockerAddr[s], cid, caddr) : s \in ApplicableSources}
    /\ pc' = "replace"
    /\ UNCHANGED <<cid, caddr, by, newWaiting, laneVars, fwVars, dbVars, faults>>

createWaitingContainerRulesFails ==
    /\ AtStep("waiting")
    /\ Fails(SourceError)
    /\ Goto("quarantine")
    /\ UNCHANGED <<fwVars, dbVars>>

\* A batch that adds a rule to a chain that does not exist is refused.
MissingChain == \E r \in plan : r.chain \notin chains

\* Mutant: the drop of an earlier quarantine still leads the chain.
ReplaceBatch_StaleDrop(desired) ==
    /\ cid \in chains
    /\ rules' = (rules \ Incident({cid})) \cup desired
    /\ shadow' = shadow \cap rules'
    /\ drop' = drop \cup {cid}
    /\ UNCHANGED <<chains, vmap>>

\* Rules of peers' chains are inserted at the head, before any drop.
ReplaceBatch(desired) ==
    /\ cid \in chains
    /\ rules' = (rules \ Incident({cid})) \cup desired
    /\ shadow' = shadow \ Incident({cid})
    /\ drop' = drop \cup {cid}
    /\ UNCHANGED <<chains, vmap>>

replaceContainerPolicy ==
    /\ AtStep("replace")
    /\ ~MissingChain
    /\ ReplaceBatch(plan)
    /\ Goto("finalize")
    /\ UNCHANGED <<dbVars, faults>>

replaceContainerPolicyFails ==
    /\ AtStep("replace")
    /\ Fails(MissingChain)
    /\ Goto("quarantine")
    /\ UNCHANGED <<fwVars, dbVars>>

finalizeContainerPolicy ==
    /\ AtStep("finalize")
    /\ waiting' = PolicyRows
    /\ Finish
    /\ UNCHANGED <<rows, fwVars, faults>>

finalizeContainerPolicyFails ==
    /\ AtStep("finalize")
    /\ Fault
    /\ Goto("quarantine")
    /\ UNCHANGED <<fwVars, dbVars>>

\* The rollback of a failed create opens a netlink connection of its own: without
\* one it gives up, with one it goes on to the database even if the batch fails.
newFirewallClientFails ==
    /\ AtStep("quarantine")
    /\ Fault
    /\ Finish
    /\ UNCHANGED <<fwVars, dbVars>>

quarantineContainerPolicy ==
    /\ AtStep("quarantine")
    /\ ReplaceBatch({})
    /\ Goto("clear")
    /\ UNCHANGED <<dbVars, faults>>

quarantineContainerPolicyFails ==
    /\ AtStep("quarantine")
    /\ Fails(cid \notin chains)
    /\ Goto("clear")
    /\ UNCHANGED <<fwVars, dbVars>>

clearContainerPolicyMetadata ==
    /\ AtStep("clear")
    /\ waiting' = waiting \ OwnRows(cid)
    /\ Finish
    /\ UNCHANGED <<rows, fwVars, faults>>

clearContainerPolicyMetadataFails ==
    /\ AtStep("clear")
    /\ Fault
    /\ Finish
    /\ UNCHANGED <<fwVars, dbVars>>

createContainerRules ==
    \/ ensureContainerDropPolicy \/ ensureContainerDropPolicyFails
    \/ replaceContainerAddressMappings \/ replaceContainerAddressMappingsFails
    \/ replaceContainerMetadata \/ replaceContainerMetadataFails
    \/ populateOutputRules \/ populateOutputRulesFails
    \/ createWaitingContainerRules \/ createWaitingContainerRulesFails
    \/ replaceContainerPolicy \/ replaceContainerPolicyFails
    \/ finalizeContainerPolicy \/ finalizeContainerPolicyFails
    \/ newFirewallClientFails \/ quarantineContainerPolicy \/ quarantineContainerPolicyFails
    \/ clearContainerPolicyMetadata \/ clearContainerPolicyMetadataFails

-----------------------------------------------------------------------------
(* deleteContainerRules *)

\* Mutant: mappings are deleted by address, whoever they lead to.
deleteContainerRulesUntracked_ByAddress ==
    /\ AtStep("deleteFlush")
    /\ rules' = rules \ Incident({cid})
    /\ shadow' = shadow \ Incident({cid})
    /\ drop' = drop \ {cid}
    /\ chains' = chains \ {cid}
    /\ vmap' = [a \in Addrs |-> IF a \in Pool[cid] THEN None ELSE vmap[a]]
    /\ Goto("deleteCommit")
    /\ UNCHANGED <<dbVars, faults>>

\* One batch: the container's rules everywhere, its mappings, its chain.
deleteContainerRulesUntracked ==
    /\ AtStep("deleteFlush")
    /\ rules' = rules \ Incident({cid})
    /\ shadow' = shadow \ Incident({cid})
    /\ drop' = drop \ {cid}
    /\ chains' = chains \ {cid}
    /\ vmap' = [a \in Addrs |-> IF vmap[a] = cid THEN None ELSE vmap[a]]
    /\ Goto("deleteCommit")
    /\ UNCHANGED <<dbVars, faults>>

deleteContainer ==
    /\ AtStep("deleteCommit")
    /\ rows' = rows \ {cid}
    /\ waiting' = waiting \ OwnRows(cid)
    /\ Finish
    /\ UNCHANGED <<fwVars, faults>>

\* Either step may fail; the row then stays as retry state.
deleteContainerFails ==
    /\ AtStep("deleteFlush") \/ AtStep("deleteCommit")
    /\ Fault
    /\ Finish
    /\ UNCHANGED <<fwVars, dbVars>>

deleteContainerRules ==
    deleteContainerRulesUntracked \/ deleteContainer \/ deleteContainerFails

-----------------------------------------------------------------------------
(* Start, reconcile, cleanupRules, syncContainers *)

\* Without base rules there is no pass: a tick is skipped and Start gives up.
\* cleanupRules lists the rows first; should that fail, it visits none.
BeginReconcile(onStart) ==
    \/ Fault /\ UNCHANGED <<phase, starting, todo, mark>>
    \/ /\ phase' = "cleanup"
       /\ starting' = onStart
       /\ mark' = [changes |-> changes, faults |-> faults]
       /\ \/ todo' = rows /\ UNCHANGED faults
          \/ todo' = {} /\ Fault

RecOnly == UNCHANGED <<dockerVars, laneVars, fwVars, dbVars>>

\* The cursor of a new stream is in whole seconds, so what happened earlier in
\* the same second is delivered again.
addFilters == \E k \in 0..Len(recent) : stream' = SubSeq(recent, k + 1, Len(recent))

\* The event cursor is taken before the state snapshot.
Start ==
    /\ phase = "down"
    /\ BeginReconcile(TRUE)
    /\ connected' = (phase' = "cleanup")
    /\ IF connected' THEN addFilters ELSE UNCHANGED stream
    /\ RecOnly /\ UNCHANGED <<breaks, recent, crashes, opVars>>

\* The ticker; deferred while a lane is active.
reconcile ==
    /\ phase = "idle" /\ connected /\ LanesIdle
    /\ BeginReconcile(FALSE)
    /\ RecOnly /\ UNCHANGED <<streamVars, crashes, opVars>>

\* The stream ends; what it had not delivered is lost.  The next cursor is taken
\* a second later at the earliest.
streamErr ==
    /\ phase = "idle" /\ connected /\ breaks < MaxBreaks
    /\ connected' = FALSE /\ stream' = <<>> /\ recent' = <<>> /\ breaks' = breaks + 1
    /\ RecOnly /\ UNCHANGED <<recVars, opVars, faults>>

\* Back on line: reconcile unless a lane is active.
reconnect ==
    /\ phase = "idle" /\ ~connected
    /\ connected' = TRUE
    /\ addFilters
    /\ IF LanesIdle THEN BeginReconcile(FALSE)
                    ELSE UNCHANGED <<phase, starting, todo, mark, faults>>
    /\ RecOnly /\ UNCHANGED <<breaks, recent, crashes, opVars>>

Visit(p, c) ==
    /\ phase = p /\ pc = "free" /\ c \in todo
    /\ todo' = todo \ {c}
    /\ RecOnly /\ UNCHANGED <<phase, starting, mark, crashes, streamVars>>

\* Mutant: only containers that Docker does not know any more are deleted.
cleanupRules_RemovedOnly(c) ==
    /\ Visit("cleanup", c)
    /\ IF dockerState[c] # "absent" THEN UNCHANGED opVars ELSE BeginOp(c, "delete", None, "rec")
    /\ UNCHANGED faults

\* Rows of stopped and removed containers are deleted.
cleanupRules(c) ==
    /\ Visit("cleanup", c)
    /\ IF Running(c) THEN UNCHANGED opVars ELSE BeginOp(c, "delete", None, "rec")
    /\ UNCHANGED faults

\* Containers without a depends_on label go first.
SyncOrder(c) == c \in DependsOn => todo \subseteq DependsOn

\* Mutant: containers the database knows are taken as done.
syncContainers_SkipsKnown(c) ==
    /\ Visit("sync", c)
    /\ SyncOrder(c)
    /\ IF dockerState[c] = "absent" \/ c \in rows THEN UNCHANGED opVars
       ELSE BeginOp(c, IF Enforced(c) THEN "create" ELSE "delete", dockerAddr[c], "rec")
    /\ UNCHANGED faults

syncContainers(c) ==
    /\ Visit("sync", c)
    /\ SyncOrder(c)
    /\ IF dockerState[c] = "absent" THEN UNCHANGED opVars
       ELSE IF Enforced(c) THEN BeginOp(c, "create", dockerAddr[c], "rec")
       ELSE BeginOp(c, "delete", None, "rec")
    /\ UNCHANGED faults

inspectFails(c) ==
    /\ Visit("cleanup", c) \/ (Visit("sync", c) /\ SyncOrder(c))
    /\ Fault
    /\ UNCHANGED opVars

PhaseOver(p) ==
    /\ phase = p /\ pc = "free"
    /\ RecOnly /\ UNCHANGED <<streamVars, mark, crashes, opVars>>

\* Mutant: only containers whose label is exactly "true" are listed.
listContainers_TrueOnly ==
    /\ PhaseOver("cleanup") /\ todo = {}
    /\ phase' = "sync"
    /\ todo' = {c \in Containers : Running(c) /\ Label[c] = "true"}
    /\ UNCHANGED <<starting, faults>>

\* ContainerList reports running containers that carry the label at all.
listContainers ==
    /\ PhaseOver("cleanup") /\ todo = {}
    /\ phase' = "sync"
    /\ todo' = {c \in Containers : Running(c) /\ Label[c] # "absent"}
    /\ UNCHANGED <<starting, faults>>

EndReconcile == phase' = "idle" /\ starting' = FALSE

reconcileDone ==
    /\ PhaseOver("sync") /\ todo = {}
    /\ EndReconcile
    /\ UNCHANGED <<todo, faults>>

listContainersFails ==
    /\ PhaseOver("cleanup") /\ todo = {}
    /\ Fault
    /\ EndReconcile
    /\ UNCHANGED todo

\* The process dies, at any point; nftables and SQLite keep what they hold.
Crash ==
    /\ phase # "down" /\ crashes < MaxCrashes
    /\ crashes' = crashes + 1
    /\ phase' = "down" /\ starting' = FALSE /\ todo' = {}
    /\ stream' = <<>> /\ connected' = FALSE
    /\ lane' = [c \in Containers |-> <<>>]
    /\ req' = [c \in Containers |-> "none"]
    /\ snap' = [c \in Containers |-> None]
    /\ pc' = "free" /\ cid' = None /\ caddr' = None /\ by' = "none"
    /\ plan' = {} /\ newWaiting' = {}
    /\ UNCHANGED <<mark, breaks, recent, dockerVars, fwVars, dbVars, faults>>

-----------------------------------------------------------------------------
(* The specification *)

\* Some containers may run before whalewall does.
DockerInit ==
    /\ dockerState \in [Containers -> DockerStates]
    /\ dockerAddr \in [Containers -> MaybeAddr]
    /\ \A c \in Containers : dockerState[c] \in FirstStates[c]
    /\ \A c \in Containers : dockerAddr[c] \in (IF Running(c) THEN Pool[c] ELSE {None})
    /\ \A c, o \in Containers : c # o =>
          /\ dockerAddr[c] # None => dockerAddr[c] # dockerAddr[o]
          /\ NameOf[c] = NameOf[o] => "absent" \in {dockerState[c], dockerState[o]}

Init ==
    /\ DockerInit
    /\ changes = 0
    /\ stream = <<>> /\ connected = FALSE /\ breaks = 0 /\ recent = <<>>
    /\ lane = [c \in Containers |-> <<>>]
    /\ req = [c \in Containers |-> "none"]
    /\ snap = [c \in Containers |-> None]
    /\ phase = "down" /\ starting = FALSE /\ todo = {}
    /\ mark = [changes |-> 0, faults |-> 0] /\ crashes = 0
    /\ pc = "free" /\ cid = None /\ caddr = None /\ by = "none"
    /\ plan = {} /\ newWaiting = {}
    /\ chains = {} /\ drop = {} /\ vmap = [a \in Addrs |-> None]
    /\ rules = {} /\ shadow = {}
    /\ rows = {} /\ waiting = {}
    /\ faults = 0

Events == dispatch \/ \E c \in Containers : handleDockerEvent(c) \/ lockPolicyMu(c)

Reconciliation ==
    \/ Start \/ reconcile \/ reconnect \/ listContainers \/ reconcileDone
    \/ listContainersFails
    \/ \E c \in Containers : cleanupRules(c) \/ syncContainers(c) \/ inspectFails(c)

Next ==
    \/ Docker \/ Events \/ createContainerRules \/ deleteContainerRules
    \/ Reconciliation \/ streamErr \/ Crash

Spec == Init /\ [][Next]_vars

\* Goroutines are scheduled, calls return, the ticker ticks, the event stream is
\* reopened, and Docker restarts whalewall (restart: unless-stopped).
Fairness ==
    /\ WF_vars(dispatch)
    /\ \A c \in Containers : WF_vars(handleDockerEvent(c)) /\ WF_vars(lockPolicyMu(c))
    /\ WF_vars(createContainerRules) /\ WF_vars(deleteContainerRules)
    /\ WF_vars(Reconciliation)

FairSpec == Spec /\ Fairness

-----------------------------------------------------------------------------
(* Safety *)

\* An address is only ever sent to a chain that exists and drops what its rules
\* do not allow, and no chain is without its drop: the enforcement floor that
\* createContainerRules promises across every failure, crash and address reuse.
FailClosed ==
    /\ \A a \in Addrs : vmap[a] # None => vmap[a] \in chains
    /\ chains = drop

\* The rule for the opposite direction of an edge.
Mirror(r) == [chain |-> r.tag, tag |-> r.chain, from |-> r.to, to |-> r.from,
              ct |-> IF r.ct = "new" THEN "est" ELSE "new"]

\* Every allow rule stands together with the reply rule of the same edge, and
\* both chains exist: whoever removes one side (the source's rebuild, the
\* destination's delete, a quarantine, a displaced address) removes the other
\* in the same batch.
EdgesPaired ==
    \A r \in rules :
        /\ r.chain \in chains /\ r.tag \in chains
        /\ Mirror(r) \in rules

\* c has an event under way: in the stream, in its lane, or being handled.
Pending(c) == lane[c] # <<>> \/ \E i \in 1..Len(stream) : stream[i].id = c

\* Without failures: a rule that still lets packets through to an address its
\* container has left exists only while an event of that container is pending.
\* README: "Stopping or removing a backend removes its existing rules to prevent
\* stale-IP access".
NoStaleAllow ==
    \A r \in Live : dockerAddr[r.tag] # r.to => Pending(r.tag)

\* Nothing is left to do until the next tick.
Quiescent ==
    /\ phase = "idle" /\ pc = "free" /\ connected
    /\ stream = <<>> /\ LanesIdle

\* The containers whose traffic must be filtered now.
Protected == {c \in Containers : Running(c) /\ Enforced(c)}

\* Each protected container's address leads to its own chain.
AddressesEnforced ==
    \A c \in Protected : dockerAddr[c] # None => vmap[dockerAddr[c]] = c

\* Nothing is filtered on behalf of anyone else.
NothingElseMapped ==
    /\ chains \subseteq Protected
    /\ \A a \in Addrs : vmap[a] # None => dockerAddr[vmap[a]] = a

\* Without failures: once all events are handled the verdict map protects
\* exactly the running opted-in containers, at their current addresses.
HandledMeansEnforced == Quiescent => AddressesEnforced /\ NothingElseMapped

\* A mapping disappears only through an operation on the container that owns it,
\* never because another container's inspection reports the same address.
OnlyOwnerUnmaps ==
    [][\A a \in Addrs : vmap[a] # None /\ vmap'[a] = None => cid = vmap[a]]_vars

\* The container that loses its address to another one is quarantined in the
\* same batch: none of its permissive rules, and none that others hold towards
\* it, is seen together with the new verdict (replaceContainerAddressMappings).
DisplacedIsQuarantined ==
    [][\A a \in Addrs : vmap[a] # None /\ vmap'[a] \notin {None, vmap[a]}
          => \A r \in rules' : r.chain # vmap[a] /\ r.tag # vmap[a]]_vars

\* "a stale allow cannot survive IP reuse" (create.go): rules that let packets
\* through to the address of a protected container were made for that container.
ReuseIsClean ==
    \A c \in Protected : dockerAddr[c] # None /\ vmap[dockerAddr[c]] = c
        => \A r \in Live : r.to = dockerAddr[c] => r.tag = c

-----------------------------------------------------------------------------
(* Reconciliation *)

\* The reconciliation that ends in this step met no failure and no change.
CleanPassEnds ==
    /\ phase = "sync" /\ phase' = "idle"
    /\ mark = [changes |-> changes, faults |-> faults]

\* One undisturbed pass, after any failures, lost events and crashes, leads every
\* protected address to its own dropping chain again, frees the addresses of
\* opted-out containers, and leaves no rule that lets packets through to an
\* address its container has left.
PassEnforces ==
    [][CleanPassEnds => /\ AddressesEnforced
                        /\ \A c \in chains : Running(c) => Enforced(c)
                        /\ \A r \in Live : dockerAddr[r.tag] = r.to]_vars

\* cleanupRules "removes nftables rules for containers that are now stopped or
\* were removed" (delete.go): after an undisturbed pass none is left.
PassRemovesDeparted ==
    [][CleanPassEnds => \A c \in chains : Running(c)]_vars

\* "Invalid opt-in or policy labels are quarantined once processed" (README):
\* after an undisturbed pass no rule lets packets through for such a container.
PassQuarantines ==
    [][CleanPassEnds => \A r \in Live, c \in Protected :
            ParseFails(c) \/ denyOnlyContainer(c) => r.chain # c /\ r.tag # c]_vars

-----------------------------------------------------------------------------
(* Refinement *)

Fw == INSTANCE Firewall WITH Permits <- Rule, closed <- chains, holder <- vmap, permits <- Live

\* However events, failures and crashes cut the operations into steps, what the
\* packets meet changes only as Firewall says: createContainerRules closes, takes
\* the address and rebuilds, deleteContainerRules removes, and nothing else does.
FirewallSpec == Fw!Spec

-----------------------------------------------------------------------------
(* Liveness *)

\* Containers whose own policy is in order.
Sound == {c \in Protected : /\ Label[c] = "true" /\ c \notin BadPolicy
                            /\ dockerAddr[c] # None
                            /\ \A n \in RulesTo[c] : \A d \in Peers(n) : ~PeerUnusable(d)}

\* The edges the labels ask for among them.
WantedEdges ==
    UNION {UNION {Edge(s, dockerAddr[s], d, dockerAddr[d]) :
                    d \in {p \in Sound : NameOf[p] \in RulesTo[s]}} : s \in Sound}

Converged == AddressesEnforced /\ Live = WantedEdges

\* When Docker settles, periodic reconciliation brings the firewall to exactly
\* the configured policy, and then never disturbs it again.
EventuallyConverged == <>[]Converged
=============================================================================
