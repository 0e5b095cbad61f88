----------------------------- MODULE PassProofs -----------------------------
(***************************************************************************)
(* Proofs about reconciliation and events in RuleManager, for any          *)
(* containers, addresses, labels, rules and bounds: what one undisturbed   *)
(* pass achieves, whatever failures, lost events and crashes came before   *)
(* it; and, in the second part, what passes and events achieve when no     *)
(* call fails.                                                             *)
(***************************************************************************)
EXTENDS RuleManagerProofs

-----------------------------------------------------------------------------
(* The inductive invariant *)

InPass == phase \in {"cleanup", "sync"}

\* Docker gives no address to two containers.
DockerOk ==
    \A c, o \in Containers : c # o /\ dockerAddr[c] # None => dockerAddr[c] # dockerAddr[o]

\* Only containers that want enforcement are ever created rules for, so no other
\* has a chain or a row.
WantedOk ==
    /\ \A c \in Containers : req[c] = "create" => Enforced(c)
    /\ pc \in CreateSteps => Enforced(cid)
    /\ \A c \in chains \cup rows : Enforced(c)

\* Rules are made among containers that have a row, and a row outlives them.
RowsOk ==
    /\ \A r \in rules \cup plan : r.tag \in rows
    /\ pc \in {"populate", "waiting", "replace", "finalize"} => cid \in rows
    /\ pc \in DeleteSteps => plan = {}
    /\ pc = "deleteCommit" => \A r \in rules : r.tag # cid

\* No lane is active during a pass, and operations are the pass's own.
PhaseOk ==
    /\ phase = "down" \/ InPass => LanesIdle
    /\ pc # "free" => by = IF InPass THEN "rec" ELSE "lane"
    /\ mark.changes <= changes /\ mark.faults <= faults

\* Since the pass began, nothing has changed in Docker and nothing has failed.
Undisturbed == mark = [changes |-> changes, faults |-> faults]

\* What the pass has done for a container it has visited, but for the steps that
\* its operation has still to take.
Done(c) ==
    /\ \/ cid = c /\ pc \in {"ensureDrop", "map"}
       \/ dockerAddr[c] # None => vmap[dockerAddr[c]] = c
    /\ \/ cid = c /\ pc \in CreateSteps \ {"finalize", "clear"}
       \/ \A r \in rules : r.tag = c => r.to = dockerAddr[c]

\* Rows of departed containers are still to be visited, or being deleted.
CleanupOk ==
    /\ pc \in {"free"} \cup DeleteSteps
    /\ \A c \in rows : Running(c) \/ c \in todo \/ (pc # "free" /\ cid = c)

\* After that all rows are of running containers; a create works with the address
\* Docker has, and whoever is not to be visited any more is done.
SyncOk ==
    /\ \A c \in rows \cup todo : Running(c)
    /\ pc \in CreateSteps => Running(cid) /\ caddr = dockerAddr[cid]
    /\ pc \in DeleteSteps => ~Enforced(cid)
    /\ \A r \in plan : r.to = dockerAddr[r.tag]
    /\ \A c \in Containers : Running(c) /\ Enforced(c) => c \in todo \/ Done(c)

PassOk == Undisturbed => (phase = "cleanup" => CleanupOk) /\ (phase = "sync" => SyncOk)

PInv == DockerOk /\ WantedOk /\ RowsOk /\ PhaseOk /\ PassOk

USE ConstantsAssumption

-----------------------------------------------------------------------------
(* What a step can disturb *)

\* A change in Docker or a failing call ends the undisturbed pass.
LEMMA DisturbedStays ==
    ASSUME IInv, PInv, mark' = mark, changes' \in {changes, changes + 1}, faults' = faults \/ Fault,
           Undisturbed'
    PROVE  Undisturbed /\ changes' = changes /\ faults' = faults
<1>1. changes \in Nat /\ faults \in Nat /\ mark \in [changes : Nat, faults : Nat]
  BY DEF IInv, TypeOK, DockerType, DbType, RecType
<1>2. mark.changes <= changes /\ mark.faults <= faults
  BY DEF PInv, PhaseOk
<1>3. mark.changes = changes' /\ mark.faults = faults'
  BY DEF Undisturbed
<1>4. faults' \in {faults, faults + 1}
  BY DEF Fault
<1>5. changes' = changes /\ faults' = faults
  BY <1>1, <1>2, <1>3, <1>4
<1> QED
  BY <1>5 DEF Undisturbed

\* A lane with an event keeps passes away.
LEMMA BusyIsIdle ==
    ASSUME IInv, PInv, NEW c \in Containers, lane[c] # <<>> \/ req[c] # "none"
    PROVE  phase = "idle" /\ ~InPass
<1>1. ~LanesIdle
  BY DEF LanesIdle, IInv, LaneOk
<1> QED
  BY <1>1 DEF PInv, PhaseOk, InPass, IInv, TypeOK, RecType

\* When no lane is active outside a pass, policyMu is free.
LEMMA IdleIsFree ==
    ASSUME IInv, PInv, ~InPass, LanesIdle
    PROVE  pc = "free"
<1> SUFFICES ASSUME pc # "free" PROVE FALSE
  OBVIOUS
<1>1. by = "lane" /\ cid \in Containers
  BY DEF PInv, PhaseOk, IInv, OpOk
<1>2. lane[cid] # <<>>
  BY <1>1 DEF IInv, OpOk, LaneOk
<1> QED
  BY <1>1, <1>2 DEF LanesIdle

-----------------------------------------------------------------------------
(* Docker, the stream and the lanes *)

LEMMA DockerPasses ==
    ASSUME IInv, PInv, Docker
    PROVE  PInv'
<1>1. PICK c \in Containers :
        DockerStart(c) \/ DockerDie(c) \/ DockerRemove(c) \/ DockerDisconnect(c) \/ DockerConnect(c)
  BY DEF Docker
<1>2. DockerChange
  BY <1>1 DEF DockerStart, DockerDie, DockerRemove, DockerDisconnect, DockerConnect
<1>3. changes' = changes + 1 /\ UNCHANGED <<laneVars, recVars, opVars, fwVars, dbVars, faults>>
  BY <1>2 DEF DockerChange
<1>4. changes \in Nat /\ dockerAddr \in [Containers -> MaybeAddr] /\ mark \in [changes : Nat, faults : Nat]
  BY DEF IInv, TypeOK, DockerType, RecType
<1>5. DockerOk'
  <2>1. PICK a \in FreeAddrs(c) \cup {None, dockerAddr[c]} : dockerAddr' = [dockerAddr EXCEPT ![c] = a]
    <3>1. CASE DockerStart(c) \/ DockerConnect(c)
      BY <3>1 DEF DockerStart, DockerConnect
    <3>2. CASE DockerDie(c) \/ DockerDisconnect(c)
      BY <3>2 DEF DockerDie, DockerDisconnect
    <3>3. CASE DockerRemove(c)
      BY <1>4, <3>3 DEF DockerRemove
    <3> QED
      BY <1>1, <3>1, <3>2, <3>3
  <2>2. \A o \in Containers : o # c /\ a # None => dockerAddr[o] # a
    BY <2>1 DEF FreeAddrs, PInv, DockerOk
  <2> QED
    BY <1>4, <2>1, <2>2 DEF PInv, DockerOk
<1>6. WantedOk' /\ RowsOk'
  BY <1>3 DEF PInv, WantedOk, RowsOk, laneVars, opVars, fwVars, dbVars
<1>7. PhaseOk'
  BY <1>3, <1>4 DEF PInv, PhaseOk, InPass, LanesIdle, laneVars, recVars, opVars
<1>8. PassOk'
  <2>1. ~Undisturbed'
    BY <1>3, <1>4, DisturbedStays DEF recVars
  <2> QED
    BY <2>1 DEF PassOk
<1> QED
  BY <1>5, <1>6, <1>7, <1>8 DEF PInv

LEMMA DispatchPasses ==
    ASSUME IInv, PInv, dispatch
    PROVE  PInv'
<1>1. phase = "idle" /\ UNCHANGED <<req, dockerVars, recVars, opVars, fwVars, dbVars, faults>>
  BY DEF dispatch
<1>2. DockerOk' /\ WantedOk' /\ RowsOk'
  BY <1>1 DEF PInv, DockerOk, WantedOk, RowsOk, dockerVars, opVars, fwVars, dbVars
<1>3. PhaseOk' /\ PassOk'
  BY <1>1 DEF PInv, PhaseOk, PassOk, InPass, dockerVars, recVars, opVars
<1> QED
  BY <1>2, <1>3 DEF PInv

LEMMA HandlerPasses ==
    ASSUME IInv, PInv, NEW c \in Containers, handleDockerEvent(c)
    PROVE  PInv'
<1>1. lane[c] # <<>> /\ UNCHANGED HandlerVars
  BY DEF handleDockerEvent, handleDie, handleIgnored, handleInspected, HandlerReady
<1>2. phase = "idle" /\ ~InPass
  BY <1>1, BusyIsIdle
<1>3. faults \in Nat /\ req \in [Containers -> {"none", "create", "delete"}]
      /\ mark \in [changes : Nat, faults : Nat]
  BY DEF IInv, TypeOK, DbType, LaneType, RecType
<1>4. faults' \in {faults, faults + 1}
  BY DEF handleDockerEvent, handleDie, handleIgnored, handleInspected, Fails, Fault
<1>5. WantedOk'
  <2>1. req' = req \/ req' = [req EXCEPT ![c] = "delete"] \/ (Enforced(c) /\ req' = [req EXCEPT ![c] = "create"])
    BY DEF handleDockerEvent, handleDie, handleIgnored, handleInspected, HandlerReturns, HandlerSends
  <2> QED
    BY <1>1, <1>3, <2>1 DEF PInv, WantedOk, HandlerVars, opVars, fwVars, dbVars, Enforced
<1>6. DockerOk' /\ RowsOk'
  BY <1>1 DEF PInv, DockerOk, RowsOk, HandlerVars, dockerVars, opVars, fwVars, dbVars
<1>7. PhaseOk' /\ PassOk'
  BY <1>1, <1>2, <1>3, <1>4 DEF PInv, PhaseOk, PassOk, InPass, HandlerVars, dockerVars, recVars, opVars
<1> QED
  BY <1>5, <1>6, <1>7 DEF PInv

LEMMA LockPasses ==
    ASSUME IInv, PInv, NEW c \in Containers, lockPolicyMu(c)
    PROVE  PInv'
<1>1. /\ req[c] # "none" /\ BeginOp(c, req[c], snap[c], "lane")
      /\ UNCHANGED <<dockerVars, streamVars, laneVars, recVars, fwVars, dbVars, faults>>
  BY DEF lockPolicyMu
<1>2. phase = "idle" /\ ~InPass
  BY <1>1, BusyIsIdle
<1>3. req[c] \in {"create", "delete"}
  BY <1>1 DEF IInv, TypeOK, LaneType
<1>4. /\ pc = "free" /\ plan' = plan /\ plan = {} /\ cid' = c /\ by' = "lane"
      /\ pc' = IF req[c] = "create" THEN "ensureDrop" ELSE "deleteFlush"
  BY <1>1 DEF BeginOp, IInv, PlanOk
<1>5. DockerOk' /\ WantedOk' /\ RowsOk'
  BY <1>1, <1>3, <1>4 DEF PInv, DockerOk, WantedOk, RowsOk, dockerVars, laneVars, fwVars, dbVars,
     CreateSteps, DeleteSteps
<1>6. PhaseOk' /\ PassOk'
  BY <1>1, <1>2, <1>4 DEF PInv, PhaseOk, PassOk, InPass, dockerVars, recVars
<1> QED
  BY <1>5, <1>6 DEF PInv

-----------------------------------------------------------------------------
(* The steps of an operation *)

operationSteps == createContainerRules \/ deleteContainerRules

\* What all of them have in common.
LEMMA StepShape ==
    ASSUME operationSteps
    PROVE  /\ pc # "free" /\ UNCHANGED <<dockerVars, streamVars, recVars>>
           /\ faults' = faults \/ Fault
           /\ \/ Finish
              \/ /\ pc' # "free" /\ UNCHANGED <<cid, caddr, by, laneVars>>
                 /\ pc' \in CreateSteps => pc \in CreateSteps
                 /\ pc' \in DeleteSteps => pc \in DeleteSteps
           /\ chains' \subseteq chains \cup {cid} /\ rows' \subseteq rows \cup {cid}
           /\ pc \notin CreateSteps => chains' \subseteq chains /\ rows' \subseteq rows
<1>1. CASE ensureContainerDropPolicy \/ replaceContainerAddressMappings \/ replaceContainerMetadata
           \/ replaceContainerPolicy \/ quarantineContainerPolicy
  BY <1>1 DEF ensureContainerDropPolicy, replaceContainerAddressMappings, RetargetBatch, replaceContainerMetadata,
     replaceContainerPolicy, quarantineContainerPolicy, ReplaceBatch, AtStep, Goto, CreateSteps, DeleteSteps,
     fwVars, dbVars
<1>2. CASE populateOutputRules \/ createWaitingContainerRules
  BY <1>2 DEF populateOutputRules, createWaitingContainerRules, AtStep, CreateSteps, DeleteSteps, fwVars, dbVars
<1>3. CASE finalizeContainerPolicy \/ clearContainerPolicyMetadata \/ clearContainerPolicyMetadataFails
           \/ ensureContainerDropPolicyFails \/ newFirewallClientFails
  BY <1>3 DEF finalizeContainerPolicy, clearContainerPolicyMetadata, clearContainerPolicyMetadataFails,
     ensureContainerDropPolicyFails, newFirewallClientFails, AtStep, CreateSteps, fwVars, dbVars
<1>4. CASE \/ replaceContainerAddressMappingsFails \/ replaceContainerMetadataFails \/ populateOutputRulesFails
           \/ createWaitingContainerRulesFails \/ replaceContainerPolicyFails \/ finalizeContainerPolicyFails
           \/ quarantineContainerPolicyFails
  BY <1>4 DEF replaceContainerAddressMappingsFails, replaceContainerMetadataFails, populateOutputRulesFails,
     createWaitingContainerRulesFails, replaceContainerPolicyFails, finalizeContainerPolicyFails,
     quarantineContainerPolicyFails, AtStep, Goto, Fails, CreateSteps, DeleteSteps, fwVars, dbVars
<1>5. CASE deleteContainerRules
  BY <1>5 DEF deleteContainerRules, deleteContainerRulesUntracked, deleteContainer, deleteContainerFails,
     AtStep, Goto, CreateSteps, DeleteSteps, fwVars, dbVars
<1> QED
  BY <1>1, <1>2, <1>3, <1>4, <1>5 DEF operationSteps, createContainerRules

LEMMA StepKeepsWanted ==
    ASSUME IInv, PInv, operationSteps
    PROVE  DockerOk' /\ WantedOk'
<1>1. DockerOk'
  BY StepShape DEF PInv, DockerOk, dockerVars
<1>2. \A c \in chains' \cup rows' : Enforced(c)
  BY StepShape DEF PInv, WantedOk
<1>3. CASE Finish
  <2>1. pc' = "free" /\ \A c \in Containers : req'[c] = "create" => req[c] = "create"
    BY <1>3 DEF Finish, laneVars, IInv, TypeOK, LaneType
  <2> QED
    BY <1>1, <1>2, <2>1 DEF PInv, WantedOk, CreateSteps
<1>4. CASE ~Finish
  BY <1>1, <1>2, <1>4, StepShape DEF PInv, WantedOk, laneVars
<1> QED
  BY <1>3, <1>4

LEMMA StepKeepsPhase ==
    ASSUME IInv, PInv, operationSteps
    PROVE  PhaseOk'
<1>1. pc # "free" /\ UNCHANGED <<dockerVars, recVars>>
  BY StepShape
<1>2. mark'.changes <= changes' /\ mark'.faults <= faults'
  <2>1. faults \in Nat /\ mark \in [changes : Nat, faults : Nat]
    BY DEF IInv, TypeOK, DbType, RecType
  <2>2. faults' \in {faults, faults + 1}
    BY StepShape DEF Fault
  <2> QED
    BY <1>1, <2>1, <2>2 DEF PInv, PhaseOk, dockerVars, recVars
<1>3. CASE Finish
  <2>1. pc' = "free"
    BY <1>3 DEF Finish
  <2>2. ASSUME phase = "down" \/ InPass PROVE LanesIdle'
    <3>1. LanesIdle
      BY <2>2 DEF PInv, PhaseOk
    <3>2. by # "lane"
      <4>1. by = "lane" => cid \in Containers /\ lane[cid] # <<>>
        BY DEF IInv, OpOk, LaneOk
      <4> QED
        BY <3>1, <4>1 DEF LanesIdle
    <3> QED
      BY <1>3, <3>1, <3>2 DEF Finish, laneVars, LanesIdle
  <2> QED
    BY <1>1, <1>2, <2>1, <2>2 DEF PhaseOk, InPass, recVars
<1>4. CASE ~Finish
  <2>1. UNCHANGED <<by, laneVars>>
    BY <1>4, StepShape
  <2> QED
    BY <1>1, <1>2, <2>1 DEF PInv, PhaseOk, InPass, LanesIdle, recVars, laneVars
<1> QED
  BY <1>3, <1>4

\* An edge ties the container to its peer, at the addresses given.
LEMMA EdgeRules ==
    ASSUME NEW s, NEW sa, NEW d, NEW da, NEW r \in Edge(s, sa, d, da)
    PROVE  (r.tag = d /\ r.to = da) \/ (r.tag = s /\ r.to = sa)
BY DEF Edge

\* What is planned is between containers that have a row, at Docker's addresses.
LEMMA PlannedRules ==
    ASSUME IInv, PInv, populateOutputRules \/ createWaitingContainerRules, NEW r \in plan'
    PROVE  /\ r.tag \in rows
           /\ r \in plan \/ r.to = dockerAddr[r.tag] \/ (r.tag = cid /\ r.to = caddr)
<1>1. cid \in rows
  BY DEF PInv, RowsOk, populateOutputRules, createWaitingContainerRules, AtStep
<1>2. CASE populateOutputRules
  <2>1. PICK d \in rows : r \in Edge(cid, caddr, d, dockerAddr[d])
    BY <1>2 DEF populateOutputRules, createOutputRules
  <2>2. (r.tag = d /\ r.to = dockerAddr[d]) \/ (r.tag = cid /\ r.to = caddr)
    BY <2>1, EdgeRules
  <2> QED
    BY <1>1, <2>2
<1>3. CASE createWaitingContainerRules
  <2>1. CASE r \in plan
    BY <2>1 DEF PInv, RowsOk
  <2>2. CASE r \notin plan
    <3>1. PICK s \in ApplicableSources : r \in Edge(s, dockerAddr[s], cid, caddr)
      BY <1>3, <2>2 DEF createWaitingContainerRules
    <3>2. s \in rows
      BY DEF ApplicableSources
    <3>3. (r.tag = cid /\ r.to = caddr) \/ (r.tag = s /\ r.to = dockerAddr[s])
      BY <3>1, EdgeRules
    <3> QED
      BY <1>1, <3>2, <3>3
  <2> QED
    BY <2>1, <2>2
<1> QED
  BY <1>2, <1>3

\* Rules go with the row of the container that they are tagged with.
LEMMA StepKeepsRows ==
    ASSUME IInv, PInv, operationSteps
    PROVE  RowsOk'
<1> USE DEF PInv
<1>1. CASE populateOutputRules \/ createWaitingContainerRules
  <2>1. /\ pc \in {"populate", "waiting"} /\ pc' \in {"waiting", "replace"}
        /\ UNCHANGED <<cid, rules, rows>>
    BY <1>1 DEF populateOutputRules, createWaitingContainerRules, AtStep, fwVars, dbVars
  <2>2. \A r \in plan' : r.tag \in rows
    BY <1>1, PlannedRules
  <2> QED
    BY <2>1, <2>2 DEF RowsOk, DeleteSteps
<1>2. CASE ensureContainerDropPolicy \/ replaceContainerAddressMappings \/ replaceContainerMetadata
  <2>1. /\ pc \in {"ensureDrop", "map", "metadata"}
        /\ pc' \in {"map", "metadata", "quarantine"} \/ (pc' = "populate" /\ cid \in rows')
        /\ UNCHANGED <<cid, plan>> /\ rules' \subseteq rules /\ rows \subseteq rows'
    BY <1>2 DEF ensureContainerDropPolicy, replaceContainerAddressMappings, RetargetBatch,
       replaceContainerMetadata, AtStep, Goto, dbVars, fwVars
  <2> QED
    BY <2>1 DEF RowsOk, DeleteSteps
<1>3. CASE replaceContainerPolicy \/ quarantineContainerPolicy
  <2>1. /\ pc \in {"replace", "quarantine"} /\ pc' \in {"finalize", "clear"}
        /\ pc' = "finalize" => pc = "replace"
        /\ UNCHANGED <<cid, plan, rows>> /\ rules' \subseteq rules \cup plan
    BY <1>3 DEF replaceContainerPolicy, quarantineContainerPolicy, ReplaceBatch, AtStep, Goto, dbVars
  <2> QED
    BY <2>1 DEF RowsOk, DeleteSteps
<1>4. CASE finalizeContainerPolicy \/ clearContainerPolicyMetadata \/ clearContainerPolicyMetadataFails
           \/ ensureContainerDropPolicyFails \/ newFirewallClientFails \/ deleteContainerFails
  <2>1. pc' = "free" /\ plan' = {} /\ UNCHANGED <<rules, rows>>
    BY <1>4 DEF finalizeContainerPolicy, clearContainerPolicyMetadata, clearContainerPolicyMetadataFails,
       ensureContainerDropPolicyFails, newFirewallClientFails, deleteContainerFails, Finish, fwVars, dbVars
  <2> QED
    BY <2>1 DEF RowsOk, DeleteSteps
<1>5. CASE \/ replaceContainerAddressMappingsFails \/ replaceContainerMetadataFails \/ populateOutputRulesFails
           \/ createWaitingContainerRulesFails \/ replaceContainerPolicyFails \/ finalizeContainerPolicyFails
           \/ quarantineContainerPolicyFails
  <2>1. pc' \in {"quarantine", "clear"} /\ UNCHANGED <<plan, rules, rows>>
    BY <1>5 DEF replaceContainerAddressMappingsFails, replaceContainerMetadataFails, populateOutputRulesFails,
     createWaitingContainerRulesFails, replaceContainerPolicyFails, finalizeContainerPolicyFails,
     quarantineContainerPolicyFails, Goto, fwVars, dbVars
  <2> QED
    BY <2>1 DEF RowsOk, DeleteSteps
<1>6. CASE deleteContainerRulesUntracked
  <2>1. /\ pc = "deleteFlush" /\ pc' = "deleteCommit" /\ UNCHANGED <<cid, plan, rows>>
        /\ rules' = rules \ Incident({cid})
    BY <1>6 DEF deleteContainerRulesUntracked, AtStep, Goto, dbVars
  <2> QED
    BY <2>1 DEF RowsOk, DeleteSteps, Incident
<1>7. CASE deleteContainer
  <2>1. /\ pc = "deleteCommit" /\ pc' = "free" /\ plan' = {} /\ rules' = rules /\ rows' = rows \ {cid}
    BY <1>7 DEF deleteContainer, AtStep, Finish, fwVars
  <2> QED
    BY <2>1 DEF RowsOk, DeleteSteps
<1> QED
  BY <1>1, <1>2, <1>3, <1>4, <1>5, <1>6, <1>7 DEF operationSteps, createContainerRules, deleteContainerRules

\* While departed containers are cleaned up there are only deletes.
LEMMA StepKeepsCleanup ==
    ASSUME IInv, PInv, operationSteps, faults' = faults, CleanupOk
    PROVE  CleanupOk'
<1>1. pc \in DeleteSteps /\ UNCHANGED <<dockerVars, recVars>>
  BY StepShape DEF CleanupOk
<1>2. deleteContainerRules
  BY <1>1 DEF operationSteps, createContainerRules, ensureContainerDropPolicy, replaceContainerAddressMappings,
     RetargetBatch, replaceContainerMetadata, populateOutputRules, createWaitingContainerRules,
     replaceContainerPolicy, finalizeContainerPolicy, quarantineContainerPolicy, clearContainerPolicyMetadata,
     ensureContainerDropPolicyFails, newFirewallClientFails, replaceContainerAddressMappingsFails, replaceContainerMetadataFails,
     populateOutputRulesFails, createWaitingContainerRulesFails, replaceContainerPolicyFails,
     finalizeContainerPolicyFails, quarantineContainerPolicyFails, clearContainerPolicyMetadataFails,
     AtStep, DeleteSteps
<1>3. ~Fault
  BY DEF IInv, TypeOK, DbType, Fault
<1>4. CASE deleteContainerRulesUntracked
  BY <1>1, <1>4 DEF deleteContainerRulesUntracked, Goto, CleanupOk, Running, dockerVars, recVars, dbVars, DeleteSteps
<1>5. CASE deleteContainer
  BY <1>1, <1>5 DEF deleteContainer, Finish, CleanupOk, Running, dockerVars, recVars
<1> QED
  BY <1>2, <1>3, <1>4, <1>5 DEF deleteContainerRules, deleteContainerFails

\* While containers are synced: a create of one leaves done what is done for others.
LEMMA StepKeepsSync ==
    ASSUME IInv, PInv, operationSteps, faults' = faults, SyncOk
    PROVE  SyncOk'
<1>1. UNCHANGED <<dockerVars, recVars>> /\ pc # "free" /\ cid \in Containers /\ ~Fault
  BY StepShape DEF IInv, OpOk, TypeOK, DbType, Fault
<1>2. /\ pc' \in CreateSteps => pc \in CreateSteps /\ UNCHANGED <<cid, caddr>>
      /\ pc' \in DeleteSteps => pc \in DeleteSteps /\ UNCHANGED <<cid, caddr>>
  BY StepShape DEF Finish, CreateSteps, DeleteSteps
<1>3. \A c \in rows' \cup todo' : Running(c)'
  BY <1>1, StepShape DEF SyncOk, Running, dockerVars, recVars
<1>4. /\ pc' \in CreateSteps => Running(cid)' /\ caddr' = dockerAddr'[cid']
      /\ pc' \in DeleteSteps => ~Enforced(cid')
  BY <1>1, <1>2 DEF SyncOk, Running, dockerVars
<1>5. /\ rows \subseteq Containers /\ vmap \in [Addrs -> MaybeContainer]
      /\ dockerAddr \in [Containers -> MaybeAddr] /\ cid \in Containers
      /\ \A a \in Addrs : vmap[a] # None => vmap[a] \in chains
  BY <1>1 DEF IInv, TypeOK, DbType, FwType, DockerType, FwOk, FailClosed
<1> DEFINE Rest == /\ \A r \in plan' : r.to = dockerAddr[r.tag]
                   /\ \A c \in Containers : Running(c) /\ Enforced(c) => c \in todo \/ Done(c)'
<1> SUFFICES Rest
  BY <1>1, <1>3, <1>4 DEF SyncOk, Running, dockerVars, recVars
<1>6. ASSUME UNCHANGED <<plan, rules, vmap, cid>>, pc \in CreateSteps, pc' \in CreateSteps \ {"finalize", "clear"},
             pc \in {"ensureDrop", "map"} => pc' \in {"ensureDrop", "map"}
      PROVE  Rest
  BY <1>1, <1>6 DEF SyncOk, Done, dockerVars
<1>7. CASE ensureContainerDropPolicy
  BY <1>6, <1>7 DEF ensureContainerDropPolicy, AtStep, Goto, CreateSteps
<1>8. CASE replaceContainerMetadata \/ replaceContainerMetadataFails \/ populateOutputRulesFails
           \/ createWaitingContainerRulesFails \/ replaceContainerPolicyFails
  BY <1>6, <1>8 DEF replaceContainerMetadata, replaceContainerMetadataFails, populateOutputRulesFails,
     createWaitingContainerRulesFails, replaceContainerPolicyFails, AtStep, Goto, CreateSteps, fwVars
<1>9. CASE replaceContainerAddressMappings
  <2>1. /\ pc = "map" /\ pc' = "metadata" /\ UNCHANGED <<cid, plan>> /\ rules' \subseteq rules
        /\ vmap' = Retargeted /\ caddr = dockerAddr[cid]
    BY <1>9 DEF replaceContainerAddressMappings, RetargetBatch, AtStep, Goto, SyncOk, CreateSteps
  <2>2. ASSUME NEW c \in Containers, Running(c), Enforced(c), c \notin todo PROVE Done(c)'
    <3>1. Done(c)
      BY <2>2 DEF SyncOk
    <3>2. dockerAddr[c] # None => vmap'[dockerAddr[c]] = c
      <4> SUFFICES ASSUME dockerAddr[c] # None PROVE vmap'[dockerAddr[c]] = c
        OBVIOUS
      <4>1. dockerAddr[c] \in Addrs
        BY <1>5 DEF MaybeAddr
      <4>2. CASE c = cid
        BY <2>1, <4>1, <4>2 DEF Retargeted, DesiredAddrs
      <4>3. CASE c # cid
        <5>1. vmap[dockerAddr[c]] = c /\ dockerAddr[c] # dockerAddr[cid]
          BY <1>5, <3>1, <4>3 DEF Done, PInv, DockerOk
        <5> QED
          BY <2>1, <4>1, <4>3, <5>1 DEF Retargeted, DesiredAddrs
      <4> QED
        BY <4>2, <4>3
    <3> QED
      BY <1>1, <2>1, <3>1, <3>2 DEF Done, CreateSteps, dockerVars
  <2> QED
    BY <2>1, <2>2 DEF SyncOk
<1>10. CASE populateOutputRules \/ createWaitingContainerRules
  <2>1. /\ pc \in {"populate", "waiting"} /\ pc' \in {"waiting", "replace"} /\ UNCHANGED <<cid, rules, vmap>>
        /\ caddr = dockerAddr[cid]
    BY <1>10 DEF populateOutputRules, createWaitingContainerRules, AtStep, fwVars, SyncOk, CreateSteps
  <2>2. \A r \in plan' : r.to = dockerAddr[r.tag]
    BY <1>10, <2>1, PlannedRules DEF SyncOk
  <2> QED
    BY <1>1, <2>1, <2>2 DEF SyncOk, Done, CreateSteps, dockerVars
<1>11. CASE replaceContainerPolicy \/ quarantineContainerPolicy
  <2>1. /\ pc \in {"replace", "quarantine"} /\ pc' \in {"finalize", "clear"} /\ UNCHANGED <<cid, plan, vmap>>
        /\ rules' \subseteq (rules \ Incident({cid})) \cup plan
    BY <1>11 DEF replaceContainerPolicy, quarantineContainerPolicy, ReplaceBatch, AtStep, Goto
  <2>2. \A r \in rules' : r.tag = cid => r \in plan
    BY <2>1 DEF Incident
  <2>3. ASSUME NEW c \in Containers, Running(c), Enforced(c), c \notin todo PROVE Done(c)'
    <3>1. Done(c)
      BY <2>3 DEF SyncOk
    <3>2. \A r \in rules' : r.tag = c => r.to = dockerAddr[c]
      BY <2>1, <2>2, <3>1 DEF Done, SyncOk
    <3> QED
      BY <1>1, <2>1, <3>1, <3>2 DEF Done, dockerVars
  <2> QED
    BY <2>1, <2>3 DEF SyncOk
<1>12. CASE finalizeContainerPolicy \/ clearContainerPolicyMetadata
  <2>1. pc \in {"finalize", "clear"} /\ plan' = {} /\ UNCHANGED <<rules, vmap>>
    BY <1>12 DEF finalizeContainerPolicy, clearContainerPolicyMetadata, AtStep, Finish, fwVars
  <2> QED
    BY <1>1, <2>1 DEF SyncOk, Done, dockerVars
<1>13. CASE deleteContainerRules
  <2>1. /\ pc \in DeleteSteps /\ plan' \subseteq plan /\ rules' \subseteq rules
        /\ \A a \in Addrs : vmap[a] # cid => vmap'[a] = vmap[a]
    BY <1>1, <1>5, <1>13 DEF deleteContainerRules, deleteContainerRulesUntracked, deleteContainer,
       deleteContainerFails, AtStep, Goto, Finish, fwVars, DeleteSteps
  <2>2. ASSUME NEW c \in Containers, Running(c), Enforced(c), c \notin todo PROVE Done(c)'
    <3>1. Done(c) /\ c # cid
      BY <2>1, <2>2 DEF SyncOk
    <3>2. dockerAddr[c] # None => vmap'[dockerAddr[c]] = c
      BY <1>5, <2>1, <3>1 DEF Done, MaybeAddr
    <3> QED
      BY <1>1, <2>1, <3>1, <3>2 DEF Done, dockerVars
  <2> QED
    BY <2>1, <2>2 DEF SyncOk
<1>14. CASE replaceContainerAddressMappingsFails \/ quarantineContainerPolicyFails
  <2>1. FALSE
    <3>1. Displaced \subseteq chains
      BY <1>5 DEF Displaced, DesiredAddrs, IInv, TypeOK, OpType, MaybeAddr
    <3>2. pc \in {"map", "quarantine"} => cid \in chains
      BY DEF IInv, OpOk, CreateSteps
    <3> QED
      BY <1>1, <1>14, <3>1, <3>2 DEF replaceContainerAddressMappingsFails, quarantineContainerPolicyFails, Fails,
         AtStep
  <2> QED
    BY <2>1
<1> QED
  BY <1>1, <1>7, <1>8, <1>9, <1>10, <1>11, <1>12, <1>13, <1>14
     DEF operationSteps, createContainerRules, ensureContainerDropPolicyFails, newFirewallClientFails, finalizeContainerPolicyFails,
         clearContainerPolicyMetadataFails

LEMMA StepPasses ==
    ASSUME IInv, PInv, operationSteps
    PROVE  PInv'
<1>1. PassOk'
  <2> SUFFICES ASSUME Undisturbed' PROVE PassOk'
    BY DEF PassOk
  <2>1. UNCHANGED <<dockerVars, recVars>> /\ (faults' = faults \/ Fault)
    BY StepShape
  <2>2. Undisturbed /\ faults' = faults
    BY <2>1, DisturbedStays DEF dockerVars, recVars
  <2>3. (phase = "cleanup" => CleanupOk) /\ (phase = "sync" => SyncOk)
    BY <2>2 DEF PInv, PassOk
  <2> QED
    BY <2>1, <2>2, <2>3, StepKeepsCleanup, StepKeepsSync DEF PassOk, recVars
<1> QED
  BY <1>1, StepKeepsWanted, StepKeepsPhase, StepKeepsRows DEF PInv

-----------------------------------------------------------------------------
(* Passes begin, visit and end *)

\* What a step of the pass itself leaves alone.
LEMMA RecKeeps ==
    ASSUME IInv, PInv, UNCHANGED <<dockerVars, laneVars, fwVars, dbVars, opVars>>
    PROVE  DockerOk' /\ WantedOk' /\ RowsOk' /\ (LanesIdle' <=> LanesIdle)
BY DEF PInv, DockerOk, WantedOk, RowsOk, LanesIdle, dockerVars, laneVars, opVars, fwVars, dbVars

\* A pass begins when no lane is active, with the rows to look at.
LEMMA BeginPasses ==
    ASSUME IInv, PInv, ~InPass, LanesIdle, NEW onStart, BeginReconcile(onStart),
           UNCHANGED <<dockerVars, laneVars, fwVars, dbVars, opVars>>
    PROVE  PInv'
<1>1. pc = "free"
  BY IdleIsFree
<1>2. changes \in Nat /\ faults \in Nat /\ mark \in [changes : Nat, faults : Nat]
      /\ mark.changes <= changes /\ mark.faults <= faults
  BY DEF IInv, TypeOK, DockerType, DbType, RecType, PInv, PhaseOk
<1>3. CASE Fault /\ UNCHANGED <<phase, starting, todo, mark>>
  <2>1. PhaseOk'
    BY <1>1, <1>2, <1>3, RecKeeps DEF Fault, PInv, PhaseOk, InPass, dockerVars, opVars
  <2>2. PassOk'
    BY <1>3 DEF PassOk, InPass
  <2> QED
    BY <2>1, <2>2, RecKeeps DEF PInv
<1>4. CASE phase' = "cleanup" /\ mark' = [changes |-> changes, faults |-> faults]
  <2>1. PhaseOk'
    <3>1. faults' \in {faults, faults + 1}
      BY <1>4 DEF BeginReconcile, Fault
    <3> QED
      BY <1>1, <1>2, <1>4, <3>1, RecKeeps DEF PhaseOk, InPass, dockerVars, opVars
  <2>2. ASSUME Undisturbed' PROVE CleanupOk'
    <3>1. faults' = faults
      BY <1>4, <2>2 DEF Undisturbed
    <3>2. todo' = rows
      BY <1>2, <1>4, <3>1 DEF BeginReconcile, Fault, InPass
    <3> QED
      BY <1>1, <3>2 DEF CleanupOk, opVars, dbVars
  <2> QED
    BY <1>4, <2>1, <2>2, RecKeeps DEF PInv, PassOk
<1> QED
  BY <1>3, <1>4 DEF BeginReconcile

LEMMA PassBegins ==
    ASSUME IInv, PInv, Start \/ reconcile \/ reconnect
    PROVE  PInv'
<1>1. UNCHANGED <<dockerVars, laneVars, fwVars, dbVars, opVars>> /\ ~InPass
  BY DEF Start, reconcile, reconnect, RecOnly, InPass
<1>2. CASE LanesIdle /\ \E onStart \in BOOLEAN : BeginReconcile(onStart)
  BY <1>1, <1>2, BeginPasses
<1>3. CASE UNCHANGED <<phase, starting, todo, mark, faults>>
  <2>1. PhaseOk' /\ PassOk'
    BY <1>1, <1>3, RecKeeps DEF PInv, PhaseOk, PassOk, InPass, dockerVars, opVars
  <2> QED
    BY <1>1, <2>1, RecKeeps DEF PInv
<1> QED
  BY <1>2, <1>3 DEF Start, reconcile, reconnect, PInv, PhaseOk

LEMMA VisitPasses ==
    ASSUME IInv, PInv, NEW c \in Containers, cleanupRules(c) \/ syncContainers(c) \/ inspectFails(c)
    PROVE  PInv'
<1>1. /\ UNCHANGED <<dockerVars, laneVars, fwVars, dbVars, phase, mark>> /\ pc = "free" /\ InPass
      /\ c \in todo /\ todo' = todo \ {c} /\ plan = {}
  BY DEF cleanupRules, syncContainers, inspectFails, Visit, RecOnly, InPass, IInv, PlanOk
<1>2. changes \in Nat /\ faults \in Nat /\ mark \in [changes : Nat, faults : Nat]
      /\ faults' \in {faults, faults + 1}
  BY DEF IInv, TypeOK, DockerType, DbType, RecType, cleanupRules, syncContainers, inspectFails, Fault
<1>3. \/ UNCHANGED opVars
      \/ BeginOp(c, "delete", None, "rec")
      \/ BeginOp(c, "create", dockerAddr[c], "rec") /\ Enforced(c)
  BY DEF cleanupRules, syncContainers, inspectFails
<1>4. /\ plan' = {} /\ pc' \in {"free", "deleteFlush", "ensureDrop"} /\ (pc' # "free" => by' = "rec" /\ cid' = c)
      /\ pc' = "ensureDrop" => Enforced(c) /\ caddr' = dockerAddr[c]
  BY <1>1, <1>3 DEF opVars, BeginOp
<1>5. DockerOk' /\ WantedOk' /\ RowsOk'
  BY <1>1, <1>4 DEF PInv, DockerOk, WantedOk, RowsOk, dockerVars, laneVars, fwVars, dbVars, CreateSteps, DeleteSteps
<1>6. PhaseOk'
  BY <1>1, <1>2, <1>4 DEF PInv, PhaseOk, InPass, LanesIdle, dockerVars, laneVars
<1>7. ASSUME Undisturbed', phase = "cleanup" PROVE CleanupOk'
  <2>1. Undisturbed /\ faults' = faults
    BY <1>1, <1>7, DisturbedStays DEF dockerVars, cleanupRules, syncContainers, inspectFails
  <2>2. cleanupRules(c)
    BY <1>2, <1>7, <2>1 DEF cleanupRules, syncContainers, inspectFails, Visit, Fault
  <2>3. CleanupOk
    BY <1>7, <2>1 DEF PInv, PassOk
  <2>4. Running(c) \/ (pc' = "deleteFlush" /\ cid' = c)
    BY <2>2 DEF cleanupRules, BeginOp
  <2>5. pc' \in {"free"} \cup DeleteSteps
    BY <1>1, <2>2 DEF cleanupRules, BeginOp, opVars, DeleteSteps
  <2> QED
    BY <1>1, <2>3, <2>4, <2>5 DEF CleanupOk, Running, dockerVars, dbVars
<1>8. ASSUME Undisturbed', phase = "sync" PROVE SyncOk'
  <2>1. Undisturbed /\ faults' = faults
    BY <1>1, <1>8, DisturbedStays DEF dockerVars, cleanupRules, syncContainers, inspectFails
  <2>2. syncContainers(c)
    BY <1>2, <1>8, <2>1 DEF cleanupRules, syncContainers, inspectFails, Visit, Fault
  <2>3. SyncOk
    BY <1>8, <2>1 DEF PInv, PassOk
  <2>4. Running(c)
    BY <1>1, <2>3 DEF SyncOk
  <2>5. IF Enforced(c) THEN pc' = "ensureDrop" /\ cid' = c /\ caddr' = dockerAddr[c]
                       ELSE pc' = "deleteFlush" /\ cid' = c
    BY <2>2, <2>4 DEF syncContainers, BeginOp, Running
  <2>6. ASSUME NEW o \in Containers, Running(o), Enforced(o), o \notin todo' PROVE Done(o)'
    <3>1. CASE o = c
      BY <2>5, <2>6, <3>1 DEF Done, CreateSteps
    <3>2. CASE o # c
      <4>1. Done(o)
        BY <1>1, <2>3, <2>6, <3>2 DEF SyncOk
      <4> QED
        BY <1>1, <4>1 DEF Done, dockerVars, fwVars, CreateSteps
    <3> QED
      BY <3>1, <3>2
  <2> QED
    BY <1>1, <1>4, <2>3, <2>4, <2>5, <2>6 DEF SyncOk, Running, dockerVars, dbVars, CreateSteps, DeleteSteps
<1> QED
  BY <1>1, <1>5, <1>6, <1>7, <1>8 DEF PInv, PassOk

LEMMA PhaseEndPasses ==
    ASSUME IInv, PInv, listContainers \/ reconcileDone \/ listContainersFails \/ streamErr
    PROVE  PInv'
<1>1. /\ UNCHANGED <<dockerVars, laneVars, fwVars, dbVars, opVars, mark>>
      /\ phase = "idle" \/ (InPass /\ pc = "free")
      /\ faults' = faults \/ Fault
  BY DEF listContainers, reconcileDone, listContainersFails, streamErr, PhaseOver, RecOnly, InPass, recVars
<1>2. changes \in Nat /\ faults \in Nat /\ mark \in [changes : Nat, faults : Nat]
      /\ faults' \in {faults, faults + 1}
  BY <1>1 DEF IInv, TypeOK, DockerType, DbType, RecType, Fault
<1>3. phase' = "idle" \/ (phase = "cleanup" /\ phase' = "sync")
  BY DEF listContainers, reconcileDone, listContainersFails, streamErr, PhaseOver, EndReconcile, recVars
<1>4. PhaseOk'
  BY <1>1, <1>2, <1>3, RecKeeps DEF PInv, PhaseOk, InPass, dockerVars, opVars
<1>5. ASSUME Undisturbed', phase' = "sync" PROVE SyncOk'
  <2>1. /\ phase = "cleanup" /\ pc = "free" /\ todo = {} /\ plan = {} /\ Undisturbed
        /\ todo' = {c \in Containers : Running(c) /\ Label[c] # "absent"}
    BY <1>1, <1>5, DisturbedStays
       DEF listContainers, reconcileDone, listContainersFails, streamErr, PhaseOver, EndReconcile, recVars,
           IInv, PlanOk, dockerVars
  <2>2. \A c \in rows : Running(c)
    BY <2>1 DEF PInv, PassOk, CleanupOk
  <2> QED
    BY <1>1, <2>1, <2>2 DEF SyncOk, Running, Enforced, dockerVars, opVars, dbVars, CreateSteps, DeleteSteps
<1> QED
  BY <1>1, <1>3, <1>4, <1>5, RecKeeps DEF PInv, PassOk

LEMMA CrashPasses ==
    ASSUME IInv, PInv, Crash
    PROVE  PInv'
<1>1. /\ UNCHANGED <<mark, dockerVars, fwVars, dbVars, faults>> /\ phase' = "down" /\ pc' = "free" /\ plan' = {}
      /\ \A c \in Containers : lane'[c] = <<>> /\ req'[c] = "none"
  BY DEF Crash
<1> QED
  BY <1>1 DEF PInv, DockerOk, WantedOk, RowsOk, PhaseOk, PassOk, InPass, LanesIdle, dockerVars, fwVars, dbVars,
     CreateSteps, DeleteSteps

-----------------------------------------------------------------------------
(* The inductive argument *)

LEMMA InitPasses == ASSUME Init PROVE PInv
BY DEF Init, DockerInit, PInv, DockerOk, WantedOk, RowsOk, PhaseOk, PassOk, InPass, LanesIdle, CreateSteps, DeleteSteps

LEMMA NextPasses == ASSUME IInv, PInv, [Next]_vars PROVE PInv'
<1>1. CASE Docker
  BY <1>1, DockerPasses
<1>2. CASE Events
  BY <1>2, DispatchPasses, HandlerPasses, LockPasses DEF Events
<1>3. CASE operationSteps
  BY <1>3, StepPasses
<1>4. CASE Reconciliation \/ streamErr
  BY <1>4, PassBegins, VisitPasses, PhaseEndPasses DEF Reconciliation
<1>5. CASE Crash
  BY <1>5, CrashPasses
<1>6. CASE UNCHANGED vars
  BY <1>6 DEF vars, PInv, DockerOk, WantedOk, RowsOk, PhaseOk, PassOk, Undisturbed, CleanupOk, SyncOk, Done, InPass,
     LanesIdle, Running, dockerVars, laneVars, recVars, opVars, fwVars, dbVars
<1> QED
  BY <1>1, <1>2, <1>3, <1>4, <1>5, <1>6 DEF Next, operationSteps

LEMMA PassInvariance == Spec => [](IInv /\ PInv)
<1>1. Init => PInv
  BY InitPasses
<1>2. IInv /\ PInv /\ [Next]_vars => PInv'
  BY NextPasses
<1> QED
  BY <1>1, <1>2, Invariance, PTL DEF Spec

\* The step that ends a pass is reconcileDone.
LEMMA CleanPassIsDone ==
    ASSUME IInv, [Next]_vars, CleanPassEnds
    PROVE  reconcileDone /\ todo = {} /\ pc = "free" /\ Undisturbed
<1>1. phase = "sync" /\ phase' = "idle" /\ Undisturbed
  BY DEF CleanPassEnds, Undisturbed
<1>2. ~UNCHANGED recVars
  BY <1>1 DEF recVars
<1>3. reconcileDone
  <2>1. ~operationSteps
    BY <1>2, StepShape
  <2>2. ~Docker /\ ~Events
    BY <1>1, <1>2 DEF Docker, DockerStart, DockerDie, DockerRemove, DockerDisconnect, DockerConnect, DockerChange,
       Events, dispatch, handleDockerEvent, handleDie, handleIgnored, handleInspected, HandlerVars, lockPolicyMu
  <2>3. ~Crash /\ ~streamErr /\ ~UNCHANGED vars
    BY <1>1 DEF Crash, streamErr, vars, recVars
  <2>4. ~Start /\ ~reconcile /\ ~reconnect /\ ~listContainers /\ ~listContainersFails
    BY <1>1 DEF Start, reconcile, reconnect, listContainers, listContainersFails, PhaseOver
  <2>5. \A c \in Containers : ~(cleanupRules(c) \/ syncContainers(c) \/ inspectFails(c))
    BY <1>1 DEF cleanupRules, syncContainers, inspectFails, Visit
  <2> QED
    BY <2>1, <2>2, <2>3, <2>4, <2>5 DEF Next, operationSteps, Reconciliation
<1> QED
  BY <1>1, <1>3 DEF reconcileDone, PhaseOver

\* One undisturbed pass, whatever failed or was lost before it, protects every
\* address again and leaves no rule to an address its container has left.
THEOREM CleanPassEnforces == Spec => PassEnforces
<1>1. ASSUME IInv, PInv, [Next]_vars, CleanPassEnds
      PROVE  /\ AddressesEnforced
             /\ \A c \in chains : Running(c) => Enforced(c)
             /\ \A r \in Live : dockerAddr[r.tag] = r.to
  <2>1. todo = {} /\ pc = "free" /\ SyncOk
    BY <1>1, CleanPassIsDone DEF PInv, PassOk, CleanPassEnds
  <2>2. \A c \in Containers : Running(c) /\ Enforced(c) =>
            /\ dockerAddr[c] # None => vmap[dockerAddr[c]] = c
            /\ \A r \in rules : r.tag = c => r.to = dockerAddr[c]
    BY <2>1 DEF SyncOk, Done, CreateSteps
  <2>3. AddressesEnforced
    BY <2>2 DEF AddressesEnforced, Protected
  <2>4. ASSUME NEW r \in Live PROVE dockerAddr[r.tag] = r.to
    <3>1. r \in rules /\ r.tag \in Containers
      BY <1>1 DEF Live, IInv, TypeOK, FwType, Rule
    <3>2. r.tag \in rows
      BY <1>1, <3>1 DEF PInv, RowsOk
    <3>3. Running(r.tag) /\ Enforced(r.tag)
      BY <1>1, <2>1, <3>2 DEF SyncOk, PInv, WantedOk
    <3> QED
      BY <2>2, <3>1, <3>3
  <2> QED
    BY <1>1, <2>3, <2>4 DEF PInv, WantedOk
<1>2. IInv /\ PInv /\ [Next]_vars =>
          [CleanPassEnds => /\ AddressesEnforced
                            /\ \A c \in chains : Running(c) => Enforced(c)
                            /\ \A r \in Live : dockerAddr[r.tag] = r.to]_vars
  BY <1>1
<1> QED
  BY <1>2, PassInvariance, PTL DEF Spec, PassEnforces

-----------------------------------------------------------------------------
(* When no call fails and the process does not die: what a pass removes, and *)
(* what Docker's events, handled one after the other in each lane, achieve   *)
(* by themselves.  The hypotheses are on the bounds of RuleManager, so Docker*)
(* may still change at any point and events may be delivered again.          *)

NothingFails == MaxFaults = 0 /\ MaxCrashes = 0
StreamHolds == MaxBreaks = 0
NamesApart == \A c, o \in Containers : NameOf[c] = NameOf[o] => c = o

-----------------------------------------------------------------------------
(* The inductive invariants of the second part *)

\* A chain has its row, but for the steps of a create between the two.
ChainsOk ==
    /\ \A c \in chains : c \in rows \/ (cid = c /\ pc \in {"map", "metadata"})
    /\ pc = "deleteCommit" => cid \notin chains

\* Before Start there is nothing, and from then on the stream is open.
StreamOk ==
    /\ connected <=> phase # "down"
    /\ ~connected => /\ pc = "free" /\ rules = {} /\ plan = {}
                     /\ \A c \in Containers : req[c] = "none"

\* An event of the container that its handler has not begun to look at.
Ahead(c, t) ==
    \/ \E i \in 1..Len(stream) : stream[i] = [id |-> c, type |-> t]
    \/ \E i \in 1..Len(lane[c]) : lane[c][i] = t /\ (i > 1 \/ req[c] = "none")

\* An event that will make the handler act on the state that Docker is in now: when
\* the container does not run, network events will be ignored.
WillLook(c) ==
    IF Running(c) THEN \E t \in EventTypes : Ahead(c, t) ELSE Ahead(c, "die")

\* The handler waits for an operation that has not replaced the rules yet.
Replaced == {"finalize", "clear", "deleteCommit"}
WillReplace(c) ==
    /\ req[c] # "none"
    /\ ~(by = "lane" /\ cid = c /\ pc \in Replaced)

\* What was inspected is what is, or there will be another look.
SnapOk ==
    /\ \A c \in Containers : req[c] = "create" /\ snap[c] # dockerAddr[c] => WillLook(c)
    /\ pc \in CreateSteps /\ caddr # dockerAddr[cid] => WillLook(cid)

\* The same for the rules in force and for the planned ones, but that a planned rule
\* is no longer replaced by the operation that plans it.
StaleOk ==
    /\ \A r \in rules : r.to # dockerAddr[r.tag] => WillLook(r.tag) \/ WillReplace(r.tag)
    /\ \A r \in plan : r.to # dockerAddr[r.tag] =>
          WillLook(r.tag) \/ (r.tag # cid /\ WillReplace(r.tag))

SInv == StreamOk /\ SnapOk /\ StaleOk

USE ConstantsAssumption

-----------------------------------------------------------------------------
(* Chains and rows *)

\* The failures that remain are those for a reason in the state.
LEMMA NoFaults == ASSUME NothingFails, IInv PROVE ~Fault /\ ~Crash
BY DEF NothingFails, IInv, TypeOK, DbType, RecType, Fault, Crash

\* A create gets past the verdict map, and can always be rolled back.
LEMMA NoRefusals ==
    ASSUME NothingFails, IInv
    PROVE  ~replaceContainerAddressMappingsFails /\ ~quarantineContainerPolicyFails
<1>1. Displaced \subseteq chains
  BY DEF Displaced, DesiredAddrs, IInv, TypeOK, OpType, FwOk, FailClosed, MaybeAddr
<1>2. pc \in {"map", "quarantine"} => cid \in chains
  BY DEF IInv, OpOk, CreateSteps
<1> QED
  BY <1>1, <1>2, NoFaults DEF replaceContainerAddressMappingsFails, quarantineContainerPolicyFails, Fails, AtStep

\* Steps outside operations leave chains and rows alone, and begin an operation at
\* its first step or none.
LEMMA OtherSteps ==
    ASSUME NothingFails, IInv, [Next]_vars, ~operationSteps
    PROVE  /\ UNCHANGED <<fwVars, dbVars>>
           /\ UNCHANGED opVars \/ (pc = "free" /\ pc' \in {"ensureDrop", "deleteFlush"})
<1>1. CASE Docker
  BY <1>1 DEF Docker, DockerStart, DockerDie, DockerRemove, DockerDisconnect, DockerConnect, DockerChange
<1>2. CASE Events
  BY <1>2 DEF Events, dispatch, handleDockerEvent, handleDie, handleIgnored, handleInspected, HandlerVars,
     lockPolicyMu, BeginOp
<1>3. CASE Reconciliation \/ streamErr
  BY <1>3 DEF Reconciliation, Start, reconcile, reconnect, listContainers, reconcileDone, listContainersFails,
     streamErr, PhaseOver, cleanupRules, syncContainers, inspectFails, Visit, RecOnly, BeginOp
<1>4. CASE UNCHANGED vars
  BY <1>4 DEF vars
<1> QED
  BY <1>1, <1>2, <1>3, <1>4, NoFaults DEF Next, operationSteps

LEMMA ChainsKeep ==
    ASSUME NothingFails, NamesApart, IInv, ChainsOk, [Next]_vars
    PROVE  ChainsOk'
<1>1. CASE ~operationSteps
  BY <1>1, OtherSteps DEF ChainsOk, fwVars, dbVars, opVars
<1>2. CASE ensureContainerDropPolicy
  BY <1>2 DEF ChainsOk, ensureContainerDropPolicy, AtStep, Goto, dbVars
<1>3. CASE replaceContainerAddressMappings
  BY <1>3 DEF ChainsOk, replaceContainerAddressMappings, RetargetBatch, AtStep, Goto, dbVars
<1>4. CASE replaceContainerMetadata
  BY <1>4 DEF ChainsOk, replaceContainerMetadata, AtStep, Goto, fwVars
<1>5. CASE replaceContainerMetadataFails
  <2>1. ~NameClash
    BY <1>5 DEF NamesApart, NameClash, replaceContainerMetadataFails, AtStep, IInv, OpOk, TypeOK, DbType
  <2> QED
    BY <1>5, <2>1, NoFaults DEF replaceContainerMetadataFails, Fails
<1>6. CASE populateOutputRules \/ createWaitingContainerRules
  BY <1>6 DEF ChainsOk, populateOutputRules, createWaitingContainerRules, AtStep, fwVars, dbVars
<1>7. CASE replaceContainerPolicy \/ quarantineContainerPolicy
  BY <1>7 DEF ChainsOk, replaceContainerPolicy, quarantineContainerPolicy, ReplaceBatch, AtStep, Goto, dbVars
<1>8. CASE finalizeContainerPolicy \/ clearContainerPolicyMetadata
  BY <1>8 DEF ChainsOk, finalizeContainerPolicy, clearContainerPolicyMetadata, AtStep, Finish, fwVars
<1>9. CASE populateOutputRulesFails \/ createWaitingContainerRulesFails \/ replaceContainerPolicyFails
  BY <1>9 DEF ChainsOk, populateOutputRulesFails, createWaitingContainerRulesFails, replaceContainerPolicyFails,
     AtStep, Goto, fwVars, dbVars
<1>10. CASE deleteContainerRulesUntracked
  BY <1>10 DEF ChainsOk, deleteContainerRulesUntracked, AtStep, Goto, dbVars
<1>11. CASE deleteContainer
  BY <1>11 DEF ChainsOk, deleteContainer, AtStep, Finish, fwVars
<1> QED
  BY <1>1, <1>2, <1>3, <1>4, <1>5, <1>6, <1>7, <1>8, <1>9, <1>10, <1>11, NoFaults, NoRefusals
     DEF operationSteps, createContainerRules, deleteContainerRules, deleteContainerFails,
         ensureContainerDropPolicyFails, newFirewallClientFails, finalizeContainerPolicyFails, clearContainerPolicyMetadataFails

\* When nothing fails and no two containers share a name, an undisturbed pass
\* leaves no chain of a container that does not run, lost events or not.  (A name
\* that is taken makes a create fail between the chain and the row, as a crash does.)
THEOREM CleanPassRemoves ==
    ASSUME NothingFails, NamesApart
    PROVE  Spec => PassRemovesDeparted
<1>1. Init => ChainsOk
  BY DEF Init, ChainsOk
<1>2. IInv /\ ChainsOk /\ [Next]_vars => ChainsOk'
  BY ChainsKeep
<1>3. ASSUME IInv, PInv, ChainsOk, [Next]_vars, CleanPassEnds
      PROVE  \A c \in chains : Running(c)
  <2>1. pc = "free" /\ SyncOk
    BY <1>3, CleanPassIsDone DEF PInv, PassOk, CleanPassEnds
  <2> QED
    BY <1>3, <2>1 DEF ChainsOk, SyncOk
<1>4. IInv /\ PInv /\ ChainsOk /\ [Next]_vars => [CleanPassEnds => \A c \in chains : Running(c)]_vars
  BY <1>3
<1> QED
  BY <1>1, <1>2, <1>4, PassInvariance, PTL DEF Spec, PassRemovesDeparted

-----------------------------------------------------------------------------
(* Events ahead *)

\* A new event at the end of the stream.
LEMMA AheadEmitted ==
    ASSUME IInv, NEW e \in Event, stream' = Append(stream, e), UNCHANGED laneVars,
           NEW c \in Containers, NEW t
    PROVE  Ahead(c, t) \/ e = [id |-> c, type |-> t] => Ahead(c, t)'
<1>1. stream \in Seq(Event) /\ Len(stream) \in Nat
  BY DEF IInv, TypeOK, StreamType
<1>2. /\ Len(stream') = Len(stream) + 1 /\ stream'[Len(stream) + 1] = e
      /\ \A i \in 1..Len(stream) : stream'[i] = stream[i]
  BY <1>1
<1>3. CASE e = [id |-> c, type |-> t]
  <2>1. Len(stream) + 1 \in 1..Len(stream')
    BY <1>1, <1>2
  <2> QED
    BY <1>2, <1>3, <2>1 DEF Ahead
<1>4. ASSUME NEW i \in 1..Len(stream), stream[i] = [id |-> c, type |-> t] PROVE Ahead(c, t)'
  <2>1. i \in 1..Len(stream')
    BY <1>1, <1>2
  <2> QED
    BY <1>2, <1>4, <2>1 DEF Ahead
<1>5. ASSUME NEW i \in 1..Len(lane[c]), lane[c][i] = t, i > 1 \/ req[c] = "none" PROVE Ahead(c, t)'
  BY <1>5 DEF Ahead, laneVars
<1> QED
  BY <1>3, <1>4, <1>5 DEF Ahead

\* An event moves from the stream to its lane.
LEMMA AheadDispatched ==
    ASSUME IInv, dispatch, NEW c \in Containers, NEW t, Ahead(c, t)
    PROVE  Ahead(c, t)'
<1>1. stream \in Seq(Event) /\ stream # <<>> /\ lane \in [Containers -> Seq(EventTypes)]
  BY DEF dispatch, IInv, TypeOK, StreamType, LaneType
<1> DEFINE e == Head(stream)
<1>2. /\ e \in Event /\ stream' = Tail(stream) /\ lane' = [lane EXCEPT ![e.id] = Append(lane[e.id], e.type)]
      /\ UNCHANGED <<req, snap>>
  BY <1>1 DEF dispatch
<1>3. /\ Len(stream) \in Nat /\ Len(stream) > 0 /\ e = stream[1] /\ Len(stream') = Len(stream) - 1
      /\ \A i \in 1..Len(stream') : stream'[i] = stream[i + 1]
  BY <1>1, <1>2
<1>4. e.id \in Containers /\ e.type \in EventTypes
  BY <1>2 DEF Event
<1> HIDE DEF e
<1>5. lane'[c] = IF c = e.id THEN Append(lane[c], e.type) ELSE lane[c]
  BY <1>1, <1>2, <1>4
<1>6. lane[c] \in Seq(EventTypes) /\ Len(lane[c]) \in Nat
  BY <1>1
<1>7. \A i \in 1..Len(lane[c]) : i \in 1..Len(lane'[c]) /\ lane'[c][i] = lane[c][i]
  BY <1>4, <1>5, <1>6
<1>8. ASSUME NEW i \in 1..Len(lane[c]), lane[c][i] = t, i > 1 \/ req[c] = "none" PROVE Ahead(c, t)'
  BY <1>2, <1>7, <1>8 DEF Ahead
<1>9. ASSUME NEW i \in 1..Len(stream), stream[i] = [id |-> c, type |-> t] PROVE Ahead(c, t)'
  <2>1. CASE i > 1
    <3>1. i - 1 \in 1..Len(stream') /\ stream'[i - 1] = stream[i]
      BY <1>3, <2>1
    <3> QED
      BY <1>9, <3>1 DEF Ahead
  <2>2. CASE i = 1
    <3>1. e.id = c /\ e.type = t
      BY <1>3, <1>9, <2>2
    <3>2. lane'[c] = Append(lane[c], t)
      BY <1>5, <3>1
    <3>3. Len(lane[c]) + 1 \in 1..Len(lane'[c]) /\ lane'[c][Len(lane[c]) + 1] = t
      BY <1>4, <1>6, <3>1, <3>2
    <3>4. Len(lane[c]) + 1 > 1 \/ req'[c] = "none"
      <4>1. CASE lane[c] = <<>>
        BY <1>2, <4>1 DEF IInv, LaneOk
      <4>2. CASE lane[c] # <<>>
        BY <1>6, <4>2
      <4> QED
        BY <4>1, <4>2
    <3> QED
      BY <3>3, <3>4 DEF Ahead
  <2> QED
    BY <2>1, <2>2
<1> QED
  BY <1>8, <1>9 DEF Ahead

\* The head of a lane goes: it was looked at already, or it is the only one to be
\* ahead no longer.
LEMMA AheadPopped ==
    ASSUME IInv, NEW c \in Containers, lane[c] # <<>>, lane'[c] = Tail(lane[c]), req'[c] = "none",
           UNCHANGED stream, NEW t, Ahead(c, t), req[c] # "none" \/ Head(lane[c]) # t
    PROVE  Ahead(c, t)'
<1>1. lane[c] \in Seq(EventTypes)
  BY DEF IInv, TypeOK, LaneType
<1>2. /\ Len(lane[c]) \in Nat /\ Head(lane[c]) = lane[c][1] /\ Len(lane'[c]) = Len(lane[c]) - 1
      /\ \A i \in 1..Len(lane'[c]) : lane'[c][i] = lane[c][i + 1]
  BY <1>1
<1>3. ASSUME NEW i \in 1..Len(lane[c]), lane[c][i] = t, i > 1 \/ req[c] = "none" PROVE Ahead(c, t)'
  <2>1. i > 1
    BY <1>2, <1>3
  <2>2. i - 1 \in 1..Len(lane'[c]) /\ lane'[c][i - 1] = t
    BY <1>2, <1>3, <2>1
  <2> QED
    BY <2>2 DEF Ahead
<1>4. ASSUME NEW i \in 1..Len(stream), stream[i] = [id |-> c, type |-> t] PROVE Ahead(c, t)'
  BY <1>4 DEF Ahead
<1> QED
  BY <1>3, <1>4 DEF Ahead

\* Whoever is not concerned keeps what is ahead.
LEMMA AheadUntouched ==
    ASSUME NEW c, lane'[c] = lane[c], req'[c] = req[c], UNCHANGED stream, NEW t
    PROVE  Ahead(c, t)' <=> Ahead(c, t)
BY DEF Ahead

-----------------------------------------------------------------------------
(* No stale rule without an event *)

\* It is enough that a container whose address has changed will be looked at.
LEMMA LookCarries ==
    ASSUME IInv, SInv, UNCHANGED <<opVars, rules, req, snap>>,
           \A c \in Containers : WillLook(c)' \/ (dockerAddr'[c] = dockerAddr[c] /\ ~WillLook(c))
    PROVE  SnapOk' /\ StaleOk'
<1>1. /\ \A r \in rules \cup plan : r.tag \in Containers
      /\ pc \in CreateSteps => cid \in Containers
  BY DEF IInv, TypeOK, FwType, OpType, OpOk, Rule, CreateSteps
<1>2. \A c \in Containers : WillReplace(c)' <=> WillReplace(c)
  BY DEF WillReplace, Replaced, opVars
<1>3. SnapOk'
  BY <1>1 DEF SInv, SnapOk, opVars
<1>4. StaleOk'
  BY <1>1, <1>2 DEF SInv, StaleOk, opVars
<1> QED
  BY <1>3, <1>4

LEMMA DockerStale ==
    ASSUME IInv, SInv, Docker
    PROVE  SInv'
<1>1. PICK c \in Containers :
        DockerStart(c) \/ DockerDie(c) \/ DockerRemove(c) \/ DockerDisconnect(c) \/ DockerConnect(c)
  BY DEF Docker
<1>2. UNCHANGED <<connected, laneVars, recVars, opVars, fwVars>>
  BY <1>1 DEF DockerStart, DockerDie, DockerRemove, DockerDisconnect, DockerConnect, DockerChange
<1>3. dockerState \in [Containers -> DockerStates] /\ dockerAddr \in [Containers -> MaybeAddr]
  BY DEF IInv, TypeOK, DockerType
<1>4. StreamOk'
  BY <1>2 DEF SInv, StreamOk, laneVars, recVars, opVars, fwVars
<1>5. CASE ~connected
  <2>1. pc = "free" /\ rules = {} /\ plan = {} /\ \A o \in Containers : req[o] = "none"
    BY <1>5 DEF SInv, StreamOk
  <2> QED
    BY <1>2, <1>4, <2>1 DEF SInv, SnapOk, StaleOk, laneVars, opVars, fwVars, CreateSteps
<1>6. ASSUME connected PROVE SnapOk' /\ StaleOk'
  <2>1. ASSUME NEW t \in EventTypes, Emit(c, t), Running(c)' \/ t = "die",
               \A o \in Containers : o # c => dockerAddr'[o] = dockerAddr[o] /\ dockerState'[o] = dockerState[o]
        PROVE  SnapOk' /\ StaleOk'
    <3> DEFINE e == [id |-> c, type |-> t]
    <3>1. e \in Event /\ stream' = Append(stream, e)
      BY <1>6, <2>1 DEF Emit, Event
    <3> HIDE DEF e
    <3>2. Ahead(c, t)'
      BY <1>2, <2>1, <3>1, AheadEmitted DEF e
    <3>3. WillLook(c)'
      BY <2>1, <3>2 DEF WillLook
    <3>4. \A o \in Containers : o # c => (WillLook(o) => WillLook(o)')
      <4>1. \A o \in Containers, u \in EventTypes : Ahead(o, u) => Ahead(o, u)'
        BY <1>2, <3>1, AheadEmitted
      <4> QED
        BY <2>1, <4>1 DEF WillLook, Running, EventTypes
    <3> QED
      BY <1>2, <2>1, <3>3, <3>4, LookCarries DEF laneVars, fwVars
  <2>2. CASE DockerStart(c)
    BY <1>3, <2>1, <2>2 DEF DockerStart, Running, EventTypes
  <2>3. CASE DockerDie(c)
    BY <1>3, <2>1, <2>3 DEF DockerDie, EventTypes
  <2>4. CASE DockerDisconnect(c)
    BY <1>3, <2>1, <2>4 DEF DockerDisconnect, Running, EventTypes
  <2>5. CASE DockerConnect(c)
    BY <1>3, <2>1, <2>5 DEF DockerConnect, Running, EventTypes
  <2>6. CASE DockerRemove(c)
    <3>1. UNCHANGED <<dockerAddr, stream>> /\ \A o \in Containers : Running(o)' <=> Running(o)
      BY <1>3, <2>6 DEF DockerRemove, Running
    <3>2. \A o \in Containers : WillLook(o)' <=> WillLook(o)
      BY <1>2, <3>1 DEF WillLook, Ahead, laneVars
    <3> QED
      BY <1>2, <3>1, <3>2, LookCarries DEF laneVars, fwVars
  <2> QED
    BY <1>1, <2>2, <2>3, <2>4, <2>5, <2>6
<1> QED
  BY <1>4, <1>5, <1>6 DEF SInv

LEMMA DispatchStale ==
    ASSUME IInv, SInv, dispatch
    PROVE  SInv'
<1>1. UNCHANGED <<connected, req, snap, dockerVars, recVars, opVars, fwVars>>
  BY DEF dispatch
<1>2. \A c \in Containers : WillLook(c) => WillLook(c)'
  <2>1. \A c \in Containers, t \in EventTypes : Ahead(c, t) => Ahead(c, t)'
    BY AheadDispatched
  <2> QED
    BY <1>1, <2>1 DEF WillLook, Running, dockerVars, EventTypes
<1>3. SnapOk' /\ StaleOk'
  BY <1>1, <1>2, LookCarries DEF dockerVars, fwVars
<1> QED
  BY <1>1, <1>3 DEF SInv, StreamOk, recVars, opVars, fwVars

LEMMA HandlerStale ==
    ASSUME NothingFails, IInv, PInv, SInv, NEW c \in Containers, handleDockerEvent(c)
    PROVE  SInv'
<1>1. lane[c] # <<>> /\ req[c] = "none" /\ UNCHANGED HandlerVars
  BY DEF handleDockerEvent, handleDie, handleIgnored, handleInspected, HandlerReady
<1>2. phase = "idle" /\ ~InPass /\ connected
  BY <1>1, BusyIsIdle DEF SInv, StreamOk
<1>3. pc # "free" => cid # c /\ by = "lane"
  BY <1>1, <1>2 DEF PInv, PhaseOk, IInv, OpOk
<1>4. lane \in [Containers -> Seq(EventTypes)] /\ req \in [Containers -> {"none", "create", "delete"}]
      /\ snap \in [Containers -> MaybeAddr]
  BY DEF IInv, TypeOK, LaneType
<1>5. /\ \A r \in rules \cup plan : r.tag \in Containers
      /\ pc \in CreateSteps => cid \in Containers /\ pc # "free"
      /\ plan # {} => pc # "free"
  BY DEF IInv, TypeOK, FwType, OpType, OpOk, PlanOk, Rule, CreateSteps
<1>6. StreamOk'
  BY <1>1, <1>2 DEF StreamOk, HandlerVars, streamVars, recVars
<1>7. \A o \in Containers : o # c => lane'[o] = lane[o] /\ req'[o] = req[o] /\ snap'[o] = snap[o]
  BY <1>4 DEF handleDockerEvent, handleDie, handleIgnored, handleInspected, HandlerReturns, HandlerSends
<1>8. \A o \in Containers : o # c => (WillLook(o)' <=> WillLook(o)) /\ (WillReplace(o)' <=> WillReplace(o))
  BY <1>1, <1>7, AheadUntouched DEF WillLook, WillReplace, Replaced, Running, HandlerVars, dockerVars, streamVars, opVars
<1>9. ASSUME ~WillReplace(c)', WillLook(c) PROVE WillLook(c)' /\ req'[c] = "none"
  <2>1. handleIgnored(c)
    <3>1. CASE handleDie(c) \/ handleInspected(c)
      <4>1. req'[c] # "none"
        BY <1>4, <3>1 DEF handleDie, handleInspected, HandlerSends
      <4>2. ~(by' = "lane" /\ cid' = c /\ pc' # "free")
        BY <1>1, <1>3 DEF HandlerVars, opVars
      <4> QED
        BY <1>9, <4>1, <4>2 DEF WillReplace, Replaced
    <3> QED
      BY <3>1 DEF handleDockerEvent
  <2>2. /\ Head(lane[c]) # "die" /\ ~Running(c)
        /\ lane' = [lane EXCEPT ![c] = Tail(lane[c])] /\ UNCHANGED <<req, snap>>
    BY <2>1, NoFaults DEF handleIgnored, Fails, HandlerReturns, Running
  <2>3. Ahead(c, "die")
    BY <1>9, <2>2 DEF WillLook
  <2>4. lane'[c] = Tail(lane[c]) /\ req'[c] = "none" /\ UNCHANGED stream
    BY <1>1, <1>4, <2>2 DEF HandlerVars, streamVars
  <2>5. Ahead(c, "die")'
    BY <1>1, <2>2, <2>3, <2>4, AheadPopped
  <2> QED
    BY <1>1, <2>2, <2>4, <2>5 DEF WillLook, Running, HandlerVars, dockerVars
<1>10. SnapOk'
  <2>1. ASSUME req'[c] = "create" PROVE snap'[c] = dockerAddr'[c]
    <3>1. handleInspected(c) /\ Enforced(c)
      BY <1>1, <1>4, <2>1 DEF handleDockerEvent, handleDie, handleIgnored, handleInspected, HandlerReturns, HandlerSends
    <3> QED
      BY <1>1, <1>4, <3>1 DEF handleInspected, HandlerSends, HandlerVars, dockerVars
  <2> QED
    BY <1>1, <1>3, <1>5, <1>7, <1>8, <2>1 DEF SInv, SnapOk, HandlerVars, dockerVars, opVars
<1>11. StaleOk'
  <2>1. WillLook(c) => WillLook(c)' \/ WillReplace(c)'
    BY <1>9
  <2>2. ~WillReplace(c)
    BY <1>1 DEF WillReplace, Replaced
  <2> QED
    BY <1>1, <1>3, <1>5, <1>8, <2>1, <2>2 DEF SInv, StaleOk, HandlerVars, dockerVars, opVars, fwVars
<1> QED
  BY <1>6, <1>10, <1>11 DEF SInv
\* An operation begins, on what was inspected or with another look to come, or the
\* pass moves on without one.
LEMMA BeginStale ==
    ASSUME IInv, PInv, SInv, pc = "free", phase # "down", phase' # "down",
           UNCHANGED <<dockerVars, stream, connected, laneVars, rules>>,
           \/ UNCHANGED opVars
           \/ \E c \in Containers, kind \in {"create", "delete"}, addr \in MaybeAddr, who \in {"lane", "rec"} :
                BeginOp(c, kind, addr, who) /\ (kind = "create" /\ addr # dockerAddr[c] => WillLook(c))
    PROVE  SInv'
<1>1. plan = {} /\ plan' = {} /\ connected /\ connected'
  BY DEF IInv, PlanOk, SInv, StreamOk, opVars, BeginOp
<1>2. \A c \in Containers : WillLook(c)' <=> WillLook(c)
  BY DEF WillLook, Ahead, Running, laneVars, dockerVars
<1>3. pc' \in {"free", "ensureDrop", "deleteFlush"}
  BY DEF opVars, BeginOp
<1>4. \A c \in Containers : WillReplace(c)' <=> WillReplace(c)
  BY <1>3 DEF WillReplace, Replaced, laneVars
<1>5. pc' \in CreateSteps /\ caddr' # dockerAddr[cid'] => WillLook(cid')
  BY DEF opVars, BeginOp, CreateSteps
<1>6. pc' \in CreateSteps => cid' \in Containers
  BY DEF opVars, BeginOp, CreateSteps
<1>7. SnapOk'
  BY <1>2, <1>5, <1>6 DEF SInv, SnapOk, laneVars, dockerVars
<1>8. StaleOk'
  <2>1. \A r \in rules : r.tag \in Containers
    BY DEF IInv, TypeOK, FwType, Rule
  <2> QED
    BY <1>1, <1>2, <1>4, <2>1 DEF SInv, StaleOk, dockerVars
<1> QED
  BY <1>1, <1>7, <1>8 DEF SInv, StreamOk

LEMMA LockStale ==
    ASSUME IInv, PInv, SInv, NEW c \in Containers, lockPolicyMu(c)
    PROVE  SInv'
<1>1. phase = "idle" /\ pc = "free" /\ UNCHANGED <<dockerVars, streamVars, laneVars, recVars, fwVars>>
  BY BusyIsIdle DEF lockPolicyMu, BeginOp
<1>2. req[c] \in {"create", "delete"} /\ snap[c] \in MaybeAddr /\ BeginOp(c, req[c], snap[c], "lane")
  BY DEF lockPolicyMu, IInv, TypeOK, LaneType
<1>3. req[c] = "create" /\ snap[c] # dockerAddr[c] => WillLook(c)
  BY DEF SInv, SnapOk
<1> QED
  BY <1>1, <1>2, <1>3, BeginStale DEF streamVars, recVars, fwVars

LEMMA PassStale ==
    ASSUME NothingFails, StreamHolds, IInv, PInv, SInv, Reconciliation \/ streamErr
    PROVE  SInv'
<1>1. UNCHANGED <<dockerVars, laneVars, rules>>
  BY DEF Reconciliation, Start, reconcile, reconnect, listContainers, reconcileDone, listContainersFails, streamErr,
     PhaseOver, cleanupRules, syncContainers, inspectFails, Visit, RecOnly, fwVars
<1>2. CASE Start
  <2>1. ~connected /\ pc = "free" /\ rules = {} /\ plan = {} /\ (\A c \in Containers : req[c] = "none")
    BY <1>2 DEF Start, SInv, StreamOk
  <2>2. phase' = "cleanup" /\ connected' /\ UNCHANGED opVars
    BY <1>2, NoFaults DEF Start, BeginReconcile
  <2> QED
    BY <1>1, <2>1, <2>2 DEF SInv, StreamOk, SnapOk, StaleOk, laneVars, opVars, CreateSteps
<1>3. CASE reconcile
  <2>1. LanesIdle /\ phase = "idle" /\ phase' # "down" /\ UNCHANGED <<stream, connected, opVars>>
    BY <1>3, NoFaults DEF reconcile, BeginReconcile, streamVars
  <2>2. pc = "free"
    BY <2>1, IdleIsFree DEF InPass
  <2> QED
    BY <1>1, <2>1, <2>2, BeginStale
<1>4. CASE listContainers \/ reconcileDone \/ listContainersFails
  <2>1. pc = "free" /\ phase # "down" /\ phase' # "down" /\ UNCHANGED <<stream, connected, opVars>>
    BY <1>4 DEF listContainers, reconcileDone, listContainersFails, PhaseOver, EndReconcile, streamVars
  <2> QED
    BY <1>1, <2>1, BeginStale
<1>5. ASSUME NEW c \in Containers, cleanupRules(c) \/ syncContainers(c) \/ inspectFails(c) PROVE SInv'
  <2>1. pc = "free" /\ phase # "down" /\ phase' # "down" /\ UNCHANGED <<stream, connected>>
    BY <1>5 DEF cleanupRules, syncContainers, inspectFails, Visit, streamVars
  <2>2. \/ UNCHANGED opVars
        \/ BeginOp(c, "delete", None, "rec")
        \/ BeginOp(c, "create", dockerAddr[c], "rec")
    BY <1>5 DEF cleanupRules, syncContainers, inspectFails
  <2>3. dockerAddr[c] \in MaybeAddr /\ None \in MaybeAddr
    BY DEF IInv, TypeOK, DockerType, MaybeAddr
  <2> QED
    BY <1>1, <2>1, <2>2, <2>3, BeginStale
<1>6. ~reconnect
  BY DEF reconnect, SInv, StreamOk
<1>7. ~streamErr
  BY DEF streamErr, StreamHolds, IInv, TypeOK, StreamType
<1> QED
  BY <1>2, <1>3, <1>4, <1>5, <1>6, <1>7 DEF Reconciliation
\* What the steps of an operation do to the rules when nothing fails: from the step
\* that replaces them on, all that is tagged with the container is what was planned.
LEMMA StepRules ==
    ASSUME NothingFails, IInv, PInv, operationSteps
    PROVE  /\ rules' \subseteq rules \cup plan
           /\ pc' \in Replaced => \A r \in rules' : r.tag # cid \/ r \in plan
           /\ Finish => pc \in Replaced /\ rules' = rules
           /\ \A r \in plan' : \/ r \in plan \/ r.to = dockerAddr[r.tag]
                               \/ r.tag = cid /\ r.to = caddr /\ pc \in CreateSteps
<1>1. CASE ensureContainerDropPolicy \/ replaceContainerMetadata
  BY <1>1 DEF ensureContainerDropPolicy, replaceContainerMetadata, Goto, Finish, Replaced, fwVars
<1>2. CASE replaceContainerAddressMappings
  BY <1>2 DEF replaceContainerAddressMappings, RetargetBatch, Goto, Finish, Replaced
<1>3. CASE \/ replaceContainerMetadataFails \/ populateOutputRulesFails
           \/ createWaitingContainerRulesFails \/ replaceContainerPolicyFails
  BY <1>3 DEF replaceContainerMetadataFails, populateOutputRulesFails, createWaitingContainerRulesFails,
     replaceContainerPolicyFails, Goto, Finish, Replaced, fwVars
<1>4. CASE populateOutputRules \/ createWaitingContainerRules
  <2>1. rules' = rules /\ pc' \in {"waiting", "replace"} /\ pc \in CreateSteps
    BY <1>4 DEF populateOutputRules, createWaitingContainerRules, fwVars, AtStep, CreateSteps
  <2>2. pc' \notin Replaced \cup {"free"}
    BY <2>1 DEF Replaced
  <2> QED
    BY <1>4, <2>1, <2>2, PlannedRules DEF Finish
<1>5. CASE replaceContainerPolicy \/ quarantineContainerPolicy
  <2>1. /\ rules' \subseteq (rules \ Incident({cid})) \cup plan /\ plan' = plan /\ pc' # "free"
    BY <1>5 DEF replaceContainerPolicy, quarantineContainerPolicy, ReplaceBatch, Goto
  <2> QED
    BY <2>1 DEF Incident, Finish
<1>6. CASE deleteContainerRulesUntracked
  <2>1. /\ rules' = (rules \ Incident({cid})) /\ plan' = plan /\ pc' # "free"
    BY <1>6 DEF deleteContainerRulesUntracked, Goto
  <2> QED
    BY <2>1 DEF Incident, Finish
<1>7. CASE finalizeContainerPolicy \/ clearContainerPolicyMetadata \/ deleteContainer
  BY <1>7 DEF finalizeContainerPolicy, clearContainerPolicyMetadata, deleteContainer, AtStep, Finish, Replaced, fwVars
<1> QED
  BY <1>1, <1>2, <1>3, <1>4, <1>5, <1>6, <1>7, NoFaults, NoRefusals
     DEF operationSteps, createContainerRules, deleteContainerRules, deleteContainerFails,
         ensureContainerDropPolicyFails, newFirewallClientFails, finalizeContainerPolicyFails, clearContainerPolicyMetadataFails

LEMMA StepStale ==
    ASSUME NothingFails, IInv, PInv, SInv, operationSteps
    PROVE  SInv'
<1>1. pc # "free" /\ connected /\ UNCHANGED <<dockerVars, streamVars, recVars>> /\ cid \in Containers
  BY StepShape DEF SInv, StreamOk, IInv, OpOk
<1>2. StreamOk'
  BY <1>1 DEF SInv, StreamOk, streamVars, recVars
<1>3. /\ \A r \in rules \cup plan : r.tag \in Containers
      /\ lane \in [Containers -> Seq(EventTypes)] /\ req \in [Containers -> {"none", "create", "delete"}]
      /\ snap \in [Containers -> MaybeAddr]
  BY DEF IInv, TypeOK, LaneType, FwType, OpType, Rule
<1>4. CASE Finish
  <2>1. pc \in Replaced /\ rules' = rules /\ plan' = {} /\ pc' = "free"
    BY <1>4, StepRules DEF Finish
  <2>2. ASSUME NEW c \in Containers, WillLook(c) PROVE WillLook(c)'
    <3>1. ASSUME NEW t, Ahead(c, t) PROVE Ahead(c, t)'
      <4>1. CASE by = "lane" /\ c = cid
        <5>1. req[c] # "none" /\ lane[c] # <<>>
          BY <1>1, <4>1 DEF IInv, OpOk, LaneOk
        <5>2. lane'[c] = Tail(lane[c]) /\ req'[c] = "none" /\ UNCHANGED stream
          BY <1>1, <1>3, <1>4, <4>1 DEF Finish, streamVars
        <5> QED
          BY <3>1, <5>1, <5>2, AheadPopped
      <4>2. CASE by # "lane" \/ c # cid
        <5>1. lane'[c] = lane[c] /\ req'[c] = req[c] /\ UNCHANGED stream
          BY <1>1, <1>3, <1>4, <4>2 DEF Finish, streamVars, laneVars
        <5> QED
          BY <3>1, <5>1, AheadUntouched
      <4> QED
        BY <4>1, <4>2
    <3> QED
      BY <1>1, <2>2, <3>1 DEF WillLook, Running, dockerVars
  <2>3. ASSUME NEW c \in Containers, WillReplace(c) PROVE WillReplace(c)'
    <3>1. by # "lane" \/ c # cid
      BY <2>1, <2>3 DEF WillReplace, Replaced
    <3>2. req'[c] = req[c]
      BY <1>1, <1>3, <1>4, <3>1 DEF Finish, laneVars
    <3> QED
      BY <2>1, <2>3, <3>2 DEF WillReplace, Replaced
  <2>4. \A c \in Containers : req'[c] = "create" => req[c] = "create" /\ snap'[c] = snap[c]
    BY <1>1, <1>3, <1>4 DEF Finish, laneVars
  <2>5. SnapOk'
    BY <1>1, <2>1, <2>2, <2>4 DEF SInv, SnapOk, CreateSteps, dockerVars
  <2>6. StaleOk'
    BY <1>1, <1>3, <2>1, <2>2, <2>3 DEF SInv, StaleOk, dockerVars
  <2> QED
    BY <1>2, <2>5, <2>6 DEF SInv
<1>5. CASE ~Finish
  <2>1. pc' # "free" /\ UNCHANGED <<cid, caddr, by, laneVars>> /\ (pc' \in CreateSteps => pc \in CreateSteps)
    BY <1>5, StepShape
  <2>2. \A c \in Containers : WillLook(c)' <=> WillLook(c)
    BY <1>1, <2>1 DEF WillLook, Ahead, Running, laneVars, streamVars, dockerVars
  <2>3. \A c \in Containers : c # cid \/ pc' \notin Replaced => (WillReplace(c) => WillReplace(c)')
    BY <2>1 DEF WillReplace, Replaced, laneVars
  <2>4. SnapOk'
    BY <1>1, <2>1, <2>2 DEF SInv, SnapOk, laneVars, dockerVars
  <2>5. ASSUME NEW r \in rules', r.to # dockerAddr[r.tag] PROVE WillLook(r.tag)' \/ WillReplace(r.tag)'
    <3>1. r.tag \in Containers /\ (r \in plan \/ (r \in rules /\ (pc' \in Replaced => r.tag # cid)))
      BY <1>3, <2>5, StepRules
    <3>2. \/ WillLook(r.tag)
          \/ WillReplace(r.tag) /\ (r.tag # cid \/ pc' \notin Replaced)
      BY <2>5, <3>1 DEF SInv, StaleOk
    <3> QED
      BY <2>2, <2>3, <3>1, <3>2
  <2>6. ASSUME NEW r \in plan', r.to # dockerAddr[r.tag]
        PROVE  WillLook(r.tag)' \/ (r.tag # cid' /\ WillReplace(r.tag)')
    <3>1. CASE r \in plan
      BY <1>3, <2>1, <2>2, <2>3, <2>6, <3>1 DEF SInv, StaleOk
    <3>2. CASE r \notin plan
      <4>1. r.tag = cid /\ caddr # dockerAddr[cid] /\ pc \in CreateSteps
        BY <2>6, <3>2, StepRules
      <4> QED
        BY <1>1, <2>2, <4>1 DEF SInv, SnapOk
    <3> QED
      BY <3>1, <3>2
  <2>7. StaleOk'
    BY <1>1, <2>5, <2>6 DEF StaleOk, dockerVars
  <2> QED
    BY <1>2, <2>4, <2>7 DEF SInv
<1> QED
  BY <1>4, <1>5
\* Along any behaviour in which nothing fails and the stream holds.
LEMMA StaleInvariance ==
    ASSUME NothingFails, StreamHolds
    PROVE  Spec => [](IInv /\ PInv /\ SInv)
<1>1. Init => SInv
  BY DEF Init, SInv, StreamOk, SnapOk, StaleOk, CreateSteps
<1>2. IInv /\ PInv /\ SInv /\ [Next]_vars => SInv'
  <2> SUFFICES ASSUME IInv, PInv, SInv, [Next]_vars PROVE SInv'
    OBVIOUS
  <2>1. CASE Docker
    BY <2>1, DockerStale
  <2>2. CASE Events
    BY <2>2, DispatchStale, HandlerStale, LockStale DEF Events
  <2>3. CASE operationSteps
    BY <2>3, StepStale
  <2>4. CASE Reconciliation \/ streamErr
    BY <2>4, PassStale
  <2>5. CASE UNCHANGED vars
    <3>1. UNCHANGED <<dockerVars, streamVars, laneVars, recVars, opVars, fwVars>>
      BY <2>5 DEF vars
    <3>2. StreamOk'
      BY <3>1 DEF SInv, StreamOk, streamVars, laneVars, recVars, opVars, fwVars
    <3>3. \A c : (WillLook(c)' <=> WillLook(c)) /\ (WillReplace(c)' <=> WillReplace(c))
      BY <3>1 DEF WillLook, WillReplace, Ahead, Running, dockerVars, streamVars, laneVars, recVars, opVars
    <3>4. SnapOk'
      BY <3>1, <3>3 DEF SInv, SnapOk, Running, dockerVars, laneVars, recVars, opVars
    <3>5. StaleOk'
      BY <3>1, <3>3 DEF SInv, StaleOk, dockerVars, opVars, fwVars
    <3> QED
      BY <3>2, <3>4, <3>5 DEF SInv
  <2> QED
    BY <2>1, <2>2, <2>3, <2>4, <2>5, NoFaults DEF Next, operationSteps
<1> QED
  BY <1>1, <1>2, PassInvariance, PTL DEF Spec

\* When nothing fails and the stream holds, a rule that lets packets through to an
\* address its container has left exists only while an event of that container is in
\* the stream, in its lane or being handled, for every interleaving of lanes, of
\* Docker's changes and of reconciliation (README: "Stopping or removing a backend
\* removes its existing rules to prevent stale-IP access").
THEOREM NoStaleRules ==
    ASSUME NothingFails, StreamHolds
    PROVE  Spec => []NoStaleAllow
<1>1. ASSUME IInv, SInv PROVE NoStaleAllow
  <2> SUFFICES ASSUME NEW r \in Live, dockerAddr[r.tag] # r.to PROVE Pending(r.tag)
    BY DEF NoStaleAllow
  <2>1. r \in rules /\ r.tag \in Containers
    BY <1>1 DEF Live, IInv, TypeOK, FwType, Rule
  <2>2. CASE WillLook(r.tag)
    <3>1. PICK t : Ahead(r.tag, t)
      BY <2>2 DEF WillLook
    <3>2. lane[r.tag] \in Seq(EventTypes)
      BY <1>1, <2>1 DEF IInv, TypeOK, LaneType
    <3>3. ASSUME NEW i \in 1..Len(lane[r.tag]) PROVE lane[r.tag] # <<>>
      BY <3>2
    <3> QED
      BY <3>1, <3>3 DEF Ahead, Pending
  <2>3. CASE WillReplace(r.tag)
    BY <1>1, <2>1, <2>3 DEF WillReplace, IInv, LaneOk, Pending
  <2> QED
    BY <1>1, <2>1, <2>2, <2>3 DEF SInv, StaleOk
<1>2. IInv /\ PInv /\ SInv => NoStaleAllow
  BY <1>1
<1> QED
  BY <1>2, StaleInvariance, PTL
=============================================================================
