# A verification of whalewall in TLA+

whalewall turns labels of Docker containers into nftables rules. It listens to
Docker's events, gives every opted-in container a chain of its own that drops
what its labels do not allow, and sends the traffic of the container's address
into that chain through a verdict map. What it has done it records in SQLite; a
periodic reconciliation repairs what events, failures and crashes have left.

This directory holds TLA+ models of that machinery, the TLC runs that check them
on small instances, and TLAPS proofs of the central invariants for every
instance. `PROJECT.json` is the index: which definition models which lines, what
each run checks, the hazards the properties are aimed at, and the mutants that
show each property can fail.

    tlc -config moves.cfg MCRuleManager       # one run
    tlapm RuleManagerProofs.tla               # one module of proofs

## 1. Inventory

| Part (source) | State | Operations | Modelled in |
|---|---|---|---|
| Container policies (`create.go`, `delete.go`, `db.go`) | per container a chain, its rules, its elements of the verdict map; rows in SQLite | `createContainerRules` with its rollback, `deleteContainerRules` | `RuleManager` step by step, with `Firewall` as its abstract specification; `Policy` for what a whole create computes |
| Events and reconciliation (`manager.go`, `sync.go`) | event cursor, reconnection, ticker | `Start`, `watchDocker`, `handleDockerEvent`, `reconcile`, `cleanupRules`, `syncContainers` | `RuleManager` |
| Container tracker (`container/container.go`) | map of operations in progress, a mutex, a done channel and a context each | `StartCreatingContainer`, `StartDeletingContainer`, the finish function | `Tracker` |
| Event dispatcher and workers (`events.go`, `manager.go`) | lanes, their channels, two kinds of counters, `createCh`, `deleteCh` | `dispatch`, `reapIdle`, `active`, `runLane`, `closeAndWait`, `createRules`, `deleteRules`, `Stop` | `EventDispatcher` |
| Base rules and clear (`base.go`, `delete.go`) | jumps in `DOCKER-USER`, `INPUT`, `OUTPUT`; the `whalewall` chain; the set | `createBaseRules`, `clearRules` | `BaseRules` |
| Policy language (`config.go`) | none | presence of selectors, `validateConfig`, `normalizeConfig` | `Policy` |
| Port mappings, rule expressions (`create.go`) | none | `createPortMappingRules`, `createOutputRules`, `createWaitingContainerRules`, `createNFTRules` | `Policy` |
| Interval sets (`create.go`) | none | `createIPExprs`, `createPortExprs`, `mergeUint32Intervals`, `mergeUint16Intervals` | `Selectors` |
| Managed network scope (`network_scope.go`) | none | `resolveManagedNetworks`, `resolveValidManagedNetworks`, `validateScopedAddressUniqueness`, `dockerIPv4GatewayNetworkName` | `NetworkScope` |
| Database initialisation (`manager.go`) | the database file and its tables | `initDB` | `BaseRules` |
| Sandbox, flags, logging (`cmd/whalewall`) | - | seccomp, Landlock | no: system calls without a protocol |

**How the parts interact.** `watchDocker` is one goroutine: it reads the event
stream and the ticker, gives events to lanes (one goroutine per container) and
runs reconciliations itself, only when no lane is active. A lane's handler
inspects its container and hands a create or a delete to one of two worker
goroutines over an unbuffered channel, then waits for the result. Workers and
reconciliation pass the tracker, which makes operations on one container exclude
each other and lets a delete cancel a create, and then `policyMu`, which lets one
operation at a time touch nftables and SQLite. Inside an operation every nftables
batch and every database transaction is atomic; nothing joins them. Docker, the
operator and other tools go on in the meantime. `whalewall -clear` is a process of
its own on the same kernel and database.

**What is hard.** Docker's answers are stale by the time they are used; batches
and transactions fail one by one, and so may the rollback; the process may be
killed between any two; events are lost when the stream breaks, and those of the
same second are delivered again when it is back; addresses pass from one container to the next; a rule for one container stands in the chain of
another; the tracker holds its mutex while it waits for a goroutine that will
want that mutex; counters that two goroutines read are changed in two steps;
shutdown cancels everything at once and expects rules to survive; base rules are
read by several requests and repaired by one batch. A rule that says less than it
seems (an empty list, a name that nobody bears, a range up to the last address) must
not match more; names and services are borne by several containers, in several
projects; an allowed and a denied sender have the same address (the gateway).

**What makes each part correct.** *Policies*: no address leads to a chain that is
missing or does not drop; edges come and go in pairs; no allow outlives the address
it was made for; a mapping is taken only by its owner's operations or by a new owner.
*Reconciliation*: one undisturbed pass restores enforcement, and passes settle on
exactly the configured policy. *Tracker*: exclusion, final deletes, no deadlock.
*Dispatcher*: order per container, reconciliation alone, no send on a closed
channel, shutdown terminates. *Base rules*: never half wired, others' rules
untouched, clear is complete, repair converges; whoever works has all its tables.
*Policy*: the packets that pass are those that the labels name, in both directions,
on the networks that are managed; what cannot be understood passes nothing.

## 2. The modules

### RuleManager

One operation at a time is under way (`policyMu`): `pc` names its next step, `cid`
its container, `caddr` the address its caller inspected, `by` whether a lane or a
reconciliation called it. The steps are those of the code: `ensureContainerDropPolicy`
(the chain and its drop), `replaceContainerAddressMappings` (the verdict map, and the
quarantine of whoever loses an address), `replaceContainerMetadata` (the row),
`populateOutputRules` and `createWaitingContainerRules` (the edges are planned from
Docker's present answers), `replaceContainerPolicy` (one batch), `finalizeContainerPolicy`
(the waiting rows), and on failure `quarantineContainerPolicy` and
`clearContainerPolicyMetadata`. Every step has a failing twin (`...Fails`), which is
taken for a reason in the state (a missing chain, a name that clashes, a peer that is
not usable) or because the call fails, at most `MaxFaults` times. Early returns before
the first batch are `ensureContainerDropPolicyFails`. A rollback that gets no netlink
connection gives up before the database too (`newFirewallClientFails`).

nftables is `chains`, `drop`, `vmap`, `rules` and `shadow`. A rule is the chain it
stands in, the container in its UserData, the two addresses, and whether it is for
new traffic or replies. `shadow` are the rules that stand behind a drop:
`ensureContainerDropPolicy` with `quarantineFirst` puts a drop before the rules of a
chain, which makes them ineffective without deleting them. SQLite is `rows` and
`waiting`; the other tables are written and never read back.

Docker is external: containers start, die, are removed, connect and disconnect, each
change sending the event that `addFilters` lets through. Names are unique among the
containers Docker knows; IDs are not reused; addresses are, once free. A broken stream
loses what it had not delivered. A new stream begins at a cursor in whole seconds, so
it delivers again what happened in the same second: `recent` holds the last events,
at most `MaxReplay` of them, and `addFilters` begins with any suffix of it.

A container has one managed endpoint. Rules name a peer container; ports, protocols
and rules to fixed addresses do not matter to these properties and are `Policy`'s. A label is `absent`,
`true`, `false` or `invalid`; an invalid one protects with a deny-only policy, as in
the code.

### Firewall

What `RuleManager` promises, without its steps, failures, tables and events: a
container is closed before an address is led to it (`Close`, `Take`); an address changes
hands only together with the end of everything that was permitted to or towards its
former holder; permissions grow only by whole edges of one container, among closed
containers, which replace all its former ones (`Rebuild`); and a container goes with all
that is its own (`Remove`). The refinement mapping is `closed <- chains`,
`holder <- vmap`, `permits <- Live`, the rules that stand before their chain's drop.
`FirewallSpec` in `RuleManager` is the abstract specification under it.

### Selectors, NetworkScope and Policy

`Selectors` turns a list of addresses or ports, single ones and inclusive ranges, into
the expression that `createIPExprs` and `createPortExprs` build: a comparison, a set, or
a set of half-open intervals, sorted and merged. Values have a greatest one, behind
which they wrap. Merging is the loop of the code: `SortFunc` orders the entries, and
`Extend` adds one after the other to what is merged so far. How nftables looks a value up
in an interval set is external.

`NetworkScope` is the `managed_networks` label: `policyScope` for a container's own
policy, which falls back to every endpoint, and `resolveValidManagedNetworks` for a peer,
which does not; and the network through which Docker publishes ports.

`Policy` puts them together. `world` is what Docker reports of each container (labels,
networks, ports), chosen once; containers start and die; a create is one step that
computes the whole policy (`Outcome`), applied (`createContainerRules`) or, on an
error, replaced by the drop (`quarantineContainerPolicy`); a delete is one step. What
happens between the steps of a create is `RuleManager`'s subject. A chain is a sequence
of rules; `Passes` evaluates them for a packet as nftables does: the chain of the source
decides if there is one, else that of the destination, the first match counts. The second
half of the module says what the labels ask for, from the rules as written and without
the chains: `OutGranted`, `InGranted`, `InDenied`, `Honourable`.

What Docker may report and what the decoders let through are assumptions of the module,
which TLC evaluates on the instance of `policy`: `ConstantsAssumption` (the names that
stand for nothing are nothing else), `PacketsAssumption`, and `WorldsAssumption`. By the
last, containers and their networks and ports are finitely many, labels have the shape
that the decoders give them (`ContainerOK`), no two containers manage one address, and
a container with ports has different addresses on its networks. These two are what the
repository asks of its users ("Do not use overlapping IPv4 addresses or subnets across
Docker networks on the host", `README.md:119`). The code checks the second only under an
explicit scope. Without it `InboundIsPolicy` fails: rules are generated network by network,
so with one address on two networks the external allow of the first stands before the
localhost drop of the second.

### Tracker

Goroutine by goroutine: a thread calls, locks `Tracker.mtx`, perhaps cancels and waits
for the operation in progress with the mutex held, registers, unlocks, takes
`policyMu`, does its work, closes `done` and locks the mutex again to remove its
entry. The work itself is reduced to whether the container's dropping chain and its
permissive rules are installed. A signal cancels every context; `Stop` comes later.
When a thread has cleaned up, its `processingContainer` is garbage: `Forget` resets
what it held.

### EventDispatcher

`watchDocker` (`watcher`), lanes (`runner`, `queue`, `pending`), `activeN`, the two
workers and the shutdown, in steps as small as the code's own: counting an event,
sending it, receiving, inspecting, offering it to a worker, waiting for the result,
and the two decrements. An event is a number in stream order.

### BaseRules

A rule is its kind (a jump, the source or destination dispatcher, a container's
localhost drop, or anything else) and a place: handles are given out once, an insertion
takes the negated handle and an append the handle itself, so a chain is the set of its
rules and their order is that of the places. `{NoRule}` stands for a chain that does not
exist. `createBaseRules` is
`list`, `getRules` and one batch built from what those read; `clearRules` likewise.
A batch is accepted only as a whole, when every rule, chain and set it deletes is
there and nothing still refers to a chain it removes. The several `GetRules` calls are
one step: edits of different chains commute. What is found under whalewall's names at
first may be nothing, the rules of an older version (`legacy`, with JUMP mappings) or
a foreign object (`alien`). `touched` is a history variable: who has read something that
changed since, and whether a foreign edit was among the changes (`edited`).

`NeverHalfWired` excuses a foreign edit, and also the batch of a repair that such an edit
has overtaken: when somebody flushes the whalewall chain between the reading and the
batch, the batch adds jumps to a chain that it believes to be in order. The next
repair reads it again.

Both processes begin with `initDB`: `stat` (is there a file?), `ping` (opening creates
it), `schema` (one `CREATE TABLE` after the other, each committed by itself), `NewDB`
(preparing the queries needs all tables). With all tables there nothing after `stat` can
change its outcome but a failing call, so these steps are one.

## 3. The runs

| Run | Instance | What it shows |
|---|---|---|
| `moves` | `web` may talk to `app`, which moves between two addresses; three Docker changes, the last two events possibly delivered again after `Start`, no failures | Types; no live allow to an address its container has left unless an event is under way (`NoStaleAllow`); with all events handled, exactly the protected containers are mapped, at their current addresses (`HandledMeansEnforced`); a pass leaves no chain of a stopped container (`PassRemovesDeparted`) |
| `reuse` | `app`, its successor of the same name, an opted-out and a mislabelled container take turns on one address `web` may talk to; three changes, one interruption of the stream | `EdgesPaired`, `OnlyOwnerUnmaps`, `DisplacedIsQuarantined`, and `PassEnforces`: a pass protects the mislabelled container and frees the opted-out one. `EventuallyConverged` when names are reused: waiting rows bound to an old ID, name clashes in SQLite, lost events |
| `faults` | two containers, one change, two failing calls, one crash, one interruption, one event delivered again | `FailClosed` and `FirewallSpec` throughout; `PassEnforces` after whatever happened; `EventuallyConverged` |
| `tracker` | the create worker on one container, the delete worker and the reconciler on two, shutdown at any point | `Exclusion`, `Registered`, `DeleteIsFinal`, and `CallsReturn`: nobody waits for ever |
| `dispatcher` | two events over two containers, lanes of depth one, ticks, stream errors, shutdown at any point | `IdleIsReapable`, `NoSendOnClosed`, `ReconcileAlone`, `StartWaitsForDie`, `OneLanePerContainer`; every accepted event is handled and `Stop` returns |
| `base` | one container, `INPUT` for both main chains, one foreign edit, one failure or crash, one clear, two container operations, three kinds of first state, with or without a database | `SchemaIsWhole`, `RepairWires`, `NeverHalfWired`, `ForeignKept`, `ClearIsComplete`, `EventuallyWired` |
| `policy` | some 15,000 worlds in five families: scopes with sound and flawed endpoints and every label of up to two entries; selector lists; rules with every combination of fields; published ports, gateways and `mapped_ports`; three containers that share names, services, projects and networks in different ways. In each, 720 packets | `SelectorsExact`, `ScopeHolds`, `OutboundIsPolicy`, `InboundIsPolicy`, `RepliesFollow`, `EdgesAuthorized`, `AbsentPeersHarmless` |
| `orphan`, `badpolicy`, `staleallow`, `shutdown`, `ambiguous` | see section 6 | disagreements between code and documentation |

**Bounds.** Each is a constant in a guard. The lifecycle is cyclic, so a few changes
reach its interesting orders: a move is a disconnect and a connect, an address changes
hands in a die and a start, and containers may be in any state at first, which stands
for what happened before. Two failures are what it takes to fail a step and its
rollback; a third adds no new combination of steps within one operation. One crash
and one interruption suffice because everything they lose is lost at once. Three
threads are the goroutines the program has; in `tracker` the one that only creates stays
with one container, which the others may be at or not. Lanes of depth one fill with the second
event, as those of the code (depth 16) do after sixteen more. In `policy` there are six addresses and
four ports: enough for two disjoint, overlapping or adjoining ranges that touch neither,
one or both ends of the values, for a container with two addresses, its gateways, a
peer and an outsider. A label of two entries repeats itself, names one network twice or
two with one address. Only the family of peers has more than one container; its
containers come and go in every order, without a bound. `reuse` begins where `web` and
`app` run and the others do not exist yet (`FirstReuse`), so that three changes bring one
of them to the address of `app`; `moves` and `faults` begin with every container absent, stopped or
running.

The runs check for deadlock. `shutdown` alone does not: with the reconciler as its only
goroutine the system may simply be done.

**Fairness** (the `FairSpec`s) says only that goroutines are scheduled and calls
return, that the ticker ticks and that the process is started again:
- `RuleManager`: weak fairness of dispatching, of each handler, of each worker's
  operation and of reconciliation as a whole (`restart: unless-stopped` in
  `deploy/compose.yml` brings a killed process back). None for Docker, failures,
  interruptions or crashes.
- `Tracker`: strong fairness of each thread's steps, because a step that needs a mutex
  is disabled whenever another holds it; Go's `sync.Mutex` hands itself to a waiter
  that starves. None for calls, the signal or `Stop`.
- `EventDispatcher`: weak fairness of each goroutine; strong fairness of `watchStops`,
  because Go's `select` chooses at random among ready cases and so does not prefer the
  ticker for ever, and of `offer`, because senders on a channel queue in order. None for
  the signal; `Stop` follows it.
- `BaseRules`: weak fairness of the repair (ticker) and of a clear that was begun. None
  for edits, failures, crashes or container operations.

**Mutants.** Next to a definition, a comment `Mutant:` and an operator named
`<definition>_<bug>` change it the way a plausible mistake would: a skipped wait, a
swapped pair of decrements, a batch that forgets one side of an edge. With the mutant
in place of the definition the run reports the property. They are not used otherwise.

## 4. What is proved

`RuleManagerProofs`, for any containers, addresses, names, labels, rules and bounds
that meet `ConstantsAssumption` (types, and that `None` is nobody's ID or address):

| Theorem | States |
|---|---|
| `TypeCorrect` | `Spec => []TypeOK` |
| `FloorHolds` | `Spec => []FailClosed`: across every failure, crash and reuse of addresses |
| `EdgesStayPaired` | `Spec => []EdgesPaired` |
| `OwnersUnmap` | `Spec => OnlyOwnerUnmaps` |
| `DisplacedQuarantined` | `Spec => DisplacedIsQuarantined` |
| `ImplementsFirewall` | `Spec => FirewallSpec`: every step is a step of the abstract `Firewall` or changes nothing of it |

The inductive invariant is `IInv == TypeOK /\ LaneOk /\ OpOk /\ PlanOk /\ FwOk`.
`FailClosed` and `EdgesPaired` are not inductive alone: that a create may map an
address relies on its chain having been made (`OpOk`), and that its batch installs whole
edges relies on the plan being closed under `Mirror` (`PlanOk`), which relies in
turn on its address being known when edges are planned. `LaneOk` is what lets a
handler that receives its result drop the head of its lane. `RemovalKeepsPairs` is
the lemma on which every batch rests: removing all rules incident to some containers
leaves the others paired.

`ImplementsFirewall` goes step by step under the same invariant. Four batches change
something abstract: the floor is `Close` (`FloorCloses`), the verdict map `Take`
(`MapTakes`), a policy and a quarantine `Rebuild` (`PolicyRebuilds`), a delete `Remove`
(`DeleteRemoves`); all else leaves chains, map and rules alone (`FirewallChanges`).
`Take` needs `OpOk`, that the chain exists by then; `Rebuild` needs `PlanOk`, that the
plan consists of whole edges among chains that exist. That a drop put before the
rules of a chain ends exactly what that chain permitted is `LiveWithout`.

### Reconciliation and events

`PassProofs` builds on `RuleManagerProofs`, and `HandledProofs` on `PassProofs`.

| Module | Theorem | States | Besides `ConstantsAssumption` |
|---|---|---|---|
| `PassProofs` | `CleanPassEnforces` | `Spec => PassEnforces` | nothing |
| `PassProofs` | `CleanPassRemoves` | `Spec => PassRemovesDeparted` | `NothingFails`, `NamesApart` |
| `PassProofs` | `NoStaleRules` | `Spec => []NoStaleAllow` | `NothingFails`, `StreamHolds` |
| `HandledProofs` | `EventsSuffice` | `Spec => []HandledMeansEnforced` | `NothingFails`, `StreamHolds`, `PoolsApart` |

The hypotheses are conditions on the constants, and each is needed:

- `NothingFails`: no call fails and the process is not killed. Otherwise a policy may be
  rolled back, and only the next pass brings it back.
- `StreamHolds`: the event stream does not break. Otherwise an event is lost, and again
  it takes a pass.
- `NamesApart`: no two containers share a name. The name of a departed container that
  still has a row makes a create fail between its chain and its row, for a reason in the
  state and not by a fault.
- `PoolsApart`: no address is given to two containers. Lanes are not ordered among each
  other, so a create with an old inspection can take an address from its new holder.

Docker may change at any moment in all of them, and events may be delivered again.

`CleanPassEnforces` is the theorem without hypotheses: whatever failed, was lost or
crashed before, one pass during which Docker does not change and nothing fails
leads every protected address to its own chain and leaves no stale allow. Its
invariant is `PInv == DockerOk /\ WantedOk /\ RowsOk /\ PhaseOk /\ PassOk`: no lane is
active during a pass (`PhaseOk`), every rule's container has a row (`RowsOk`), so the
visit of all rows leaves rules of running containers only (`CleanupOk`), and then each
container is still to be visited, or its address is mapped and its rules are to the
address Docker has, but for what the operation in progress has still to do (`SyncOk`).

`NoStaleRules` rests on `SInv == StreamOk /\ SnapOk /\ StaleOk`: for every rule, planned
rule and inspection that Docker's state has overtaken, either an event is ahead that will
make the handler look again (`WillLook`; once a container has stopped, only a die
does), or an operation is under way that has not yet replaced the rules (`WillReplace`).
`CleanPassRemoves` needs `ChainsOk`, that a chain has a row but for two steps of a
create: this is what a crash breaks (see `orphan`).

`EventsSuffice` rests on `HInv == OrderOk /\ DownOk /\ PoolOk /\ TaskOk /\ SettleOk`. The
last event of a container under way tells whether it runs, also among those delivered
again after `Start` (`OrderOk`). When no event of a container is unseen, the operation
that is requested or in progress is the one Docker's state asks for, with the
address Docker has (`TaskOk`). So every container has an unseen event, a first pass ahead,
an operation that has not yet changed the verdict map, or is mapped as it should be
(`SettleOk`).

### Tracker

`TrackerProofs`, for any number of goroutines and containers:

| Theorem | States |
|---|---|
| `OperationsExclude` | `Spec => []Exclusion` |
| `DeletesAreFinal` | `Spec => DeleteIsFinal` |
| `OperationsAreRegistered` | `Spec => []Registered` |

The invariant `TInv` says what the map, the `noCleanup` marks, the mutex and the done
channels mean together: an operation is in the map, or somebody has taken over its
entry, and whoever did is waiting for it with the mutex held (`OwnEntry`, `LostEntry`,
`Awaited`); the holder of the mutex has taken over from every other operation on its
ID (`HolderOk`). Exclusion follows: of two operations in progress on one ID either
both would be in the map, or one is awaited by a thread that the other should have been
waiting for.

### EventDispatcher

`EventDispatcherProofs`, for any containers, any depth of a lane and any number of events,
under `DispatcherAssumption` (the constants' types, and that `None` is no lane):

| Theorem | States |
|---|---|
| `DispatcherTypeCorrect` | `Spec => []TypeOK` |
| `ZeroMeansIdle` | `Spec => []IdleIsReapable` |
| `ClosedIsNotSentOn` | `Spec => []NoSendOnClosed` |
| `ReconcilesAlone` | `Spec => []ReconcileAlone` |
| `StartsWaitForDies` | `Spec => []StartWaitsForDie` |
| `LanesAreApart` | `Spec => []OneLanePerContainer` |

The counters mean something only together with where each event is, so the invariant
`DInv` says that first: `InLane(e, l)` holds from the sending of `e` to the end of its
handling, `Counting(e, l)` between the two decrements. The events of a container are in
one lane, in stream order. `CountOk` is then that `pending[l]` and `activeN` are
the cardinalities of those sets, which is why no counter goes below zero and why
`activeN = 0` means that nothing is in any lane (`ReconcileOk`). For shutdown, `WorkerOk`
and `StartOk` say which lane awaits a worker's event and that no create passes its
inspection once a delete may have been abandoned.

### BaseRules

`BaseRulesProofs`, for any containers and chains and any number of edits, failures,
clears and operations, under `BaseAssumption`:

| Theorem | States |
|---|---|
| `BaseTypeCorrect` | `Spec => []TypeOK` |
| `WorksOnWholeSchema` | `Spec => []SchemaIsWhole` |
| `RepairLeavesWired` | `Spec => RepairWires` |
| `NothingHalfWired` | `Spec => NeverHalfWired` |
| `OthersRulesStay` | `Spec => ForeignKept` |
| `ClearLeavesNothing` | `Spec => ClearIsComplete` |

Both the repair and `-clear` act on what they have read. `BInv` says what a reading is
worth: a place belongs to one rule ever, so deleting by handle deletes what was meant or
nothing (`HandlesOk`; `OthersRulesStay` rests on it alone); unless touched, what was read
is what there is; touched by no edit, a chain found missing is still missing and the
whalewall chain, if it is there, is as it was read (`ReadingOk`, `ClearingOk`). That no
chain stands without its map is `SetOk`.

### Selectors

`SelectorsProofs`, for every greatest value and every list: `ExprsExact`, the expression
that a list of addresses or ports becomes is one that the kernel takes and matches
exactly what the list selects. `ExtendMerges` is the step of the loop: what is merged so
far is ordered with gaps (`Gapped`), ends no later than the entries to come begin, and
holds the values of the entries seen (`MergeMerges` is the loop). From the gaps follow that no two elements
have one key (`KeysApart`) and that the last element at or before a value tells whether it
is inside (`LookupExact`), also for the interval that is left open at the greatest value.

What a loop computes for every list takes induction. The library's induction theorems have
an operator for parameter, which the provers cannot instantiate; `SetInduction` states
induction for a set of numbers instead, and follows from every set of natural numbers
having a least one. That the recursive function of `Merge`, the folds behind `FlattenSeq`
and the permutation that sorts exist is proved with it (`Recursion`, `SortExists`).

### Policy

`PolicyProofs`, for any containers, labels, networks, published ports, peers and packets
that the assumptions of `Policy` describe, in every order in which containers start, die, are
created and deleted:

| Theorem | States |
|---|---|
| `TypeHolds` | `Spec => []TypeOK` |
| `SelectorsHold` | `Spec => []SelectorsExact` |
| `ScopeIsHeld` | `Spec => []ScopeHolds` |
| `OutboundHoldsPolicy` | `Spec => []OutboundIsPolicy` |
| `InboundHoldsPolicy` | `Spec => []InboundIsPolicy` |
| `RepliesDoFollow` | `Spec => []RepliesFollow` |
| `EdgesAreAuthorized` | `Spec => []EdgesAuthorized` |
| `AbsentPeersAreHarmless` | `Spec => []AbsentPeersHarmless` |

The invariant is `IInv`: `MapOK`, a container with a row is led to from exactly the
addresses it manages, because a packet is judged by addresses and a policy is made of
labels; `TablesOK`, every waiting row comes from a rule of its source's label (`WaitOK`),
because a row becomes an edge long after the label was read; `ChainsOK`, a chain is there
exactly with its row and ends in its drop. `EdgesAuthorized` needs `EdgesOK` in addition,
which says of both rules of an edge where its partner stands (what removes one then
removes the other), and `BoundOnce`: a source has one row for each of its rules, so the
row that an edge is traced back to is the one that decides where it may lead.

A create makes one sequence of three parts, `Inbound` (waiting rows), `Outbound` (output
rules) and `Mapping` (published ports). Each part has a lemma that says for a packet
whether some rule of it matches (`Hits`), in terms of the rules as written:
`createNFTRules` matches what `Covers` says, in both directions; a resolved name is the one
container that bears it best and shares the network (`Reaches`); a rule that resolves to
nobody matches nothing. For new connections of the container only allows and the
final drop can match, so that passing is being hit. For inbound traffic there are
drops in the chain as well; `Shielded`, that every allow that matches a denied packet stands behind
a drop that matches it too, is what makes the denial of localhost win, and it needs the different
addresses of `ContainerOK`. Replies go through the same lemmas with the packet turned
round; in a peer's chain the reply rule stands at the head, before anything that drops.

### Only model-checked

- Liveness under fairness, which TLAPS does not prove here: `EventuallyHandled`,
  `StopReturns`, `EventuallyWired`, `CallsReturn`, `EventuallyConverged`.
- The counterexamples of section 6, which TLC finds.

Every safety property that a passing run checks is stated by a theorem; those of `moves`
hold under the hypotheses above, which `moves` meets.

## 5. What is left out

- In `RuleManager`: ports, protocols, rules to fixed addresses, port mappings, several
  networks per container. In `Policy`: failures, and steps of two operations in turn.
  No model has both; `RuleManager`'s properties do not depend on what an edge carries.
- The error of `dockerIPv4GatewayNetworkName` for a gateway that is not IPv4
  (`create.go:1191`): `NetworkScope` has a gateway that is IPv4 or absent. Docker reports
  IPv6 gateways in a field of their own.
- NFQUEUE and chain verdicts, which `validateVerdict` refuses, and with them the queue
  variants of `createNFTRules`; log prefixes, but for the separate rule for new
  traffic that they cause; IPv6, which the code refuses.
- The lexing of YAML, addresses and ports, and the decoder's check for unknown fields: a
  label is readable or not. Prefixes such as 10.0.0.0/8 are ranges.
- Leading slashes of names (`containerNameMatchRank` and `containerAliases` accept both
  forms); waiting rows of an older version, which the code skips.
- Containers in `Policy` have addresses of their own; what happens when one passes to
  another is in `RuleManager`.
- Upgrades of the schema (there are none). `-clear` is in `BaseRules` and not in
  `RuleManager`. Waiting for a locked database: a call that waits too long fails.
- Docker's answer to `Ping` and its firewall backend, which `Start` asks for first: a
  start that fails there is one that fails.
- The timeouts of single calls: a call that times out is a call that fails.
- Byte-level comparison of rules (`rules.go`): a rule's kind is its class under it.

## 6. Where code and documentation disagree

Each has a run whose counterexample shows it.

- `orphan`: killed between the nftables batches and the metadata transaction, whalewall
  leaves a chain and a mapping that the database does not know; `cleanupRules`
  visits rows only, so when the container has stopped meanwhile they stay.
- `badpolicy`: a container whose rules label does not parse is quarantined but keeps its
  row; the rebuild of a peer that names it opens an edge in its chain. The proof of
  `EdgesAreAuthorized` met the same from the other side: a container with an invalid
  opt-in label gets "only the enforcement floor" (`sync.go:50`), and yet its create
  takes up the waiting rows of sources that name it, since `createWaitingContainerRules`
  looks at the label of the source only (`create.go:1389`). In the other order the source
  is quarantined. So `EdgesAuthorized` asks of a destination only that it has not
  opted out.
- `staleallow`: an edge is planned from an inspection and flushed later; a peer that moves
  in between leaves an allow for an address that another container may hold by then.
  That one is mapped only afterwards, since `policyMu` is held from the plan to the flush,
  and the allow is in place until the peer's own event is handled.
- `ambiguous`: two replicas bear the name in a rule. When both run before the source is
  created, `populateOutputRules` refuses the policy (`create.go:829`: "is ambiguous
  across"). When the source is created first, its waiting row is bound to nobody, and the
  create of each replica takes it up (`createWaitingContainerRules`, `create.go:1357`, asks
  only whether the row is bound to another ID). The source may then talk to both, until it
  is rebuilt. "Ambiguous names [...] still reject the complete source policy"
  (`README.md:265-266`) and "its identity and shared managed network are validated before access is
  granted [...] ambiguous identities [...] still fail the complete policy closed" (`README.md:369-372`)
  say otherwise. What holds is in `EdgesAuthorized`: a row that was
  bound by the create of its source opens edges to one container only (`Bound`).
- `shutdown`: the signal cancels contexts before `Stop` closes `stopping`, so a
  reconciliation's create that fails in between rolls back a policy that was in force.

Related, and not contradicting any text: a create maps the address that was inspected
before it was queued, so a create that is overtaken by its container's death can take
the address from its new owner. `DisplacedIsQuarantined` and `PassEnforces` bound the
damage: the owner is quarantined, not exposed, until its next event or tick. For
the same reason `HandledMeansEnforced` is a property of `moves`, where no two protected
containers share an address, and `EventsSuffice` assumes `PoolsApart`.

Also worth knowing, and in no contradiction to any text:
- A database file whose creation was interrupted is not repaired: every later start, and
  `-clear`, refuses it (`SchemaIsWhole` says that nothing else leaves such a file,
  `EventuallyWired` is conditional on it). The file has to be deleted by hand.
- A rule to an address range reaches a quarantined peer: it is decided in the chain of the
  source. And a rebuild that names a quarantined peer puts a reply rule at the head of
  that peer's chain (see `badpolicy`).
- A row of a source that has stopped makes the create of the container it names fail, so
  that one is quarantined until the row has been cleaned up.
- A die that is delivered again removes the policy of a container that runs by now; its
  start event, delivered again after it, brings it back.
- An empty `ips` under `mapped_ports.external` means everyone; under `output` it is
  refused.
- A rule without `proto` is taken and covers both protocols, as the tests have it;
  `README.md:473` calls the field required.

## 7. Plan

Done: the modules above, their runs, the refinement of `Firewall`, and the proofs of
section 4, which state every safety property that a passing run checks. Two things could
come next: a model that joins `RuleManager`'s steps and failures with `Policy`'s rules,
where now each leaves out what the other has (section 5); and proofs of the five liveness
properties, with a prover that has the rules for fairness.
