----------------------------- MODULE BaseRules -----------------------------
(***************************************************************************)
(* The base rules every packet passes before it meets a container's chain: *)
(* a jump at the head of DOCKER-USER, INPUT and OUTPUT, the two dispatcher *)
(* rules at the head of the whalewall chain, and the verdict map.  Start   *)
(* and every tick repair them; whalewall -clear, a process of its own,     *)
(* takes everything away.  Operators and other tools edit the same chains. *)
(* Both processes open the database first, and the one that finds no file  *)
(* creates its tables.                                                     *)
(*                                                                         *)
(* nftables is read by one request per object and changed by one batch, so *)
(* what was read may be gone when the batch is applied.  A rule is deleted *)
(* by its kernel handle; a batch with one impossible command does nothing. *)
(*                                                                         *)
(* A chain is a set of rules, ordered by where they were put: handles grow, *)
(* so a rule inserted at the head is at minus its handle, before all that  *)
(* were there, and an appended one at its handle, behind them.             *)
(***************************************************************************)
EXTENDS Integers, FiniteSets

CONSTANTS
    MainChains,  \* INPUT and OUTPUT
    Ids,         \* container IDs
    NoRule,      \* what is in a chain that does not exist
    FirstSets,   \* what whalewall may find under its names at first
    MaxEdits,    \* bound on edits by operators and other tools
    MaxFaults,   \* bound on failing calls
    MaxClears,   \* bound on runs of whalewall -clear
    MaxWork      \* bound on container operations

Kinds == {"jump", "src", "dst", "other"}

Rule == [kind : Kinds \cup Ids, at : Int]    \* a container's ID is the kind of its localhost drops

ASSUME BaseAssumption ==
    /\ MainChains \subseteq {"INPUT", "OUTPUT"}
    /\ Ids \cap Kinds = {}
    /\ NoRule \notin Rule
    /\ FirstSets \subseteq {"missing", "ok", "legacy", "alien"}
    /\ {MaxEdits, MaxFaults, MaxClears, MaxWork} \subseteq Nat

Hooks == {"DOCKER-USER"} \cup MainChains
Chains == Hooks \cup {"whalewall"}

VARIABLES
    chain,       \* the rules of each chain, or Absent
    integrated,  \* Docker's chains are sound and FORWARD begins with its jump
    set,         \* the verdict map: see FirstSets; "legacy" has JUMP mappings,
                 \* "alien" is a foreign object under a name of whalewall's
    mapped,      \* containers that mappings of the set point to
    policies,    \* the handle of each container's drop rule, or 0 without a chain
    rows,        \* containers in the database
    handle,      \* handles given out so far
    db,          \* the database: no file, no tables, some of them, or all ("ready")
    boot,        \* where initDB is, in the daemon ("base") and in -clear ("clear")
    daemon,      \* "down", "started" (Start runs for the first time) or "up"
    base,        \* where createBaseRules is
    seen,        \* the chains it has read
    setMissing,  \* what it has read of the set
    clear,       \* where clearRules is
    cleared,     \* what it has read: rules, container chains, whether there is a set
    touched,     \* who has read something that others changed since, and "edited" when
                 \* a tool has since createBaseRules listed the chains (history)
    edits, faults, clears, work

fwVars == <<chain, set, mapped, policies, handle>>
baseVars == <<daemon, base, seen, setMissing>>
clearVars == <<clear, cleared, clears>>
dbVars == <<db, boot>>
vars == <<fwVars, integrated, rows, dbVars, baseVars, clearVars, touched, edits, faults, work>>

Absent == {NoRule}
MaybeRules == (SUBSET Rule) \cup {Absent}
BaseSteps == {"idle", "list", "rules", "flush"}
ClearSteps == {"idle", "jumps", "owned", "flush", "rows"}
Processes == {"base", "clear"}
BootSteps == {"idle", "ping", "schema", "rest", "prepare"}

WithChain == {c \in Ids : policies[c] # 0}

TypeOK ==
    /\ chain \in [Chains -> MaybeRules]
    /\ integrated \in BOOLEAN
    /\ set \in {"missing", "ok", "legacy", "alien"}
    /\ policies \in [Ids -> Nat] /\ mapped \subseteq WithChain /\ rows \subseteq Ids
    /\ handle \in Nat
    /\ db \in {"absent", "empty", "begun", "ready"} /\ boot \in [Processes -> BootSteps]
    /\ daemon \in {"down", "started", "up"} /\ base \in BaseSteps /\ clear \in ClearSteps
    /\ seen \in [Chains -> MaybeRules] /\ setMissing \in BOOLEAN
    /\ cleared \in [chain : [Chains -> MaybeRules], policies : [Ids -> Nat], set : BOOLEAN]
    /\ touched \subseteq Processes \cup {"edited"}
    /\ {edits, faults, clears, work} \subseteq Nat

-----------------------------------------------------------------------------
(* Rules and batches *)

Exists(c) == chain[c] # Absent
Nothing == [c \in Chains |-> Absent]
Of(s, k) == {r \in s : r.kind = k}
Handles(s) == {r.at : r \in s}
Without(s, hs) == {r \in s : r.at \notin hs}
Inserted(k, n) == [kind |-> k, at |-> 0 - (handle + n)]
Appended(k, n) == [kind |-> k, at |-> handle + n]

\* The jump is the first rule and the only one of its kind.
JumpAtHead(s) ==
    \E r \in s : r.kind = "jump" /\ \A q \in s \ {r} : r.at < q.at /\ q.kind # "jump"

\* Both dispatchers lead, source first, and only safe drops of containers follow.
DispatchersAtHead(s) ==
    \E r, q \in s : /\ r.kind = "src" /\ q.kind = "dst" /\ r.at < q.at
                   /\ \A o \in s \ {r, q} : q.at < o.at /\ o.kind \in Ids

\* Mutant: the chain is flushed before the jump goes in.
ensureJumpAtHead_Flushes(s) == IF JumpAtHead(s) THEN {} ELSE Handles(s)

\* What a repair deletes, by handle, from a chain it has read.
ensureJumpAtHead(s) == IF JumpAtHead(s) THEN {} ELSE Handles(Of(s, "jump"))
isSafeOwnedDropRule(r) == r.kind \in Ids
\* Mutant: what is in the chain stays there.
ensureDispatchersAtHead_DeletesNothing(s) == {h \in Handles(s) : FALSE}

ensureDispatchersAtHead(s) ==
    IF DispatchersAtHead(s) THEN {} ELSE Handles({r \in s : ~isSafeOwnedDropRule(r)})

Fault == faults < MaxFaults /\ faults' = faults + 1

\* Whoever has read something and not yet flushed may now hold a stale copy.
Touch(who) ==
    touched' = touched \cup (Processes \ {who})

-----------------------------------------------------------------------------
(* initDB *)

BootOnly == UNCHANGED <<fwVars, integrated, rows, base, seen, setMissing, cleared, touched, edits, work>>
At(p, step) == boot[p] = step
Goto(p, step) == boot' = [boot EXCEPT ![p] = step]

\* NewRuleManager returns, and the process goes on to Start or to Clear.
Opened(p) ==
    /\ Goto(p, "idle")
    /\ IF p = "base" THEN daemon' = "started" /\ UNCHANGED clear
                     ELSE clear' = "jumps" /\ UNCHANGED daemon

\* Mutant: whether the file is there is asked once it has been opened.
stat_AfterOpen(p) ==
    /\ IF db = "ready" THEN Opened(p) ELSE Goto(p, "prepare") /\ UNCHANGED <<daemon, clear>>
    /\ db' = IF db = "absent" THEN "empty" ELSE db

\* The tables are created by the process that finds no file.  (Tables that are
\* there stay there, so with all of them the rest cannot go wrong.)
stat(p) ==
    /\ IF db = "ready" THEN Opened(p)
       ELSE Goto(p, IF db = "absent" THEN "ping" ELSE "prepare") /\ UNCHANGED <<daemon, clear>>
    /\ UNCHANGED db

\* A process begins.
NewRuleManager(p) ==
    /\ At(p, "idle")
    /\ IF p = "base" THEN daemon = "down" /\ UNCHANGED clears
                     ELSE clear = "idle" /\ clears < MaxClears /\ clears' = clears + 1
    /\ stat(p)
    /\ BootOnly /\ UNCHANGED faults

\* The connection is opened, which creates the file.
ping(p) ==
    /\ At(p, "ping") /\ Goto(p, "schema")
    /\ db' = IF db = "absent" THEN "empty" ELSE db
    /\ BootOnly /\ UNCHANGED <<daemon, clear, clears, faults>>

\* One CREATE TABLE after the other, each committed by itself.
schema(p) ==
    /\ \/ At(p, "schema") /\ Goto(p, "rest") /\ db = "empty" /\ db' = "begun"
       \/ At(p, "rest") /\ Goto(p, "prepare") /\ db' = "ready"
    /\ BootOnly /\ UNCHANGED <<daemon, clear, clears, faults>>

\* Preparing the queries needs all the tables.  The rows of the dummy container
\* are written and deleted in one transaction.
NewDB(p) ==
    /\ At(p, "prepare") /\ db = "ready"
    /\ Opened(p)
    /\ BootOnly /\ UNCHANGED <<db, clears, faults>>

\* A table exists, a table is missing, a call fails or the process is killed.
initDBFails(p) ==
    /\ ~At(p, "idle") /\ Goto(p, "idle")
    /\ \/ At(p, "schema") /\ db \in {"begun", "ready"} /\ UNCHANGED faults
       \/ At(p, "prepare") /\ db # "ready" /\ UNCHANGED faults
       \/ Fault
    /\ BootOnly /\ UNCHANGED <<db, daemon, clear, clears>>

initDB(p) == ping(p) \/ schema(p) \/ NewDB(p) \/ initDBFails(p)

-----------------------------------------------------------------------------
(* createBaseRules *)

BaseOnly == UNCHANGED <<integrated, mapped, policies, rows, dbVars, clearVars, edits, work>>

\* Every element of the set is a GOTO to a chain named after a container.
CompatibleSet == set \in {"missing", "ok"}

\* Chains have the type, hook and priority they must have, FORWARD begins with
\* Docker's jump, and the set is whalewall's own.
Valid == integrated /\ CompatibleSet

\* Chains and the set are listed; what is not in order is refused.
list ==
    /\ base = "list" /\ base' = "rules"
    /\ Valid
    /\ seen' = [c \in Chains |-> IF Exists(c) THEN {} ELSE Absent]
    /\ setMissing' = (set = "missing")
    /\ touched' = touched \ {"base", "edited"}
    /\ BaseOnly /\ UNCHANGED <<chain, set, handle, daemon, faults>>

\* GetRules for every chain that was listed.
getRules ==
    /\ base = "rules" /\ base' = "flush"
    /\ \A c \in Chains : seen[c] # Absent => Exists(c)
    /\ seen' = [c \in Chains |-> IF seen[c] = Absent THEN Absent ELSE chain[c]]
    /\ BaseOnly /\ UNCHANGED <<chain, set, handle, daemon, setMissing, touched, faults>>

\* Mutant: a jump anywhere in the chain will do.
Repairs_AnyJump(c) ==
    \/ seen[c] = Absent
    \/ IF c = "whalewall" THEN ~DispatchersAtHead(seen[c]) ELSE Of(seen[c], "jump") = {}

Repairs(c) ==
    \/ seen[c] = Absent
    \/ ~(IF c = "whalewall" THEN DispatchersAtHead(seen[c]) ELSE JumpAtHead(seen[c]))
Deletes(c) ==
    IF seen[c] = Absent THEN {}
    ELSE IF c = "whalewall" THEN ensureDispatchersAtHead(seen[c]) ELSE ensureJumpAtHead(seen[c])

\* The kernel takes the batch: the rules to delete are there, and so are the
\* chains to insert into, the target of the jumps and the set looked up.
Acceptable ==
    /\ \A c \in Chains : Repairs(c) /\ seen[c] # Absent => Exists(c) /\ Deletes(c) \subseteq Handles(chain[c])
    /\ (\E c \in Hooks : Repairs(c)) => seen["whalewall"] = Absent \/ Exists("whalewall")
    /\ IF setMissing THEN set # "alien" ELSE Repairs("whalewall") => set # "missing"

\* Mutant: a new whalewall chain gets its dispatchers at the next tick.
Repaired_EmptyChain(c) ==
    LET old == IF Exists(c) THEN Without(chain[c], Deletes(c)) ELSE {}
    IN  IF ~Repairs(c) THEN chain[c]
        ELSE IF c = "whalewall" THEN IF seen[c] = Absent THEN {} ELSE {Inserted("src", 2), Inserted("dst", 1)} \cup old
        ELSE {Inserted("jump", 1)} \cup old

Repaired(c) ==
    LET old == IF Exists(c) THEN Without(chain[c], Deletes(c)) ELSE {}
    IN  IF ~Repairs(c) THEN chain[c]
        ELSE IF c = "whalewall" THEN {Inserted("src", 2), Inserted("dst", 1)} \cup old
        ELSE {Inserted("jump", 1)} \cup old

createBaseRules ==
    /\ base = "flush" /\ base' = "idle"
    /\ Acceptable
    /\ chain' = [c \in Chains |-> Repaired(c)]
    /\ set' = IF setMissing /\ set = "missing" THEN "ok" ELSE set
    /\ handle' = IF \E c \in Chains : Repairs(c) THEN handle + 2 ELSE handle
    /\ daemon' = "up"
    /\ seen' = Nothing
    /\ IF chain' # chain \/ set' # set THEN Touch("base") ELSE UNCHANGED touched
    /\ BaseOnly /\ UNCHANGED <<setMissing, faults>>

\* Nothing has been queued or the batch is refused: no change.  Start gives up,
\* and so it does when Docker does not answer or uses another firewall backend.
createBaseRulesFails ==
    /\ base # "idle" /\ base' = "idle"
    /\ \/ base = "list" /\ ~Valid /\ UNCHANGED faults
       \/ base = "rules" /\ (\E c \in Chains : seen[c] # Absent /\ ~Exists(c)) /\ UNCHANGED faults
       \/ base = "flush" /\ ~Acceptable /\ UNCHANGED faults
       \/ Fault
    /\ seen' = Nothing
    /\ daemon' = IF daemon = "started" THEN "down" ELSE daemon
    /\ BaseOnly /\ UNCHANGED <<chain, set, handle, setMissing, touched>>

\* Start, a tick, or the stream back after an interruption.
reconcile ==
    /\ daemon # "down" /\ base = "idle" /\ base' = "list"
    /\ BaseOnly /\ UNCHANGED <<chain, set, handle, daemon, seen, setMissing, touched, faults>>

\* The process dies, between any two steps, and is started again.
crash ==
    /\ daemon # "down" /\ daemon' = "down" /\ Fault
    /\ base' = "idle" /\ seen' = Nothing
    /\ BaseOnly /\ UNCHANGED <<chain, set, handle, setMissing, touched>>

-----------------------------------------------------------------------------
(* What operations on containers do here, between reconciliations *)

Operation ==
    /\ daemon = "up" /\ base = "idle" /\ work < MaxWork
    /\ work' = work + 1
    /\ handle' = handle + 1
    /\ Touch("nobody")
    /\ UNCHANGED <<integrated, dbVars, baseVars, clearVars, set, edits>>

OthersDrops(c) == {r \in chain["whalewall"] : r.kind # c}

\* The chain first, then the mapping, the row, and the localhost drops, appended
\* behind the dispatchers.
createContainerRules(c) ==
    /\ Operation
    /\ set = "ok" /\ Exists("whalewall")
    /\ policies' = [policies EXCEPT ![c] = handle + 1]
    /\ mapped' = mapped \cup {c} /\ rows' = rows \cup {c}
    /\ chain' = [chain EXCEPT !["whalewall"] = OthersDrops(c) \cup {Appended(c, 1)}]
    /\ UNCHANGED faults

\* A create that fails at the map leaves the chain with its drop, and no row.
createContainerRulesFails(c) ==
    /\ Operation
    /\ \/ (set # "ok" \/ ~Exists("whalewall")) /\ UNCHANGED faults
       \/ Fault
    /\ policies' = [policies EXCEPT ![c] = handle + 1]
    /\ UNCHANGED <<mapped, rows, chain>>

\* Mutant: the mapping outlives the chain it leads to.
deleteContainerRules_KeepsMapping(c) ==
    /\ Operation
    /\ set = "ok"
    /\ policies' = [policies EXCEPT ![c] = 0]
    /\ rows' = rows \ {c}
    /\ chain' = IF Exists("whalewall") THEN [chain EXCEPT !["whalewall"] = OthersDrops(c)] ELSE chain
    /\ UNCHANGED <<mapped, faults>>

deleteContainerRules(c) ==
    /\ Operation
    /\ set = "ok"
    /\ policies' = [policies EXCEPT ![c] = 0]
    /\ mapped' = mapped \ {c} /\ rows' = rows \ {c}
    /\ chain' = IF Exists("whalewall") THEN [chain EXCEPT !["whalewall"] = OthersDrops(c)] ELSE chain
    /\ UNCHANGED faults

-----------------------------------------------------------------------------
(* whalewall -clear *)

ClearOnly == UNCHANGED <<integrated, handle, dbVars, baseVars, clears, edits, work>>
NothingRead == [chain |-> Nothing, policies |-> [c \in Ids |-> 0], set |-> FALSE]

getJumps ==
    /\ clear = "jumps" /\ clear' = "owned"
    /\ cleared' = [cleared EXCEPT !.chain = [c \in Chains |-> IF c \in Hooks THEN chain[c] ELSE Absent]]
    /\ touched' = touched \ {"clear"}
    /\ ClearOnly /\ UNCHANGED <<chain, set, mapped, policies, rows, faults>>

\* A foreign object under one of whalewall's names is not deleted.
getOwned ==
    /\ clear = "owned" /\ clear' = "flush"
    /\ set # "alien"
    /\ cleared' = [chain |-> [cleared.chain EXCEPT !["whalewall"] = chain["whalewall"]],
                   policies |-> policies, set |-> set # "missing"]
    /\ ClearOnly /\ UNCHANGED <<chain, set, mapped, policies, rows, touched, faults>>

SeenJumps(c) == IF cleared.chain[c] = Absent THEN {} ELSE Handles(Of(cleared.chain[c], "jump"))
SeenMain == cleared.chain["whalewall"]
\* Mutant: only containers the database knows are cleared.
SeenPolicies_FromRows == {c \in rows : cleared.policies[c] # 0}

SeenPolicies == {c \in Ids : cleared.policies[c] # 0}

\* Every rule to delete is there; no chain to delete keeps a rule, a jump or a
\* mapping that leads to it; the set is there and no rule looks it up.
ClearAcceptable ==
    /\ \A c \in Hooks : SeenJumps(c) # {} => SeenJumps(c) \subseteq Handles(chain[c])
    /\ SeenMain # Absent =>
          /\ Exists("whalewall") /\ Handles(chain["whalewall"]) = Handles(SeenMain)
          /\ \A c \in Hooks : Exists(c) => Handles(Of(chain[c], "jump")) = SeenJumps(c)
    /\ \A c \in SeenPolicies : policies[c] = cleared.policies[c]
    /\ IF cleared.set THEN set # "missing" /\ (Exists("whalewall") => SeenMain # Absent)
                      ELSE mapped \cap SeenPolicies = {}

clearRules ==
    /\ clear = "flush" /\ clear' = "rows"
    /\ ClearAcceptable
    /\ chain' = [c \in Chains |->
                    IF c = "whalewall" THEN IF SeenMain # Absent THEN Absent ELSE chain[c]
                    ELSE IF Exists(c) THEN Without(chain[c], SeenJumps(c)) ELSE Absent]
    /\ set' = IF cleared.set THEN "missing" ELSE set
    /\ mapped' = IF cleared.set THEN {} ELSE mapped
    /\ policies' = [c \in Ids |-> IF c \in SeenPolicies THEN 0 ELSE policies[c]]
    /\ cleared' = NothingRead
    /\ Touch("clear")
    /\ ClearOnly /\ UNCHANGED <<rows, faults>>

\* One transaction per row; one that fails does not stop the others.
deleteContainer ==
    /\ clear = "rows" /\ clear' = "idle"
    /\ \/ rows' = {} /\ UNCHANGED faults
       \/ rows' \in (SUBSET rows) \ {{}} /\ Fault
    /\ ClearOnly /\ UNCHANGED <<chain, set, mapped, policies, cleared, touched>>

clearRulesFails ==
    /\ clear \in {"jumps", "owned", "flush"} /\ clear' = "idle"
    /\ \/ clear = "owned" /\ set = "alien" /\ UNCHANGED faults
       \/ clear = "flush" /\ ~ClearAcceptable /\ UNCHANGED faults
       \/ Fault
    /\ cleared' = NothingRead
    /\ ClearOnly /\ UNCHANGED <<chain, set, mapped, policies, rows, touched>>

-----------------------------------------------------------------------------
(* Operators and other tools (external) *)

Edit ==
    /\ edits < MaxEdits /\ edits' = edits + 1
    /\ touched' = Processes \cup {"edited"}
    /\ UNCHANGED <<set, mapped, policies, rows, dbVars, baseVars, clearVars, faults, work>>

\* Another tool's rule, at the head.
foreignInsert(c) ==
    /\ Edit /\ Exists(c)
    /\ chain' = [chain EXCEPT ![c] = @ \cup {Inserted("other", 1)}]
    /\ handle' = handle + 1
    /\ UNCHANGED integrated

\* A second copy of whalewall's own jump or dispatcher, as iptables-restore makes.
foreignCopy(c) ==
    /\ Edit /\ Exists(c)
    /\ \E k \in {"jump", "src", "dst"} :
          Of(chain[c], k) # {} /\ chain' = [chain EXCEPT ![c] = @ \cup {Appended(k, 1)}]
    /\ handle' = handle + 1
    /\ UNCHANGED integrated

foreignFlush(c) ==
    /\ Edit /\ Exists(c) /\ chain[c] # {}
    /\ chain' = [chain EXCEPT ![c] = {}]
    /\ UNCHANGED <<handle, integrated>>

\* Docker or another tool rearranges FORWARD.
foreignForward ==
    /\ Edit
    /\ integrated' = ~integrated
    /\ UNCHANGED <<chain, handle>>

-----------------------------------------------------------------------------
(* The specification *)

\* An older version left its rules; its mappings are JUMPs.
OldRules == [c \in Chains |->
    IF c = "whalewall" THEN {[kind |-> "src", at |-> -2], [kind |-> "dst", at |-> -1]}
    ELSE {[kind |-> "jump", at |-> -3]}]

\* INPUT and OUTPUT need not exist in nftables.
FirstRules == {f \in [Chains -> {{}, {[kind |-> "other", at |-> 1]}, Absent}] :
                  f["DOCKER-USER"] # Absent /\ f["whalewall"] = Absent}

Init ==
    /\ set \in FirstSets
    /\ IF set = "legacy"
       THEN chain = OldRules /\ policies = [c \in Ids |-> 4] /\ mapped = Ids /\ rows = Ids
       ELSE chain \in FirstRules /\ policies = [c \in Ids |-> 0] /\ mapped = {} /\ rows = {}
    /\ integrated \in BOOLEAN
    /\ handle = 4
    /\ db = (IF set = "missing" THEN "absent" ELSE "ready") /\ boot = [p \in Processes |-> "idle"]
    /\ daemon = "down" /\ base = "idle" /\ seen = Nothing /\ setMissing = FALSE
    /\ clear = "idle" /\ cleared = NothingRead
    /\ touched = {}
    /\ edits = 0 /\ faults = 0 /\ clears = 0 /\ work = 0

Repairing == NewRuleManager("base") \/ initDB("base") \/ reconcile \/ list \/ getRules \/ createBaseRules \/ createBaseRulesFails
Clearing == initDB("clear") \/ getJumps \/ getOwned \/ clearRules \/ deleteContainer \/ clearRulesFails

Next ==
    \/ Repairing \/ crash \/ NewRuleManager("clear") \/ Clearing \/ foreignForward
    \/ \E c \in Ids : createContainerRules(c) \/ createContainerRulesFails(c) \/ deleteContainerRules(c)
    \/ \E c \in Chains : foreignInsert(c) \/ foreignCopy(c) \/ foreignFlush(c)

Spec == Init /\ [][Next]_vars

\* The ticker ticks, whalewall is restarted, and a clear that was begun goes on.
FairSpec == Spec /\ WF_vars(Repairing) /\ WF_vars(Clearing)

-----------------------------------------------------------------------------
(* Properties *)

Wired ==
    /\ \A c \in Hooks : Exists(c) /\ JumpAtHead(chain[c])
    /\ Exists("whalewall") /\ DispatchersAtHead(chain["whalewall"])
    /\ set = "ok"

\* createBaseRules is a repair: whatever operators, other tools, a crash or a
\* clear left behind, a batch that is applied to what was read leaves one jump at
\* every head and both dispatchers, source first, before nothing but safe drops;
\* and when that was so already, it replaces no rule.
RepairWires ==
    [][base = "flush" /\ daemon' = "up" /\ base' = "idle" /\ faults' = faults /\ "base" \notin touched
          => Wired' /\ (Wired => chain' = chain)]_vars

\* base.go: "a missing base component can never expose a partially wired
\* dispatcher".  Where a jump leads to the whalewall chain, both dispatchers and
\* the map are behind it; only a foreign edit can make that false, however repair,
\* clear and container operations overtake each other, or one that came between the
\* reading and the batch of a repair.
Coherent ==
    (\E c \in Hooks : Exists(c) /\ Of(chain[c], "jump") # {})
        => /\ Exists("whalewall") /\ DispatchersAtHead(chain["whalewall"])
           /\ set \in {"ok", "legacy"}
NeverHalfWired ==
    [][edits' = edits /\ ~(base = "flush" /\ base' = "idle" /\ "edited" \in touched)
          /\ Coherent => Coherent']_vars

Foreign(c) == IF Exists(c) THEN Of(chain[c], "other") ELSE {}

\* Neither repair nor clear removes or reorders a rule of another tool in
\* Docker's and the host's own chains, even when it acts on a stale reading.
ForeignKept == [][edits' = edits => \A c \in Hooks : Foreign(c)' = Foreign(c)]_vars

\* A clear that reports success, and that nothing interfered with, leaves none of
\* whalewall's rules, chains, mappings and rows, orphaned chains and those of an
\* older version included (README: "Verify the whalewall chain,
\* whalewall-container-addrs map, and all whalewall-* container chains are gone").
ClearIsComplete ==
    [][clear = "rows" /\ clear' = "idle" /\ faults' = faults /\ "clear" \notin touched
          => /\ \A c \in Hooks : Exists(c) => Of(chain[c], "jump") = {}
             /\ ~Exists("whalewall") /\ set = "missing" /\ WithChain = {} /\ rows' = {}]_vars

\* initDB: whoever works, works on a database with all its tables, however the
\* daemon and a clear overtake each other on a new host; and only a failure, or a
\* kill, while the tables are created can leave a file without them.  (The code
\* does not repair such a file: every later process refuses it.)
SchemaIsWhole ==
    /\ daemon # "down" \/ clear # "idle" => db = "ready"
    /\ db \in {"empty", "begun"} /\ faults = 0 => \E p \in Processes : boot[p] \in {"schema", "rest"}

\* Once Docker's side is in order, nothing old is in the way, the database was
\* not left without its tables and the edits stop, the base rules are in place
\* and stay.
EventuallyWired ==
    <>[](integrated /\ set \notin {"legacy", "alien"} /\ db \notin {"empty", "begun"}) => <>[]Wired
=============================================================================
