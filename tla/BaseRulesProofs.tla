-------------------------- MODULE BaseRulesProofs --------------------------
(***************************************************************************)
(* Proofs about BaseRules, for any containers and main chains, and any     *)
(* number of edits, failures, clears and operations.                       *)
(***************************************************************************)
EXTENDS BaseRules, TLAPS

-----------------------------------------------------------------------------
(* The inductive invariant *)

\* The database has all its tables once anybody works on it, and some process is
\* creating those that are missing unless a call has failed.
SchemaOk ==
    /\ base # "idle" => daemon # "down"
    /\ daemon # "down" \/ clear # "idle" => db = "ready"
    /\ faults = 0 /\ db = "empty" => \E p \in Processes : boot[p] = "schema"
    /\ faults = 0 /\ db = "begun" => \E p \in Processes : boot[p] = "rest"

\* The rules of a chain, those it has and those that were read from it: a handle is
\* given out once, so the place of a rule says which it is.
Known(c) == (chain[c] \cup seen[c] \cup cleared.chain[c]) \ {NoRule}
HandlesOk ==
    \A c \in Chains : /\ \A r \in Known(c) : 0 - handle <= r.at /\ r.at <= handle
                      /\ \A r, q \in Known(c) : r.at = q.at => r = q

\* The whalewall chain is never without its map, and a repair that has listed the
\* chains has found one of its own or none.
SetOk ==
    /\ Exists("whalewall") => set \in {"ok", "legacy"}
    /\ base \in {"rules", "flush"} => set \in {"missing", "ok"} /\ (setMissing => set = "missing")

\* What a repair has read is what there is, unless it was touched since; and unless
\* that was an edit, a clear has at most taken away from it.
ReadingOk ==
    /\ "base" \notin touched /\ base = "rules" =>
          \A c \in Chains : seen[c] = IF Exists(c) THEN {} ELSE Absent
    /\ "base" \notin touched /\ base = "flush" => seen = chain
    /\ "base" \notin touched /\ base \in {"rules", "flush"} /\ set = "missing" => setMissing
    /\ "edited" \notin touched /\ base = "rules" =>
          \A c \in Chains : seen[c] = Absent => ~Exists(c)
    /\ "edited" \notin touched /\ base = "flush" =>
          /\ \A c \in Chains : seen[c] = Absent => ~Exists(c)
          /\ Exists("whalewall") => chain["whalewall"] = seen["whalewall"]

\* The same for a clear, and what is left when it has flushed.
ClearingOk ==
    "clear" \notin touched =>
        /\ clear = "owned" => \A c \in Hooks : cleared.chain[c] = chain[c]
        /\ clear = "flush" => /\ cleared.chain = chain /\ cleared.policies = policies
                              /\ set # "missing" => cleared.set
        /\ clear = "rows" => /\ \A c \in Hooks : Exists(c) => Of(chain[c], "jump") = {}
                             /\ ~Exists("whalewall") /\ set = "missing" /\ WithChain = {}

BInv == TypeOK /\ SchemaOk /\ HandlesOk /\ SetOk /\ ReadingOk /\ ClearingOk

USE BaseAssumption

-----------------------------------------------------------------------------
(* Facts about chains *)

\* The chains, and that a set of rules is not an absent chain.
LEMMA ChainFacts ==
    /\ Hooks \subseteq Chains /\ "whalewall" \in Chains /\ "whalewall" \notin Hooks
    /\ \A c \in Chains : c # "whalewall" => c \in Hooks
    /\ \A s \in SUBSET Rule : s # Absent /\ NoRule \notin s
    /\ {} \in MaybeRules /\ Absent \in MaybeRules
BY DEF Hooks, Chains, Absent, MaybeRules

\* A chain that exists is a set of rules.
LEMMA ChainIsRules ==
    ASSUME NEW s \in MaybeRules
    PROVE  /\ s # Absent => s \in SUBSET Rule
           /\ s \ {NoRule} \in SUBSET Rule
           /\ s # Absent => s \ {NoRule} = s
BY DEF MaybeRules, Absent

\* Rules at new places keep the places apart.
LEMMA NewHandles ==
    ASSUME BInv, handle' \in Nat, handle <= handle', NEW N,
           \A c \in Chains : N[c] \subseteq Rule /\ Known(c)' \subseteq Known(c) \cup N[c],
           \A c \in Chains : \A r \in N[c] :
               /\ r.at < 0 - handle \/ handle < r.at
               /\ 0 - handle' <= r.at /\ r.at <= handle',
           \A c \in Chains : \A r, q \in N[c] : r.at = q.at => r = q
    PROVE  HandlesOk'
<1> SUFFICES ASSUME NEW c \in Chains
             PROVE  /\ \A r \in Known(c)' : 0 - handle' <= r.at /\ r.at <= handle'
                    /\ \A r, q \in Known(c)' : r.at = q.at => r = q
  BY DEF HandlesOk
<1>1. handle \in Nat /\ chain[c] \in MaybeRules /\ seen[c] \in MaybeRules /\ cleared.chain[c] \in MaybeRules
  BY DEF BInv, TypeOK
<1>2. Known(c) \subseteq Rule
  BY <1>1, ChainIsRules DEF Known
<1>3. \A r \in Known(c) \cup N[c] : r.at \in Int
  BY <1>2 DEF Rule
<1>4. \A r \in Known(c) : 0 - handle <= r.at /\ r.at <= handle
  BY DEF BInv, HandlesOk
<1>5. \A r \in Known(c) : 0 - handle' <= r.at /\ r.at <= handle'
  BY <1>1, <1>3, <1>4
<1>6. \A r, q \in Known(c) \cup N[c] : r.at = q.at => r = q
  <2> SUFFICES ASSUME NEW r \in Known(c) \cup N[c], NEW q \in Known(c) \cup N[c], r.at = q.at
               PROVE  r = q
    OBVIOUS
  <2>1. CASE r \in Known(c) /\ q \in Known(c)
    BY <2>1 DEF BInv, HandlesOk
  <2>2. CASE r \in N[c] /\ q \in N[c]
    BY <2>2
  <2>3. CASE r \in Known(c) /\ q \in N[c]
    BY <1>1, <1>3, <1>4, <2>3
  <2>4. CASE r \in N[c] /\ q \in Known(c)
    BY <1>1, <1>3, <1>4, <2>4
  <2> QED
    BY <2>1, <2>2, <2>3, <2>4
<1> QED
  BY <1>5, <1>6

\* Without new rules they stay apart.
LEMMA SameHandles ==
    ASSUME BInv, handle' \in Nat, handle <= handle', \A c \in Chains : Known(c)' \subseteq Known(c)
    PROVE  HandlesOk'
<1> DEFINE N == [c \in Chains |-> {}]
<1>1. \A c \in Chains : N[c] = {}
  OBVIOUS
<1> HIDE DEF N
<1> QED
  BY <1>1, NewHandles

\* In a batch by handle a rule of another kind is not what is deleted.
LEMMA HandleTellsKind ==
    ASSUME BInv, NEW c \in Chains, NEW s, s \subseteq Known(c), NEW r \in Known(c), NEW k,
           r.kind # k
    PROVE  r.at \notin Handles(Of(s, k))
BY DEF BInv, HandlesOk, Handles, Of

-----------------------------------------------------------------------------
(* initDB *)

LEMMA BootKeeps ==
    ASSUME BInv, NEW p \in Processes, NewRuleManager(p) \/ initDB(p)
    PROVE  BInv'
<1> USE DEF BInv
<1>1. UNCHANGED <<fwVars, integrated, rows, base, seen, setMissing, cleared, touched, edits, work>>
  BY DEF NewRuleManager, initDB, ping, schema, NewDB, initDBFails, BootOnly
<1>2. /\ boot \in [Processes -> BootSteps] /\ faults \in Nat /\ clears \in Nat
      /\ db \in {"absent", "empty", "begun", "ready"}
  BY DEF TypeOK
<1>3. /\ boot' \in [Processes -> BootSteps] /\ db' \in {"absent", "empty", "begun", "ready"}
      /\ \A q \in Processes : q # p => boot'[q] = boot[q]
  BY <1>2 DEF NewRuleManager, stat, initDB, ping, schema, NewDB, initDBFails, Opened, Goto, BootSteps
<1>4. /\ daemon' \in {daemon, "started"} /\ clear' \in {clear, "jumps"}
      /\ daemon' # daemon \/ clear' # clear => db' = "ready"
  BY DEF NewRuleManager, stat, initDB, ping, schema, NewDB, initDBFails, Opened
<1>5. faults' \in Nat /\ clears' \in Nat /\ (faults' # faults => faults' # 0)
  BY <1>2 DEF NewRuleManager, initDB, ping, schema, NewDB, initDBFails, Fault
<1>6. TypeOK'
  BY <1>1, <1>3, <1>4, <1>5 DEF TypeOK, fwVars, WithChain, ClearSteps
<1>7. SchemaOk'
  <2>1. db = "ready" => db' = "ready"
    BY DEF NewRuleManager, stat, initDB, ping, schema, NewDB, initDBFails
  <2>2. daemon' # "down" \/ clear' # "idle" => db' = "ready"
    BY <1>4, <2>1 DEF SchemaOk
  <2>3. ASSUME faults' = 0, db' = "empty" PROVE \E q \in Processes : boot'[q] = "schema"
    <3>1. faults = 0
      BY <1>5, <2>3
    <3>2. CASE db = "empty"
      <4>1. PICK q \in Processes : boot[q] = "schema"
        BY <3>1, <3>2 DEF SchemaOk
      <4>2. q = p => boot'[p] = "schema"
        BY <1>2, <1>5, <2>3, <3>1, <3>2, <4>1
           DEF NewRuleManager, stat, initDB, ping, schema, NewDB, initDBFails, Fault, At
      <4> QED
        BY <1>3, <4>1, <4>2
    <3>3. CASE db # "empty"
      <4>1. ping(p)
        BY <2>3, <3>3 DEF NewRuleManager, stat, initDB, schema, NewDB, initDBFails
      <4> QED
        BY <1>2, <4>1 DEF ping, Goto
    <3> QED
      BY <3>2, <3>3
  <2>4. ASSUME faults' = 0, db' = "begun" PROVE \E q \in Processes : boot'[q] = "rest"
    <3>1. faults = 0
      BY <1>5, <2>4
    <3>2. CASE db = "begun"
      <4>1. PICK q \in Processes : boot[q] = "rest"
        BY <3>1, <3>2 DEF SchemaOk
      <4>2. q = p => boot'[p] = "rest"
        BY <1>2, <1>5, <2>4, <3>1, <3>2, <4>1
           DEF NewRuleManager, stat, initDB, ping, schema, NewDB, initDBFails, Fault, At
      <4> QED
        BY <1>3, <4>1, <4>2
    <3>3. CASE db # "begun"
      <4>1. schema(p) /\ At(p, "schema") /\ Goto(p, "rest")
        BY <2>4, <3>3 DEF NewRuleManager, stat, initDB, ping, schema, NewDB, initDBFails
      <4> QED
        BY <1>2, <4>1 DEF Goto
    <3> QED
      BY <3>2, <3>3
  <2> QED
    BY <1>1, <1>4, <2>2, <2>3, <2>4 DEF SchemaOk
<1>8. HandlesOk' /\ SetOk' /\ ReadingOk'
  BY <1>1 DEF HandlesOk, Known, SetOk, ReadingOk, Exists, fwVars
<1>9. ClearingOk'
  BY <1>1, <1>4 DEF ClearingOk, Exists, WithChain, fwVars
<1> QED
  BY <1>6, <1>7, <1>8, <1>9

-----------------------------------------------------------------------------
(* createBaseRules *)

\* The steps of a repair that only read, and those that end it without a change.
baseReads == list \/ getRules \/ createBaseRulesFails \/ reconcile \/ crash

LEMMA BaseReadsKeep == ASSUME BInv, baseReads PROVE BInv'
<1> USE DEF BInv
<1>1. UNCHANGED <<integrated, mapped, policies, rows, dbVars, clearVars, edits, work, chain, set, handle>>
  BY DEF baseReads, list, getRules, createBaseRulesFails, reconcile, crash, BaseOnly
<1>2. /\ chain \in [Chains -> MaybeRules] /\ seen \in [Chains -> MaybeRules] /\ faults \in Nat
      /\ handle \in Nat /\ setMissing \in BOOLEAN
  BY DEF TypeOK
<1>3. \A c \in Chains : seen'[c] \in {seen[c], chain[c], Absent, {}}
  BY <1>2, ChainFacts DEF baseReads, list, getRules, createBaseRulesFails, reconcile, crash, Nothing
<1>4. TypeOK'
  <2>1. seen' \in [Chains -> MaybeRules]
    BY <1>2, ChainFacts DEF baseReads, list, getRules, createBaseRulesFails, reconcile, crash, Nothing
  <2>2. setMissing' \in BOOLEAN
    BY <1>2 DEF baseReads, list, getRules, createBaseRulesFails, reconcile, crash
  <2>3. faults' \in Nat
    BY <1>2 DEF baseReads, list, getRules, createBaseRulesFails, reconcile, crash, Fault
  <2>4. daemon' \in {daemon, "down"} /\ base' \in BaseSteps /\ touched' \subseteq touched
    BY DEF baseReads, list, getRules, createBaseRulesFails, reconcile, crash, BaseSteps
  <2> QED
    BY <1>1, <2>1, <2>2, <2>3, <2>4 DEF TypeOK, dbVars, clearVars, WithChain
<1>5. SchemaOk'
  <2>1. /\ daemon' \in {daemon, "down"} /\ (faults' = 0 => faults = 0)
        /\ base' # "idle" => daemon' # "down"
    BY <1>2 DEF SchemaOk, baseReads, list, getRules, createBaseRulesFails, reconcile, crash, Fault
  <2> QED
    BY <1>1, <2>1 DEF SchemaOk, dbVars, clearVars
<1>6. HandlesOk'
  <2>1. \A c \in Chains : Known(c)' \subseteq Known(c)
    BY <1>1, <1>3 DEF Known, clearVars, Absent
  <2> QED
    BY <1>1, <1>2, <2>1, SameHandles
<1>7. SetOk'
  <2>1. CASE list
    BY <1>1, <2>1 DEF list, Valid, CompatibleSet, SetOk, Exists
  <2>2. CASE ~list
    <3>1. base' \in {"rules", "flush"} => base \in {"rules", "flush"} /\ setMissing' = setMissing
      BY <2>2 DEF baseReads, getRules, createBaseRulesFails, reconcile, crash
    <3> QED
      BY <1>1, <3>1 DEF SetOk, Exists
  <2> QED
    BY <2>1, <2>2
<1>8. ReadingOk'
  <2>1. CASE list
    <3>1. base' = "rules" /\ seen' = [c \in Chains |-> IF Exists(c) THEN {} ELSE Absent]
          /\ (setMissing' <=> set = "missing")
      BY <2>1 DEF list
    <3>2. \A c \in Chains : (seen'[c] = IF Exists(c) THEN {} ELSE Absent) /\ {} # Absent
      BY <3>1, ChainFacts
    <3> QED
      BY <1>1, <3>1, <3>2 DEF ReadingOk, Exists
  <2>2. CASE getRules
    <3>1. /\ base = "rules" /\ base' = "flush" /\ UNCHANGED <<touched, setMissing>>
          /\ \A c \in Chains : seen[c] # Absent => Exists(c)
          /\ seen' = [c \in Chains |-> IF seen[c] = Absent THEN Absent ELSE chain[c]]
      BY <2>2 DEF getRules
    <3>2. \A c \in Chains : seen'[c] = IF seen[c] = Absent THEN Absent ELSE chain[c]
      BY <3>1
    <3>3. ASSUME "base" \notin touched PROVE seen' = chain
      <4>1. \A c \in Chains : seen[c] = Absent => chain[c] = Absent
        BY <3>1, <3>3, ChainFacts DEF ReadingOk, Exists
      <4> QED
        BY <1>2, <3>1, <4>1
    <3>4. ASSUME "edited" \notin touched
          PROVE  /\ \A c \in Chains : seen'[c] = Absent => ~Exists(c)
                 /\ Exists("whalewall") => chain["whalewall"] = seen'["whalewall"]
      BY <3>1, <3>2, <3>4, ChainFacts DEF ReadingOk, Exists
    <3> QED
      BY <1>1, <3>1, <3>3, <3>4 DEF ReadingOk, Exists
  <2>3. CASE createBaseRulesFails \/ reconcile \/ crash
    <3>1. base' \notin {"rules", "flush"}
      BY <2>3 DEF createBaseRulesFails, reconcile, crash
    <3> QED
      BY <3>1 DEF ReadingOk
  <2> QED
    BY <2>1, <2>2, <2>3 DEF baseReads
<1>9. ClearingOk'
  <2>1. "clear" \notin touched' => "clear" \notin touched
    BY DEF baseReads, list, getRules, createBaseRulesFails, reconcile, crash
  <2> QED
    BY <1>1, <2>1 DEF ClearingOk, Exists, WithChain, clearVars
<1> QED
  BY <1>4, <1>5, <1>6, <1>7, <1>8, <1>9

\* What a batch leaves of a chain, and what it adds.
Added(c) == IF ~Repairs(c) THEN {}
            ELSE IF c = "whalewall" THEN {Inserted("src", 2), Inserted("dst", 1)}
            ELSE {Inserted("jump", 1)}
Left(c) == IF Exists(c) THEN Without(chain[c], Deletes(c)) ELSE {}

LEMMA RepairedChain ==
    ASSUME BInv, NEW c \in Chains
    PROVE  /\ Repaired(c) \in MaybeRules
           /\ Repaired(c) \ {NoRule} \subseteq (chain[c] \ {NoRule}) \cup Added(c)
           /\ Added(c) \subseteq Rule
           /\ Repairs(c) => /\ Repaired(c) # Absent
                            /\ Repaired(c) = Added(c) \cup Left(c)
           /\ ~Repairs(c) => Repaired(c) = chain[c]
<1>1. chain[c] \in MaybeRules /\ handle \in Nat
  BY DEF BInv, TypeOK
<1>2. Added(c) \subseteq Rule
  BY <1>1 DEF Added, Inserted, Rule, Kinds
<1>3. Left(c) \in SUBSET Rule /\ Left(c) \subseteq chain[c] \ {NoRule}
  BY <1>1, ChainIsRules, ChainFacts DEF Left, Exists, Without
<1>4. Repaired(c) = IF Repairs(c) THEN Added(c) \cup Left(c) ELSE chain[c]
  BY DEF Repaired, Added, Left
<1>5. Repairs(c) => Repaired(c) \in SUBSET Rule
  BY <1>2, <1>3, <1>4
<1>6. Repairs(c) => Repaired(c) # Absent
  BY <1>5, ChainFacts
<1>7. Repaired(c) \in MaybeRules
  BY <1>1, <1>4, <1>5 DEF MaybeRules
<1>8. Repaired(c) \ {NoRule} \subseteq (chain[c] \ {NoRule}) \cup Added(c)
  BY <1>3, <1>4
<1> QED
  BY <1>2, <1>4, <1>6, <1>7, <1>8

\* The batch is applied.
LEMMA CreateBaseRulesKeeps == ASSUME BInv, createBaseRules PROVE BInv'
<1> USE DEF BInv
<1>1. /\ base = "flush" /\ base' = "idle" /\ Acceptable /\ daemon' = "up" /\ seen' = Nothing
      /\ chain' = [c \in Chains |-> Repaired(c)]
      /\ set' = IF setMissing /\ set = "missing" THEN "ok" ELSE set
      /\ handle' = IF \E c \in Chains : Repairs(c) THEN handle + 2 ELSE handle
      /\ touched \subseteq touched' /\ touched' \subseteq touched \cup Processes
      /\ chain' # chain \/ set' # set => "clear" \in touched'
      /\ UNCHANGED <<integrated, mapped, policies, rows, dbVars, clearVars, edits, work, setMissing, faults>>
  BY DEF createBaseRules, BaseOnly, Touch, Processes
<1>2. handle \in Nat /\ chain \in [Chains -> MaybeRules] /\ handle' \in Nat /\ handle <= handle'
  BY <1>1 DEF TypeOK
<1>3. chain' \in [Chains -> MaybeRules] /\ \A c \in Chains : chain'[c] = Repaired(c)
  BY <1>1, RepairedChain
<1>4. TypeOK'
  <2>1. seen' \in [Chains -> MaybeRules]
    BY <1>1, ChainFacts DEF Nothing
  <2>2. set' \in {"missing", "ok", "legacy", "alien"}
    BY <1>1 DEF TypeOK
  <2>3. touched' \subseteq Processes \cup {"edited"}
    BY <1>1 DEF TypeOK
  <2> QED
    BY <1>1, <1>2, <1>3, <2>1, <2>2, <2>3 DEF TypeOK, dbVars, clearVars, WithChain, BaseSteps
<1>5. SchemaOk'
  BY <1>1 DEF SchemaOk, dbVars, clearVars
<1>6. HandlesOk'
  <2> DEFINE N == [c \in Chains |-> Added(c)]
  <2>1. \A c \in Chains : N[c] \subseteq Rule /\ Known(c)' \subseteq Known(c) \cup N[c]
    BY <1>1, <1>3, RepairedChain DEF Known, Nothing, Absent, clearVars
  <2>2. \A c \in Chains : \A r \in Added(c) :
            /\ r.at < 0 - handle \/ handle < r.at
            /\ 0 - handle' <= r.at /\ r.at <= handle'
    BY <1>1, <1>2 DEF Added, Inserted
  <2>3. \A c \in Chains : \A r, q \in Added(c) : r.at = q.at => r = q
    BY <1>2 DEF Added, Inserted
  <2>4. \A c \in Chains : N[c] = Added(c)
    OBVIOUS
  <2> HIDE DEF N
  <2> QED
    BY <1>2, <2>1, <2>2, <2>3, <2>4, NewHandles
<1>7. SetOk'
  <2>1. set \in {"missing", "ok"} /\ (setMissing => set = "missing")
    BY <1>1 DEF SetOk
  <2>2. CASE Repairs("whalewall")
    <3>1. setMissing \/ set # "missing"
      BY <1>1, <2>2 DEF Acceptable
    <3> QED
      BY <1>1, <2>1, <3>1 DEF SetOk
  <2>3. CASE ~Repairs("whalewall")
    <3>1. chain'["whalewall"] = chain["whalewall"]
      BY <1>3, <2>3, RepairedChain, ChainFacts
    <3> QED
      BY <1>1, <2>1, <3>1 DEF SetOk, Exists
  <2> QED
    BY <2>2, <2>3
<1>8. ReadingOk'
  BY <1>1 DEF ReadingOk
<1>9. ClearingOk'
  <2> SUFFICES ASSUME "clear" \notin touched' PROVE ClearingOk'
    BY DEF ClearingOk
  <2>1. chain' = chain /\ set' = set /\ "clear" \notin touched
    BY <1>1
  <2> QED
    BY <1>1, <2>1 DEF ClearingOk, Exists, WithChain, clearVars
<1> QED
  BY <1>4, <1>5, <1>6, <1>7, <1>8, <1>9

-----------------------------------------------------------------------------
(* Operations on containers, and edits *)

operations(c) == createContainerRules(c) \/ createContainerRulesFails(c) \/ deleteContainerRules(c)

\* Everybody who reads has been told: nothing is claimed of what was read.
LEMMA OperationKeeps == ASSUME BInv, NEW i \in Ids, operations(i) PROVE BInv'
<1> USE DEF BInv
<1>1. /\ base = "idle" /\ handle' = handle + 1 /\ work' = work + 1
      /\ touched' = touched \cup (Processes \ {"nobody"})
      /\ UNCHANGED <<integrated, dbVars, baseVars, clearVars, set, edits>>
  BY DEF operations, createContainerRules, createContainerRulesFails, deleteContainerRules, Operation, Touch
<1>2. /\ handle \in Nat /\ work \in Nat /\ faults \in Nat /\ policies \in [Ids -> Nat]
      /\ chain \in [Chains -> MaybeRules] /\ mapped \subseteq WithChain /\ rows \subseteq Ids
  BY DEF TypeOK
<1>3. Appended(i, 1) \in Rule /\ Appended(i, 1).at = handle + 1
  BY <1>2 DEF Appended, Rule
<1>4. /\ chain' \in [Chains -> MaybeRules]
      /\ \A c \in Chains : c # "whalewall" => chain'[c] = chain[c]
      /\ chain'["whalewall"] \ {NoRule} \subseteq (chain["whalewall"] \ {NoRule}) \cup {Appended(i, 1)}
      /\ chain["whalewall"] = Absent => chain'["whalewall"] = Absent
  <2>1. CASE UNCHANGED chain
    BY <1>2, <2>1
  <2>2. CASE chain' # chain
    <3>1. /\ Exists("whalewall")
          /\ \/ chain' = [chain EXCEPT !["whalewall"] = OthersDrops(i) \cup {Appended(i, 1)}]
             \/ chain' = [chain EXCEPT !["whalewall"] = OthersDrops(i)]
      BY <2>2 DEF operations, createContainerRules, createContainerRulesFails, deleteContainerRules
    <3>2. OthersDrops(i) \in SUBSET Rule /\ OthersDrops(i) \subseteq chain["whalewall"] \ {NoRule}
      BY <1>2, <3>1, ChainFacts, ChainIsRules DEF OthersDrops, Exists
    <3>3. OthersDrops(i) \cup {Appended(i, 1)} \in MaybeRules /\ OthersDrops(i) \in MaybeRules
      BY <1>3, <3>2 DEF MaybeRules
    <3>4. PICK n : /\ chain' = [chain EXCEPT !["whalewall"] = n]
                   /\ n \in {OthersDrops(i) \cup {Appended(i, 1)}, OthersDrops(i)}
      BY <3>1
    <3>5. /\ n \in MaybeRules /\ chain'["whalewall"] = n
          /\ \A c \in Chains : c # "whalewall" => chain'[c] = chain[c]
      BY <1>2, <3>3, <3>4, ChainFacts
    <3>6. n \ {NoRule} \subseteq (chain["whalewall"] \ {NoRule}) \cup {Appended(i, 1)}
      BY <3>2, <3>4
    <3> QED
      BY <1>2, <3>1, <3>4, <3>5, <3>6, ChainFacts DEF Exists
  <2> QED
    BY <2>1, <2>2
<1>5. TypeOK'
  <2>1. policies' \in [Ids -> Nat]
    BY <1>2 DEF operations, createContainerRules, createContainerRulesFails, deleteContainerRules
  <2>2. mapped' \subseteq WithChain'
    <3>1. CASE createContainerRules(i) \/ createContainerRulesFails(i)
      <4>1. policies' = [policies EXCEPT ![i] = handle + 1] /\ mapped' \subseteq mapped \cup {i}
        BY <3>1 DEF createContainerRules, createContainerRulesFails
      <4>2. handle + 1 # 0
        BY <1>2
      <4> QED
        BY <1>2, <4>1, <4>2 DEF WithChain
    <3>2. CASE deleteContainerRules(i)
      BY <1>2, <3>2 DEF deleteContainerRules, WithChain
    <3> QED
      BY <3>1, <3>2 DEF operations
  <2>3. rows' \subseteq Ids
    BY <1>2 DEF operations, createContainerRules, createContainerRulesFails, deleteContainerRules
  <2>4. faults' \in Nat
    BY <1>2 DEF operations, createContainerRules, createContainerRulesFails, deleteContainerRules, Fault
  <2>5. handle' \in Nat /\ work' \in Nat
    BY <1>1, <1>2
  <2>6. touched' \subseteq Processes \cup {"edited"}
    BY <1>1 DEF TypeOK
  <2> QED
    BY <1>1, <1>4, <2>1, <2>2, <2>3, <2>4, <2>5, <2>6 DEF TypeOK, dbVars, baseVars, clearVars
<1>6. SchemaOk'
  <2>1. faults' = 0 => faults = 0
    BY <1>2 DEF operations, createContainerRules, createContainerRulesFails, deleteContainerRules, Fault
  <2> QED
    BY <1>1, <2>1 DEF SchemaOk, dbVars, baseVars, clearVars
<1>7. HandlesOk'
  <2> DEFINE N == [c \in Chains |-> {Appended(i, 1)}]
  <2>1. \A c \in Chains : N[c] \subseteq Rule /\ Known(c)' \subseteq Known(c) \cup N[c]
    BY <1>1, <1>3, <1>4 DEF Known, baseVars, clearVars
  <2>2. \A c \in Chains : \A r \in N[c] :
            /\ r.at < 0 - handle \/ handle < r.at
            /\ 0 - handle' <= r.at /\ r.at <= handle'
    BY <1>1, <1>2, <1>3
  <2>3. \A c \in Chains : \A r, q \in N[c] : r.at = q.at => r = q
    OBVIOUS
  <2>4. handle' \in Nat /\ handle <= handle'
    BY <1>1, <1>2
  <2> HIDE DEF N
  <2> QED
    BY <2>1, <2>2, <2>3, <2>4, NewHandles
<1>8. SetOk'
  BY <1>1, <1>4 DEF SetOk, Exists, baseVars
<1>9. ReadingOk' /\ ClearingOk'
  BY <1>1 DEF ReadingOk, ClearingOk, Processes, baseVars
<1> QED
  BY <1>5, <1>6, <1>7, <1>8, <1>9

foreignEdit(c) == foreignInsert(c) \/ foreignCopy(c) \/ foreignFlush(c)

\* Whatever an edit puts into a chain or takes from it, everybody who reads is told.
LEMMA EditedKeeps ==
    ASSUME BInv, Edit, chain' \in [Chains -> MaybeRules], integrated' \in BOOLEAN,
           handle' \in {handle, handle + 1}, NEW d, NEW N, N \subseteq Rule,
           \A r \in N : r.at \in {handle + 1, 0 - (handle + 1)} /\ handle' = handle + 1,
           \A r, q \in N : r = q,
           \A c \in Chains : c # d => chain'[c] = chain[c],
           d \in Chains => /\ chain[d] # Absent
                           /\ chain'[d] \ {NoRule} \subseteq (chain[d] \ {NoRule}) \cup N
    PROVE  BInv'
<1> USE DEF BInv
<1>1. /\ touched' = Processes \cup {"edited"} /\ edits' = edits + 1
      /\ UNCHANGED <<set, mapped, policies, rows, dbVars, baseVars, clearVars, faults, work>>
  BY DEF Edit
<1>2. handle \in Nat /\ edits \in Nat /\ handle' \in Nat /\ handle <= handle'
  BY DEF TypeOK
<1>3. TypeOK'
  BY <1>1, <1>2 DEF TypeOK, dbVars, baseVars, clearVars, WithChain
<1>4. SchemaOk'
  BY <1>1 DEF SchemaOk, dbVars, baseVars, clearVars
<1>5. HandlesOk'
  <2> DEFINE M == [c \in Chains |-> IF c = d THEN N ELSE {}]
  <2>1. \A c \in Chains : M[c] \subseteq Rule /\ Known(c)' \subseteq Known(c) \cup M[c]
    BY <1>1 DEF Known, baseVars, clearVars
  <2>2. \A c \in Chains : \A r \in M[c] : r \in N
    OBVIOUS
  <2> HIDE DEF M
  <2>3. \A r \in N : /\ r.at < 0 - handle \/ handle < r.at
                     /\ 0 - handle' <= r.at /\ r.at <= handle'
    BY <1>2
  <2> QED
    BY <1>2, <2>1, <2>2, <2>3, NewHandles
<1>6. SetOk'
  BY <1>1, ChainFacts DEF SetOk, Exists, baseVars
<1>7. ReadingOk' /\ ClearingOk'
  BY <1>1 DEF ReadingOk, ClearingOk, Processes, baseVars
<1> QED
  BY <1>3, <1>4, <1>5, <1>6, <1>7

LEMMA EditKeeps ==
    ASSUME BInv, foreignForward \/ \E c \in Chains : foreignEdit(c)
    PROVE  BInv'
<1>1. /\ handle \in Nat /\ chain \in [Chains -> MaybeRules] /\ integrated \in BOOLEAN
  BY DEF BInv, TypeOK
<1>2. CASE foreignForward
  <2>1. Edit /\ chain' = chain /\ handle' = handle /\ integrated' \in BOOLEAN
    BY <1>2 DEF foreignForward
  <2>2. "FORWARD" \notin Chains
    BY DEF Chains, Hooks
  <2>3. {} \subseteq Rule
    OBVIOUS
  <2> QED
    BY <1>1, <2>1, <2>2, <2>3, EditedKeeps
<1>3. ASSUME NEW d \in Chains, foreignEdit(d) PROVE BInv'
  <2>1. Edit /\ Exists(d) /\ integrated' = integrated
    BY <1>3 DEF foreignEdit, foreignInsert, foreignCopy, foreignFlush
  <2>2. chain[d] \in SUBSET Rule
    BY <1>1, <2>1, ChainIsRules DEF Exists
  <2>3. CASE foreignFlush(d)
    <3>1. chain' = [chain EXCEPT ![d] = {}] /\ handle' = handle
      BY <2>3 DEF foreignFlush
    <3>2. chain' \in [Chains -> MaybeRules] /\ {} \subseteq Rule
      BY <1>1, <3>1, ChainFacts
    <3>3. \A c \in Chains : c # d => chain'[c] = chain[c]
      BY <1>1, <3>1
    <3>4. chain'[d] \ {NoRule} \subseteq (chain[d] \ {NoRule}) \cup {}
      BY <1>1, <3>1
    <3> QED
      BY <1>1, <2>1, <3>1, <3>2, <3>3, <3>4, EditedKeeps DEF Exists
  <2>4. CASE foreignInsert(d) \/ foreignCopy(d)
    <3>1. PICK r \in Rule : /\ chain' = [chain EXCEPT ![d] = chain[d] \cup {r}]
                            /\ handle' = handle + 1 /\ r.at \in {handle + 1, 0 - (handle + 1)}
      <4>1. CASE foreignInsert(d)
        <5>1. Inserted("other", 1) \in Rule /\ Inserted("other", 1).at = 0 - (handle + 1)
          BY <1>1 DEF Inserted, Rule, Kinds
        <5>2. chain' = [chain EXCEPT ![d] = chain[d] \cup {Inserted("other", 1)}] /\ handle' = handle + 1
          BY <4>1 DEF foreignInsert
        <5> QED
          BY <5>1, <5>2
      <4>2. CASE foreignCopy(d)
        <5>1. PICK k \in {"jump", "src", "dst"} : chain' = [chain EXCEPT ![d] = chain[d] \cup {Appended(k, 1)}]
          BY <4>2 DEF foreignCopy
        <5>2. Appended(k, 1) \in Rule /\ Appended(k, 1).at = handle + 1
          BY <1>1 DEF Appended, Rule, Kinds
        <5>3. handle' = handle + 1
          BY <4>2 DEF foreignCopy
        <5> QED
          BY <5>1, <5>2, <5>3
      <4> QED
        BY <2>4, <4>1, <4>2
    <3>2. chain[d] \cup {r} \in MaybeRules
      BY <2>2 DEF MaybeRules
    <3>3. chain' \in [Chains -> MaybeRules] /\ {r} \subseteq Rule
      BY <1>1, <3>1, <3>2
    <3>4. \A c \in Chains : c # d => chain'[c] = chain[c]
      BY <1>1, <3>1
    <3>5. chain'[d] \ {NoRule} \subseteq (chain[d] \ {NoRule}) \cup {r}
      BY <1>1, <3>1
    <3>6. /\ \A x \in {r} : x.at \in {handle + 1, 0 - (handle + 1)} /\ handle' = handle + 1
          /\ \A x, q \in {r} : x = q
          /\ handle' \in {handle, handle + 1} /\ integrated' \in BOOLEAN /\ chain[d] # Absent
      BY <1>1, <2>1, <3>1 DEF Exists
    <3> QED
      BY <2>1, <3>3, <3>4, <3>5, <3>6, EditedKeeps
  <2> QED
    BY <1>3, <2>3, <2>4 DEF foreignEdit
<1> QED
  BY <1>2, <1>3

-----------------------------------------------------------------------------
(* whalewall -clear *)

\* The steps of a clear that only read, those that end it and the database's rows.
clearReads == getJumps \/ getOwned \/ deleteContainer \/ clearRulesFails

LEMMA ClearReadsKeep == ASSUME BInv, clearReads PROVE BInv'
<1> USE DEF BInv
<1>1. UNCHANGED <<integrated, handle, dbVars, baseVars, clears, edits, work, chain, set, mapped, policies>>
  BY DEF clearReads, getJumps, getOwned, deleteContainer, clearRulesFails, ClearOnly
<1>2. /\ chain \in [Chains -> MaybeRules] /\ policies \in [Ids -> Nat] /\ faults \in Nat
      /\ handle \in Nat /\ rows \subseteq Ids
      /\ cleared \in [chain : [Chains -> MaybeRules], policies : [Ids -> Nat], set : BOOLEAN]
  BY DEF TypeOK
<1>3. cleared' \in [chain : [Chains -> MaybeRules], policies : [Ids -> Nat], set : BOOLEAN]
  <2>1. Nothing \in [Chains -> MaybeRules]
    BY ChainFacts DEF Nothing
  <2>2. CASE getJumps
    BY <1>2, <2>2, ChainFacts DEF getJumps
  <2>3. CASE getOwned
    BY <1>2, <2>3, ChainFacts DEF getOwned
  <2>4. CASE deleteContainer
    BY <1>2, <2>4 DEF deleteContainer
  <2>5. CASE clearRulesFails
    BY <2>1, <2>5 DEF clearRulesFails, NothingRead
  <2> QED
    BY <2>2, <2>3, <2>4, <2>5 DEF clearReads
<1>4. \A c \in Chains : cleared'.chain[c] \in {cleared.chain[c], chain[c], Absent}
  BY <1>2, ChainFacts DEF clearReads, getJumps, getOwned, deleteContainer, clearRulesFails, NothingRead, Nothing
<1>5. /\ clear # "idle" /\ clear' \in ClearSteps /\ faults' \in Nat /\ (faults' = 0 => faults = 0)
      /\ rows' \subseteq Ids /\ touched' \subseteq touched
      /\ touched \subseteq touched' \cup {"clear"}
  BY <1>2 DEF clearReads, getJumps, getOwned, deleteContainer, clearRulesFails, ClearSteps, Fault
<1>6. TypeOK'
  BY <1>1, <1>3, <1>5 DEF TypeOK, dbVars, baseVars, WithChain
<1>7. SchemaOk'
  BY <1>1, <1>5 DEF SchemaOk, dbVars, baseVars
<1>8. HandlesOk'
  <2>1. \A c \in Chains : Known(c)' \subseteq Known(c)
    BY <1>1, <1>4 DEF Known, baseVars, Absent
  <2> QED
    BY <1>1, <1>2, <2>1, SameHandles
<1>9. SetOk'
  BY <1>1 DEF SetOk, Exists, baseVars
<1>10. ReadingOk'
  <2>1. /\ "base" \notin touched' => "base" \notin touched
        /\ "edited" \notin touched' => "edited" \notin touched
    BY <1>5
  <2> QED
    BY <1>1, <2>1 DEF ReadingOk, Exists, baseVars
<1>11. ClearingOk'
  <2>1. CASE getJumps
    <3>1. clear' = "owned" /\ \A c \in Hooks : cleared'.chain[c] = chain[c]
      BY <1>2, <2>1, ChainFacts DEF getJumps
    <3> QED
      BY <1>1, <3>1 DEF ClearingOk
  <2>2. CASE getOwned
    <3>1. /\ clear = "owned" /\ clear' = "flush" /\ touched' = touched
          /\ cleared' = [chain |-> [cleared.chain EXCEPT !["whalewall"] = chain["whalewall"]],
                         policies |-> policies, set |-> set # "missing"]
      BY <2>2 DEF getOwned
    <3>2. ASSUME "clear" \notin touched PROVE cleared'.chain = chain
      <4>1. \A c \in Hooks : cleared.chain[c] = chain[c]
        BY <3>1, <3>2 DEF ClearingOk
      <4>2. \A c \in Chains : [cleared.chain EXCEPT !["whalewall"] = chain["whalewall"]][c] = chain[c]
        BY <1>2, <4>1, ChainFacts
      <4>3. [cleared.chain EXCEPT !["whalewall"] = chain["whalewall"]] = chain
        BY <1>2, <4>2
      <4> QED
        BY <3>1, <4>3
    <3>3. cleared'.policies = policies /\ (set # "missing" => cleared'.set)
      BY <3>1
    <3> QED
      BY <1>1, <3>1, <3>2, <3>3 DEF ClearingOk
  <2>3. CASE deleteContainer \/ clearRulesFails
    <3>1. clear' = "idle"
      BY <2>3 DEF deleteContainer, clearRulesFails
    <3> QED
      BY <3>1 DEF ClearingOk
  <2> QED
    BY <2>1, <2>2, <2>3 DEF clearReads
<1> QED
  BY <1>6, <1>7, <1>8, <1>9, <1>10, <1>11

\* What a clear leaves of the chains: a hook loses rules, the whalewall chain goes.
LEMMA ClearedChain ==
    ASSUME BInv, clearRules
    PROVE  /\ chain' \in [Chains -> MaybeRules]
           /\ \A c \in Hooks : IF Exists(c) THEN /\ chain'[c] # Absent
                                                 /\ chain'[c] = Without(chain[c], SeenJumps(c))
                                            ELSE chain'[c] = Absent
           /\ chain'["whalewall"] = IF SeenMain # Absent THEN Absent ELSE chain["whalewall"]
           /\ \A c \in Chains : chain'[c] \ {NoRule} \subseteq chain[c] \ {NoRule}
           /\ \A c \in Chains : chain[c] = Absent => chain'[c] = Absent
<1>1. chain \in [Chains -> MaybeRules]
  BY DEF BInv, TypeOK
<1>2. chain' = [c \in Chains |->
                   IF c = "whalewall" THEN IF SeenMain # Absent THEN Absent ELSE chain[c]
                   ELSE IF Exists(c) THEN Without(chain[c], SeenJumps(c)) ELSE Absent]
  BY DEF clearRules
<1>3. \A c \in Chains : Exists(c) =>
          /\ Without(chain[c], SeenJumps(c)) \in SUBSET Rule
          /\ Without(chain[c], SeenJumps(c)) \subseteq chain[c] \ {NoRule}
  BY <1>1, ChainIsRules, ChainFacts DEF Exists, Without
<1>4. \A c \in Hooks : IF Exists(c) THEN /\ chain'[c] # Absent /\ chain'[c] \in SUBSET Rule
                                         /\ chain'[c] = Without(chain[c], SeenJumps(c))
                                    ELSE chain'[c] = Absent
  BY <1>2, <1>3, ChainFacts
<1>5. chain'["whalewall"] = IF SeenMain # Absent THEN Absent ELSE chain["whalewall"]
  BY <1>2, ChainFacts
<1>6. \A c \in Chains : chain'[c] \in MaybeRules
  BY <1>1, <1>4, <1>5, ChainFacts DEF MaybeRules
<1>7. chain' \in [Chains -> MaybeRules]
  BY <1>2, <1>6
<1>8. \A c \in Chains : chain'[c] \ {NoRule} \subseteq chain[c] \ {NoRule}
  <2> SUFFICES ASSUME NEW c \in Chains PROVE chain'[c] \ {NoRule} \subseteq chain[c] \ {NoRule}
    OBVIOUS
  <2>1. CASE c = "whalewall"
    BY <1>5, <2>1 DEF Absent
  <2>2. CASE c \in Hooks
    BY <1>3, <1>4, <2>2 DEF Absent
  <2> QED
    BY <2>1, <2>2, ChainFacts
<1>9. \A c \in Chains : chain[c] = Absent => chain'[c] = Absent
  BY <1>4, <1>5, ChainFacts DEF Exists
<1> QED
  BY <1>4, <1>5, <1>7, <1>8, <1>9

\* The batch of a clear.
LEMMA ClearRulesKeeps == ASSUME BInv, clearRules PROVE BInv'
<1> USE DEF BInv
<1>1. /\ clear = "flush" /\ clear' = "rows" /\ ClearAcceptable
      /\ set' = IF cleared.set THEN "missing" ELSE set
      /\ mapped' = IF cleared.set THEN {} ELSE mapped
      /\ policies' = [c \in Ids |-> IF c \in SeenPolicies THEN 0 ELSE policies[c]]
      /\ cleared' = NothingRead
      /\ touched' = touched \cup {"base"}
      /\ UNCHANGED <<integrated, handle, dbVars, baseVars, clears, edits, work, rows, faults>>
  BY DEF clearRules, ClearOnly, Touch, Processes
<1>2. /\ chain \in [Chains -> MaybeRules] /\ policies \in [Ids -> Nat] /\ handle \in Nat
      /\ cleared \in [chain : [Chains -> MaybeRules], policies : [Ids -> Nat], set : BOOLEAN]
      /\ mapped \subseteq WithChain
  BY DEF TypeOK
<1>3. policies' \in [Ids -> Nat] /\ \A c \in Ids : policies'[c] = IF c \in SeenPolicies THEN 0 ELSE policies[c]
  BY <1>1, <1>2
<1>4. TypeOK'
  <2>1. cleared' \in [chain : [Chains -> MaybeRules], policies : [Ids -> Nat], set : BOOLEAN]
    <3>1. Nothing \in [Chains -> MaybeRules]
      BY ChainFacts DEF Nothing
    <3> QED
      BY <1>1, <3>1 DEF NothingRead
  <2>2. mapped' \subseteq WithChain'
    <3>1. CASE cleared.set
      BY <1>1, <3>1
    <3>2. CASE ~cleared.set
      <4>1. mapped' = mapped /\ mapped \cap SeenPolicies = {}
        BY <1>1, <3>2 DEF ClearAcceptable
      <4> QED
        BY <1>2, <1>3, <4>1 DEF WithChain
    <3> QED
      BY <3>1, <3>2
  <2>3. set' \in {"missing", "ok", "legacy", "alien"} /\ touched' \subseteq Processes \cup {"edited"}
    BY <1>1 DEF TypeOK, Processes
  <2> QED
    BY <1>1, <1>3, <2>1, <2>2, <2>3, ClearedChain DEF TypeOK, dbVars, baseVars, ClearSteps
<1>5. SchemaOk'
  BY <1>1 DEF SchemaOk, dbVars, baseVars
<1>6. HandlesOk'
  <2>1. \A c \in Chains : cleared'.chain[c] = Absent
    BY <1>1 DEF NothingRead, Nothing
  <2>2. \A c \in Chains : Known(c)' \subseteq Known(c)
    BY <1>1, <2>1, ClearedChain DEF Known, baseVars, Absent
  <2> QED
    BY <1>1, <1>2, <2>2, SameHandles
<1>7. SetOk'
  <2>1. ASSUME chain'["whalewall"] # Absent PROVE set' \in {"ok", "legacy"}
    <3>1. SeenMain = Absent /\ Exists("whalewall")
      BY <2>1, ClearedChain DEF Exists
    <3>2. ~cleared.set
      BY <1>1, <3>1 DEF ClearAcceptable
    <3> QED
      BY <1>1, <3>1, <3>2 DEF SetOk
  <2>2. base \in {"rules", "flush"} => set' \in {"missing", "ok"} /\ (setMissing => set' = "missing")
    BY <1>1 DEF SetOk
  <2> QED
    BY <1>1, <2>1, <2>2 DEF SetOk, Exists, baseVars
<1>8. ReadingOk'
  <2>1. "base" \in touched' /\ ("edited" \notin touched' => "edited" \notin touched)
    BY <1>1
  <2>2. \A c \in Chains : ~Exists(c) => chain'[c] = Absent
    BY ClearedChain DEF Exists
  <2>3. chain'["whalewall"] # Absent => chain'["whalewall"] = chain["whalewall"]
    BY ClearedChain
  <2> QED
    BY <1>1, <2>1, <2>2, <2>3, ChainFacts DEF ReadingOk, Exists, baseVars
<1>9. ClearingOk'
  <2> SUFFICES ASSUME "clear" \notin touched'
               PROVE  /\ \A c \in Hooks : chain'[c] # Absent => Of(chain'[c], "jump") = {}
                      /\ chain'["whalewall"] = Absent /\ set' = "missing" /\ WithChain' = {}
    BY <1>1 DEF ClearingOk, Exists
  <2>1. cleared.chain = chain /\ cleared.policies = policies /\ (set # "missing" => cleared.set)
    BY <1>1 DEF ClearingOk
  <2>2. ASSUME NEW c \in Hooks, chain'[c] # Absent PROVE Of(chain'[c], "jump") = {}
    <3>1. Exists(c) /\ chain'[c] = Without(chain[c], SeenJumps(c))
      BY <2>2, ClearedChain
    <3>2. SeenJumps(c) = Handles(Of(chain[c], "jump"))
      BY <2>1, <3>1 DEF SeenJumps, Exists
    <3> QED
      BY <3>1, <3>2 DEF Of, Without, Handles
  <2>3. chain'["whalewall"] = Absent
    BY <2>1, ClearedChain DEF SeenMain
  <2>4. set' = "missing"
    BY <1>1, <2>1
  <2>5. WithChain' = {}
    BY <1>3, <2>1 DEF WithChain, SeenPolicies
  <2> QED
    BY <2>2, <2>3, <2>4, <2>5
<1> QED
  BY <1>4, <1>5, <1>6, <1>7, <1>8, <1>9

-----------------------------------------------------------------------------
(* The invariant holds *)

LEMMA InitKeeps == ASSUME Init PROVE BInv
<1>1. /\ integrated \in BOOLEAN /\ handle = 4 /\ boot = [p \in Processes |-> "idle"]
      /\ db = (IF set = "missing" THEN "absent" ELSE "ready")
      /\ daemon = "down" /\ base = "idle" /\ seen = Nothing /\ setMissing = FALSE
      /\ clear = "idle" /\ cleared = NothingRead /\ touched = {}
      /\ edits = 0 /\ faults = 0 /\ clears = 0 /\ work = 0
      /\ set \in {"missing", "ok", "legacy", "alien"}
  BY DEF Init
<1>2. /\ chain \in [Chains -> MaybeRules]
      /\ \A c \in Chains : \A r \in chain[c] \ {NoRule} : r.at \in {-3, -2, -1, 1}
      /\ \A c \in Chains : \A r, q \in chain[c] \ {NoRule} : r.at = q.at => r = q
      /\ chain["whalewall"] # Absent => set = "legacy"
  <2>1. CASE set = "legacy"
    <3>1. chain = OldRules
      BY <2>1 DEF Init
    <3>2. /\ [kind |-> "src", at |-> -2] \in Rule /\ [kind |-> "dst", at |-> -1] \in Rule
          /\ [kind |-> "jump", at |-> -3] \in Rule
      BY DEF Rule, Kinds
    <3> QED
      BY <2>1, <3>1, <3>2 DEF OldRules, MaybeRules
  <2>2. CASE set # "legacy"
    <3>1. chain \in FirstRules
      BY <2>2 DEF Init
    <3>2. [kind |-> "other", at |-> 1] \in Rule
      BY DEF Rule, Kinds
    <3>3. \A c \in Chains : chain[c] \in {{}, {[kind |-> "other", at |-> 1]}, Absent}
      BY <3>1 DEF FirstRules
    <3>4. \A c \in Chains : chain[c] \ {NoRule} \subseteq {[kind |-> "other", at |-> 1]}
      BY <3>3 DEF Absent
    <3>5. {{}, {[kind |-> "other", at |-> 1]}, Absent} \subseteq MaybeRules
      BY <3>2 DEF MaybeRules
    <3>6. chain \in [Chains -> MaybeRules] /\ chain["whalewall"] = Absent
      BY <3>1, <3>5 DEF FirstRules
    <3> QED
      BY <3>4, <3>6
  <2> QED
    BY <2>1, <2>2
<1>3. policies \in [Ids -> Nat] /\ mapped \subseteq WithChain /\ rows \subseteq Ids
  BY DEF Init, WithChain
<1>4. Nothing \in [Chains -> MaybeRules] /\ \A c \in Chains : Nothing[c] = Absent
  BY ChainFacts DEF Nothing
<1>5. cleared \in [chain : [Chains -> MaybeRules], policies : [Ids -> Nat], set : BOOLEAN]
      /\ cleared.chain = Nothing
  BY <1>1, <1>4 DEF NothingRead
<1>6. TypeOK
  <2>1. boot \in [Processes -> BootSteps]
    BY <1>1 DEF BootSteps
  <2>2. seen \in [Chains -> MaybeRules] /\ touched \subseteq Processes \cup {"edited"} /\ setMissing \in BOOLEAN
    BY <1>1, <1>4
  <2>3. base \in BaseSteps /\ clear \in ClearSteps /\ daemon \in {"down", "started", "up"}
    BY <1>1 DEF BaseSteps, ClearSteps
  <2>4. handle \in Nat /\ {edits, faults, clears, work} \subseteq Nat
    BY <1>1
  <2>5. db \in {"absent", "empty", "begun", "ready"}
    BY <1>1
  <2> QED
    BY <1>1, <1>2, <1>3, <1>5, <2>1, <2>2, <2>3, <2>4, <2>5 DEF TypeOK
<1>7. \A c \in Chains : Known(c) \subseteq chain[c] \ {NoRule}
  BY <1>1, <1>4, <1>5 DEF Known, Absent
<1>8. HandlesOk
  BY <1>1, <1>2, <1>7 DEF HandlesOk
<1>9. SchemaOk /\ SetOk /\ ReadingOk /\ ClearingOk
  BY <1>1, <1>2 DEF SchemaOk, SetOk, ReadingOk, ClearingOk, Exists
<1> QED
  BY <1>6, <1>8, <1>9 DEF BInv

LEMMA StutterKeeps == ASSUME BInv, UNCHANGED vars PROVE BInv'
<1> USE DEF BInv, vars, fwVars, dbVars, baseVars, clearVars
<1>1. TypeOK' /\ SchemaOk'
  BY DEF TypeOK, SchemaOk, WithChain, Exists
<1>2. HandlesOk' /\ SetOk'
  BY DEF HandlesOk, Known, SetOk, Exists
<1>3. ReadingOk' /\ ClearingOk'
  BY DEF ReadingOk, ClearingOk, Exists, WithChain
<1> QED
  BY <1>1, <1>2, <1>3

\* The step of Next.
LEMMA StepKeeps == ASSUME BInv, [Next]_vars PROVE BInv'
<1>1. CASE Repairing \/ crash
  BY <1>1, BootKeeps, BaseReadsKeep, CreateBaseRulesKeeps DEF Repairing, baseReads, Processes
<1>2. CASE Clearing \/ NewRuleManager("clear")
  BY <1>2, BootKeeps, ClearReadsKeep, ClearRulesKeeps DEF Clearing, clearReads, Processes
<1>3. CASE \E c \in Ids : operations(c)
  BY <1>3, OperationKeeps
<1>4. CASE foreignForward \/ \E c \in Chains : foreignEdit(c)
  BY <1>4, EditKeeps
<1>5. CASE UNCHANGED vars
  BY <1>5, StutterKeeps
<1> QED
  BY <1>1, <1>2, <1>3, <1>4, <1>5 DEF Next, operations, foreignEdit

LEMMA BInvHolds == Spec => []BInv
<1>1. Init => BInv
  BY InitKeeps
<1>2. BInv /\ [Next]_vars => BInv'
  BY StepKeeps
<1> QED
  BY <1>1, <1>2, PTL DEF Spec

-----------------------------------------------------------------------------
(* The theorems *)

\* Every variable keeps its type; a mapping leads to a chain that exists.
THEOREM BaseTypeCorrect == Spec => []TypeOK
<1>1. BInv => TypeOK
  BY DEF BInv
<1> QED
  BY <1>1, BInvHolds, PTL

\* However the daemon and a clear overtake each other in initDB, whoever works has
\* all the tables, and only a failure leaves a file without them.
THEOREM WorksOnWholeSchema == Spec => []SchemaIsWhole
<1>1. BInv => SchemaIsWhole
  BY DEF BInv, SchemaOk, SchemaIsWhole
<1> QED
  BY <1>1, BInvHolds, PTL

\* A clear that reports success on what it read has left nothing of whalewall's.
THEOREM ClearLeavesNothing == Spec => ClearIsComplete
<1>1. ASSUME BInv, [Next]_vars, clear = "rows", clear' = "idle", faults' = faults, "clear" \notin touched
      PROVE  /\ \A c \in Hooks : Exists(c) => Of(chain[c], "jump") = {}
             /\ ~Exists("whalewall") /\ set = "missing" /\ WithChain = {} /\ rows' = {}
  <2>1. /\ \A c \in Hooks : Exists(c) => Of(chain[c], "jump") = {}
        /\ ~Exists("whalewall") /\ set = "missing" /\ WithChain = {}
    BY <1>1 DEF BInv, ClearingOk
  <2>2. deleteContainer
    BY <1>1 DEF Next, vars, clearVars, Repairing, Clearing, initDB, ping, schema, NewDB, initDBFails,
       NewRuleManager, stat, Opened, Processes, reconcile, list, getRules, createBaseRules, createBaseRulesFails,
       crash, BaseOnly, BootOnly, getJumps, getOwned, clearRules, clearRulesFails, foreignForward,
       createContainerRules, createContainerRulesFails, deleteContainerRules, Operation,
       foreignInsert, foreignCopy, foreignFlush, Edit
  <2>3. rows' = {}
    BY <1>1, <2>2 DEF deleteContainer, Fault, BInv, TypeOK
  <2> QED
    BY <2>1, <2>3
<1>2. BInv /\ [Next]_vars => [clear = "rows" /\ clear' = "idle" /\ faults' = faults /\ "clear" \notin touched
          => /\ \A c \in Hooks : Exists(c) => Of(chain[c], "jump") = {}
             /\ ~Exists("whalewall") /\ set = "missing" /\ WithChain = {} /\ rows' = {}]_vars
  BY <1>1
<1> QED
  BY <1>2, BInvHolds, PTL DEF Spec, ClearIsComplete

\* Only a batch, an operation or an edit changes chains and the set.
LEMMA WhoChanges ==
    ASSUME BInv, [Next]_vars, edits' = edits
    PROVE  createBaseRules \/ clearRules \/ (\E i \in Ids : operations(i)) \/ UNCHANGED <<chain, set>>
<1>1. edits \in Nat
  BY DEF BInv, TypeOK
<1>2. ~Edit
  BY <1>1 DEF Edit
<1>3. CASE Repairing \/ crash \/ NewRuleManager("clear")
  BY <1>3 DEF Repairing, NewRuleManager, initDB, ping, schema, NewDB, initDBFails, BootOnly, fwVars, reconcile,
     list, getRules, createBaseRulesFails, crash
<1>4. CASE Clearing
  BY <1>4 DEF Clearing, initDB, ping, schema, NewDB, initDBFails, BootOnly, fwVars, getJumps, getOwned,
     deleteContainer, clearRulesFails
<1> QED
  BY <1>2, <1>3, <1>4 DEF Next, operations, foreignForward, foreignInsert, foreignCopy, foreignFlush, vars, fwVars

\* A jump inserted where the others are deleted is at the head and alone.
LEMMA JumpGoesFirst ==
    ASSUME BInv, NEW c \in Hooks, Repairs(c), Exists(c) => chain[c] = seen[c]
    PROVE  JumpAtHead(Repaired(c)) /\ Repaired(c) # Absent
<1> DEFINE j == Inserted("jump", 1)
<1>1. c \in Chains /\ c # "whalewall" /\ handle \in Nat /\ chain[c] \in MaybeRules
  BY ChainFacts DEF BInv, TypeOK
<1>2. Repaired(c) = {j} \cup Left(c) /\ Repaired(c) # Absent
  BY <1>1, RepairedChain DEF Added
<1>3. j.kind = "jump" /\ j.at = 0 - (handle + 1)
  BY DEF Inserted
<1>4. ASSUME NEW q \in Left(c) PROVE j.at < q.at /\ q.kind # "jump"
  <2>1. Exists(c) /\ chain[c] = seen[c] /\ q \in chain[c] /\ q.at \notin Deletes(c)
    BY <1>4 DEF Left, Without
  <2>2. q \in Known(c) /\ q \in Rule
    BY <1>1, <2>1, ChainFacts, ChainIsRules DEF Known, Exists
  <2>3. 0 - handle <= q.at /\ q.at \in Int
    BY <1>1, <2>2 DEF BInv, HandlesOk, Rule
  <2>4. Deletes(c) = Handles(Of(chain[c], "jump"))
    BY <1>1, <2>1 DEF Repairs, Deletes, ensureJumpAtHead, Exists
  <2>5. q.kind # "jump"
    BY <2>1, <2>4 DEF Handles, Of
  <2> QED
    BY <1>1, <1>3, <2>3, <2>5
<1> HIDE DEF j
<1> QED
  BY <1>2, <1>3, <1>4 DEF JumpAtHead

\* The dispatchers likewise, before nothing but the drops of containers.
LEMMA DispatchersGoFirst ==
    ASSUME BInv, Repairs("whalewall"), Exists("whalewall") => chain["whalewall"] = seen["whalewall"]
    PROVE  DispatchersAtHead(Repaired("whalewall")) /\ Repaired("whalewall") # Absent
<1> DEFINE c == "whalewall"
           s == Inserted("src", 2)
           d == Inserted("dst", 1)
<1>1. c \in Chains /\ handle \in Nat /\ chain[c] \in MaybeRules
  BY ChainFacts DEF BInv, TypeOK
<1>2. Repaired(c) = {s, d} \cup Left(c) /\ Repaired(c) # Absent
  BY <1>1, RepairedChain DEF Added
<1>3. s.kind = "src" /\ d.kind = "dst" /\ s.at = 0 - (handle + 2) /\ d.at = 0 - (handle + 1)
  BY DEF Inserted
<1>4. s.at < d.at
  BY <1>1, <1>3
<1>5. ASSUME NEW q \in Left(c) PROVE d.at < q.at /\ q.kind \in Ids
  <2>1. Exists(c) /\ chain[c] = seen[c] /\ q \in chain[c] /\ q.at \notin Deletes(c)
    BY <1>5 DEF Left, Without
  <2>2. q \in Known(c) /\ q \in Rule
    BY <1>1, <2>1, ChainFacts, ChainIsRules DEF Known, Exists
  <2>3. 0 - handle <= q.at /\ q.at \in Int
    BY <1>1, <2>2 DEF BInv, HandlesOk, Rule
  <2>4. Deletes(c) = Handles({r \in chain[c] : ~isSafeOwnedDropRule(r)})
    BY <1>1, <2>1 DEF Repairs, Deletes, ensureDispatchersAtHead, Exists
  <2>5. q.kind \in Ids
    BY <2>1, <2>4 DEF Handles, isSafeOwnedDropRule
  <2> QED
    BY <1>1, <1>3, <2>3, <2>5
<1>6. s \in Repaired(c) /\ d \in Repaired(c)
  BY <1>2
<1> HIDE DEF c, s, d
<1>7. \A o \in Repaired(c) \ {s, d} : d.at < o.at /\ o.kind \in Ids
  BY <1>2, <1>5
<1>8. DispatchersAtHead(Repaired(c))
  BY <1>3, <1>4, <1>6, <1>7 DEF DispatchersAtHead
<1> QED
  BY <1>2, <1>8 DEF c

\* The kernel takes a batch made from what there is.
LEMMA CurrentIsAcceptable ==
    ASSUME BInv, base = "flush", "base" \notin touched
    PROVE  Acceptable /\ seen = chain /\ (set = "missing" <=> setMissing) /\ set \in {"missing", "ok"}
<1>1. seen = chain /\ (set = "missing" <=> setMissing) /\ set \in {"missing", "ok"}
  BY DEF BInv, ReadingOk, SetOk, TypeOK
<1>2. \A c \in Chains : seen[c] # Absent => Deletes(c) \subseteq Handles(chain[c])
  BY <1>1 DEF Deletes, ensureDispatchersAtHead, ensureJumpAtHead, Handles, Of
<1> QED
  BY <1>1, <1>2 DEF Acceptable, Exists

\* A repair of what was read leaves the base rules in place, and replaces nothing
\* that was in order.
THEOREM RepairLeavesWired == Spec => RepairWires
<1>1. ASSUME BInv, [Next]_vars, base = "flush", daemon' = "up", base' = "idle", faults' = faults, "base" \notin touched
      PROVE  Wired' /\ (Wired => chain' = chain)
  <2>1. Acceptable /\ seen = chain /\ (set = "missing" <=> setMissing) /\ set \in {"missing", "ok"}
    BY <1>1, CurrentIsAcceptable
  <2>2. faults \in Nat /\ chain \in [Chains -> MaybeRules]
    BY <1>1 DEF BInv, TypeOK
  <2>3. createBaseRules
    <3>1. CASE Repairing \/ crash
      BY <1>1, <2>1, <2>2, <3>1 DEF Repairing, NewRuleManager, initDB, ping, schema, NewDB, initDBFails, BootOnly,
         reconcile, list, getRules, createBaseRulesFails, crash, Fault
    <3>2. CASE ~(Repairing \/ crash)
      BY <1>1, <3>2 DEF Next, vars, baseVars, NewRuleManager, Clearing, initDB, ping, schema, NewDB, initDBFails,
         BootOnly, getJumps, getOwned, clearRules, deleteContainer, clearRulesFails, ClearOnly, foreignForward,
         createContainerRules, createContainerRulesFails, deleteContainerRules, Operation,
         foreignInsert, foreignCopy, foreignFlush, Edit
    <3> QED
      BY <3>1, <3>2
  <2>4. /\ chain' = [c \in Chains |-> Repaired(c)]
        /\ set' = IF setMissing /\ set = "missing" THEN "ok" ELSE set
    BY <2>3 DEF createBaseRules
  <2>5. ASSUME NEW c \in Hooks PROVE chain'[c] # Absent /\ JumpAtHead(chain'[c])
    <3>1. c \in Chains /\ c # "whalewall" /\ chain'[c] = Repaired(c)
      BY <2>4, ChainFacts
    <3>2. CASE Repairs(c)
      BY <1>1, <2>1, <3>1, <3>2, JumpGoesFirst
    <3>3. CASE ~Repairs(c)
      <4>1. Repaired(c) = chain[c]
        BY <1>1, <3>1, <3>3, RepairedChain
      <4> QED
        BY <2>1, <3>1, <3>3, <4>1 DEF Repairs
    <3> QED
      BY <3>2, <3>3
  <2>6. chain'["whalewall"] # Absent /\ DispatchersAtHead(chain'["whalewall"])
    <3>1. "whalewall" \in Chains /\ chain'["whalewall"] = Repaired("whalewall")
      BY <2>4, ChainFacts
    <3>2. CASE Repairs("whalewall")
      BY <1>1, <2>1, <3>1, <3>2, DispatchersGoFirst
    <3>3. CASE ~Repairs("whalewall")
      <4>1. Repaired("whalewall") = chain["whalewall"]
        BY <1>1, <3>1, <3>3, RepairedChain
      <4> QED
        BY <2>1, <3>1, <3>3, <4>1 DEF Repairs
    <3> QED
      BY <3>2, <3>3
  <2>7. set' = "ok"
    BY <2>1, <2>4
  <2>8. Wired => chain' = chain
    <3> SUFFICES ASSUME Wired PROVE chain' = chain
      OBVIOUS
    <3>1. \A c \in Chains : ~Repairs(c)
      BY <2>1, ChainFacts DEF Wired, Exists, Repairs
    <3>2. \A c \in Chains : Repaired(c) = chain[c]
      BY <1>1, <3>1, RepairedChain
    <3> QED
      BY <2>2, <2>4, <3>2
  <2> QED
    BY <2>5, <2>6, <2>7, <2>8 DEF Wired, Exists
<1>2. BInv /\ [Next]_vars => [base = "flush" /\ daemon' = "up" /\ base' = "idle" /\ faults' = faults
          /\ "base" \notin touched => Wired' /\ (Wired => chain' = chain)]_vars
  BY <1>1
<1> QED
  BY <1>2, BInvHolds, PTL DEF Spec, RepairWires

\* An operation moves nothing before the dispatchers.
LEMMA OperationsStayBehind ==
    ASSUME BInv, NEW i \in Ids, operations(i)
    PROVE  /\ UNCHANGED set /\ \A c \in Hooks : chain'[c] = chain[c]
           /\ Exists("whalewall") /\ DispatchersAtHead(chain["whalewall"])
                 => chain'["whalewall"] # Absent /\ DispatchersAtHead(chain'["whalewall"])
<1>1. handle \in Nat /\ chain \in [Chains -> MaybeRules]
  BY DEF BInv, TypeOK
<1>2. UNCHANGED set
  BY DEF operations, createContainerRules, createContainerRulesFails, deleteContainerRules, Operation
<1>3. CASE UNCHANGED chain
  BY <1>2, <1>3 DEF Exists
<1>4. CASE chain' # chain
  <2> DEFINE new == Appended(i, 1)
  <2>1. /\ Exists("whalewall")
        /\ \/ chain' = [chain EXCEPT !["whalewall"] = OthersDrops(i) \cup {new}]
           \/ chain' = [chain EXCEPT !["whalewall"] = OthersDrops(i)]
    BY <1>4 DEF operations, createContainerRules, createContainerRulesFails, deleteContainerRules
  <2>2. chain["whalewall"] \in SUBSET Rule /\ new \in Rule /\ new.kind = i /\ new.at = handle + 1
    BY <1>1, <2>1, ChainFacts, ChainIsRules DEF Exists, Appended, Rule
  <2>3. \A r \in chain["whalewall"] : r.at <= handle /\ r.at \in Int
    BY <2>2, ChainFacts DEF BInv, HandlesOk, Known, Rule
  <2> HIDE DEF new
  <2>4. /\ \A c \in Hooks : chain'[c] = chain[c]
        /\ chain'["whalewall"] \in {OthersDrops(i) \cup {new}, OthersDrops(i)}
    BY <1>1, <2>1, ChainFacts
  <2>5. chain'["whalewall"] # Absent
    BY <2>2, <2>4, ChainFacts DEF OthersDrops
  <2>6. ASSUME DispatchersAtHead(chain["whalewall"]) PROVE DispatchersAtHead(chain'["whalewall"])
    <3>1. PICK r \in chain["whalewall"], q \in chain["whalewall"] :
              /\ r.kind = "src" /\ q.kind = "dst" /\ r.at < q.at
              /\ \A o \in chain["whalewall"] \ {r, q} : q.at < o.at /\ o.kind \in Ids
      BY <2>6 DEF DispatchersAtHead
    <3>2. r \in chain'["whalewall"] /\ q \in chain'["whalewall"]
      <4>1. i # "src" /\ i # "dst"
        BY DEF Kinds
      <4> QED
        BY <2>4, <3>1, <4>1 DEF OthersDrops
    <3>3. q.at < new.at /\ new.kind \in Ids
      BY <1>1, <2>2, <2>3
    <3>4. \A o \in chain'["whalewall"] \ {r, q} : q.at < o.at /\ o.kind \in Ids
      BY <2>4, <3>1, <3>3 DEF OthersDrops
    <3> QED
      BY <3>1, <3>2, <3>4 DEF DispatchersAtHead
  <2> QED
    BY <1>2, <2>4, <2>5, <2>6
<1> QED
  BY <1>3, <1>4

\* A repair that no edit overtook leaves no jump to a chain that is not wired.
LEMMA RepairKeepsCoherent ==
    ASSUME BInv, Coherent, createBaseRules, "edited" \notin touched
    PROVE  Coherent'
<1>1. /\ base = "flush" /\ Acceptable
      /\ chain' = [c \in Chains |-> Repaired(c)]
      /\ set' = IF setMissing /\ set = "missing" THEN "ok" ELSE set
  BY DEF createBaseRules
<1>2. \A c \in Chains : chain'[c] = Repaired(c)
  BY <1>1
<1>3. /\ set \in {"missing", "ok"} /\ (setMissing => set = "missing")
      /\ Exists("whalewall") => set \in {"ok", "legacy"}
  BY <1>1 DEF BInv, SetOk
<1>4. /\ \A c \in Chains : seen[c] = Absent => ~Exists(c)
      /\ Exists("whalewall") => chain["whalewall"] = seen["whalewall"]
  BY <1>1 DEF BInv, ReadingOk
<1>5. CASE Repairs("whalewall")
  <2>1. DispatchersAtHead(chain'["whalewall"]) /\ chain'["whalewall"] # Absent
    BY <1>2, <1>4, <1>5, DispatchersGoFirst, ChainFacts
  <2>2. set' = "ok"
    BY <1>1, <1>3, <1>5 DEF Acceptable
  <2> QED
    BY <2>1, <2>2 DEF Coherent, Exists
<1>6. CASE ~Repairs("whalewall") /\ Exists("whalewall")
  <2>1. chain'["whalewall"] = chain["whalewall"]
    BY <1>2, <1>6, RepairedChain, ChainFacts
  <2>2. DispatchersAtHead(chain["whalewall"])
    BY <1>4, <1>6 DEF Repairs
  <2>3. set' = "ok"
    BY <1>1, <1>3, <1>6
  <2> QED
    BY <1>6, <2>1, <2>2, <2>3 DEF Coherent, Exists
<1>7. CASE ~Repairs("whalewall") /\ ~Exists("whalewall")
  <2>1. \A c \in Hooks : ~Repairs(c)
    BY <1>1, <1>7 DEF Acceptable, Repairs
  <2>2. \A c \in Hooks : chain'[c] = chain[c]
    BY <1>2, <2>1, RepairedChain, ChainFacts
  <2> QED
    BY <1>7, <2>2 DEF Coherent, Exists
<1> QED
  BY <1>5, <1>6, <1>7

\* A clear takes the jumps with the chain they lead to, or leaves the chain.
LEMMA ClearKeepsCoherent ==
    ASSUME BInv, Coherent, clearRules
    PROVE  Coherent'
<1>1. ClearAcceptable /\ set' = IF cleared.set THEN "missing" ELSE set
  BY DEF clearRules
<1> SUFFICES ASSUME NEW c \in Hooks, chain'[c] # Absent, Of(chain'[c], "jump") # {}
             PROVE  /\ chain'["whalewall"] # Absent /\ DispatchersAtHead(chain'["whalewall"])
                    /\ set' \in {"ok", "legacy"}
  BY DEF Coherent, Exists
<1>2. Exists(c) /\ chain'[c] = Without(chain[c], SeenJumps(c))
  BY ClearedChain
<1>3. PICK r \in chain[c] : r.kind = "jump" /\ r.at \notin SeenJumps(c)
  BY <1>2 DEF Of, Without
<1>4. Exists("whalewall") /\ DispatchersAtHead(chain["whalewall"]) /\ set \in {"ok", "legacy"}
  <2>1. r \in Of(chain[c], "jump")
    BY <1>3 DEF Of
  <2> QED
    BY <1>2, <2>1 DEF Coherent
<1>5. SeenMain = Absent
  <2> SUFFICES ASSUME SeenMain # Absent PROVE FALSE
    OBVIOUS
  <2>1. Handles(Of(chain[c], "jump")) = SeenJumps(c)
    BY <1>1, <1>2 DEF ClearAcceptable
  <2>2. r.at \in Handles(Of(chain[c], "jump"))
    BY <1>3 DEF Handles, Of
  <2> QED
    BY <1>3, <2>1, <2>2
<1>6. ~cleared.set
  BY <1>1, <1>4, <1>5 DEF ClearAcceptable
<1> QED
  BY <1>1, <1>4, <1>5, <1>6, ClearedChain DEF Exists

\* Where a jump leads to the whalewall chain, both dispatchers and the map are
\* behind it, unless an edit made it otherwise.
THEOREM NothingHalfWired == Spec => NeverHalfWired
<1>1. ASSUME BInv, [Next]_vars, edits' = edits, Coherent,
             ~(base = "flush" /\ base' = "idle" /\ "edited" \in touched)
      PROVE  Coherent'
  <2>1. CASE createBaseRules
    BY <1>1, <2>1, RepairKeepsCoherent DEF createBaseRules
  <2>2. CASE clearRules
    BY <1>1, <2>2, ClearKeepsCoherent
  <2>3. CASE \E i \in Ids : operations(i)
    BY <1>1, <2>3, OperationsStayBehind DEF Coherent, Exists
  <2>4. CASE UNCHANGED <<chain, set>>
    BY <1>1, <2>4 DEF Coherent, Exists
  <2> QED
    BY <1>1, <2>1, <2>2, <2>3, <2>4, WhoChanges
<1>2. BInv /\ [Next]_vars => [edits' = edits /\ ~(base = "flush" /\ base' = "idle" /\ "edited" \in touched)
          /\ Coherent => Coherent']_vars
  BY <1>1
<1> QED
  BY <1>2, BInvHolds, PTL DEF Spec, NeverHalfWired

\* Neither repair nor clear deletes a rule of another tool, even when what they
\* read is stale: a handle is given out once.
THEOREM OthersRulesStay == Spec => ForeignKept
<1>1. ASSUME BInv, [Next]_vars, edits' = edits, NEW c \in Hooks
      PROVE  Foreign(c)' = Foreign(c)
  <2>1. /\ c \in Chains /\ c # "whalewall" /\ chain[c] \in MaybeRules /\ seen[c] \in MaybeRules
        /\ cleared.chain[c] \in MaybeRules
    BY <1>1, ChainFacts DEF BInv, TypeOK
  <2>2. ASSUME NEW r \in chain[c], Exists(c), r.kind = "other"
        PROVE  r \in Known(c) /\ r.kind # "jump"
    BY <2>1, <2>2, ChainFacts, ChainIsRules DEF Known, Exists
  <2>3. CASE createBaseRules
    <3>1. chain'[c] = Repaired(c)
      BY <2>1, <2>3 DEF createBaseRules
    <3>2. CASE Repairs(c)
      <4>1. chain'[c] # Absent /\ chain'[c] = {Inserted("jump", 1)} \cup Left(c)
        BY <1>1, <2>1, <3>1, <3>2, RepairedChain DEF Added
      <4>2. Of(chain'[c], "other") = Of(Left(c), "other")
        BY <4>1 DEF Of, Inserted
      <4>3. CASE ~Exists(c)
        BY <4>1, <4>2, <4>3 DEF Foreign, Exists, Left, Of
      <4>4. CASE Exists(c)
        <5>1. Deletes(c) \subseteq IF seen[c] = Absent THEN {} ELSE Handles(Of(seen[c], "jump"))
          BY <2>1 DEF Deletes, ensureJumpAtHead
        <5>2. ASSUME NEW r \in chain[c], r.kind = "other" PROVE r.at \notin Deletes(c)
          <6>1. CASE seen[c] = Absent
            BY <5>1, <6>1
          <6>2. CASE seen[c] # Absent
            <7>1. seen[c] \subseteq Known(c)
              BY <2>1, <6>2, ChainIsRules DEF Known
            <7>2. r \in Known(c) /\ r.kind # "jump"
              BY <2>2, <4>4, <5>2
            <7>3. r.at \notin Handles(Of(seen[c], "jump"))
              BY <1>1, <2>1, <7>1, <7>2, HandleTellsKind
            <7> QED
              BY <5>1, <6>2, <7>3
          <6> QED
            BY <6>1, <6>2
        <5>3. Of(Left(c), "other") = Of(chain[c], "other")
          BY <4>4, <5>2 DEF Left, Without, Of
        <5> QED
          BY <4>1, <4>2, <4>4, <5>3 DEF Foreign, Exists
      <4> QED
        BY <4>3, <4>4
    <3>3. CASE ~Repairs(c)
      <4>1. chain'[c] = chain[c]
        BY <1>1, <2>1, <3>1, <3>3, RepairedChain
      <4> QED
        BY <4>1 DEF Foreign, Exists
    <3> QED
      BY <3>2, <3>3
  <2>4. CASE clearRules
    <3>1. IF Exists(c) THEN chain'[c] # Absent /\ chain'[c] = Without(chain[c], SeenJumps(c))
                       ELSE chain'[c] = Absent
      BY <1>1, <2>4, ClearedChain
    <3>2. CASE ~Exists(c)
      BY <3>1, <3>2 DEF Foreign, Exists
    <3>3. CASE Exists(c)
      <4>1. ASSUME NEW r \in chain[c], r.kind = "other" PROVE r.at \notin SeenJumps(c)
        <5>1. CASE cleared.chain[c] = Absent
          BY <5>1 DEF SeenJumps
        <5>2. CASE cleared.chain[c] # Absent
          <6>1. cleared.chain[c] \subseteq Known(c)
            BY <2>1, <5>2, ChainIsRules DEF Known
          <6>2. r \in Known(c) /\ r.kind # "jump"
            BY <2>2, <3>3, <4>1
          <6>3. r.at \notin Handles(Of(cleared.chain[c], "jump"))
            BY <1>1, <2>1, <6>1, <6>2, HandleTellsKind
          <6> QED
            BY <5>2, <6>3 DEF SeenJumps
        <5> QED
          BY <5>1, <5>2
      <4>2. Of(chain'[c], "other") = Of(chain[c], "other")
        BY <3>1, <3>3, <4>1 DEF Without, Of
      <4> QED
        BY <3>1, <3>3, <4>2 DEF Foreign, Exists
    <3> QED
      BY <3>2, <3>3
  <2>5. CASE \E i \in Ids : operations(i)
    <3>1. chain'[c] = chain[c]
      BY <1>1, <2>5, OperationsStayBehind
    <3> QED
      BY <3>1 DEF Foreign, Exists
  <2>6. CASE UNCHANGED <<chain, set>>
    BY <2>6 DEF Foreign, Exists
  <2> QED
    BY <1>1, <2>3, <2>4, <2>5, <2>6, WhoChanges
<1>2. BInv /\ [Next]_vars => [edits' = edits => \A c \in Hooks : Foreign(c)' = Foreign(c)]_vars
  BY <1>1
<1> QED
  BY <1>2, BInvHolds, PTL DEF Spec, ForeignKept
=============================================================================
