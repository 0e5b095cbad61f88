------------------------------ MODULE Tracker ------------------------------
(***************************************************************************)
(* container.Tracker and the frame of the operations that use it: how      *)
(* creates and deletes of one container exclude each other, how a delete   *)
(* cancels a create, and what a create undoes when it fails or when        *)
(* whalewall is shut down.                                                 *)
(*                                                                         *)
(* A thread is a goroutine that calls createContainerRules or              *)
(* deleteContainerRules.  It has one processingContainer at a time, so the *)
(* thread names it.  The body of an operation is reduced to what it does   *)
(* to the container's dropping chain and to its permissive rules.          *)
(***************************************************************************)

CONSTANTS
    Threads,     \* goroutines
    Ids,         \* container IDs
    None,        \* nobody
    Calls,       \* the operations each thread is called for
    Reconciler,  \* threads that do not quarantine first
    FirstAllows  \* IDs whose policy is installed at first

ASSUME TrackerAssumption ==
    /\ None \notin Threads
    /\ Calls \in [Threads -> SUBSET (Ids \X {"create", "delete"})]
    /\ FirstAllows \subseteq Ids

VARIABLES
    step,        \* where each thread is
    id, kind,    \* the operation it was called for
    mtx,         \* holder of Tracker.mtx
    containers,  \* Tracker.containers: the thread whose operation is registered
    waitsFor,    \* the thread whose done channel a thread receives from
    noCleanup,   \* threads whose map entry was taken over
    done,        \* threads whose done channel is closed
    failed,      \* threads whose delete has failed
    cause,       \* cause of a thread's context: "none", "deleted" or "canceled"
    policyMu,    \* holder of RuleManager.policyMu
    floor,       \* IDs with a chain that drops
    allows,      \* IDs whose permissive rules are in force
    ctxDone,     \* a signal has canceled the root context
    stopping     \* Stop has closed the channel

callVars == <<id, kind>>
mapVars  == <<containers, waitsFor, noCleanup, done>>
ruleVars == <<floor, allows>>
lifeVars == <<ctxDone, stopping>>
vars == <<step, callVars, mtx, mapVars, failed, cause, policyMu, ruleVars, lifeVars>>

\* The steps of an operation that is registered and not yet finished.
Body == {"policyMu", "floor", "apply", "rollback", "delete", "unlock", "close"}
Steps == {"idle", "lock", "wait", "enter", "relock"} \cup Body
MaybeThread == Threads \cup {None}

TypeOK ==
    /\ step \in [Threads -> Steps]
    /\ id \in [Threads -> Ids]
    /\ kind \in [Threads -> {"create", "delete"}]
    /\ mtx \in MaybeThread
    /\ containers \in [Ids -> MaybeThread]
    /\ waitsFor \in [Threads -> MaybeThread]
    /\ noCleanup \subseteq Threads /\ done \subseteq Threads /\ failed \subseteq Threads
    /\ cause \in [Threads -> {"none", "deleted", "canceled"}]
    /\ policyMu \in MaybeThread
    /\ floor \subseteq Ids /\ allows \subseteq Ids
    /\ ctxDone \in BOOLEAN /\ stopping \in BOOLEAN

Go(t, from, to) == step[t] = from /\ step' = [step EXCEPT ![t] = to]

-----------------------------------------------------------------------------
(* addContainer *)

\* A reconciliation starts no operation once its Docker calls are canceled; a
\* lane's handler may have inspected its container before.
Call(t, c, k) ==
    /\ <<c, k>> \in Calls[t]
    /\ t \in Reconciler => ~ctxDone
    /\ Go(t, "idle", "lock")
    /\ id' = [id EXCEPT ![t] = c]
    /\ kind' = [kind EXCEPT ![t] = k]
    /\ UNCHANGED <<mtx, mapVars, failed, cause, policyMu, ruleVars, lifeVars>>

\* A context that is already canceled keeps its first cause.
Cancel(t, why) == [cause EXCEPT ![t] = IF @ = "none" THEN why ELSE @]

Supersedes(t, other) == kind[other] = "create" /\ kind[t] = "delete"

\* Mutant: a delete replaces a create without waiting for it.
addContainer_NoWait(t) ==
    LET other == containers[id[t]] IN
    /\ mtx = None /\ mtx' = t
    /\ IF other = None \/ Supersedes(t, other)
       THEN Go(t, "lock", "enter") /\ UNCHANGED <<mapVars, cause>>
       ELSE /\ Go(t, "lock", "wait")
            /\ noCleanup' = noCleanup \cup {other}
            /\ waitsFor' = [waitsFor EXCEPT ![t] = other]
            /\ UNCHANGED <<cause, containers, done>>
    /\ UNCHANGED <<callVars, failed, policyMu, ruleVars, lifeVars>>

\* Lock the mutex and look the ID up.  The mutex is kept while waiting for the
\* operation in progress to finish.
addContainer(t) ==
    LET other == containers[id[t]] IN
    /\ mtx = None /\ mtx' = t
    /\ IF other = None
       THEN Go(t, "lock", "enter") /\ UNCHANGED <<mapVars, cause>>
       ELSE /\ Go(t, "lock", "wait")
            /\ noCleanup' = noCleanup \cup {other}
            /\ waitsFor' = [waitsFor EXCEPT ![t] = other]
            /\ cause' = IF Supersedes(t, other) THEN Cancel(other, "deleted") ELSE cause
            /\ containers' = IF Supersedes(t, other)
                             THEN [containers EXCEPT ![id[t]] = None] ELSE containers
            /\ UNCHANGED done
    /\ UNCHANGED <<callVars, failed, policyMu, ruleVars, lifeVars>>

\* Mutant: the done channel is not received from.
waitDone_Skipped(t) ==
    /\ Go(t, "wait", "enter")
    /\ waitsFor' = [waitsFor EXCEPT ![t] = None]
    /\ UNCHANGED <<callVars, mtx, containers, noCleanup, done, failed, cause, policyMu, ruleVars, lifeVars>>

waitDone(t) ==
    /\ Go(t, "wait", "enter")
    /\ waitsFor[t] \in done
    /\ waitsFor' = [waitsFor EXCEPT ![t] = None]
    /\ UNCHANGED <<callVars, mtx, containers, noCleanup, done, failed, cause, policyMu, ruleVars, lifeVars>>

\* Register the new operation and unlock.
newContainer(t) ==
    /\ Go(t, "enter", "policyMu")
    /\ containers' = [containers EXCEPT ![id[t]] = t]
    /\ cause' = [cause EXCEPT ![t] = IF ctxDone THEN "canceled" ELSE "none"]
    /\ mtx' = None
    /\ UNCHANGED <<callVars, waitsFor, noCleanup, done, failed, policyMu, ruleVars, lifeVars>>

\* The function addContainer returns: finish, then lock and remove the entry
\* unless another operation has taken it over.
closeDone(t) ==
    /\ Go(t, "close", "relock")
    /\ cause' = Cancel(t, "canceled")
    /\ done' = done \cup {t}
    /\ UNCHANGED <<callVars, mtx, containers, waitsFor, noCleanup, failed, policyMu, ruleVars, lifeVars>>

\* Nothing refers to the processingContainer, its context and the call any more.
Forget(t) ==
    /\ noCleanup' = noCleanup \ {t} /\ done' = done \ {t} /\ failed' = failed \ {t}
    /\ cause' = [cause EXCEPT ![t] = "none"]
    /\ kind' = [kind EXCEPT ![t] = "create"]
    /\ UNCHANGED <<id, mtx, waitsFor, policyMu, ruleVars, lifeVars>>

\* Mutant: the entry is removed whoever it belongs to by now.
cleanup_Always(t) ==
    /\ Go(t, "relock", "idle")
    /\ mtx = None
    /\ containers' = [containers EXCEPT ![id[t]] = None]
    /\ Forget(t)

cleanup(t) ==
    /\ Go(t, "relock", "idle")
    /\ mtx = None
    /\ containers' = IF t \in noCleanup THEN containers ELSE [containers EXCEPT ![id[t]] = None]
    /\ Forget(t)

-----------------------------------------------------------------------------
(* createContainerRules and deleteContainerRules *)

BodyOnly == UNCHANGED <<callVars, mtx, mapVars, cause, lifeVars>>

lockPolicyMu(t) ==
    /\ policyMu = None /\ policyMu' = t
    /\ Go(t, "policyMu", IF kind[t] = "create" THEN "floor" ELSE "delete")
    /\ BodyOnly /\ UNCHANGED <<failed, ruleVars>>

\* nftables calls take no context: the floor is installed even when canceled.
\* With quarantineFirst the rules in force stop at once.
ensureContainerDropPolicy(t) ==
    /\ Go(t, "floor", "apply")
    /\ floor' = floor \cup {id[t]}
    /\ allows' = IF t \in Reconciler THEN allows ELSE allows \ {id[t]}
    /\ BodyOnly /\ UNCHANGED <<failed, policyMu>>

\* The policy is replaced; every database and Docker call on the way there
\* fails once the context is canceled.
replaceContainerPolicy(t) ==
    /\ Go(t, "apply", "unlock")
    /\ cause[t] = "none"
    /\ allows' = allows \cup {id[t]}
    /\ BodyOnly /\ UNCHANGED <<failed, policyMu, floor>>

\* Mutant: a failed create is tried again in place.
createFails_Retries(t) ==
    /\ Go(t, "apply", "floor")
    /\ BodyOnly /\ UNCHANGED <<failed, policyMu, ruleVars>>

createFails(t) ==
    /\ Go(t, "apply", "rollback")
    /\ BodyOnly /\ UNCHANGED <<failed, policyMu, ruleVars>>

\* The deferred function of createContainerRules; its own calls may fail.
rollback(t) ==
    /\ Go(t, "rollback", "unlock")
    /\ \/ UNCHANGED ruleVars
       \/ /\ ~stopping
          /\ floor' = IF cause[t] = "deleted" THEN floor \ {id[t]} ELSE floor
          /\ allows' = allows \ {id[t]}
    /\ BodyOnly /\ UNCHANGED <<failed, policyMu>>

\* The flush or, after it, the database transaction may fail.
deleteContainerRulesUntracked(t) ==
    /\ Go(t, "delete", "unlock")
    /\ failed' \in {failed, failed \cup {t}}
    /\ \/ floor' = floor \ {id[t]} /\ allows' = allows \ {id[t]}
       \/ UNCHANGED ruleVars /\ t \in failed'
    /\ BodyOnly /\ UNCHANGED policyMu

unlockPolicyMu(t) ==
    /\ Go(t, "unlock", "close")
    /\ policyMu' = None
    /\ BodyOnly /\ UNCHANGED <<failed, ruleVars>>

-----------------------------------------------------------------------------
(* Shutdown: the signal cancels the root context and with it every context
   derived from it; then mainRetCode calls Stop. *)

signal ==
    /\ ~ctxDone /\ ctxDone' = TRUE
    /\ cause' = [t \in Threads |-> IF step[t] \in Body /\ cause[t] = "none"
                                   THEN "canceled" ELSE cause[t]]
    /\ UNCHANGED <<step, callVars, mtx, mapVars, failed, policyMu, ruleVars, stopping>>

Stop ==
    /\ ctxDone /\ ~stopping /\ stopping' = TRUE
    /\ UNCHANGED <<step, callVars, mtx, mapVars, failed, cause, policyMu, ruleVars, ctxDone>>

Init ==
    /\ step = [t \in Threads |-> "idle"]
    /\ id \in [Threads -> Ids]
    /\ kind = [t \in Threads |-> "create"]
    /\ mtx = None
    /\ containers = [c \in Ids |-> None]
    /\ waitsFor = [t \in Threads |-> None]
    /\ noCleanup = {} /\ done = {} /\ failed = {}
    /\ cause = [t \in Threads |-> "none"]
    /\ policyMu = None
    /\ floor = FirstAllows /\ allows = FirstAllows
    /\ ctxDone = FALSE /\ stopping = FALSE

Locking(t) == addContainer(t) \/ waitDone(t) \/ newContainer(t) \/ closeDone(t) \/ cleanup(t)

Working(t) ==
    \/ lockPolicyMu(t) \/ ensureContainerDropPolicy(t) \/ replaceContainerPolicy(t)
    \/ createFails(t) \/ rollback(t) \/ deleteContainerRulesUntracked(t) \/ unlockPolicyMu(t)

Next ==
    \/ \E t \in Threads : \/ \E c \in Ids, k \in {"create", "delete"} : Call(t, c, k)
                          \/ Locking(t) \/ Working(t)
    \/ signal \/ Stop

Spec == Init /\ [][Next]_vars

\* Goroutines are scheduled, and sync.Mutex hands itself to a waiter that starves.
FairSpec == Spec /\ \A t \in Threads : SF_vars(Locking(t) \/ Working(t))

-----------------------------------------------------------------------------
(* Properties *)

\* Two operations on one container never overlap, whatever is called when and
\* whoever cancels or replaces whose map entry.
Exclusion ==
    \A t, o \in Threads : t # o /\ step[t] \in Body /\ step[o] \in Body => id[t] # id[o]

\* An operation in progress is found by the next caller for its ID, unless that
\* caller is already waiting for it.
Registered ==
    \A t \in Threads : step[t] \in Body =>
        \/ containers[id[t]] = t
        \/ \E o \in Threads : step[o] = "wait" /\ waitsFor[o] = t

\* Deletes are final: when a delete reports success, what a create it superseded
\* may have installed is gone.
DeleteIsFinal ==
    [][\A t \in Threads : kind[t] = "delete" /\ step[t] = "close" /\ step'[t] = "relock"
            => t \in failed \/ id[t] \notin floor \cup allows]_vars

\* Every call returns: nobody waits for a done channel whose owner needs the
\* mutex, or policyMu, that the waiter holds.
CallsReturn == \A t \in Threads : step[t] = "lock" ~> step[t] = "idle"

\* container.go: "manager shutdown, where installed firewall state must be
\* preserved".  Once whalewall is told to stop, only a delete takes a container's
\* permissive rules away.
ShutdownPreserves ==
    [][ctxDone => \A c \in allows \ allows' :
            \E t \in Threads : id[t] = c /\ step[t] = "delete"]_vars
=============================================================================
