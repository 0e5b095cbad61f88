--------------------------- MODULE TrackerProofs ---------------------------
(***************************************************************************)
(* Proofs about Tracker, for any number of goroutines and containers.      *)
(***************************************************************************)
EXTENDS Tracker, TLAPS

-----------------------------------------------------------------------------
(* The inductive invariant *)

\* Threads whose processingContainer is, or may still be, referred to.
Present(t) == step[t] \in Body \cup {"relock"}

\* The mutex is held exactly while a thread waits or registers.
MtxOk == \A t \in Threads : step[t] \in {"wait", "enter"} <=> mtx = t

\* The map only refers to present threads, by their own ID.
MapOk == \A c \in Ids : containers[c] # None => Present(containers[c]) /\ id[containers[c]] = c

\* A thread nobody has taken over from is found in the map ...
OwnEntry == \A t \in Threads : Present(t) /\ t \notin noCleanup => containers[id[t]] = t

\* ... and one that somebody has is not, once the mutex is free again.
LostEntry ==
    \A t \in Threads : Present(t) /\ t \in noCleanup =>
        \/ containers[id[t]] # t
        \/ \E w \in Threads : step[w] \in {"wait", "enter"} /\ id[w] = id[t]

\* A thread taken over from in mid-operation is being waited for.
Awaited ==
    \A t \in Threads : step[t] \in Body /\ t \in noCleanup =>
        \E w \in Threads : step[w] = "wait" /\ waitsFor[w] = t /\ id[w] = id[t]

\* Whoever holds the mutex has taken over from every other thread of its ID, and
\* all of them but the one it waits for have finished.
HolderOk ==
    \A w \in Threads : step[w] \in {"wait", "enter"} =>
        \A t \in Threads : t # w /\ id[t] = id[w] /\ Present(t) =>
            /\ t \in noCleanup
            /\ step[t] \in Body => step[w] = "wait" /\ waitsFor[w] = t

\* done is closed only at the end, and only a present thread is taken over from.
DoneOk ==
    \A t \in Threads : /\ t \in done => step[t] = "relock"
                       /\ t \in noCleanup => Present(t)

\* A delete that has done its work is not undone before it returns.
Deleted ==
    \A t \in Threads : kind[t] = "delete" /\ step[t] \in {"unlock", "close"} =>
        t \in failed \/ id[t] \notin floor \cup allows

\* Which operation takes which steps.
KindOk ==
    \A t \in Threads : /\ step[t] \in {"floor", "apply", "rollback"} => kind[t] = "create"
                       /\ step[t] = "delete" => kind[t] = "delete"

MapInv == MtxOk /\ MapOk /\ OwnEntry /\ LostEntry /\ Awaited /\ HolderOk /\ DoneOk
TInv == TypeOK /\ MapInv /\ KindOk /\ Deleted

USE TrackerAssumption

-----------------------------------------------------------------------------
(* Exclusion follows from the invariant *)

\* Two threads in their bodies: the map names both, or one of them is awaited.
LEMMA ExclusionFromInv == TInv => Exclusion
<1> SUFFICES ASSUME TInv, NEW t \in Threads, NEW o \in Threads, t # o,
                    step[t] \in Body, step[o] \in Body, id[t] = id[o]
             PROVE  FALSE
  BY DEF Exclusion
<1>1. ASSUME NEW a \in Threads, NEW b \in Threads, a # b, step[a] \in Body, step[b] \in Body,
             id[a] = id[b], a \in noCleanup
      PROVE  FALSE
  <2>1. PICK w \in Threads : step[w] = "wait" /\ waitsFor[w] = a /\ id[w] = id[a]
    BY <1>1 DEF TInv, MapInv, Awaited
  <2>2. w # b
    BY <1>1, <2>1 DEF Body
  <2> QED
    BY <1>1, <2>1, <2>2 DEF TInv, MapInv, HolderOk, Present
<1>2. t \notin noCleanup /\ o \notin noCleanup
  BY <1>1
<1> QED
  BY <1>2 DEF TInv, MapInv, OwnEntry, Present

-----------------------------------------------------------------------------
(* The steps of the tracker *)

\* A thread is called.
LEMMA CallKeeps ==
    ASSUME TInv, NEW t \in Threads, NEW c \in Ids, NEW k \in {"create", "delete"}, Call(t, c, k)
    PROVE  TInv'
<1> USE DEF Body, Steps, MaybeThread
<1>1. /\ step[t] = "idle" /\ step' = [step EXCEPT ![t] = "lock"]
      /\ id' = [id EXCEPT ![t] = c] /\ kind' = [kind EXCEPT ![t] = k]
      /\ UNCHANGED <<mtx, containers, waitsFor, noCleanup, done, failed, cause, policyMu,
                     floor, allows, ctxDone, stopping>>
  BY DEF Call, Go, mapVars, ruleVars, lifeVars
<1>2. TypeOK
  BY DEF TInv
<1>3. TypeOK'
  BY <1>1, <1>2 DEF TypeOK
<1>4. /\ \A x \in Threads : x # t => step'[x] = step[x] /\ id'[x] = id[x] /\ kind'[x] = kind[x]
      /\ step'[t] = "lock"
  BY <1>1, <1>2 DEF TypeOK
<1>5. MtxOk' /\ OwnEntry' /\ DoneOk'
  BY <1>1, <1>4 DEF TInv, MapInv, MtxOk, OwnEntry, DoneOk, Present
<1>6. MapOk'
  BY <1>1, <1>2, <1>4 DEF TInv, MapInv, MapOk, Present, TypeOK
<1>7. LostEntry' /\ Awaited'
  BY <1>1, <1>4 DEF TInv, MapInv, LostEntry, Awaited, Present
<1>8. HolderOk'
  BY <1>1, <1>4 DEF TInv, MapInv, HolderOk, Present
<1>9. KindOk' /\ Deleted'
  BY <1>1, <1>4 DEF TInv, KindOk, Deleted
<1> QED
  BY <1>3, <1>5, <1>6, <1>7, <1>8, <1>9 DEF TInv, MapInv

\* A thread locks the mutex and finds its ID free, or takes over.
LEMMA AddKeeps ==
    ASSUME TInv, NEW t \in Threads, addContainer(t)
    PROVE  TInv'
<1> USE DEF Body, Steps, MaybeThread
<1> DEFINE other == containers[id[t]]
<1>0. step[t] = "lock" /\ done' = done
  BY DEF addContainer, Go, mapVars
<1>1. /\ step[t] = "lock" /\ mtx = None /\ mtx' = t /\ done' = done
      /\ UNCHANGED <<id, kind, failed, policyMu, floor, allows, ctxDone, stopping>>
  BY <1>0 DEF addContainer, callVars, ruleVars, lifeVars
<1>2. TypeOK /\ id[t] \in Ids /\ other \in MaybeThread
  BY DEF TInv, TypeOK
<1>3. \A x \in Threads : step[x] \notin {"wait", "enter"}
  BY <1>1 DEF TInv, MapInv, MtxOk
<1>4. \A x \in Threads : x # t /\ id[x] = id[t] /\ Present(x) =>
          (x \in noCleanup \/ x = other) /\ (step[x] \in Body => x = other)
  BY <1>3 DEF TInv, MapInv, OwnEntry, Awaited, Present
<1>5. CASE other = None
  <2>1. step' = [step EXCEPT ![t] = "enter"] /\ UNCHANGED <<containers, waitsFor, noCleanup, cause>>
    BY <1>5 DEF addContainer, Go, mapVars
  <2>2. TypeOK'
    BY <1>1, <1>2, <2>1 DEF TypeOK
  <2>3. (\A x \in Threads : x # t => step'[x] = step[x]) /\ step'[t] = "enter"
    BY <1>2, <2>1 DEF TypeOK
  <2>4. MtxOk' /\ OwnEntry' /\ DoneOk'
    BY <1>1, <1>3, <2>1, <2>3 DEF TInv, MapInv, MtxOk, OwnEntry, DoneOk, Present
  <2>5. MapOk'
    BY <1>1, <1>2, <2>1, <2>3 DEF TInv, MapInv, MapOk, Present, TypeOK
  <2>6. LostEntry' /\ Awaited'
    BY <1>1, <1>3, <2>1, <2>3 DEF TInv, MapInv, LostEntry, Awaited, Present
  <2>7. HolderOk'
    BY <1>1, <1>2, <1>3, <1>4, <1>5, <2>1, <2>3 DEF HolderOk, Present
  <2>8. KindOk' /\ Deleted'
    BY <1>1, <2>3 DEF TInv, KindOk, Deleted
  <2> QED
    BY <2>2, <2>4, <2>5, <2>6, <2>7, <2>8 DEF TInv, MapInv
<1>6. CASE other # None
  <2>1. /\ step' = [step EXCEPT ![t] = "wait"]
        /\ noCleanup' = noCleanup \cup {other}
        /\ waitsFor' = [waitsFor EXCEPT ![t] = other]
        /\ cause' = cause \/ cause' = Cancel(other, "deleted")
        /\ containers' = containers \/ containers' = [containers EXCEPT ![id[t]] = None]
    BY <1>6 DEF addContainer, Go
  <2>2. other \in Threads /\ Present(other) /\ id[other] = id[t] /\ other # t
    BY <1>1, <1>2, <1>6 DEF TInv, MapInv, MapOk, Present
  <2>3. TypeOK'
    <3>1. cause' \in [Threads -> {"none", "deleted", "canceled"}]
      BY <1>2, <2>1, <2>2 DEF TypeOK, Cancel
    <3> QED
      BY <1>1, <1>2, <2>1, <2>2, <3>1 DEF TypeOK
  <2>4. /\ \A x \in Threads : x # t => step'[x] = step[x] /\ waitsFor'[x] = waitsFor[x]
        /\ step'[t] = "wait" /\ waitsFor'[t] = other
        /\ \A c \in Ids : containers'[c] = containers[c] \/ (c = id[t] /\ containers'[c] = None)
    BY <1>2, <2>1 DEF TypeOK
  <2>5. MtxOk' /\ DoneOk'
    BY <1>1, <1>3, <2>1, <2>2, <2>4 DEF TInv, MapInv, MtxOk, DoneOk, Present
  <2>6. OwnEntry'
    <3> SUFFICES ASSUME NEW x \in Threads, Present(x)', x \notin noCleanup'
                 PROVE  containers'[id[x]] = x
      BY <1>1 DEF OwnEntry
    <3>1. x # t /\ x # other /\ Present(x) /\ x \notin noCleanup
      BY <2>1, <2>4 DEF Present
    <3>2. containers[id[x]] = x
      BY <3>1 DEF TInv, MapInv, OwnEntry
    <3>3. id[x] # id[t]
      BY <3>1, <3>2
    <3> QED
      BY <1>2, <2>4, <3>2, <3>3 DEF TypeOK
  <2>7. MapOk'
    BY <1>1, <1>2, <2>4 DEF TInv, MapInv, MapOk, Present, TypeOK
  <2>8. LostEntry'
    <3> SUFFICES ASSUME NEW x \in Threads, Present(x)', x \in noCleanup', containers'[id[x]] = x
                 PROVE  step'[t] = "wait" /\ id[t] = id[x]
      BY <1>1 DEF LostEntry
    <3>1. x # t /\ Present(x) /\ containers[id[x]] = x
      BY <1>2, <2>4 DEF Present, TypeOK
    <3>2. x \notin noCleanup
      BY <1>3, <3>1 DEF TInv, MapInv, LostEntry
    <3> QED
      BY <2>1, <2>2, <2>4, <3>2
  <2>9. Awaited'
    BY <1>1, <1>3, <2>1, <2>2, <2>4 DEF TInv, MapInv, Awaited
  <2>10. HolderOk'
    BY <1>1, <1>3, <1>4, <2>1, <2>4 DEF HolderOk, Present
  <2>11. KindOk' /\ Deleted'
    BY <1>1, <2>4 DEF TInv, KindOk, Deleted
  <2> QED
    BY <2>3, <2>5, <2>6, <2>7, <2>8, <2>9, <2>10, <2>11 DEF TInv, MapInv
<1> QED
  BY <1>5, <1>6

\* The operation waited for has finished.
LEMMA WaitKeeps ==
    ASSUME TInv, NEW t \in Threads, waitDone(t)
    PROVE  TInv'
<1> USE DEF Body, Steps, MaybeThread
<1>1. /\ step[t] = "wait" /\ waitsFor[t] \in done
      /\ step' = [step EXCEPT ![t] = "enter"] /\ waitsFor' = [waitsFor EXCEPT ![t] = None]
      /\ UNCHANGED <<id, kind, mtx, containers, noCleanup, done, failed, cause, policyMu,
                     floor, allows, ctxDone, stopping>>
  BY DEF waitDone, Go, callVars, ruleVars, lifeVars
<1>2. TypeOK
  BY DEF TInv
<1>3. TypeOK'
  BY <1>1, <1>2 DEF TypeOK
<1>4. /\ \A x \in Threads : x # t => step'[x] = step[x] /\ waitsFor'[x] = waitsFor[x]
      /\ step'[t] = "enter"
  BY <1>1, <1>2 DEF TypeOK
<1>5. MtxOk' /\ OwnEntry' /\ DoneOk'
  BY <1>1, <1>4 DEF TInv, MapInv, MtxOk, OwnEntry, DoneOk, Present
<1>6. MapOk'
  BY <1>1, <1>2, <1>4 DEF TInv, MapInv, MapOk, Present, TypeOK
<1>7. LostEntry'
  BY <1>1, <1>4 DEF TInv, MapInv, LostEntry, Present
<1>8. Awaited'
  BY <1>1, <1>4 DEF TInv, MapInv, Awaited, DoneOk, Present
<1>9. HolderOk'
  BY <1>1, <1>4 DEF TInv, MapInv, HolderOk, DoneOk, MtxOk, Present
<1>10. KindOk' /\ Deleted'
  BY <1>1, <1>4 DEF TInv, KindOk, Deleted
<1> QED
  BY <1>3, <1>5, <1>6, <1>7, <1>8, <1>9, <1>10 DEF TInv, MapInv

\* The new operation is registered and the mutex unlocked.
LEMMA NewKeeps ==
    ASSUME TInv, NEW t \in Threads, newContainer(t)
    PROVE  TInv'
<1> USE DEF Body, Steps, MaybeThread
<1>1. /\ step[t] = "enter" /\ step' = [step EXCEPT ![t] = "policyMu"]
      /\ containers' = [containers EXCEPT ![id[t]] = t]
      /\ mtx' = None
      /\ UNCHANGED <<id, kind, waitsFor, noCleanup, done, failed, policyMu, floor, allows,
                     ctxDone, stopping>>
  BY DEF newContainer, Go, callVars, ruleVars, lifeVars
<1>2. TypeOK /\ id[t] \in Ids
  BY DEF TInv, TypeOK
<1>3. TypeOK'
  <2>1. cause' \in [Threads -> {"none", "deleted", "canceled"}]
    BY <1>2 DEF newContainer, TypeOK
  <2> QED
    BY <1>1, <1>2, <2>1 DEF TypeOK
<1>4. /\ (\A x \in Threads : x # t => step'[x] = step[x]) /\ step'[t] = "policyMu"
      /\ (\A c \in Ids : c # id[t] => containers'[c] = containers[c]) /\ containers'[id[t]] = t
  BY <1>1, <1>2 DEF TypeOK
<1>5. \A x \in Threads : x # t => step[x] \notin {"wait", "enter"}
  BY <1>1 DEF TInv, MapInv, MtxOk
<1>6. \A x \in Threads : x # t /\ id[x] = id[t] /\ Present(x) => x \in noCleanup /\ step[x] \notin Body
  BY <1>1 DEF TInv, MapInv, HolderOk
<1>7. MtxOk' /\ DoneOk'
  BY <1>1, <1>4, <1>5 DEF TInv, MapInv, MtxOk, DoneOk, Present
<1>8. OwnEntry'
  BY <1>1, <1>2, <1>4, <1>6 DEF TInv, MapInv, OwnEntry, Present, TypeOK
<1>9. MapOk'
  BY <1>1, <1>2, <1>4 DEF TInv, MapInv, MapOk, Present, TypeOK
<1>0. t \notin noCleanup
  BY <1>1 DEF TInv, MapInv, DoneOk, Present
<1>10. LostEntry'
  BY <1>0, <1>1, <1>2, <1>4, <1>5 DEF TInv, MapInv, LostEntry, Present, TypeOK
<1>11. Awaited'
  BY <1>0, <1>1, <1>4, <1>5 DEF TInv, MapInv, Awaited
<1>12. HolderOk'
  BY <1>4, <1>5 DEF HolderOk
<1>13. KindOk' /\ Deleted'
  BY <1>1, <1>4 DEF TInv, KindOk, Deleted
<1> QED
  BY <1>3, <1>7, <1>8, <1>9, <1>10, <1>11, <1>12, <1>13 DEF TInv, MapInv

\* The done channel is closed.
LEMMA CloseKeeps ==
    ASSUME TInv, NEW t \in Threads, closeDone(t)
    PROVE  TInv'
<1> USE DEF Body, Steps, MaybeThread
<1>1. /\ step[t] = "close" /\ step' = [step EXCEPT ![t] = "relock"]
      /\ done' = done \cup {t}
      /\ UNCHANGED <<id, kind, mtx, containers, waitsFor, noCleanup, failed, policyMu,
                     floor, allows, ctxDone, stopping>>
  BY DEF closeDone, Go, callVars, ruleVars, lifeVars
<1>2. TypeOK
  BY DEF TInv
<1>3. TypeOK'
  <2>1. cause' \in [Threads -> {"none", "deleted", "canceled"}]
    BY <1>2 DEF closeDone, Cancel, TypeOK
  <2> QED
    BY <1>1, <1>2, <2>1 DEF TypeOK
<1>4. (\A x \in Threads : x # t => step'[x] = step[x]) /\ step'[t] = "relock"
  BY <1>1, <1>2 DEF TypeOK
<1>5. MtxOk' /\ OwnEntry' /\ DoneOk'
  BY <1>1, <1>4 DEF TInv, MapInv, MtxOk, OwnEntry, DoneOk, Present
<1>6. MapOk'
  BY <1>1, <1>2, <1>4 DEF TInv, MapInv, MapOk, Present, TypeOK
<1>7. LostEntry'
  BY <1>1, <1>4 DEF TInv, MapInv, LostEntry, Present
<1>8. Awaited'
  BY <1>1, <1>4 DEF TInv, MapInv, Awaited
<1>9. HolderOk'
  BY <1>1, <1>4 DEF TInv, MapInv, HolderOk, Present
<1>10. KindOk' /\ Deleted'
  BY <1>1, <1>4 DEF TInv, KindOk, Deleted
<1> QED
  BY <1>3, <1>5, <1>6, <1>7, <1>8, <1>9, <1>10 DEF TInv, MapInv

\* The map entry is removed, unless it is another operation's by now.
LEMMA CleanupKeeps ==
    ASSUME TInv, NEW t \in Threads, cleanup(t)
    PROVE  TInv'
<1> USE DEF Body, Steps, MaybeThread
<1>1. /\ step[t] = "relock" /\ step' = [step EXCEPT ![t] = "idle"] /\ mtx = None
      /\ containers' = IF t \in noCleanup THEN containers ELSE [containers EXCEPT ![id[t]] = None]
      /\ noCleanup' = noCleanup \ {t} /\ done' = done \ {t} /\ failed' = failed \ {t}
      /\ kind' = [kind EXCEPT ![t] = "create"] /\ cause' = [cause EXCEPT ![t] = "none"]
      /\ UNCHANGED <<id, mtx, waitsFor, policyMu, floor, allows, ctxDone, stopping>>
  BY DEF cleanup, Forget, Go, ruleVars, lifeVars
<1>2. TypeOK /\ id[t] \in Ids
  BY DEF TInv, TypeOK
<1>3. TypeOK'
  BY <1>1, <1>2 DEF TypeOK
<1>4. (\A x \in Threads : x # t => step'[x] = step[x]) /\ step'[t] = "idle"
  BY <1>1, <1>2 DEF TypeOK
<1>5. \A x \in Threads : step[x] \notin {"wait", "enter"}
  BY <1>1 DEF TInv, MapInv, MtxOk
<1>6. \A c \in Ids : IF containers[c] = t THEN containers'[c] = None ELSE containers'[c] = containers[c]
  <2>1. CASE t \in noCleanup
    <3>1. containers[id[t]] # t
      BY <1>1, <1>5, <2>1 DEF TInv, MapInv, LostEntry, Present
    <3>2. \A c \in Ids : containers[c] # t
      BY <3>1 DEF TInv, MapInv, MapOk
    <3> QED
      BY <1>1, <2>1, <3>2
  <2>2. CASE t \notin noCleanup
    <3>1. containers[id[t]] = t
      BY <1>1, <2>2 DEF TInv, MapInv, OwnEntry, Present
    <3>2. \A c \in Ids : containers[c] = t => c = id[t]
      BY DEF TInv, MapInv, MapOk
    <3> QED
      BY <1>1, <1>2, <2>2, <3>1, <3>2 DEF TypeOK
  <2> QED
    BY <2>1, <2>2
<1>7. MtxOk' /\ DoneOk'
  BY <1>1, <1>4 DEF TInv, MapInv, MtxOk, DoneOk, Present
<1>8. OwnEntry'
  BY <1>1, <1>2, <1>4, <1>6 DEF TInv, MapInv, OwnEntry, Present, TypeOK
<1>9. MapOk'
  BY <1>1, <1>2, <1>4, <1>6 DEF TInv, MapInv, MapOk, Present, TypeOK
<1>10. LostEntry'
  BY <1>1, <1>2, <1>4, <1>5, <1>6 DEF TInv, MapInv, LostEntry, Present, TypeOK
<1>11. Awaited'
  BY <1>1, <1>4 DEF TInv, MapInv, Awaited
<1>12. HolderOk'
  BY <1>4, <1>5 DEF HolderOk
<1>13. KindOk' /\ Deleted'
  BY <1>1, <1>4 DEF TInv, KindOk, Deleted
<1> QED
  BY <1>3, <1>7, <1>8, <1>9, <1>10, <1>11, <1>12, <1>13 DEF TInv, MapInv

-----------------------------------------------------------------------------
(* The steps of an operation's body *)

\* A step within the body leaves the tracker alone.
LEMMA BodyKeepsMap ==
    ASSUME TInv, NEW t \in Threads, NEW from \in Body, NEW to \in Body, Go(t, from, to),
           UNCHANGED <<callVars, mtx, mapVars>>
    PROVE  MapInv' /\ step' \in [Threads -> Steps]
<1> USE DEF Steps
<1>1. /\ step[t] = from /\ step' = [step EXCEPT ![t] = to]
      /\ UNCHANGED <<id, kind, mtx, containers, waitsFor, noCleanup, done>>
  BY DEF Go, callVars, mapVars
<1>2. TypeOK
  BY DEF TInv
<1>3. /\ \A x \in Threads : x # t => step'[x] = step[x]
      /\ step'[t] \in Body /\ step[t] \in Body
      /\ Body \cap {"wait", "enter", "relock"} = {}
  BY <1>1, <1>2 DEF TypeOK, Body
<1>4. MtxOk' /\ OwnEntry' /\ DoneOk'
  BY <1>1, <1>3 DEF TInv, MapInv, MtxOk, OwnEntry, DoneOk, Present
<1>5. MapOk'
  BY <1>1, <1>2, <1>3 DEF TInv, MapInv, MapOk, Present, TypeOK, MaybeThread
<1>6. LostEntry'
  BY <1>1, <1>3 DEF TInv, MapInv, LostEntry, Present
<1>7. Awaited'
  BY <1>1, <1>3 DEF TInv, MapInv, Awaited
<1>8. HolderOk'
  BY <1>1, <1>3 DEF TInv, MapInv, HolderOk, Present
<1> QED
  BY <1>1, <1>2, <1>4, <1>5, <1>6, <1>7, <1>8 DEF MapInv, TypeOK

\* Only the container the thread works on changes, and by Exclusion no delete of
\* that container is under way elsewhere.
LEMMA OthersStayDeleted ==
    ASSUME TInv, NEW t \in Threads, step[t] \in Body,
           UNCHANGED callVars, failed \subseteq failed',
           (floor' \cup allows') \ {id[t]} \subseteq floor \cup allows,
           \A x \in Threads : x # t => step'[x] = step[x]
    PROVE  \A x \in Threads : x # t /\ kind'[x] = "delete" /\ step'[x] \in {"unlock", "close"} =>
               x \in failed' \/ id'[x] \notin floor' \cup allows'
<1> SUFFICES ASSUME NEW x \in Threads, x # t, kind[x] = "delete", step[x] \in {"unlock", "close"},
                    x \notin failed'
             PROVE  id[x] \notin floor' \cup allows'
  BY DEF callVars
<1>1. id[x] # id[t]
  BY ExclusionFromInv DEF Exclusion, Body
<1>2. id[x] \notin floor \cup allows
  BY DEF TInv, Deleted
<1> QED
  BY <1>1, <1>2

LEMMA WorkingKeeps ==
    ASSUME TInv, NEW t \in Threads, Working(t)
    PROVE  TInv'
<1>0. TypeOK /\ id[t] \in Ids
  BY DEF TInv, TypeOK
<1>1. UNCHANGED <<callVars, mtx, mapVars, cause, lifeVars>>
  BY DEF Working, lockPolicyMu, ensureContainerDropPolicy, replaceContainerPolicy, createFails,
         rollback, deleteContainerRulesUntracked, unlockPolicyMu, BodyOnly
<1>2. \E from \in Body, to \in Body : Go(t, from, to)
  BY DEF Working, lockPolicyMu, ensureContainerDropPolicy, replaceContainerPolicy, createFails,
         rollback, deleteContainerRulesUntracked, unlockPolicyMu, Body
<1>3. MapInv' /\ step' \in [Threads -> Steps]
  BY <1>1, <1>2, BodyKeepsMap
<1>4. /\ floor' \subseteq Ids /\ allows' \subseteq Ids /\ failed' \subseteq Threads
      /\ policyMu' \in MaybeThread
      /\ (floor' \cup allows') \ {id[t]} \subseteq floor \cup allows
      /\ failed \subseteq failed'
  BY <1>0 DEF Working, lockPolicyMu, ensureContainerDropPolicy, replaceContainerPolicy,
         createFails, rollback, deleteContainerRulesUntracked, unlockPolicyMu, ruleVars,
         TypeOK, MaybeThread
<1>5. TypeOK'
  BY <1>0, <1>1, <1>3, <1>4 DEF TypeOK, callVars, mapVars, lifeVars
<1>6. step[t] \in Body /\ \A x \in Threads : x # t => step'[x] = step[x]
  BY <1>0, <1>2 DEF Go, TypeOK
<1>7. KindOk'
  <2>1. ASSUME NEW x \in Threads, x # t PROVE step'[x] = step[x] /\ kind'[x] = kind[x]
    BY <1>1, <1>6, <2>1 DEF callVars
  <2>2. /\ step'[t] \in {"floor", "apply", "rollback"} => kind[t] = "create"
        /\ step'[t] = "delete" => kind[t] = "delete"
    BY <1>0 DEF TInv, KindOk, Working, lockPolicyMu, ensureContainerDropPolicy,
         replaceContainerPolicy, createFails, rollback, deleteContainerRulesUntracked,
         unlockPolicyMu, Go, TypeOK
  <2> QED
    BY <1>1, <2>1, <2>2 DEF TInv, KindOk, callVars
<1>8. Deleted'
  <2>1. \A x \in Threads : x # t /\ kind'[x] = "delete" /\ step'[x] \in {"unlock", "close"} =>
            x \in failed' \/ id'[x] \notin floor' \cup allows'
    BY <1>1, <1>4, <1>6, OthersStayDeleted
  <2>2. ASSUME kind[t] = "delete", step'[t] \in {"unlock", "close"}
        PROVE  t \in failed' \/ id[t] \notin floor' \cup allows'
    <3>1. deleteContainerRulesUntracked(t) \/ unlockPolicyMu(t)
      BY <1>0, <2>2 DEF TInv, KindOk, Working, lockPolicyMu, ensureContainerDropPolicy,
         replaceContainerPolicy, createFails, rollback, Go, TypeOK
    <3>2. CASE deleteContainerRulesUntracked(t)
      BY <3>2 DEF deleteContainerRulesUntracked
    <3>3. CASE unlockPolicyMu(t)
      BY <2>2, <3>3 DEF unlockPolicyMu, Go, ruleVars, TInv, Deleted
    <3> QED
      BY <3>1, <3>2, <3>3
  <2> QED
    BY <1>1, <2>1, <2>2 DEF Deleted, callVars
<1> QED
  BY <1>3, <1>5, <1>7, <1>8 DEF TInv

\* Shutting down touches no operation's state but its context.
LEMMA ShutdownKeeps ==
    ASSUME TInv, signal \/ Stop \/ UNCHANGED vars
    PROVE  TInv'
<1>1. UNCHANGED <<step, id, kind, mtx, containers, waitsFor, noCleanup, done, failed,
                  policyMu, floor, allows>>
  BY DEF signal, Stop, vars, callVars, mapVars, ruleVars
<1>2. TypeOK'
  <2>1. cause' \in [Threads -> {"none", "deleted", "canceled"}]
    BY DEF signal, Stop, vars, TInv, TypeOK
  <2>2. ctxDone' \in BOOLEAN /\ stopping' \in BOOLEAN
    BY DEF signal, Stop, vars, lifeVars, TInv, TypeOK
  <2> QED
    BY <1>1, <2>1, <2>2 DEF TInv, TypeOK
<1>3. MapInv'
  BY <1>1 DEF TInv, MapInv, MtxOk, MapOk, OwnEntry, LostEntry, Awaited, HolderOk, DoneOk, Present
<1>4. KindOk' /\ Deleted'
  BY <1>1 DEF TInv, KindOk, Deleted
<1> QED
  BY <1>2, <1>3, <1>4 DEF TInv

-----------------------------------------------------------------------------
(* The inductive argument *)

\* Nothing is in progress at first.
LEMMA TrackerInit == Init => TInv
<1> SUFFICES ASSUME Init PROVE TInv
  OBVIOUS
<1>1. TypeOK
  BY DEF Init, TypeOK, Steps, MaybeThread
<1>2. MapInv
  BY DEF Init, MapInv, MtxOk, MapOk, OwnEntry, LostEntry, Awaited, HolderOk, DoneOk, Present, Body
<1>3. KindOk /\ Deleted
  BY DEF Init, KindOk, Deleted
<1> QED
  BY <1>1, <1>2, <1>3 DEF TInv

\* Every step keeps the invariant.
LEMMA TrackerNext == TInv /\ [Next]_vars => TInv'
<1> SUFFICES ASSUME TInv, [Next]_vars PROVE TInv'
  OBVIOUS
<1>1. ASSUME NEW t \in Threads, NEW c \in Ids, NEW k \in {"create", "delete"}, Call(t, c, k)
      PROVE  TInv'
  BY <1>1, CallKeeps
<1>2. ASSUME NEW t \in Threads, Locking(t) PROVE TInv'
  BY <1>2, AddKeeps, WaitKeeps, NewKeeps, CloseKeeps, CleanupKeeps DEF Locking
<1>3. ASSUME NEW t \in Threads, Working(t) PROVE TInv'
  BY <1>3, WorkingKeeps
<1>4. CASE signal \/ Stop \/ UNCHANGED vars
  BY <1>4, ShutdownKeeps
<1> QED
  BY <1>1, <1>2, <1>3, <1>4 DEF Next

\* The invariant holds in every reachable state.
LEMMA TrackerInvariance == Spec => []TInv
BY TrackerInit, TrackerNext, PTL DEF Spec

\* Operations on one container never overlap, for any goroutines and containers.
THEOREM OperationsExclude == Spec => []Exclusion
BY TrackerInvariance, ExclusionFromInv, PTL

\* An operation in progress is in the map under its ID, or the thread that took
\* the entry over waits for it, for any goroutines and containers.
THEOREM OperationsAreRegistered == Spec => []Registered
<1>1. TInv => Registered
  BY DEF TInv, MapInv, OwnEntry, Awaited, Present, Registered
<1> QED
  BY <1>1, TrackerInvariance, PTL

\* A delete that reports success has left nothing behind and nothing was added
\* since by the create it canceled.
THEOREM DeletesAreFinal == Spec => DeleteIsFinal
<1> DEFINE A == \A t \in Threads : kind[t] = "delete" /\ step[t] = "close" /\ step'[t] = "relock"
                    => t \in failed \/ id[t] \notin floor \cup allows
<1>1. TInv => A
  BY DEF TInv, Deleted
<1> QED
  BY <1>1, TrackerInvariance, PTL DEF DeleteIsFinal
=============================================================================
