----------------------------- MODULE MCTracker -----------------------------
(***************************************************************************)
(* Instances of Tracker: the two workers of the manager (createRules and   *)
(* deleteRules) and the goroutine of watchDocker, which reconciles.        *)
(***************************************************************************)
EXTENDS Tracker

CONSTANTS creator, deleter, watcher, web, app

\* The worker for creates is busy with web only; the others turn to both.
MCCalls == [t \in Threads |->
    CASE t = creator -> {<<web, "create">>}
      [] t = deleter -> Ids \X {"delete"}
      [] OTHER -> Ids \X {"create", "delete"}]

\* Only the goroutine that reconciles is at work.
LoneCalls == [t \in Threads |-> IF t = watcher THEN Ids \X {"create"} ELSE {}]
=============================================================================
