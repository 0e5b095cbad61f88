------------------------- MODULE MCEventDispatcher -------------------------
(***************************************************************************)
(* Instances of EventDispatcher: two containers, and lanes of depth one,   *)
(* so that a second event of a container already blocks the dispatcher.    *)
(***************************************************************************)
EXTENDS EventDispatcher

CONSTANTS web, app
=============================================================================
