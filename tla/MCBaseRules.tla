---------------------------- MODULE MCBaseRules ----------------------------
(***************************************************************************)
(* Finite instances of BaseRules for TLC: one container, and INPUT to      *)
(* stand for INPUT and OUTPUT, which the code treats alike.                *)
(***************************************************************************)
EXTENDS BaseRules

CONSTANT web
=============================================================================
