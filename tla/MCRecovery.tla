------------------------------ MODULE MCRecovery ------------------------------
(***************************************************************************)
(* Model-checking instances of Recovery.                                   *)
(***************************************************************************)
EXTENDS Recovery
==============================================================================
