---------------------------- MODULE MCLogManager ----------------------------
(***************************************************************************)
(* Model-checking instances of LogManager.                                 *)
(***************************************************************************)
EXTENDS LogManager
=============================================================================
