---------------------------- MODULE MCDiskManager ----------------------------
(***************************************************************************)
(* Model-checking instances of DiskManager.                                *)
(***************************************************************************)
EXTENDS DiskManager

Symmetry == Permutations(Values)
==============================================================================
