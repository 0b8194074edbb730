---------------------------- MODULE MCSlottedPage ----------------------------
(***************************************************************************)
(* Model-checking instances of SlottedPage.                                *)
(***************************************************************************)
EXTENDS SlottedPage

Symmetry == Permutations(Values)
==============================================================================
