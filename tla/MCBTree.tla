------------------------------- MODULE MCBTree -------------------------------
(***************************************************************************)
(* Model-checking instances of BTree.                                      *)
(***************************************************************************)
EXTENDS BTree
==============================================================================
