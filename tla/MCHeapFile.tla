----------------------------- MODULE MCHeapFile -----------------------------
(***************************************************************************)
(* Model-checking instance of HeapFile.                                    *)
(***************************************************************************)
EXTENDS HeapFile
==============================================================================
