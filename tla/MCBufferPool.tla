---------------------------- MODULE MCBufferPool ----------------------------
(***************************************************************************)
(* Model-checking instances of BufferPool.  Holders are interchangeable,   *)
(* and so are the values clients write.                                    *)
(***************************************************************************)
EXTENDS BufferPool

Symmetry == Permutations(Holders) \cup Permutations(Values)
=============================================================================
