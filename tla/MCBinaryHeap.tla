--------------------------- MODULE MCBinaryHeap -----------------------------
(* The values are chunk pointers: binary_heap.c never looks inside them,   *)
(* so they are interchangeable.                                            *)
EXTENDS BinaryHeap, TLC

ValueSymmetry == Permutations(Values)
=============================================================================
