---------------------------- MODULE MCIndexnodes -----------------------------
(* One version, below the minimum.  Adverts, and the threads that bring    *)
(* them, are interchangeable.                                              *)
EXTENDS Indexnodes

MCVersions == {<<0, 4>>}
IndexnodesSymmetry == Permutations(Readers) \cup Permutations(Writers) \cup Permutations(Ids)
=============================================================================
