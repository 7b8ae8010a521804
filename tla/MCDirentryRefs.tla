--------------------------- MODULE MCDirentryRefs ----------------------------
(* Small bounds on the requests of each kind.                              *)
EXTENDS DirentryRefs, TLC

ThreadSymmetry == Permutations(Threads)
=============================================================================
