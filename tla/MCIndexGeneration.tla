-------------------------- MODULE MCIndexGeneration --------------------------
(* An instance of IndexGeneration for TLC. *)
EXTENDS IndexGeneration, TLC

Symmetry == Permutations(Procs)
=============================================================================
