----------------------------- MODULE MCGraphStore -----------------------------
(* GraphStore on small sets of readers and writers. *)
EXTENDS GraphStore, TLC

Symmetry == Permutations(Readers) \cup Permutations(Writers)
=============================================================================
