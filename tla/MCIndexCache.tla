---------------------------- MODULE MCIndexCache ----------------------------
(* An instance of IndexCache for TLC: a workspace and a lane of it, one slot. *)
EXTENDS IndexCache, TLC

CONSTANTS a, l

MCBaseOf == (l :> a)
Symmetry == Permutations(Requests)
=============================================================================
