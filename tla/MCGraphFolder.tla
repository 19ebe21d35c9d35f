---------------------------- MODULE MCGraphFolder ----------------------------
(* An instance of GraphFolder for TLC.  Two writers, interchangeable: one may wait *)
(* for the lock that a removal unlinks, the other opens it anew.                   *)
EXTENDS GraphFolder, TLC
Symmetry == Permutations(Writers)
UntilTheyMeet == ~met
=============================================================================
