----------------------------- MODULE MCGraphJobs -----------------------------
(* GraphJobs with one base, its lanes, and index passes of the base. *)
EXTENDS GraphJobs, TLC

CONSTANTS b  \* the base of every lane, and the root of every pass

MCBaseOf == [l \in Lanes |-> b]
MCRootOf == [p \in Passes |-> b]
Symmetry == Permutations(Lanes) \cup Permutations(Files)
\* A bound: it starts before any graph is published.
MCInit == Init /\ ready = {}
MCSpec == MCInit /\ [][Next]_vars /\ Fairness
=============================================================================
