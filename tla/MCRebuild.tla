------------------------------ MODULE MCRebuild ------------------------------
(* Instances of Rebuild for TLC: a root alone, and a base with a lane of it. *)
EXTENDS Rebuild

CONSTANTS base, lane, c1, c2, f, j, MaxBeside, MaxAlone

MCBaseOf == [l \in Lanes |-> base]
MCRootOf == [c \in Clients |-> IF c = c1 THEN base ELSE lane]

\* The lane is there, or has left something.
Beside == \E l \in Lanes : resident[l] # "no" \/ task[l].pc # "none" \/ stored[l] # {}

\* Beside a lane, fewer edits, refreshes and troubles are enough.
MCNext == Next /\ edits' + asks' + troubles' <= (IF Beside' THEN MaxBeside ELSE MaxAlone)
MCFairSpec == Init /\ [][MCNext]_vars /\ Fairness
=============================================================================
