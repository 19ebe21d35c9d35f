---------------------------- MODULE MCLaneIndex ----------------------------
(* Four paths: an ordinary file, one whose capsule differs in the lane, one that only a *)
(* negation lets in and git does not track, and a link.                                *)
EXTENDS LaneIndex
CONSTANTS a, b, c, l, one, two
MCOrder == <<a, b, c, l>>
MCPieces == (one :> 1) @@ (two :> 2)
MCContents == (a :> {one, two, Gone}) @@ (b :> {one, Unreadable}) @@ (c :> {one, Blank}) @@ (l :> {one})
MCFirst == [f \in {a, b, c, l} |-> one]
=============================================================================
