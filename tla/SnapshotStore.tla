---------------------------- MODULE SnapshotStore ----------------------------
(***************************************************************************)
(* What the graph store promises its readers, whatever happens under it:   *)
(* graphs are published one after the other under fresh names, a reader    *)
(* stands on one published graph until it lets go of it, a graph nobody    *)
(* stands on may go once it is not the current one, and what the current   *)
(* graph shows never goes back.                                            *)
(***************************************************************************)
EXTENDS Naturals

CONSTANTS Readers, Versions, Revisions

VARIABLES
  current,   \* the graph new readers get, 0 before the first
  used,      \* every name a graph was published under
  readable,  \* the published graphs that are still there
  shows,     \* shows[v]: the source revision a readable graph shows
  view       \* view[r]: the graph reader r stands on, 0 for none

absVars == <<current, used, readable, shows, view>>

AbsInit ==
  /\ current = 0 /\ used = {} /\ readable = {}
  /\ shows = [v \in Versions |-> 0]
  /\ view = [r \in Readers |-> 0]

PublishGraph(v, s) ==
  /\ v \in Versions \ used
  /\ current # 0 => s >= shows[current]
  /\ current' = v
  /\ used' = used \cup {v}
  /\ readable' = readable \cup {v}
  /\ shows' = [shows EXCEPT ![v] = s]
  /\ UNCHANGED view

RefreshGraph(s) ==
  /\ current # 0 /\ s >= shows[current]
  /\ shows' = [shows EXCEPT ![current] = s]
  /\ UNCHANGED <<current, used, readable, view>>

DropGraph(v) ==
  /\ v \in readable \ {current}
  /\ \A r \in Readers : view[r] # v
  /\ readable' = readable \ {v}
  /\ shows' = [shows EXCEPT ![v] = 0]
  /\ UNCHANGED <<current, used, view>>

Open(r, v) ==
  /\ view[r] = 0 /\ v \in readable
  /\ view' = [view EXCEPT ![r] = v]
  /\ UNCHANGED <<current, used, readable, shows>>

Close(r) ==
  /\ view[r] # 0
  /\ view' = [view EXCEPT ![r] = 0]
  /\ UNCHANGED <<current, used, readable, shows>>

AbsNext ==
  \/ \E v \in Versions, s \in Revisions : PublishGraph(v, s)
  \/ \E s \in Revisions : RefreshGraph(s)
  \/ \E v \in Versions : DropGraph(v)
  \/ \E r \in Readers : (\E v \in Versions : Open(r, v)) \/ Close(r)

AbsSpec == AbsInit /\ [][AbsNext]_absVars
=============================================================================
