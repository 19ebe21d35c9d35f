----------------------------- MODULE LaneOverlay -----------------------------
(***************************************************************************)
(* A lane's graph, stored as an overlay of one version of its base's graph *)
(* (graph/store.py: _build_overlay, _resolve_owed, graph_stale;            *)
(* graph/overlay.py).                                                      *)
(*                                                                         *)
(* The base's writer refreshes its current version in place, rebuilds it   *)
(* into a new one, or compacts it; each of those commits to sqlite more    *)
(* than once.  The lane's writer holds a base version, resolves the lane's *)
(* own files against it, records which names that moved (the debt), and    *)
(* then re-resolves the files that wrote those names.  Between two commits *)
(* a worker can be killed or the disk can fill up.                         *)
(*                                                                         *)
(* What is abstracted: what a base version holds, rows and interned keys   *)
(* alike, is one number, gen, that changes when either does; a lane edit   *)
(* is a revision of the lane's tree and moves one name; built_at, a wall   *)
(* clock reading, is a counter.  That a held version stays on disk and     *)
(* that each graph has one writer is what GraphStore shows.                *)
(***************************************************************************)
EXTENDS Naturals

CONSTANTS
  MaxLaneEdits,  \* bound: edits of the lane's files
  MaxBaseWrites  \* bound: writes of the base's graph

ASSUME WritesAssumption == MaxLaneEdits \in Nat /\ MaxBaseWrites \in Nat

VARIABLES
  laneTree,  \* revision of the lane's files
  bver,      \* the base's current version
  held,      \* held[v]: what version v holds (gen) and its built_at (stamp)
  clock,     \* writes of the base's graph so far, the source of both numbers
  bpc,       \* the base's writer
  torn,      \* history: base versions whose writer was lost in a window
  overlay,   \* the lane's published overlay, NoOverlay before the first
  draft,     \* the overlay a lane build writes
  lpc,       \* the lane's writer
  reuse,     \* the lane's writer works on the published overlay in place
  moved,     \* the names its first pass moved, in its memory
  forgotten  \* history: names moved in the published overlay by a worker lost before it recorded them

baseVars == <<bver, held, clock, bpc, torn>>
laneVars == <<overlay, draft, lpc, reuse, moved, forgotten>>
overlayVars == <<laneTree, baseVars, laneVars>>

BaseVersions == 1..(MaxBaseWrites + 1)
Revisions == 1..MaxLaneEdits

Overlays == [ver : BaseVersions,                \* overlay_base_version
             stamp : 0..MaxBaseWrites,          \* overlay_base_built_at
             against : SUBSET (0..MaxBaseWrites), \* history: base contents it was resolved against
             own : 0..MaxLaneEdits,             \* lane revision its own files show
             unresolved : SUBSET Revisions,     \* moved names whose writers still show the old targets
             owed : SUBSET Revisions]           \* overlay_pending_names
NoOverlay == [ver |-> 0]

\* A mutant of OverlayOf: the version is compared, the build of it is not.
OverlayOfVersion(o, v, stamp) == o # NoOverlay /\ o.ver = v

\* _overlay_of: made on exactly this base version and build of it.
OverlayOf(o, v, stamp) == o # NoOverlay /\ o.ver = v /\ o.stamp = stamp

\* graph_stale
Stale == overlay # NoOverlay /\ ~OverlayOf(overlay, bver, held[bver].stamp)

LaneInit ==
  /\ laneTree = 0
  /\ bver = 1 /\ clock = 0
  /\ held = [v \in BaseVersions |-> [gen |-> 0, stamp |-> 0]]
  /\ bpc = "idle" /\ torn = {}
  /\ overlay = NoOverlay /\ draft = NoOverlay
  /\ lpc = "idle" /\ reuse = FALSE /\ moved = {} /\ forgotten = {}

EditLane ==
  /\ laneTree < MaxLaneEdits
  /\ laneTree' = laneTree + 1
  /\ UNCHANGED <<baseVars, laneVars>>

-----------------------------------------------------------------------------
(* The base's writer. *)

\* A refresh in place commits its rows when it leaves _scratch ...
CommitBaseRows ==
  /\ bpc = "idle" /\ clock < MaxBaseWrites
  /\ clock' = clock + 1
  /\ held' = [held EXCEPT ![bver].gen = clock']
  /\ bpc' = "rows"
  /\ UNCHANGED <<laneTree, bver, torn, laneVars>>

\* ... and built_at with the meta rows, when the connection is closed.
StampBase ==
  /\ bpc = "rows"
  /\ held' = [held EXCEPT ![bver].stamp = clock]
  /\ bpc' = "idle"
  /\ torn' = torn \ {bver}
  /\ UNCHANGED <<laneTree, bver, clock, laneVars>>

\* A full build: rows and stamp are both there before the pointer names it.
RebuildBase ==
  /\ bpc = "idle" /\ clock < MaxBaseWrites
  /\ clock' = clock + 1
  /\ bver' = bver + 1
  /\ held' = [held EXCEPT ![bver'] = [gen |-> clock', stamp |-> clock']]
  /\ UNCHANGED <<laneTree, bpc, torn, laneVars>>

\* A compaction prunes the keys no base edge uses, in the current version ...
PruneKeys ==
  /\ bpc = "idle" /\ clock < MaxBaseWrites
  /\ clock' = clock + 1
  /\ held' = [held EXCEPT ![bver].gen = clock']
  /\ bpc' = "pruned"
  /\ UNCHANGED <<laneTree, bver, torn, laneVars>>

\* ... and publishes a copy of it, built_at included.
PublishCompacted ==
  /\ bpc = "pruned"
  /\ bver' = bver + 1
  /\ held' = [held EXCEPT ![bver'] = held[bver]]
  /\ bpc' = "idle"
  /\ UNCHANGED <<laneTree, clock, torn, laneVars>>

\* The worker is killed, or VACUUM INTO finds no room, between two commits.
LoseBaseWriter ==
  /\ bpc \in {"rows", "pruned"}
  /\ bpc' = "idle"
  /\ torn' = torn \cup {bver}
  /\ UNCHANGED <<laneTree, bver, held, clock, laneVars>>

-----------------------------------------------------------------------------
(* The lane's writer. *)

\* The base's current version is held and its meta read; an overlay made on
\* exactly that is worked on in place, anything else starts a new one.
StartLane ==
  /\ lpc = "idle"
  /\ reuse' = OverlayOf(overlay, bver, held[bver].stamp)
  /\ draft' = IF reuse' THEN overlay
              ELSE [ver |-> bver, stamp |-> held[bver].stamp, against |-> {},
                    own |-> 0, unresolved |-> {}, owed |-> {}]
  /\ lpc' = "first"
  /\ UNCHANGED <<laneTree, baseVars, overlay, moved, forgotten>>

\* What a commit of the draft shows readers: at once when it is the published
\* overlay itself, nothing before _install otherwise.
Commit(o) ==
  /\ draft' = o
  /\ overlay' = IF reuse THEN o ELSE overlay

\* The first pass commits the lane's own files; the files that wrote a name
\* they moved still show the old targets.
FirstPass ==
  /\ lpc = "first"
  /\ moved' = (draft.own + 1)..laneTree
  /\ Commit([draft EXCEPT !.own = laneTree,
                          !.unresolved = @ \cup moved',
                          !.against = @ \cup {held[draft.ver].gen}])
  /\ lpc' = "owe"
  /\ UNCHANGED <<laneTree, baseVars, reuse, forgotten>>

\* A mutant of Owe: the debt of this pass replaces the one left by an earlier.
OweOnlyNew ==
  /\ lpc = "owe"
  /\ Commit([draft EXCEPT !.owed = moved])
  /\ moved' = {}
  /\ lpc' = IF reuse THEN "second" ELSE "install"
  /\ UNCHANGED <<laneTree, baseVars, reuse, forgotten>>

\* The names the pass moved join what an earlier one left, in a second commit.
Owe ==
  /\ lpc = "owe"
  /\ Commit([draft EXCEPT !.owed = @ \cup moved])
  /\ moved' = {}
  /\ lpc' = IF reuse THEN "second" ELSE "install"
  /\ UNCHANGED <<laneTree, baseVars, reuse, forgotten>>

\* A new overlay becomes the lane's current version.
InstallOverlay ==
  /\ lpc = "install"
  /\ overlay' = draft
  /\ forgotten' = {}
  /\ reuse' = TRUE
  /\ lpc' = "second"
  /\ UNCHANGED <<laneTree, baseVars, draft, moved>>

\* The second pass re-resolves the files that wrote a name that is owed.
SecondPass ==
  /\ lpc = "second" /\ draft.owed # {}
  /\ Commit([draft EXCEPT !.unresolved = @ \ draft.owed,
                          !.against = @ \cup {held[draft.ver].gen}])
  /\ lpc' = "paid"
  /\ UNCHANGED <<laneTree, baseVars, reuse, moved, forgotten>>

\* That nothing is owed any more is recorded in a commit of its own.
PayOff ==
  /\ lpc = "paid"
  /\ Commit([draft EXCEPT !.owed = {}])
  /\ lpc' = "second"
  /\ UNCHANGED <<laneTree, baseVars, reuse, moved, forgotten>>

\* The hold on the base version is dropped.
EndLane ==
  /\ lpc = "second" /\ draft.owed = {}
  /\ lpc' = "idle" /\ draft' = NoOverlay /\ reuse' = FALSE /\ moved' = {}
  /\ UNCHANGED <<laneTree, baseVars, overlay, forgotten>>

\* A mutant of LoseLaneWriter: a failed build discards the overlay it worked on in place.
DiscardReused ==
  /\ lpc # "idle"
  /\ lpc' = "idle" /\ draft' = NoOverlay /\ reuse' = FALSE /\ moved' = {}
  /\ overlay' = IF reuse THEN NoOverlay ELSE overlay
  /\ forgotten' = IF reuse THEN {} ELSE forgotten
  /\ UNCHANGED <<laneTree, baseVars>>

\* The worker is stopped or killed: a draft that was not installed is gone,
\* what was committed to the published overlay stays.
LoseLaneWriter ==
  /\ lpc # "idle"
  /\ lpc' = "idle" /\ draft' = NoOverlay /\ reuse' = FALSE /\ moved' = {}
  /\ forgotten' = IF reuse /\ lpc = "owe" THEN forgotten \cup (moved \ draft.owed) ELSE forgotten
  /\ UNCHANGED <<laneTree, baseVars, overlay>>

LaneNext ==
  \/ EditLane
  \/ CommitBaseRows \/ StampBase \/ RebuildBase \/ PruneKeys \/ PublishCompacted \/ LoseBaseWriter
  \/ StartLane \/ FirstPass \/ Owe \/ InstallOverlay \/ SecondPass \/ PayOff \/ EndLane
  \/ LoseLaneWriter

LaneSpec == LaneInit /\ [][LaneNext]_overlayVars

-----------------------------------------------------------------------------
(* Properties. *)

LaneTypeOK ==
  /\ laneTree \in 0..MaxLaneEdits
  /\ bver \in BaseVersions /\ clock \in 0..MaxBaseWrites
  /\ held \in [BaseVersions -> [gen : 0..MaxBaseWrites, stamp : 0..MaxBaseWrites]]
  /\ bpc \in {"idle", "rows", "pruned"} /\ torn \subseteq BaseVersions
  /\ overlay \in Overlays \cup {NoOverlay} /\ draft \in Overlays \cup {NoOverlay}
  /\ lpc \in {"idle", "first", "owe", "install", "second", "paid"}
  /\ reuse \in BOOLEAN /\ moved \subseteq Revisions /\ forgotten \subseteq Revisions

\* "The names the second pass owes are recorded in the overlay before the first
\* is published, so a worker stopped between them leaves its next refresh to
\* finish the job": whenever no lane worker runs, every name whose writers still
\* show the old targets is on the list the next refresh works off.  There is one
\* exception: a worker that worked on the published overlay in place and was lost
\* between the commit of its first pass and the one of its names.
OnlyCutFirstPassForgets ==
  lpc = "idle" /\ overlay # NoOverlay => overlay.unresolved \subseteq overlay.owed \cup forgotten

\* An overlay graph_stale passes as up to date was resolved against exactly what
\* its base's current version holds, whatever the two writers did meanwhile.  There
\* is one way for it to be fooled: a worker of the base was lost between the commit
\* of its rows, or of a prune, and the stamp or copy that tells of it, and no refresh
\* has stamped that version since.
OnlyTornHides == lpc = "idle" /\ bpc = "idle" /\ overlay # NoOverlay /\ ~Stale
                   => overlay.against = {held[bver].gen} \/ bver \in torn

\* An edit the lane's graph has shown is never taken back by a later build, a
\* rebuild on a moved base or a kill.
LaneNeverBack == [][overlay # NoOverlay => overlay' # NoOverlay /\ overlay'.own >= overlay.own]_overlayVars

-----------------------------------------------------------------------------
(* What the code does not keep: no run checks it. *)

\* OnlyTornHides without its exception.
StaleIsSeen == lpc = "idle" /\ bpc = "idle" /\ overlay # NoOverlay /\ ~Stale
                 => overlay.against = {held[bver].gen}
=============================================================================
