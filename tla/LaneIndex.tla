------------------------------- MODULE LaneIndex -------------------------------
(***************************************************************************)
(* A watched workspace, its index, and the index of a lane of it: a folder *)
(* of linked worktrees answered by the workspace's rows for the files the  *)
(* lane did not change and by a small delta for the rest (index/overlay.py,*)
(* lane.py, and the rebuilds daemon/server.py runs for both).              *)
(*                                                                         *)
(* A lane is planned on the index its base has when the plan begins.  Git  *)
(* is asked first, in three commands: the base's HEAD, what the lane has   *)
(* changed since, what the base's working tree has changed.  The lane is   *)
(* then walked file by file: the base's copy is stat'ed, and compared      *)
(* afterwards where git has no answer.  The delta is written at the end.   *)
(* Files, HEAD and the base's index move between any two of these steps.   *)
(*                                                                         *)
(* What is abstracted: a rebuild is one step (IndexGeneration has its      *)
(* interleavings) and the watcher's queue is what it holds (Rebuild has    *)
(* how it is passed on); BM25 scores and distances to the rows they are    *)
(* given to; sub-trees and prefixes of a lane to the whole lane.           *)
(***************************************************************************)
EXTENDS IndexWrite

CONSTANTS
  Untracked,  \* paths git does not track in the lane
  Contents,   \* path |-> the texts its file may hold
  First,      \* path |-> the text both checkouts begin with
  Ignorable,  \* paths an ignore file of the base may come to cover
  WorkLimit,  \* files one build may chunk
  MaxEdits,   \* bound: edits of files
  MaxCommits, \* bound: commits in the base
  MaxIgnores  \* bound: edits of an ignore file, evictions of the lane

Roots == {"base", "lane"}

\* Both checkouts as they begin, and the index the base has by then.
FirstTree == [r \in Roots |-> [f \in Files |-> [text |-> First[f], stamp |-> <<r, 1>>]]]
FirstIndex == WritePlanned(PlanFiles("base", FirstTree["base"], {}, <<>>), None)

\* What a stamp, an entry, a chunk and an index are; None is none of them.
Stamps == Roots \X (Nat \ {0})
Entries == [path : Files, stamp : Stamps, start : Nat, count : Nat]
Chunk == [path : Files, text : Readable, slot : Nat, capsule : {Capsule(r, f) : r \in Roots, f \in Files}]
Indexes == [manifest : Seq(Entries), chunks : Seq(Chunk), postings : [Readable -> SUBSET Nat], vectors : Seq(Chunk)]

\* The workspace has something to index: a build without a row raises.
ASSUME LaneAssumption ==
  /\ FirstIndex # None
  /\ Untracked \subseteq Files /\ Ignorable \subseteq Files /\ Contents \in [Files -> SUBSET (Readable \cup {Blank, Unreadable, Gone})]
  /\ First \in [Files -> Readable] /\ \A f \in Files : First[f] \in Contents[f]
  /\ None \notin Entries \cup Indexes
  /\ WorkLimit \in Nat /\ MaxEdits \in Nat /\ MaxCommits \in Nat /\ MaxIgnores \in Nat

VARIABLES
  tree,        \* checkout |-> path |-> its file: the text it holds, and the stamp that says which one it is
  written,     \* history: checkout |-> path |-> the texts the file has held
  head,        \* the texts of the base's HEAD
  ignored,     \* paths the base's ignore files keep out
  store,       \* the base's index
  queue,       \* changes the base's rebuild has not been given: [rescan, paths]
  overlay,     \* the lane's index, or None
  delta,       \* the lane's delta on disk, or None
  replan,      \* whether the lane's watcher has noted a change
  plan,        \* the plan being made: see Idle
  excuse       \* history: see SettledIndexFollowsTree and SettledLaneFollowsTree

vars == <<tree, written, head, ignored, store, queue, overlay, delta, replan, plan, excuse>>

\* at: what comes next; base, previous: the indexes the plan reads; head, moved: git's answers;
\* left: files still to walk; stamp: of a lane's file that is yet to be compared; shared,
\* differing: the verdicts; committed: whether HEAD moved after it was read.
Idle == [at |-> "idle", base |-> None, previous |-> None, git |-> FALSE, head |-> <<>>, moved |-> {},
         left |-> <<>>, stamp |-> None, shared |-> <<>>, differing |-> {}, committed |-> FALSE]
NoChange == [rescan |-> FALSE, paths |-> {}]

TextOf(f, stamp) == written[stamp[1]][f][stamp[2]]

Init ==
  /\ tree = FirstTree
  /\ written = [r \in Roots |-> [f \in Files |-> <<First[f]>>]]
  /\ head = First
  /\ ignored = {}
  /\ store = FirstIndex
  /\ queue = NoChange
  /\ overlay = None /\ delta = None /\ replan = FALSE /\ plan = Idle
  /\ excuse = [refused |-> {}, ruled |-> {}, edits |-> 0, commits |-> 0, rules |-> 0, unseen |-> {}, committed |-> FALSE,
               outrun |-> {}]

-----------------------------------------------------------------------------
(* The user. *)

\* The watcher reports paths of the content's suffixes that are not ignored.
Reported(root, f) == f \notin Negated /\ (root = "base" => f \notin ignored)

Note(f) == IF Reported("base", f) THEN [queue EXCEPT !.paths = @ \cup {f}] ELSE queue

Edit(root, f) ==
  /\ excuse.edits < MaxEdits
  /\ \E text \in Contents[f] \ {tree[root][f].text} :
       /\ tree' = [tree EXCEPT ![root][f] = [text |-> text, stamp |-> <<root, Len(written[root][f]) + 1>>]]
       /\ written' = [written EXCEPT ![root][f] = Append(@, text)]
  /\ queue' = IF root = "base" THEN Note(f) ELSE queue
  /\ replan' = (replan \/ (root = "lane" /\ Reported(root, f) /\ (overlay # None \/ plan.at # "idle")))
  /\ excuse' = [excuse EXCEPT !.edits = @ + 1, !.unseen = IF Reported(root, f) THEN @ ELSE @ \cup {<<root, f>>}]
  /\ UNCHANGED <<head, ignored, store, overlay, delta, plan>>

\* The base commits its working tree; no watched file changes.
Commit ==
  /\ excuse.commits < MaxCommits
  /\ head' = [f \in Files |-> tree["base"][f].text]
  /\ head' # head
  /\ plan' = [plan EXCEPT !.committed = @ \/ plan.at \in {"lane", "base"}]
  /\ excuse' = [excuse EXCEPT !.commits = @ + 1]
  /\ UNCHANGED <<tree, written, ignored, store, queue, overlay, delta, replan>>

\* An ignore file of the base is edited: it is no source file, so nothing is reported.
Ignore(f) ==
  /\ excuse.rules < MaxIgnores
  /\ ignored' = SymDiff(ignored, {f})
  /\ excuse' = [excuse EXCEPT !.rules = @ + 1, !.ruled = @ \cup {f}]
  /\ UNCHANGED <<tree, written, head, store, queue, overlay, delta, replan, plan>>

-----------------------------------------------------------------------------
(* The base's rebuild. *)

\* The generation is swapped in, and a lane that holds the old one's rows is told.
Swap(index) ==
  /\ store' = index
  /\ replan' = (replan \/ overlay # None \/ plan.at # "idle")

\* Over the work limit: the error is recorded and the changes are not asked for again.
Refuse(files) ==
  /\ queue' = NoChange
  /\ excuse' = [excuse EXCEPT !.refused = @ \cup files]
  /\ UNCHANGED <<store, replan>>

\* A build that raises is retried as a full rescan.
Retry ==
  /\ queue' = [rescan |-> TRUE, paths |-> {}]
  /\ UNCHANGED <<store, replan, excuse>>

\* files: what the build answers for; walked: those of them a walk has looked at, told or not.
Rebuilt(index, files, walked) ==
  IF index = None THEN Retry
  ELSE /\ Swap(index) /\ queue' = NoChange
       /\ excuse' = [excuse EXCEPT !.refused = @ \ files, !.ruled = @ \ walked,
                                   !.unseen = @ \ {<<"base", f>> : f \in walked}]

RebuildChanged ==
  LET changed == queue.paths tr == tree["base"] work == EstimateChangedPaths(tr, ignored, changed, store.manifest)
  IN /\ ~queue.rescan /\ changed # {}
     /\ IF Cardinality(work) > WorkLimit THEN Refuse(changed)
        ELSE IF ~ChangeSetMovesAnything(tr, ignored, changed, store.manifest) THEN Rebuilt(store, changed, {})
        ELSE Rebuilt(WritePlanned(PlanChangedFiles("base", tr, ignored, changed, store.manifest), store), changed, {})
     /\ UNCHANGED <<tree, written, head, ignored, overlay, delta, plan>>

\* A full rescan: asked for by the queue, a client or the watches becoming ready.
RebuildAll ==
  LET tr == tree["base"] work == EstimateTree(tr, ignored, store.manifest)
  IN /\ IF Cardinality(work) > WorkLimit THEN Refuse(Files)
        ELSE IF ~TreeMovesAnything(tr, ignored, store.manifest) THEN Rebuilt(store, Files, Files)
        ELSE Rebuilt(WritePlanned(PlanFiles("base", tr, ignored, store.manifest), store), Files, Files)
     /\ UNCHANGED <<tree, written, head, ignored, overlay, delta, plan>>

-----------------------------------------------------------------------------
(* The lane's plan. *)

\* The first request for a lane, or a change noted for it, on the base's index of now.  When
\* git cannot be run, files are compared by content.
Begin ==
  /\ plan.at = "idle" /\ (overlay = None \/ replan)
  /\ replan' = FALSE
  /\ \E git \in BOOLEAN :
       plan' = [Idle EXCEPT !.at = "head", !.base = store, !.git = git,
                            !.previous = IF overlay = None THEN delta ELSE overlay.delta]
  /\ excuse' = [excuse EXCEPT !.unseen = @ \ {<<"lane", f>> : f \in Files}, !.outrun = {}]
  /\ UNCHANGED <<tree, written, head, ignored, store, queue, overlay, delta>>

ReadHead ==
  /\ plan.at = "head"
  /\ plan' = [plan EXCEPT !.at = "lane", !.head = head]
  /\ UNCHANGED <<tree, written, head, ignored, store, queue, overlay, delta, replan, excuse>>

Tracked == Files \ Untracked

DiffLane ==
  /\ plan.at = "lane"
  /\ plan' = [plan EXCEPT !.at = "base", !.moved = {f \in Tracked : tree["lane"][f].text # plan.head[f]}]
  /\ UNCHANGED <<tree, written, head, ignored, store, queue, overlay, delta, replan, excuse>>

DiffBase ==
  /\ plan.at = "base"
  /\ plan' = [plan EXCEPT !.at = "walk", !.moved = @ \cup {f \in Files : tree["base"][f].text # head[f]},
                          !.left = InOrder(Files \ Linked)]
  /\ UNCHANGED <<tree, written, head, ignored, store, queue, overlay, delta, replan, excuse>>

\* Where git has no answer, the lane's file is compared with the base's.
ByContent(f) == ~(plan.git /\ f \in Tracked)

\* A mutant of BaseCurrent: the base's rows may describe any copy of the file.
BaseListed(f) == f \in Paths(plan.base.manifest)

\* The base's rows still describe the base's file.
BaseCurrent(f) == Current(EntryOf(plan.base.manifest, f), tree["base"][f])

\* The next file is the base's, or differs; the lane's had this stamp when it was walked.
Judge(same, stamp) ==
  LET f == Head(plan.left)
  IN [plan EXCEPT !.at = "walk", !.left = Tail(@), !.stamp = None,
                  !.shared = IF same THEN Append(@, [path |-> f, stamp |-> stamp]) ELSE @,
                  !.differing = IF same THEN @ ELSE @ \cup {f}]

\* A file of the lane is judged from git's answers, or left to be compared: by then the base's
\* rows have been found to describe the base's file.
WalkFile ==
  /\ plan.at = "walk" /\ plan.left # <<>>
  /\ LET f == Head(plan.left) file == tree["lane"][f]
         held == BaseCurrent(f) /\ Capsule("lane", f) = Capsule("base", f)
     IN \/ ~Valid(file) /\ plan' = [plan EXCEPT !.left = Tail(@)]
        \/ Valid(file) /\ ~(held /\ ByContent(f)) /\ plan' = Judge(held /\ f \notin plan.moved, file.stamp)
        \/ Valid(file) /\ held /\ ByContent(f) /\ plan' = [plan EXCEPT !.at = "compare", !.stamp = file.stamp]
  /\ UNCHANGED <<tree, written, head, ignored, store, queue, overlay, delta, replan, excuse>>

\* The two files are read, as they are by now.
CompareFile ==
  /\ plan.at = "compare"
  /\ LET f == Head(plan.left) text == tree["lane"][f].text
         same == text = tree["base"][f].text /\ text \notin {Unreadable, Gone}
     IN /\ plan' = Judge(same, plan.stamp)
        /\ excuse' = [excuse EXCEPT !.outrun = IF same /\ ~BaseCurrent(f) THEN @ \cup {f} ELSE @]
  /\ UNCHANGED <<tree, written, head, ignored, store, queue, overlay, delta, replan>>

\* The delta of the differing files, reusing the rows of the previous one.
PlanDelta(differing, previous) ==
  LET sorted == InOrder(differing)
      planned(f) == LET entry == EntryOf(ManifestOf(previous), f)
                IN IF tree["lane"][f].text # Gone /\ Current(entry, tree["lane"][f]) THEN Reused(entry, entry.stamp)
                   ELSE PlanFile("lane", tree["lane"], f, None)
  IN FlattenSeq([i \in DOMAIN sorted |-> planned(sorted[i])])

\* The kept rows of the base, in its order, and where the lane's manifest puts every file.
Keep(base, shared) ==
  FlattenSeq([i \in DOMAIN base.manifest |->
    LET e == base.manifest[i]
    IN IF e.path \in Paths(shared) THEN [n \in 1..e.count |-> e.start + n - 1] ELSE <<>>])

SharedManifest(base, shared) ==
  LET m == base.manifest
      keptBefore(i) == Total([j \in 1..(i - 1) |-> IF m[j].path \in Paths(shared) THEN m[j].count ELSE 0])
  IN FlattenSeq([i \in DOMAIN m |->
       IF m[i].path \in Paths(shared)
       THEN <<[path |-> m[i].path, stamp |-> EntryOf(shared, m[i].path).stamp, start |-> keptBefore(i), count |-> m[i].count]>>
       ELSE <<>>])

BuildOverlay(base, shared, written_) ==
  LET keep == Keep(base, shared)
      moved == [i \in DOMAIN ManifestOf(written_) |-> [written_.manifest[i] EXCEPT !.start = @ + Len(keep)]]
  IN [base |-> base, keep |-> keep, delta |-> written_, manifest |-> SharedManifest(base, shared) \o moved]

\* The folder holds the delta, and nothing when the lane has no row of its own.
Finish ==
  /\ plan.at = "walk" /\ plan.left = <<>>
  /\ delta' = WritePlanned(PlanDelta(plan.differing, plan.previous), plan.previous)
  /\ overlay' = BuildOverlay(plan.base, plan.shared, delta')
  /\ plan' = Idle
  /\ excuse' = [excuse EXCEPT !.committed = plan.committed]
  /\ UNCHANGED <<tree, written, head, ignored, store, queue, replan>>

\* The lane leaves memory, or the daemon does; its delta stays.
Evict ==
  /\ overlay # None /\ plan.at = "idle" /\ excuse.rules < MaxIgnores
  /\ overlay' = None /\ replan' = FALSE
  /\ excuse' = [excuse EXCEPT !.rules = @ + 1]
  /\ UNCHANGED <<tree, written, head, ignored, store, queue, delta, plan>>

Next ==
  \/ \E r \in Roots, f \in Files : Edit(r, f)
  \/ Commit
  \/ \E f \in Ignorable : Ignore(f)
  \/ RebuildChanged \/ RebuildAll
  \/ Begin \/ ReadHead \/ DiffLane \/ DiffBase \/ WalkFile \/ CompareFile \/ Finish \/ Evict

Spec == Init /\ [][Next]_vars

-----------------------------------------------------------------------------
(* What an index says. *)

RowsOf(chunks, entry) == SubSeq(chunks, entry.start + 1, entry.start + entry.count)

\* Every file's rows hold what the file held at the stamp its entry records, and the stores agree.
Describes(root, index) ==
  /\ \A e \in Range(index.manifest) : RowsOf(index.chunks, e) = Chunks(root, e.path, TextOf(e.path, e.stamp))
  /\ Len(index.chunks) = Rows(index.manifest)
  /\ index.vectors = index.chunks
  /\ index.postings = [t \in Readable |-> {i - 1 : i \in {j \in DOMAIN index.chunks : index.chunks[j].text = t}}]

\* An overlay's stores: the kept rows of the base, then the delta's.
Split(o) == Len(o.keep)
OverlayStore(o, stored(_)) ==
  [r \in DOMAIN o.keep |-> stored(o.base)[o.keep[r] + 1]] \o (IF o.delta = None THEN <<>> ELSE stored(o.delta))
OverlayChunks(o) == OverlayStore(o, LAMBDA i : i.chunks)
OverlayDense(o) == OverlayStore(o, LAMBDA i : i.vectors)
\* Rows of the base outside keep are mapped to none.
OverlaySymbols(o, t) ==
  {r \in 0..(Split(o) - 1) : o.keep[r + 1] \in o.base.postings[t]}
  \cup (IF o.delta = None THEN {} ELSE {Split(o) + r : r \in o.delta.postings[t]})

-----------------------------------------------------------------------------
(* Properties. *)

\* The first three properties are evaluated between plans, two of them without a lane: the steps
\* of a plan change none of the indexes they read, and what a base goes through needs no lane.
NoLane == overlay = None /\ plan.at = "idle"

TypeOK ==
  /\ \A r \in Roots, f \in Files : tree[r][f].text \in Contents[f] /\ TextOf(f, tree[r][f].stamp) = tree[r][f].text
  /\ plan.at \in {"idle", "head", "lane", "base", "walk", "compare"} /\ ignored \subseteq Files
  /\ queue \in [rescan : BOOLEAN, paths : SUBSET Files] /\ replan \in BOOLEAN

\* Reusing rows never mixes files: whatever was edited, removed and reused in between, every
\* entry of the base's index and of the delta finds its own rows in all stores, each vector
\* embeds its own chunk, and an overlay's names and vectors are those of its rows (the rows
\* of create.py _extend and write_planned, overlay.py build_overlay).
StoresDescribeTheirFiles ==
  plan.at = "idle" =>
  /\ Describes("base", store) /\ (delta # None => Describes("lane", delta))
  /\ overlay # None =>
       /\ OverlayDense(overlay) = OverlayChunks(overlay)
       /\ \A e \in Range(overlay.manifest) : \A c \in Range(RowsOf(OverlayChunks(overlay), e)) : c.path = e.path
       /\ \A t \in Readable : OverlaySymbols(overlay, t) =
            {i - 1 : i \in {j \in DOMAIN OverlayChunks(overlay) : OverlayChunks(overlay)[j].text = t}}

\* A build that reuses what it can is the build that reuses nothing: a walk over the previous
\* index, and the lane's own first build seeded from its sibling's (create.py plan_files).  And
\* it buys vectors for the files it chunks alone (create.py:444).
ReuseIsAFullBuild ==
  NoLane =>
  LET full(root, out) == WritePlanned(PlanFiles(root, tree[root], out, <<>>), None)
      walked == PlanFiles("base", tree["base"], ignored, store.manifest)
      named == PlanChangedFiles("base", tree["base"], ignored, Files, store.manifest)
      seeded == PlanSeeded("lane", tree["lane"], {}, store.manifest, "base", tree["base"])
  IN /\ WritePlanned(walked, store) = full("base", ignored)
     /\ WritePlanned(seeded, store) = full("lane", {})
     /\ \A p \in {walked, named, seeded} :
          Embedded(p) = Total([i \in DOMAIN p |-> IF p[i].reused THEN 0 ELSE p[i].count])

\* The checks that skip or refuse a rebuild judge the plan it would make: one that finds
\* nothing moved would plan only reuse, one that finds something would plan more unless a file
\* cannot be read, and what would be chunked was measured (create.py:206 and :239, scope.py).
ChecksFollowThePlan ==
  NoLane =>
  LET tr == tree["base"] m == store.manifest
      fresh(p) == {p[i].path : i \in {j \in DOMAIN p : ~p[j].reused}}
      changesNothing(p) == fresh(p) = {} /\ Paths(p) = Paths(m)
      unread(files) == \E f \in files : tr[f].text = Unreadable
      walked == PlanFiles("base", tr, ignored, m)
  IN /\ \A changed \in SUBSET Files :
          LET named == PlanChangedFiles("base", tr, ignored, changed, m)
              moves == ChangeSetMovesAnything(tr, ignored, changed, m)
          IN /\ changesNothing(named) => ~moves \/ unread(changed)
             /\ ~moves => changesNothing(named)
             /\ fresh(named) \subseteq EstimateChangedPaths(tr, ignored, changed, m)
     /\ changesNothing(walked) => ~TreeMovesAnything(tr, ignored, m) \/ unread(Files)
     /\ ~TreeMovesAnything(tr, ignored, m) => changesNothing(walked)
     /\ fresh(walked) \subseteq EstimateTree(tr, ignored, m)

\* With no change waiting, the base's index lists exactly the files a walk would, as they are
\* now, except where nobody told it: paths of a refused rebuild (server.py:839), ignore files
\* edited since the last rescan, edits the watcher does not report, and links.
SettledIndexFollowsTree ==
  queue = NoChange =>
    \A f \in Files \ (Linked \cup excuse.refused \cup excuse.ruled) :
      <<"base", f>> \notin excuse.unseen =>
        IF f \in Range(Walk(tree["base"], ignored)) /\ tree["base"][f].text \in Readable
        THEN Current(EntryOf(store.manifest, f), tree["base"][f])
        ELSE f \notin Paths(store.manifest)

\* With no change noted for it, the lane's index answers every file of the lane with that
\* file's text, whatever moved while it was planned.  Two things can mislead it, beside edits
\* nobody reports: a commit in the base between git's answers (lane.py:255-258); and an edit of
\* the base's file after its stat (overlay.py:258-261) that makes it the lane's by the time
\* the two are compared (lane.py:306).  The second lasts only until the base's index lists
\* the file as it is: a lane is planned again when its base is rebuilt.
SettledLaneFollowsTree ==
  overlay # None /\ plan.at = "idle" /\ ~replan /\ ~excuse.committed =>
    \A f \in Files :
      /\ <<"lane", f>> \notin excuse.unseen
      /\ f \in excuse.outrun => Current(EntryOf(store.manifest, f), tree["base"][f])
      => LET file == tree["lane"][f]
         IN IF f \notin Linked /\ file.text \in Readable
            THEN /\ Pieces[file.text] > 0 => f \in Paths(overlay.manifest)
                 /\ f \in Paths(overlay.manifest) =>
                      RowsOf(OverlayChunks(overlay), EntryOf(overlay.manifest, f)) = Chunks("lane", f, file.text)
            ELSE f \notin Paths(overlay.manifest)

-----------------------------------------------------------------------------
(* What the code does not keep: no run checks it. *)

\* plan_changed_files says a named path is "dropped when it is gone, ignored, or not something
\* the walk would have reached" (create.py:170-171): the code keeps the rows of a named path that
\* an ignore file has come to cover.
NamedPathsAreDropped ==
  [][RebuildChanged /\ store' # store =>
       queue.paths \cap Paths(store'.manifest) \subseteq Range(Walk(tree["base"], ignored))]_vars

===============================================================================
