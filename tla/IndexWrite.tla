------------------------------ MODULE IndexWrite ------------------------------
(***************************************************************************)
(* How one generation of an index is planned and written (index/create.py, *)
(* with the walk, the scope of a change set and the stores it fills), as   *)
(* operators on values.  LaneIndex runs them.                              *)
(*                                                                         *)
(* A tree maps a file to its text and its modification stamp.  A text is   *)
(* cut into Pieces[text] chunks; a chunk says what it was cut from and     *)
(* names its file through the capsule.  A manifest is a sequence, as the   *)
(* code's dict keeps its order.  Rows are numbered from 0, as in the code. *)
(*                                                                         *)
(* What is abstracted: chunking and tokenizing to the text a row was cut   *)
(* from, so the three writers of rows, postings and names receive one      *)
(* stream of calls and a posting list is that of a text; a vector to the   *)
(* chunk it embeds; bytes of work to files; sub-directories, content types *)
(* and excludes to the set of ignored files.                               *)
(***************************************************************************)
EXTENDS Integers, FiniteSets, SequencesExt

CONSTANTS
  Order,      \* every path a tree may hold, in the order of the walk (and of their names)
  Negated,    \* paths only an ignore file's negation lets in: their suffix is none of the content's
  Linked,     \* paths that are symbolic links
  Renamed,    \* paths whose capsule names another repository folder in another checkout
  Pieces,     \* readable text |-> the chunks it is cut into
  Blank,      \* the text of a file without content
  Unreadable, \* stands for the text of a file that cannot be read
  Gone,       \* stands for the text of a path where no file is
  None        \* no entry, no index, no vector

Files == Range(Order)
Readable == DOMAIN Pieces

ASSUME WriteAssumption ==
  /\ Order \in Seq(Files) /\ IsInjective(Order) /\ Negated \subseteq Files /\ Linked \subseteq Files /\ Renamed \subseteq Files
  /\ Pieces \in [Readable -> Nat]
  /\ {Blank, Unreadable, Gone} \cap Readable = {}

-----------------------------------------------------------------------------
(* Files and chunks. *)

Valid(file) == file.text \notin {Gone, Blank}

Capsule(root, f) == IF f \in Renamed THEN <<root, f>> ELSE <<f>>

Chunks(root, f, text) ==
  [i \in 1..Pieces[text] |-> [path |-> f, text |-> text, slot |-> i, capsule |-> Capsule(root, f)]]

\* The files of a set, in the order of the walk.
InOrder(files) == FlattenSeq([i \in DOMAIN Order |-> IF Order[i] \in files THEN <<Order[i]>> ELSE <<>>])

\* What a walk reaches, in its order: links are not followed.
Walk(tree, ignored) == InOrder({f \in Files \ (ignored \cup Linked) : Valid(tree[f])})

Paths(manifest) == {e.path : e \in Range(manifest)}
EntryOf(manifest, f) ==
  LET at == {i \in DOMAIN manifest : manifest[i].path = f}
  IN IF at = {} THEN None ELSE manifest[CHOOSE i \in at : TRUE]
Current(entry, file) == entry # None /\ entry.stamp = file.stamp

\* The sum of a sequence of numbers, and the rows of a manifest or of a plan.
Total(numbers) ==
  LET sum[i \in 0..Len(numbers)] == IF i = 0 THEN 0 ELSE sum[i - 1] + numbers[i] IN sum[Len(numbers)]
Rows(entries) == Total([i \in DOMAIN entries |-> entries[i].count])

-----------------------------------------------------------------------------
(* A plan: the files of a build in row order.  A file that is left out gives <<>>. *)

Reused(entry, stamp) ==
  <<[path |-> entry.path, stamp |-> stamp, reused |-> TRUE, first |-> entry.start, count |-> entry.count, chunks |-> <<>>]>>

Chunked(root, f, file) ==
  IF file.text \in Readable
  THEN <<[path |-> f, stamp |-> file.stamp, reused |-> FALSE, first |-> -1, count |-> Pieces[file.text],
          chunks |-> Chunks(root, f, file.text)]>>
  ELSE <<>>

PlanFile(root, tree, f, entry) ==
  IF ~Valid(tree[f]) THEN <<>>
  ELSE IF Current(entry, tree[f]) THEN Reused(entry, entry.stamp) ELSE Chunked(root, f, tree[f])

\* The plan of a walk.
PlanFiles(root, tree, ignored, manifest) ==
  LET walk == Walk(tree, ignored)
  IN FlattenSeq([i \in DOMAIN walk |-> PlanFile(root, tree, walk[i], EntryOf(manifest, walk[i]))])

\* Whether a sibling checkout's rows of a file are ours.
SameAsSibling(root, file, sibling, theirs, entry) ==
  /\ Current(entry, theirs)
  /\ Capsule(root, entry.path) = Capsule(sibling, entry.path)
  /\ file.text = theirs.text

\* The plan of a first build that borrows the rows of a sibling checkout.
PlanSeeded(root, tree, ignored, manifest, sibling, theirs) ==
  LET walk == Walk(tree, ignored)
  IN FlattenSeq([i \in DOMAIN walk |->
    LET f == walk[i] entry == EntryOf(manifest, f)
    IN IF entry # None /\ SameAsSibling(root, tree[f], sibling, theirs[f], entry)
       THEN Reused(entry, tree[f].stamp) ELSE Chunked(root, f, tree[f])])

\* Which of the named paths count.
ChangedIndexedPaths(changed, ignored) == changed \ (Negated \cup ignored)

\* The plan of a change set: the previous order, with the new files at its end.
PlanChangedFiles(root, tree, ignored, changed, manifest) ==
  LET touched == ChangedIndexedPaths(changed, ignored)
      added == InOrder(touched \ Paths(manifest))
  IN FlattenSeq([i \in DOMAIN manifest |->
       IF manifest[i].path \in touched THEN PlanFile(root, tree, manifest[i].path, manifest[i])
       ELSE Reused(manifest[i], manifest[i].stamp)])
     \o FlattenSeq([i \in DOMAIN added |-> PlanFile(root, tree, added[i], None)])

\* Edits and additions alone.
ChangeSetEditsAnything(tree, ignored, changed, manifest) ==
  \E f \in ChangedIndexedPaths(changed, ignored) : Valid(tree[f]) /\ ~Current(EntryOf(manifest, f), tree[f])

ChangeSetMovesAnything(tree, ignored, changed, manifest) ==
  \E f \in ChangedIndexedPaths(changed, ignored) :
    IF Valid(tree[f]) THEN ~Current(EntryOf(manifest, f), tree[f]) ELSE f \in Paths(manifest)

TreeEditsAnything(tree, ignored, manifest) ==
  \E f \in Range(Walk(tree, ignored)) : ~Current(EntryOf(manifest, f), tree[f])

TreeMovesAnything(tree, ignored, manifest) ==
  LET walk == Walk(tree, ignored)
  IN \/ \E f \in Range(walk) : ~Current(EntryOf(manifest, f), tree[f])
     \/ Len(walk) # Len(manifest)

\* What the guard measures: the files a walk, or a change set, would chunk.
StillWork(tree, manifest, files) == {f \in files : tree[f].text # Gone /\ ~Current(EntryOf(manifest, f), tree[f])}
EstimateTree(tree, ignored, manifest) == StillWork(tree, manifest, Files \ (ignored \cup Linked))
EstimateChangedPaths(tree, ignored, changed, manifest) ==
  StillWork(tree, manifest, ChangedIndexedPaths(changed, ignored))

-----------------------------------------------------------------------------
(* Writing a plan.  A writer holds the manifest and the row it has reached, the runs the  *)
(* vectors will be filled from, the calls its stores received (a new chunk, or a previous  *)
(* row) and the reused rows it still waits to copy in one step. *)

\* A fresh run of k rows taken for reused rows up to k - 1.
ContinuesAnything(run, start, previous) ==
  /\ run.start + run.count = start
  /\ \/ previous < 0 /\ run.previous < 0
     \/ run.previous + run.count = previous

Continues(run, start, previous) ==
  /\ run.start + run.count = start
  /\ \/ previous < 0 /\ run.previous < 0
     \/ previous >= 0 /\ run.previous >= 0 /\ run.previous + run.count = previous

Extend(runs, start, count, previous) ==
  IF count = 0 THEN runs
  ELSE IF runs # <<>> /\ Continues(Last(runs), start, previous)
  THEN Append(Front(runs), [Last(runs) EXCEPT !.count = @ + count])
  ELSE Append(runs, [start |-> start, count |-> count, previous |-> previous])

Writer == [manifest |-> <<>>, row |-> 0, runs |-> <<>>, calls |-> <<>>, first |-> 0, waiting |-> 0]

CopyReused(w) ==
  [w EXCEPT !.calls = @ \o [i \in 1..w.waiting |-> [from |-> w.first + i - 1, chunk |-> None]], !.waiting = 0]

Listed(w, p) ==
  [w EXCEPT !.manifest = Append(@, [path |-> p.path, stamp |-> p.stamp, start |-> w.row, count |-> p.count]),
            !.runs = Extend(@, w.row, p.count, p.first), !.row = @ + p.count]

\* Every reused file taken for the continuation of the one before.
WriteReusedOn(w, p) ==
  [Listed(w, p) EXCEPT !.first = IF w.waiting = 0 THEN p.first ELSE @, !.waiting = @ + p.count]

WriteReused(w, p) ==
  LET cut == IF w.waiting > 0 /\ p.first # w.first + w.waiting THEN CopyReused(w) ELSE w
  IN [Listed(cut, p) EXCEPT !.first = IF cut.waiting = 0 THEN p.first ELSE @, !.waiting = @ + p.count]

WriteChunked(w, p) ==
  [Listed(CopyReused(w), p) EXCEPT !.calls = @ \o [i \in 1..p.count |-> [from |-> -1, chunk |-> p.chunks[i]]]]

\* The writer after the files of the plan, one by one.
WritePlan(plan) ==
  LET writer[n \in 0..Len(plan)] ==
        IF n = 0 THEN Writer
        ELSE IF plan[n].reused THEN WriteReused(writer[n - 1], plan[n]) ELSE WriteChunked(writer[n - 1], plan[n])
  IN CopyReused(writer[Len(plan)])

\* The rows of the previous store, moved to where they were carried.
Carried(calls, rows) == {i - 1 : i \in {j \in DOMAIN calls : calls[j].from \in rows}}
WrittenChunks(calls, previous) ==
  [i \in DOMAIN calls |-> IF calls[i].from < 0 THEN calls[i].chunk ELSE previous.chunks[calls[i].from + 1]]
WrittenPostings(calls, previous) ==
  [t \in Readable |-> {i - 1 : i \in {j \in DOMAIN calls : calls[j].from < 0 /\ calls[j].chunk.text = t}}
                      \cup (IF previous = None THEN {} ELSE Carried(calls, previous.postings[t]))]

\* Reused runs are copied, fresh runs are embedded from the chunks just written.
WriteVectors(runs, total, previous, chunks) ==
  [i \in 1..total |->
    LET holding == {r \in Range(runs) : r.start < i /\ i <= r.start + r.count}
    IN IF holding = {} THEN None
       ELSE LET r == CHOOSE x \in holding : TRUE
            IN IF r.previous < 0 THEN chunks[i] ELSE previous.vectors[r.previous + i - r.start]]

\* The rows a plan's vectors are bought for.
Embedded(plan) ==
  LET runs == WritePlan(plan).runs IN Total([i \in DOMAIN runs |-> IF runs[i].previous < 0 THEN runs[i].count ELSE 0])

\* No row, no index: the build raises.
WritePlanned(plan, previous) ==
  LET w == WritePlan(plan) chunks == WrittenChunks(w.calls, previous)
  IN IF w.row = 0 THEN None
     ELSE [manifest |-> w.manifest, chunks |-> chunks, postings |-> WrittenPostings(w.calls, previous),
           vectors |-> WriteVectors(w.runs, w.row, previous, chunks)]

ManifestOf(index) == IF index = None THEN <<>> ELSE index.manifest

===============================================================================
