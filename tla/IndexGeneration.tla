--------------------------- MODULE IndexGeneration ---------------------------
(***************************************************************************)
(* How the stored index of one root is validated, built, published and     *)
(* loaded (index/index.py from_path, build, load_from_disk;                *)
(* index/generation.py; cache.py get_validated_cache and                   *)
(* load_previous_for_incremental).  Command line, MCP servers and the      *)
(* daemon do this at once and share nothing but the folder and its lock.   *)
(*                                                                         *)
(* A build plans the tree file by file, reuses the rows of files whose     *)
(* modification time the previous manifest has, writes a staging folder    *)
(* and renames its stores one by one over the previous ones, the metadata  *)
(* last.  A load reads the stores one by one under the shared lock; the    *)
(* stores a build reuses rows from are read without it.                    *)
(*                                                                         *)
(* What is abstracted: a file's content is its modification time (ver, 0   *)
(* for no such file) and how many chunks it has (size); a store is, per    *)
(* file, which content its rows were made from.  The symbol store is read  *)
(* and written beside the postings and is one with them.  Seeding from a   *)
(* sibling checkout and the scope and bill guards refuse or begin a build  *)
(* like the absence of a previous index does, and are left out.            *)
(***************************************************************************)
EXTENDS Naturals, FiniteSetsExt

CONSTANTS
  Procs,
  FileCount,  \* files are 1..FileCount, in the order a walk meets them
  MaxSize,    \* bound: chunks of a file
  MaxEdits,   \* bound: edits of the tree
  MaxLost,    \* bound: processes killed
  MaxBuilds   \* bound: builds planned

ASSUME BoundsAssumption ==
  /\ FileCount \in Nat \ {0} /\ MaxSize \in Nat \ {0} /\ MaxEdits \in Nat
  /\ MaxLost \in Nat /\ MaxBuilds \in Nat

Files == 1..FileCount
Missing == [ver |-> 0, size |-> 0]
Nothing == [f \in Files |-> Missing]   \* a store that is not there: an index with no row is never written
NoManifest == [files |-> Nothing, time |-> 0, late |-> {}]

Stores == {"bm25", "chunks", "vectors", "symbols"}

\* load_previous_for_incremental checks these file by file; the symbols by their number of rows.
Checked == Stores \ {"symbols"}
NoStores == [s \in Stores |-> Nothing]
StoreCount == 5                        \* the four and the metadata
PublishOrder == <<"bm25", "chunks", "vectors", "symbols", "meta">>
\* A mutant of PreviousOrder: the manifest is read last.
ManifestLast == <<"chunks", "vectors", "bm25", "symbols", "meta">>

PreviousOrder == <<"meta", "chunks", "vectors", "bm25", "symbols">>
LoadOrder == <<"meta", "bm25", "vectors", "chunks", "symbols">>

VARIABLES
  tree,    \* the files on disk
  clock,   \* the time: edits so far
  disk,    \* the published stores
  meta,    \* the published metadata: what was indexed and when it was written
  holders, \* processes with a lock on index.lock: p -> "free", "shared", "exclusive"
  pc, next, step, \* a process: where it is, the file it plans, the stores it has read or renamed so far
  got, man,       \* stores and manifest it has read (and serves, once loaded)
  stage, plan,    \* the generation it builds: stores and manifest
  lost,    \* history: processes killed
  builds,  \* history: builds planned
  torn,    \* history: a publish was killed between two renames, none completed since
  mixed,   \* history: p's last load read a torn folder
  passedOn,  \* history: a rebuild of the daemon began from such a load
  newest,    \* history: the latest content of a file that any published manifest had
  regressed, \* history: a publish began of a plan that knows an older content than that
  blurred    \* history: a build began from vectors that are not, file by file, as long as the rest

disks == <<disk, meta, torn, newest>>
reading == <<got, man, mixed>>
building == <<next, stage, plan>>
blames == <<passedOn, regressed, blurred>>
hist == <<lost, builds, blames>>
vars == <<tree, clock, disks, holders, pc, step, reading, building, hist>>

Present(c) == {f \in Files : c[f].size > 0}
Sizes(c) == [f \in Files |-> c[f].size]
RowsBefore(sizes, f) == MapThenSumSet(LAMBDA g : sizes[g], 1..(f - 1))
Rows(sizes) == MapThenSumSet(LAMBDA g : sizes[g], Files)
Start(c, f) == RowsBefore(Sizes(c), f)
Total(c) == Rows(Sizes(c))

\* A small workspace, indexed or not.
Init ==
  /\ tree = [f \in Files |-> IF f < FileCount THEN [ver |-> 1, size |-> MaxSize] ELSE Missing]
  /\ clock = 1
  /\ \/ disk = NoStores /\ meta = NoManifest
     \/ disk = [s \in Stores |-> tree] /\ meta = [files |-> tree, time |-> 1, late |-> {}]
  /\ holders = [p \in Procs |-> "free"]
  /\ pc = [p \in Procs |-> "idle"]
  /\ next = [p \in Procs |-> 1] /\ step = [p \in Procs |-> 0]
  /\ got = [p \in Procs |-> NoStores] /\ man = [p \in Procs |-> NoManifest]
  /\ stage = got /\ plan = man
  /\ lost = 0 /\ builds = 0 /\ torn = FALSE /\ mixed = [p \in Procs |-> FALSE]
  /\ newest = [f \in Files |-> meta.files[f].ver]
  /\ passedOn = FALSE /\ regressed = FALSE /\ blurred = FALSE

-----------------------------------------------------------------------------
(* The user. *)

\* Between a build's stat of a file and the time it stamps on the metadata, an
\* edit is older than the stamp and newer than what was read.
Overtakes(p, f) == \/ pc[p] \in {"plan", "read"} /\ f < next[p]
                   \/ pc[p] = "read" /\ f = next[p]

Edit(f) ==
  /\ clock <= MaxEdits
  /\ clock' = clock + 1
  /\ \E size \in 0..MaxSize :
       tree' = [tree EXCEPT ![f] = IF size = 0 THEN Missing ELSE [ver |-> clock + 1, size |-> size]]
  /\ plan' = [p \in Procs |-> IF Overtakes(p, f) THEN [plan[p] EXCEPT !.late = @ \cup {f}] ELSE plan[p]]
  /\ UNCHANGED <<disks, holders, pc, step, reading, next, stage, hist>>

-----------------------------------------------------------------------------
(* from_path: is the stored index good as it is? *)

Complete == meta # NoManifest /\ \A s \in Stores : disk[s] # Nothing

Go(p, where) == pc' = [pc EXCEPT ![p] = where]
Forget(p) == got' = [got EXCEPT ![p] = NoStores] /\ man' = [man EXCEPT ![p] = NoManifest]
Unstage(p) == stage' = [stage EXCEPT ![p] = NoStores] /\ plan' = [plan EXCEPT ![p] = NoManifest]

\* The stores load_previous_for_incremental reads, or none when one is not there.
Begin(p) ==
  /\ pc[p] \in {"idle", "served"}
  /\ IF Complete THEN Go(p, "walk") /\ man' = [man EXCEPT ![p] = meta]
                 ELSE Go(p, "previous") /\ UNCHANGED man
  /\ got' = [got EXCEPT ![p] = NoStores] /\ mixed' = [mixed EXCEPT ![p] = FALSE]
  /\ UNCHANGED <<tree, clock, disks, holders, step, building, hist>>

\* A mutant of Validated: it does not look for files that are gone.
ValidatedByTime(p) == \A f \in Files : tree[f].ver <= man[p].time

\* get_validated_cache: no file is newer than the metadata, and the same files are there.
Validated(p) ==
  /\ \A f \in Files : tree[f].ver <= man[p].time
  /\ Present(tree) = Present(man[p].files)

Walk(p) ==
  /\ pc[p] = "walk"
  /\ Go(p, IF Validated(p) THEN "open" ELSE "previous")
  /\ UNCHANGED <<tree, clock, disks, holders, step, reading, building, hist>>

-----------------------------------------------------------------------------
(* load_previous_for_incremental: no lock, one store after the other. *)

\* One store is opened; what is renamed over later does not change what is mapped.
ReadStore(p, order) ==
  /\ step[p] < StoreCount
  /\ LET s == order[step[p] + 1] IN
       IF s = "meta" THEN man' = [man EXCEPT ![p] = meta] /\ UNCHANGED got
                     ELSE got' = [got EXCEPT ![p][s] = disk[s]] /\ UNCHANGED man
  /\ step' = [step EXCEPT ![p] = @ + 1]

\* The counts agree, and the paths of the chunks and the postings' ids are the manifest's.
Consistent(p) ==
  /\ man[p] # NoManifest
  /\ \A s \in Stores : Total(got[p][s]) = Total(man[p].files)
  /\ \A s \in {"chunks", "bm25"} : Sizes(got[p][s]) = Sizes(man[p].files)

ReadPrevious(p) ==
  /\ pc[p] = "previous"
  /\ ReadStore(p, PreviousOrder)
  /\ UNCHANGED <<tree, clock, disks, holders, pc, mixed, building, hist>>

StartPlan(p) ==
  /\ builds < MaxBuilds /\ builds' = builds + 1
  /\ Unstage(p)
  /\ Go(p, "plan")

EndPrevious(p) ==
  /\ pc[p] = "previous" /\ step[p] = StoreCount
  /\ StartPlan(p)
  /\ IF Consistent(p) THEN UNCHANGED <<got, man>>
                      ELSE Forget(p)
  /\ step' = [step EXCEPT ![p] = 0]
  /\ blurred' = (blurred \/ (Consistent(p) /\ Sizes(got[p]["vectors"]) # Sizes(man[p].files)))
  /\ UNCHANGED <<tree, clock, disks, holders, next, mixed, lost, passedOn, regressed>>

-----------------------------------------------------------------------------
(* plan_files and write_planned. *)

\* Rows are reused by position: those a store has at the manifest's range.
Reused(p, s, f) ==
  LET old == man[p].files IN
  IF Start(got[p][s], f) = Start(old, f) /\ got[p][s][f].size = old[f].size
  THEN got[p][s][f] ELSE [ver |-> 0, size |-> old[f].size]

\* A file that is gone, or that the previous manifest has at this modification time.
StatOld(p) ==
  LET f == next[p] IN
  /\ pc[p] = "plan" /\ f \in Files
  /\ tree[f].ver = man[p].files[f].ver \/ tree[f] = Missing
  /\ next' = [next EXCEPT ![p] = f + 1]
  /\ IF tree[f] = Missing THEN UNCHANGED <<stage, plan>>
     ELSE /\ plan' = [plan EXCEPT ![p].files[f] = man[p].files[f]]
          /\ stage' = [stage EXCEPT ![p] = [s \in Stores |-> [@[s] EXCEPT ![f] = Reused(p, s, f)]]]
  /\ UNCHANGED <<tree, clock, disks, holders, pc, step, reading, hist>>

\* Any other file is stat'ed first and read afterwards.
StatNew(p) ==
  LET f == next[p] IN
  /\ pc[p] = "plan" /\ f \in Files
  /\ tree[f].ver # man[p].files[f].ver /\ tree[f] # Missing
  /\ plan' = [plan EXCEPT ![p].files[f] = tree[f]]
  /\ Go(p, "read")
  /\ UNCHANGED <<tree, clock, disks, holders, next, step, reading, stage, hist>>

ReadFile(p) ==
  LET f == next[p] IN
  /\ pc[p] = "read"
  /\ Go(p, "plan")
  /\ next' = [next EXCEPT ![p] = f + 1]
  /\ IF tree[f] = Missing
     THEN plan' = [plan EXCEPT ![p].files[f] = Missing] /\ UNCHANGED stage
     ELSE /\ plan' = [plan EXCEPT ![p].files[f].size = tree[f].size]
          /\ stage' = [stage EXCEPT ![p] = [s \in Stores |-> [@[s] EXCEPT ![f] = tree[f]]]]
  /\ UNCHANGED <<tree, clock, disks, holders, step, reading, hist>>

\* write_planned refuses an index without a row; write_metadata reads the time
\* when everything else is written.
EndPlan(p) ==
  /\ pc[p] = "plan" /\ next[p] \notin Files
  /\ next' = [next EXCEPT ![p] = 1]
  /\ IF Present(plan[p].files) = {}
     THEN Go(p, "idle") /\ Unstage(p) /\ Forget(p)
     ELSE /\ Go(p, "publish") /\ plan' = [plan EXCEPT ![p].time = clock]
          /\ UNCHANGED <<stage, got, man>>
  /\ UNCHANGED <<tree, clock, disks, holders, step, mixed, hist>>

-----------------------------------------------------------------------------
(* generation.publish. *)

LockExclusive(p) ==
  /\ pc[p] = "publish" /\ \A q \in Procs : holders[q] = "free"
  /\ holders' = [holders EXCEPT ![p] = "exclusive"]
  /\ Go(p, "rename")
  /\ regressed' = (regressed \/ \E f \in Files : plan[p].files[f].ver \in 1..(newest[f] - 1))
  /\ UNCHANGED <<tree, clock, disks, step, reading, building, lost, builds, passedOn, blurred>>

\* One os.replace; after the last, the lock file is closed.
Rename(p) ==
  /\ pc[p] = "rename"
  /\ LET s == PublishOrder[step[p] + 1] IN
     IF s = "meta"
     THEN /\ meta' = plan[p] /\ torn' = FALSE /\ UNCHANGED disk
          /\ newest' = [f \in Files |-> IF newest[f] < plan[p].files[f].ver THEN plan[p].files[f].ver ELSE newest[f]]
          /\ holders' = [holders EXCEPT ![p] = "free"] /\ step' = [step EXCEPT ![p] = 0]
          /\ Go(p, "open") /\ Unstage(p) /\ Forget(p)
     ELSE /\ disk' = [disk EXCEPT ![s] = stage[p][s]] /\ step' = [step EXCEPT ![p] = @ + 1]
          /\ UNCHANGED <<meta, torn, newest, holders, pc, stage, plan, got, man>>
  /\ UNCHANGED <<tree, clock, mixed, next, hist>>

-----------------------------------------------------------------------------
(* load_from_disk. *)

\* A mutant of LockShared: reading() does not wait for a publish.
LockSharedAnyway(p) ==
  /\ pc[p] = "open"
  /\ holders' = [holders EXCEPT ![p] = "shared"]
  /\ mixed' = [mixed EXCEPT ![p] = torn]
  /\ Go(p, "load") /\ Forget(p)
  /\ UNCHANGED <<tree, clock, disks, step, building, hist>>

LockShared(p) ==
  /\ pc[p] = "open" /\ \A q \in Procs : holders[q] # "exclusive"
  /\ holders' = [holders EXCEPT ![p] = "shared"]
  /\ mixed' = [mixed EXCEPT ![p] = torn]
  /\ Go(p, "load") /\ Forget(p)
  /\ UNCHANGED <<tree, clock, disks, step, building, hist>>

Load(p) ==
  /\ pc[p] = "load"
  /\ ReadStore(p, LoadOrder)
  /\ UNCHANGED <<tree, clock, disks, holders, pc, mixed, building, hist>>

\* Stores whose counts disagree are refused; the symbols are not counted.
EndLoad(p) ==
  /\ pc[p] = "load" /\ step[p] = StoreCount
  /\ step' = [step EXCEPT ![p] = 0]
  /\ holders' = [holders EXCEPT ![p] = "free"]
  /\ IF \A s, t \in Checked : Total(got[p][s]) = Total(got[p][t])
     THEN Go(p, "served") /\ UNCHANGED <<got, man>>
     ELSE Go(p, "idle") /\ Forget(p)
  /\ UNCHANGED <<tree, clock, disks, mixed, building, hist>>

\* The daemon's rebuild_index: it begins from the index it serves, when
\* tree_moves_anything finds a file whose modification time is not the manifest's.
RebuildServed(p) ==
  /\ pc[p] = "served"
  /\ \E f \in Files : tree[f].ver # man[p].files[f].ver
  /\ StartPlan(p)
  /\ passedOn' = (passedOn \/ mixed[p])
  /\ UNCHANGED <<tree, clock, disks, holders, next, step, reading, lost, regressed, blurred>>

\* A process that holds the lock is killed, and the kernel drops it.  Killed
\* elsewhere it leaves what a process leaves that takes no further step.
Lose(p) ==
  /\ holders[p] # "free" /\ lost < MaxLost
  /\ lost' = lost + 1
  /\ torn' = (torn \/ (pc[p] = "rename" /\ step[p] # 0))
  /\ holders' = [holders EXCEPT ![p] = "free"]
  /\ step' = [step EXCEPT ![p] = 0]
  /\ Go(p, "idle") /\ Forget(p) /\ Unstage(p)
  /\ mixed' = [mixed EXCEPT ![p] = FALSE]
  /\ UNCHANGED <<tree, clock, disk, meta, newest, next, builds, blames>>

Next ==
  \/ \E f \in Files : Edit(f)
  \/ \E p \in Procs :
       \/ Begin(p) \/ Walk(p) \/ ReadPrevious(p) \/ EndPrevious(p)
       \/ StatOld(p) \/ StatNew(p) \/ ReadFile(p) \/ EndPlan(p)
       \/ LockExclusive(p) \/ Rename(p)
       \/ LockShared(p) \/ Load(p) \/ EndLoad(p)
       \/ RebuildServed(p) \/ Lose(p)

Spec == Init /\ [][Next]_vars

-----------------------------------------------------------------------------
(* Properties. *)

\* No build began from what a torn folder held, from vectors of no one generation,
\* or published what was out of date.
Untainted == ~passedOn /\ ~regressed /\ ~blurred

\* A load under the shared lock serves stores of one generation and that
\* generation's manifest, unless the folder was left torn by a killed publish or
\* the daemon rebuilt from what such a folder held, or an old plan was published
\* (generation.py:54 and 62): locks and renames leave no other way.  Not so for
\* the symbols: a build may reuse those of another generation of equal length.
OnlyTornMixes ==
  \A p \in Procs : pc[p] = "served" /\ ~mixed[p] /\ Untainted =>
    \A f \in Files, s \in Checked : got[p][s][f].size = man[p].files[f].size
                                 /\ got[p][s][f].ver = got[p]["chunks"][f].ver

\* What get_validated_cache passes is the tree as it is, but for files edited
\* between the stat a build took of them and the time it stamped.
OnlyLateEditsHide ==
  [][\A p \in Procs : pc[p] = "walk" /\ pc'[p] = "open" =>
       \A f \in Files : man[p].files[f].ver = tree[f].ver \/ f \in man[p].late]_vars

\* "invalidated automatically when files change" (src/docs/installation.md:356).
ChangesInvalidate ==
  [][\A p \in Procs : pc[p] = "walk" /\ pc'[p] = "open" =>
       \A f \in Files : man[p].files[f].ver = tree[f].ver]_vars

\* Rows reused without a lock: in a generation that is about to be published,
\* every store has the same content of a file, and a file that is still what the
\* manifest says it was has exactly that content, even when the folder was torn
\* or was published anew between two reads.  What breaks it is a slow build that
\* publishes what it planned before one published since, or a reader that two publishes
\* overtake between the vectors and the postings: vectors are only counted, so those
\* of a generation in between pass, and rows are taken from them by position
\* (cache.py:646).
OnlyOldPlansMislead ==
  \A p \in Procs : pc[p] = "publish" /\ Untainted =>
    \A f \in Files :
      /\ \A s \in Checked : stage[p][s][f] = stage[p]["chunks"][f]
      /\ plan[p].files[f].ver = tree[f].ver => stage[p]["chunks"][f] = tree[f]
=============================================================================
