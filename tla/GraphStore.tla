------------------------------ MODULE GraphStore ------------------------------
(***************************************************************************)
(* The versioned symbol-graph store of one workspace                       *)
(* (src/zemble/graph/store.py, "the versioned layout").                    *)
(*                                                                         *)
(* A folder holds version files graph-<n>.sqlite, the pointer file         *)
(* graph.current naming the current version and the one it replaced, one   *)
(* "-readers" sidecar per version whose flock marks the version as read,   *)
(* and graph.lock, whose flock admits one writer.  A full build writes a   *)
(* new version and publishes it by renaming the pointer; an incremental    *)
(* refresh writes the current version in one WAL transaction; every writer *)
(* retires the versions no reader holds.  Readers take no part in the      *)
(* writers' lock: pointer read, existence check, open of the sidecar,      *)
(* shared flock and re-check are separate system calls, and so are the     *)
(* unlinks of a retirement.                                                *)
(*                                                                         *)
(* What is abstracted: the rows of a version are the revision of the       *)
(* source tree they were extracted from; the -journal/-wal/-shm files go   *)
(* with the version's database; a WAL transaction that has not committed   *)
(* is invisible and vanishes with its writer.  Inodes: a descriptor of a   *)
(* sidecar is "fresh" while the path still names its inode, which an       *)
(* unlink of the path ends; an inode number is not recycled while a        *)
(* descriptor is open on it, so one flag per descriptor is enough.  The    *)
(* workspace has no single-file store of an older zemble.                  *)
(***************************************************************************)
EXTENDS Naturals

CONSTANTS
  Readers,      \* threads that open connections on the store
  Writers,      \* processes that build, sweep or compact it
  NoOne,        \* the lock's holder when it is free
  MaxVersion,   \* bound: highest version number a writer creates
  MaxEdits,     \* bound: number of edits of the source tree
  HoldAttempts  \* _HOLD_ATTEMPTS: tries of _connect_current

ASSUME BoundsAssumption == /\ MaxVersion \in Nat
                           /\ MaxEdits \in Nat
                           /\ HoldAttempts \in Nat \ {0}
ASSUME NoOneAssumption == NoOne \notin Writers

VARIABLES
  tree,      \* revision of the source tree
  db,        \* versions whose database file is on disk
  sidecar,   \* versions whose -readers file is on disk
  complete,  \* versions whose content is a whole committed build
  rows,      \* rows[v]: the tree revision version v was built from
  pointer,   \* graph.current: cur and prev, 0 for an absent name
  published, \* history: every version the pointer ever named as current
  lock,      \* the holder of graph.lock
  rpc, rver, fresh, tries,             \* the readers' control and descriptors
  wpc, kind, base, new, seen, todo, victim   \* the writers' control

diskVars   == <<db, sidecar, complete, rows, pointer, published>>
readerVars == <<rpc, rver, fresh, tries>>
writerVars == <<wpc, kind, base, new, seen, todo, victim>>
vars == <<tree, diskVars, lock, readerVars, writerVars>>

Versions == 1..MaxVersion
Kinds == {"build", "force", "sweep", "compact"}

OnDisk == db \cup sidecar

\* A mutant of IsNextVersion: the lowest free number instead of one above all.
FillsGap(n) ==
  /\ n \in Versions \ OnDisk
  /\ \A m \in 1..(n - 1) : m \in OnDisk

\* _next_version: one above every version file or sidecar in the folder.
IsNextVersion(n) ==
  /\ n \in Versions
  /\ \A m \in OnDisk : m < n
  /\ n = 1 \/ n - 1 \in OnDisk

\* The versions a sweep has to retire: every one but the current.
RetiredVersions(current) == OnDisk \ {current}

\* A reader's descriptor has the shared flock on the inode the path names.
HoldsShared(r, v) == rpc[r] \in {"locked", "held"} /\ rver[r] = v /\ fresh[r]

\* A retirement has the exclusive flock on that inode, until it unlinks it.
HoldsExclusive(w, v) == wpc[w] \in {"unlinkDb", "unlinkSidecar"} /\ victim[w] = v

\* v's sidecar is unlinked: every descriptor open on it is stale now.
SidecarGone(v) == fresh' = [r \in Readers |-> fresh[r] /\ rver[r] # v]

\* A writer is done, one way or another: its locals are gone, graph.lock is free.
LetGo(w) ==
  /\ lock' = IF lock = w THEN NoOne ELSE lock
  /\ wpc' = [wpc EXCEPT ![w] = "idle"]
  /\ kind' = [kind EXCEPT ![w] = "build"]
  /\ base' = [base EXCEPT ![w] = 0]
  /\ new' = [new EXCEPT ![w] = 0]
  /\ seen' = [seen EXCEPT ![w] = 0]
  /\ todo' = [todo EXCEPT ![w] = {}]
  /\ victim' = [victim EXCEPT ![w] = 0]

-----------------------------------------------------------------------------
Init ==
  /\ tree = 0
  /\ db = {} /\ sidecar = {} /\ complete = {}
  /\ rows = [v \in Versions |-> 0]
  /\ pointer = [cur |-> 0, prev |-> 0]
  /\ published = {}
  /\ lock = NoOne
  /\ rpc = [r \in Readers |-> "idle"]
  /\ rver = [r \in Readers |-> 0]
  /\ fresh = [r \in Readers |-> FALSE]
  /\ tries = [r \in Readers |-> 0]
  /\ wpc = [w \in Writers |-> "idle"]
  /\ kind = [w \in Writers |-> "build"]
  /\ base = [w \in Writers |-> 0]
  /\ new = [w \in Writers |-> 0]
  /\ seen = [w \in Writers |-> 0]
  /\ todo = [w \in Writers |-> {}]
  /\ victim = [w \in Writers |-> 0]

\* Someone edits the workspace.
Edit ==
  /\ tree < MaxEdits
  /\ tree' = tree + 1
  /\ UNCHANGED <<diskVars, lock, readerVars, writerVars>>

-----------------------------------------------------------------------------
(* Readers: _connect_current and _hold_version.                            *)

\* The pointer file is read; no pointer means no graph yet.
ReadPointer(r) ==
  /\ rpc[r] \in {"idle", "again"}
  /\ IF pointer.cur = 0
       THEN rpc' = [rpc EXCEPT ![r] = "missing"] /\ UNCHANGED rver
       ELSE rpc' = [rpc EXCEPT ![r] = "named"] /\ rver' = [rver EXCEPT ![r] = pointer.cur]
  /\ tries' = [tries EXCEPT ![r] = @ + 1]
  /\ UNCHANGED <<tree, diskVars, lock, fresh, writerVars>>

\* _read_pointer goes on to check that the version it names is there.
CheckNamed(r) ==
  /\ rpc[r] = "named"
  /\ rpc' = [rpc EXCEPT ![r] = IF rver[r] \in db THEN "resolved" ELSE "corrupt"]
  /\ UNCHANGED <<tree, diskVars, lock, rver, fresh, tries, writerVars>>

\* os.open(O_RDWR | O_CREAT) of the sidecar.
OpenSidecar(r) ==
  /\ rpc[r] = "resolved"
  /\ sidecar' = sidecar \cup {rver[r]}
  /\ fresh' = [fresh EXCEPT ![r] = TRUE]
  /\ rpc' = [rpc EXCEPT ![r] = "opened"]
  /\ UNCHANGED <<tree, db, complete, rows, pointer, published, lock, rver, tries, writerVars>>

\* flock(LOCK_SH) waits for a retirement that has the same inode exclusively.
LockShared(r) ==
  /\ rpc[r] = "opened"
  /\ ~ \E w \in Writers : fresh[r] /\ HoldsExclusive(w, rver[r])
  /\ rpc' = [rpc EXCEPT ![r] = "locked"]
  /\ UNCHANGED <<tree, diskVars, lock, rver, fresh, tries, writerVars>>

\* A mutant of CheckHold: the inode is compared, the database not looked for.
InodeOnly(r) ==
  /\ rpc[r] = "locked"
  /\ IF fresh[r]
       THEN rpc' = [rpc EXCEPT ![r] = "held"] /\ UNCHANGED fresh
       ELSE /\ rpc' = [rpc EXCEPT ![r] = IF tries[r] < HoldAttempts THEN "again" ELSE "corrupt"]
            /\ fresh' = [fresh EXCEPT ![r] = FALSE]
  /\ UNCHANGED <<tree, diskVars, lock, rver, tries, writerVars>>

\* A mutant of CheckHold: a version found gone is tried again by its name.
SameNameAgain(r) ==
  /\ rpc[r] = "locked"
  /\ rpc' = [rpc EXCEPT ![r] = IF fresh[r] /\ rver[r] \in db THEN "held" ELSE "resolved"]
  /\ UNCHANGED <<tree, diskVars, lock, rver, fresh, tries, writerVars>>

\* The two stats after the lock: held, or closed and the pointer read again.
CheckHold(r) ==
  /\ rpc[r] = "locked"
  /\ IF fresh[r] /\ rver[r] \in db
       THEN rpc' = [rpc EXCEPT ![r] = "held"] /\ UNCHANGED fresh
       ELSE /\ rpc' = [rpc EXCEPT ![r] = IF tries[r] < HoldAttempts THEN "again" ELSE "corrupt"]
            /\ fresh' = [fresh EXCEPT ![r] = FALSE]
  /\ UNCHANGED <<tree, diskVars, lock, rver, tries, writerVars>>

\* A connection is closed or a failed connect was reported; a reader that is
\* killed lets go of its descriptors at any point.
CloseReader(r) ==
  /\ rpc[r] # "idle"
  /\ rpc' = [rpc EXCEPT ![r] = "idle"]
  /\ rver' = [rver EXCEPT ![r] = 0]
  /\ fresh' = [fresh EXCEPT ![r] = FALSE]
  /\ tries' = [tries EXCEPT ![r] = 0]
  /\ UNCHANGED <<tree, diskVars, lock, writerVars>>

ConnectStep(r) == \/ ReadPointer(r) \/ CheckNamed(r) \/ OpenSidecar(r)
                  \/ LockShared(r) \/ CheckHold(r)

\* A step of a _connect_current under way.
Connecting(r) == rpc[r] # "idle" /\ ConnectStep(r)

-----------------------------------------------------------------------------
(* Writers.  A wait for graph.lock and a refused LOCK_NB change nothing.   *)

Acquire(w, k) ==
  /\ wpc[w] = "idle" /\ lock = NoOne
  /\ lock' = w
  /\ kind' = [kind EXCEPT ![w] = k]
  /\ wpc' = [wpc EXCEPT ![w] = "resolve"]
  /\ UNCHANGED <<tree, diskVars, readerVars, base, new, seen, todo, victim>>

\* The holder reads the pointer; a build and a sweep first retire what is
\* left on disk, a compaction looks at the current version first.
Resolve(w) ==
  /\ wpc[w] = "resolve"
  /\ base' = [base EXCEPT ![w] = pointer.cur]
  /\ todo' = [todo EXCEPT ![w] = IF pointer.cur = 0 THEN {} ELSE RetiredVersions(pointer.cur)]
  /\ wpc' = [wpc EXCEPT ![w] =
               IF pointer.cur = 0
                 THEN IF kind[w] \in {"build", "force"} THEN "plan" ELSE "release"
                 ELSE IF kind[w] = "compact" THEN "drift" ELSE "sweep"]
  /\ UNCHANGED <<tree, diskVars, lock, readerVars, kind, new, seen, victim>>

\* _retire under a LOCK_NB that a reader refuses: the version stays.
SweepSkip(w, v) ==
  /\ wpc[w] = "sweep" /\ v \in todo[w]
  /\ \E r \in Readers : HoldsShared(r, v)
  /\ todo' = [todo EXCEPT ![w] = @ \ {v}]
  /\ UNCHANGED <<tree, diskVars, lock, readerVars, wpc, kind, base, new, seen, victim>>

\* The exclusive lock is taken, on a sidecar created for it when missing.
SweepTake(w, v) ==
  /\ wpc[w] = "sweep" /\ v \in todo[w]
  /\ ~ \E r \in Readers : HoldsShared(r, v)
  /\ sidecar' = sidecar \cup {v}
  /\ victim' = [victim EXCEPT ![w] = v]
  /\ wpc' = [wpc EXCEPT ![w] = "unlinkDb"]
  /\ UNCHANGED <<tree, db, complete, rows, pointer, published, lock, readerVars,
                 kind, base, new, seen, todo>>

UnlinkDb(w) ==
  /\ wpc[w] = "unlinkDb"
  /\ db' = db \ {victim[w]}
  /\ complete' = complete \ {victim[w]}
  /\ rows' = [rows EXCEPT ![victim[w]] = 0]
  /\ wpc' = [wpc EXCEPT ![w] = "unlinkSidecar"]
  /\ UNCHANGED <<tree, sidecar, pointer, published, lock, readerVars,
                 kind, base, new, seen, todo, victim>>

\* The readers lock goes last.
UnlinkSidecar(w) ==
  /\ wpc[w] = "unlinkSidecar"
  /\ sidecar' = sidecar \ {victim[w]}
  /\ SidecarGone(victim[w])
  /\ todo' = [todo EXCEPT ![w] = @ \ {victim[w]}]
  /\ victim' = [victim EXCEPT ![w] = 0]
  /\ wpc' = [wpc EXCEPT ![w] = "sweep"]
  /\ UNCHANGED <<tree, db, complete, rows, pointer, published, lock, rpc, rver, tries,
                 kind, base, new, seen>>

\* The end of _sweep: the pointer forgets a previous version that is gone.
\* A build goes on to write; a compaction's own sweep follows its install.
EndSweep(w) ==
  /\ wpc[w] = "sweep" /\ todo[w] = {}
  /\ pointer' = IF pointer.prev \notin db THEN [pointer EXCEPT !.prev = 0] ELSE pointer
  /\ LET again == new[w] # 0 /\ kind[w] = "compact" IN
       /\ wpc' = [wpc EXCEPT ![w] =
                    IF again THEN "sweep"
                    ELSE IF new[w] = 0 /\ kind[w] \in {"build", "force"} THEN "plan" ELSE "release"]
       /\ todo' = [todo EXCEPT ![w] = IF again THEN RetiredVersions(pointer.cur) ELSE {}]
       /\ new' = [new EXCEPT ![w] = IF again THEN 0 ELSE @]
  /\ UNCHANGED <<tree, db, sidecar, complete, rows, published, lock, readerVars,
                 kind, base, seen, victim>>

\* _build_into, whole: a file under the next number, and the scan.
StartWhole(w, n) ==
  /\ wpc[w] = "plan" /\ (base[w] = 0 \/ kind[w] = "force")
  /\ IsNextVersion(n)
  /\ db' = db \cup {n}
  /\ new' = [new EXCEPT ![w] = n]
  /\ seen' = [seen EXCEPT ![w] = tree]
  /\ wpc' = [wpc EXCEPT ![w] = "writing"]
  /\ UNCHANGED <<tree, sidecar, complete, rows, pointer, published, lock, readerVars,
                 kind, base, todo, victim>>

\* The build of a new version commits; the file is closed, not yet named.
CommitWhole(w) ==
  /\ wpc[w] = "writing"
  /\ complete' = complete \cup {new[w]}
  /\ rows' = [rows EXCEPT ![new[w]] = seen[w]]
  /\ seen' = [seen EXCEPT ![w] = 0]
  /\ wpc' = [wpc EXCEPT ![w] = "publish"]
  /\ UNCHANGED <<tree, db, sidecar, pointer, published, lock, readerVars,
                 kind, base, new, todo, victim>>

\* _build_into, in place: the scan and the open transaction.
StartRefresh(w) ==
  /\ wpc[w] = "plan" /\ base[w] # 0 /\ kind[w] = "build"
  /\ seen' = [seen EXCEPT ![w] = tree]
  /\ wpc' = [wpc EXCEPT ![w] = "refreshing"]
  /\ UNCHANGED <<tree, diskVars, lock, readerVars, kind, base, new, todo, victim>>

CommitRefresh(w) ==
  /\ wpc[w] = "refreshing"
  /\ rows' = [rows EXCEPT ![base[w]] = seen[w]]
  /\ seen' = [seen EXCEPT ![w] = 0]
  /\ wpc' = [wpc EXCEPT ![w] = "drift"]
  /\ UNCHANGED <<tree, db, sidecar, complete, pointer, published, lock, readerVars,
                 kind, base, new, todo, victim>>

\* _compact_if_drifted finds too few free pages: nothing to rewrite.
NoDrift(w) ==
  /\ wpc[w] = "drift"
  /\ wpc' = [wpc EXCEPT ![w] = IF kind[w] = "compact" THEN "sweep" ELSE "release"]
  /\ todo' = [todo EXCEPT ![w] = IF kind[w] = "compact" THEN RetiredVersions(pointer.cur) ELSE {}]
  /\ UNCHANGED <<tree, diskVars, lock, readerVars, kind, base, new, seen, victim>>

\* VACUUM INTO starts writing the next version.
StartVacuum(w, n) ==
  /\ wpc[w] = "drift"
  /\ IsNextVersion(n)
  /\ db' = db \cup {n}
  /\ new' = [new EXCEPT ![w] = n]
  /\ wpc' = [wpc EXCEPT ![w] = "vacuum"]
  /\ UNCHANGED <<tree, sidecar, complete, rows, pointer, published, lock, readerVars,
                 kind, base, seen, todo, victim>>

\* The copy is finished and sealed.
EndVacuum(w) ==
  /\ wpc[w] = "vacuum"
  /\ complete' = complete \cup {new[w]}
  /\ rows' = [rows EXCEPT ![new[w]] = rows[base[w]]]
  /\ wpc' = [wpc EXCEPT ![w] = "publish"]
  /\ UNCHANGED <<tree, db, sidecar, pointer, published, lock, readerVars,
                 kind, base, new, seen, todo, victim>>

\* A mutant of Publish: the pointer is renamed before the build commits.
PublishFirst(w) ==
  /\ wpc[w] \in {"writing", "publish"}
  /\ pointer' = [cur |-> new[w], prev |-> base[w]]
  /\ published' = published \cup {new[w]}
  /\ todo' = [todo EXCEPT ![w] = RetiredVersions(new[w])]
  /\ wpc' = [wpc EXCEPT ![w] = "sweep"]
  /\ UNCHANGED <<tree, db, sidecar, complete, rows, lock, readerVars,
                 kind, base, new, seen, victim>>

\* _install: the pointer is renamed over, then every other version is swept.
Publish(w) ==
  /\ wpc[w] = "publish"
  /\ pointer' = [cur |-> new[w], prev |-> base[w]]
  /\ published' = published \cup {new[w]}
  /\ todo' = [todo EXCEPT ![w] = RetiredVersions(new[w])]
  /\ wpc' = [wpc EXCEPT ![w] = "sweep"]
  /\ UNCHANGED <<tree, db, sidecar, complete, rows, lock, readerVars,
                 kind, base, new, seen, victim>>

\* A mutant of Fail: what an in-place refresh had deleted so far is committed.
HalfCommitted(w) ==
  /\ wpc[w] \in {"plan", "writing", "refreshing", "vacuum"}
  /\ db' = db \ {new[w]}
  /\ sidecar' = sidecar \ {new[w]} /\ SidecarGone(new[w])
  /\ new' = [new EXCEPT ![w] = 0]
  /\ rows' = IF wpc[w] = "refreshing" THEN [rows EXCEPT ![base[w]] = 0] ELSE rows
  /\ wpc' = [wpc EXCEPT ![w] = "release"]
  /\ UNCHANGED <<tree, complete, pointer, published, lock, rpc, rver, tries,
                 kind, base, seen, todo, victim>>

\* The build raises: an unfinished new version is discarded, an in-place
\* transaction is rolled back.
Fail(w) ==
  /\ wpc[w] \in {"plan", "writing", "refreshing", "vacuum"}
  /\ db' = db \ {new[w]}
  /\ sidecar' = sidecar \ {new[w]} /\ SidecarGone(new[w])
  /\ new' = [new EXCEPT ![w] = 0]
  /\ wpc' = [wpc EXCEPT ![w] = "release"]
  /\ UNCHANGED <<tree, complete, rows, pointer, published, lock, rpc, rver, tries,
                 kind, base, seen, todo, victim>>

\* A build finds the current version malformed and starts over from source,
\* into a new version that replaces it outright.
FindMalformed(w) ==
  /\ wpc[w] \in {"refreshing", "vacuum"} /\ kind[w] = "build"
  /\ db' = db \ {new[w]}
  /\ sidecar' = sidecar \ {new[w]} /\ SidecarGone(new[w])
  /\ kind' = [kind EXCEPT ![w] = "force"]
  /\ base' = [base EXCEPT ![w] = 0]
  /\ new' = [new EXCEPT ![w] = 0]
  /\ wpc' = [wpc EXCEPT ![w] = "plan"]
  /\ UNCHANGED <<tree, complete, rows, pointer, published, lock, rpc, rver, tries, seen, todo, victim>>

Release(w) ==
  /\ wpc[w] = "release"
  /\ LetGo(w)
  /\ UNCHANGED <<tree, diskVars, readerVars>>

\* The process is killed anywhere: the kernel drops its locks, the files it
\* left stay, an open transaction never happened.
Crash(w) ==
  /\ wpc[w] # "idle"
  /\ LetGo(w)
  /\ UNCHANGED <<tree, diskVars, readerVars>>

WriterStep(w) ==
  \/ Resolve(w)
  \/ \E v \in Versions : SweepSkip(w, v) \/ SweepTake(w, v)
  \/ UnlinkDb(w) \/ UnlinkSidecar(w) \/ EndSweep(w)
  \/ \E n \in Versions : StartWhole(w, n) \/ StartVacuum(w, n)
  \/ CommitWhole(w) \/ StartRefresh(w) \/ CommitRefresh(w)
  \/ NoDrift(w) \/ EndVacuum(w) \/ Publish(w)
  \/ Fail(w) \/ FindMalformed(w) \/ Release(w)

Next ==
  \/ Edit
  \/ \E r \in Readers : ConnectStep(r) \/ CloseReader(r)
  \/ \E w \in Writers : (\E k \in Kinds : Acquire(w, k)) \/ WriterStep(w) \/ Crash(w)

\* The kernel runs a live process: a reader that has begun to connect goes on,
\* and so does the writer in its lock.  It also wakes the waiters of an flock
\* whenever the lock is dropped, so a reader is not passed over for ever by
\* sweeps that take the sidecar again and again.
Fairness ==
  /\ \A r \in Readers : WF_vars(Connecting(r)) /\ SF_vars(LockShared(r))
  /\ \A w \in Writers : WF_vars(WriterStep(w))

Spec == Init /\ [][Next]_vars
FairSpec == Spec /\ Fairness

-----------------------------------------------------------------------------
(* Properties.                                                             *)

TypeOK ==
  /\ tree \in 0..MaxEdits
  /\ db \subseteq Versions /\ sidecar \subseteq Versions /\ complete \subseteq Versions
  /\ rows \in [Versions -> 0..MaxEdits]
  /\ pointer \in [cur : 0..MaxVersion, prev : 0..MaxVersion]
  /\ published \subseteq Versions
  /\ lock \in Writers \cup {NoOne}
  /\ rpc \in [Readers -> {"idle", "again", "missing", "named", "resolved", "opened",
                          "locked", "held", "corrupt"}]
  /\ rver \in [Readers -> 0..MaxVersion]
  /\ fresh \in [Readers -> BOOLEAN]
  /\ tries \in [Readers -> 0..HoldAttempts]
  /\ wpc \in [Writers -> {"idle", "resolve", "sweep", "unlinkDb", "unlinkSidecar", "plan",
                          "writing", "refreshing", "drift", "vacuum", "publish", "release"}]
  /\ kind \in [Writers -> Kinds]
  /\ base \in [Writers -> 0..MaxVersion]
  /\ new \in [Writers -> 0..MaxVersion]
  /\ seen \in [Writers -> 0..MaxEdits]
  /\ todo \in [Writers -> SUBSET Versions]
  /\ victim \in [Writers -> 0..MaxVersion]

\* A connection never stands on a version that was retired, that is still
\* being written or that a killed build left half done: from the moment its
\* hold is confirmed, the database it opened is there and whole.  The reader
\* shares no lock with the builder; only the sidecar protocol of
\* _hold_version and _retire protects it.
HeldVersionIsWhole == \A r \in Readers : rpc[r] = "held" => rver[r] \in db \cap complete

\* Whatever is killed or fails, and whenever, the version graph.current names
\* is on disk and whole: no restart finds a workspace whose graph is torn.
CurrentIsWhole == pointer.cur # 0 => pointer.cur \in db \cap complete

\* What the current version shows of the workspace never goes back, over
\* refreshes, full builds, compactions, failures and kills of several writers.
RowsNeverGoBack == [][pointer.cur # 0 =>
                        pointer'.cur # 0 /\ rows'[pointer'.cur] >= rows[pointer.cur]]_vars

\* A reader that began to connect and is not killed gets an answer: it neither
\* spins on the pointer nor waits for a lock nobody lets go.
ConnectTerminates == \A r \in Readers :
  rpc[r] = "named" ~> rpc[r] \in {"held", "missing", "corrupt", "idle"}

-----------------------------------------------------------------------------
(* The store as its readers see it. *)

StillThere == db \cap published

Promise == INSTANCE SnapshotStore WITH
  Revisions <- 0..MaxEdits,
  current <- pointer.cur,
  used <- published,
  readable <- StillThere,
  shows <- [v \in Versions |-> IF v \in StillThere THEN rows[v] ELSE 0],
  view <- [r \in Readers |-> IF rpc[r] = "held" THEN rver[r] ELSE 0]

\* The store keeps SnapshotStore's promise: through interleaved readers, full
\* builds, refreshes, compactions, sweeps, failures and kills, every reader
\* stands on one published graph that stays there under it, names are fresh
\* and the current graph never shows an older workspace.
KeepsPromise == Promise!AbsSpec

-----------------------------------------------------------------------------
(* What the code does not keep: no run checks it. *)

\* "the hold then reports it gone and the pointer is read again": as long as a
\* reader has tries left, a retirement under it never makes it report a corrupt
\* store, which nothing in this specification ever is.
RetiredIsRetried == \A r \in Readers : rpc[r] = "corrupt" => tries[r] = HoldAttempts
=============================================================================
