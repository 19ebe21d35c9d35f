# Verification of zemble

zemble answers code questions (search, symbol graph, duplicates, health) about
local source trees. Most of it is pure text processing and read-only queries.
What is hard to get right and hard to test is what keeps the answers current and
whole while many processes work on the same files: the graph store that readers
and writers share through the file system, the overlays that lanes (worktrees of
a base checkout) put on their base's graph and index, the generations in which an
index is published, the caches and services in front of them, and the daemon that
watches, rebuilds, admits and is itself found and started by its clients. That is
what this directory models.

Paths below are relative to `src/src/zemble/` unless they begin with `src/`.

## 1. Inventory

| Component | State | Operations | Talks to | What is hard | What makes it correct |
| --- | --- | --- | --- | --- | --- |
| Versioned graph store, `graph/store.py` | a folder: `graph-<n>.sqlite`, `graph.current`, `graph.lock`, one `-readers` sidecar per version | build, refresh in place, compact, sweep, open for reading | processes share only files and `flock` | readers take no writer lock; every system call interleaves; a kill leaves half a build; sidecars are unlinked and recreated under open descriptors | a reader never loses the version it holds; the current version is whole; what it shows never goes back; connecting ends |
| Graph folder, `graph/store.py` | the same, and the single file of an older zemble | remove, migrate | the same, and older processes | removal unlinks the lock file itself; a reader migrates too | nothing goes from under a connection; a pointer names a whole version; "no graph" is said only when there is none |
| Lane overlay graph, `graph/store.py`, `graph/overlay.py` | base version and `built_at` it was made on, rows, `overlay_pending_names` | start anew or in place, first pass, names owed, second pass, pay off | reads one held version of the base | several sqlite commits per refresh; the base refreshes, rebuilds and compacts meanwhile | no debt is forgotten; a moved base is noticed; an edit shown is not taken back |
| Graph jobs, `daemon/graph_jobs.py` | job per root, worker turn, heap of waiters, pending change sets, `RLIMIT_DATA` | ensure, follow-up, turn, worker, drop, close | index passes, index lock, worker process | hand-over while waiters are cancelled; failures between lowering and restoring a limit; a lane waits for its base | one worker; the limit comes back; no change set is lost silently; every job ends |
| Read admission, `daemon/admission.py` | semaphore, `queued`, `active` | check_room, acquire, run, release | request handlers | grant and deadline in one loop iteration; work outlives its client | permits conserved; bound on running work; no lost wakeup; no starvation |
| Rebuild pipeline, `daemon/server.py` | per root: watch task, rebuild task, scope, change set, graph mark, resident index | watch, ask, share, follow up, defer, refuse, swap, evict, `refresh` | watcher, index cache, graph jobs | scan and swap are apart in time; a request may join a pass that has read the tree already; eviction between two awaits | an edit that was seen gets into the index and the graph; the daemon comes to rest |
| Index generations, `index/generation.py`, `index/index.py`, `cache.py` | published stores and metadata, staging folder, `index.lock` | validate, read what to reuse, plan, publish, load | every process that builds or loads the root | publish renames store by store; rows to reuse are read without the lock; files change while they are planned | a load sees one generation; rows reused are rows of the content they stand for; what validation passes is the tree |
| Index building and lane overlays of an index, `index/create.py`, `index/scope.py`, `index/overlay.py`, `lane.py` | manifest, rows of chunks, postings, names, vectors; a lane's delta | walk, change set, seed from a sibling, estimate, skip or refuse, write, compose | git, the base's index, the watcher's change sets | row arithmetic under reuse; git is asked three times while HEAD moves; checks judge a plan made later | every row is its file's; reuse equals a full build; a settled lane answers with its own files |
| Index cache, `index_cache.py` | task per key, use order, overlays per base | get, validate, build, evict, compose | every request of a process without watchers | verdicts of threads used after an await; single flight; clients that give up | bounded; current as of the question; errors are not kept |
| Embedding service and cache, `embedding/service.py`, `embedding/cache.py`, `embedding/gc.py` | rows by text and width, claims and their events | documents, store, collect | providers, other requests | threads claim overlapping sets of texts; a purchase fails half-way; rows are swept | each text bought once; an answer is whole; every request ends |
| Daemon lifecycle and client, `daemon/client.py`, `daemon/cli.py`, `daemon/server.py` `run` | lock, socket path, pidfile | ask, start, stop, restart; bind, serve, drain, end | one daemon, many clients | stale files removed while another daemon binds; kills between any two system calls | a listening daemon is reachable; a query tries in vain only for a reason; commands end |
| Watcher, `daemon/watch.py`, `daemon/watch_worker.py` | worker process per root | start, deliver, stop | rebuild pipeline | readiness, worker's death | no edit unseen after ready |
| On-disk cache and orphans, `cache.py`, `cache_orphans.py` | folders by key | cover, retire, find and remove orphans | everything that writes there | judged and deleted apart in time | nothing in use is deleted |
| Question cache and memory, `daemon/read_cache.py`, `daemon/memory.py` | results, running questions; allocator counters | get; admit by private memory | every read | coalesced failures; measurements | bounded, never an error remembered |
| Resolver and facts, `graph/java.py`, `graph/resolve.py`, `graph/facts.py`, ... | none | parse, resolve | store | language rules | pure functions |
| Chunking, languages, ranking, search, dedup, health, home, evidence | none | analyse, report | a held graph and index | volume | pure functions |
| CLI, MCP servers, installer, agents, `nib/`, `runtime/` | none | parse, dispatch, render | all of the above | none here | none here |
| `src/javac-facts`, `src/benchmarks` | none | compiler plugin; measurements | facts files | none here | none here |

`PROJECT.json` repeats this list with a status and, where a part is not
modelled, the reason; its `hazards` are at their lines, with the properties that
would catch each one, or a note when none does.

### How the parts interact

    edit -> watcher -> watch task -> rebuild task -> index pass -> swap -> readers
                                        |                 |
                                        |                 +-> lanes of this base: re-plan
                                        +-> graph step -> graph job -> worker -> GraphStore
    index pass -> plan, reuse, embedding service -> publish -> load
    request -> client -> daemon -> prepare -> read admission -> one held version / one resident index
    request without a watching daemon -> index cache -> validate, build, load

## 2. Plan

In the order of writing, most important behaviour first.

1. `SnapshotStore` (abstract) and `GraphStore`. **done, proved**
2. `LaneOverlay`. **done, proved**
3. `GraphJobs`. **done, proved**
4. `ReadAdmission`. **done, proved**
5. `Rebuild` (watcher, watch task, rebuild task, residency, lanes over a base).
   **done, proved**
6. `IndexGeneration`: validate, reuse, plan, publish, load, with kills between
   renames. **done, proved**
7. `IndexCache`: single flight, eviction, thread verdicts, overlays. **done, proved**
8. `EmbeddingService`: claims of overlapping sets of texts. **done, proved**
9. `DaemonLifecycle`: lock, socket, pidfile, stale removal by several clients.
   **done, proved**
10. `GraphFolder`: removal, and the migration of a single-file store, over
    GraphStore. **done, proved**
11. `IndexWrite` and `LaneIndex`: planning, writing and composing rows as pure
    operators, and the lane that is planned on a moving base. **done, proved**
12. Left: collection of orphans in the on-disk cache, the resolver's order of
    candidates, reading through base and overlay at once.

The modules are written to be proved about: no RECURSIVE operators, constants
with named assumptions, one action per operation, opaque helpers with a lemma each.

## 3. Modules and their correspondence to the code

**SnapshotStore** is what the graph store promises: graphs are published under
fresh names, a reader stands on one published graph until it lets go, only graphs
that are not current and that nobody stands on go, the current graph never shows
an older workspace.

**GraphStore** models the versioned layout file by file. `db`, `sidecar`,
`complete`, `rows` and `pointer` are the folder; `lock` is the flock of
`graph.lock`. A reader's actions are the system calls of `_connect_current` and
`_hold_version`: read the pointer, check the file, open the sidecar, take the
shared lock, check that path and inode still agree, else start again, at most
`_HOLD_ATTEMPTS` times. `fresh` says that a descriptor's inode is the one the path
names. A writer acquires the lock, resolves the pointer, sweeps (an exclusive
non-blocking lock per retired version, then the unlinks one by one), and then
builds, refreshes in place, or vacuums a copy, publishes and sweeps again; it can
fail or be killed anywhere, and the kernel then drops its locks. Rows are
abstracted to the revision of the tree they were extracted from; an uncommitted
transaction is invisible and vanishes with its writer.

**GraphFolder** extends GraphStore with what else happens to its folder.
`remove_graph` holds every version exclusively, deletes pointer, versions and
finally `graph.lock` itself: from then on a writer may have a nameless
`graph.lock` open (`fd`, `strayLock`), and a second writer the new one. `met` is
history: two writers were at work at once. `_migrate_legacy` runs in writers and in
readers: it waits for older processes, renames the single file to a version (or
copies it where an older process has it open), publishes the pointer and removes
what is left. Edits of the tree are GraphStore's question and are switched off here.

**LaneOverlay** models the sqlite commits of a lane's overlay and of its base, one
action per commit. `held[v].gen` is what a base version holds, `stamp` is the
`built_at` an overlay compares, `against` is history: which base contents an
overlay was resolved against. A worker can be lost between any two commits.
`forgotten` and `torn` are history: an overlay whose writer was lost between its
first pass and the record of the names it owes, and base versions whose writer was
lost between two commits of one logical step.

**GraphJobs** models `daemon/graph_jobs.py` at the grain of the event loop: an
action is what runs between two awaits. `pc[r]` follows `_build`, `_worker_turn`,
`_turn` and `_build_once`; `PassTurn` is `_pass_turn`; `FoldIn` merges a change set
into the follow-up of a running job. `owing` and `taken` are history: the files a
refresh asked for, and those of them the running worker reads.

**ReadAdmission** models `Admission.acquire`, `run`, `check_room` over
`asyncio.Semaphore`, which is external: a release hands its permit to the first
waiter, who runs later, so grant and deadline can both hit one waiter (`late`).

**Rebuild** models `_watch_changes`, `_watch_rebuild`, `rebuild`, `_run_rebuild`,
`_rebuild_once`, `_follow_up` and `evict` of `daemon/server.py`. `dirty[k]` is what
changed since the served index of `k` read it; a pass reads at `Scan` and serves at
`Swap`, and an edit between the two stays dirty. `named`, `shared`, `graphOwes`,
`graphLeft` and `owed` are history. A lane over a base is another root whose
`BaseItem` becomes dirty when the base swaps.

**IndexGeneration** models what `from_path`, `build`, `load_from_disk` and the
daemon's `rebuild_index` do with the stored index of one root, by processes that
share only the folder and `index.lock`. A file is its modification time and its
number of chunks; a store says, per file, which content its rows were made from.
A process validates (`Validated`), or reads store by store what it will reuse, in
`PreviousOrder` and without the lock, plans file by file (`StatOld`, `StatNew`,
`ReadFile`), stamps its manifest when all is written (`EndPlan`), and renames its
stores in `PublishOrder` under the exclusive lock; a load reads them in `LoadOrder`
under the shared one. `late` (in a manifest), `torn`, `mixed`, `passedOn`, `newest`,
`regressed` and `blurred` are history.

**IndexWrite** is how one generation is planned and written, as operators on values:
the walk, a change set, seeding from a sibling, the checks that skip or refuse a
rebuild, and the rows the writers produce, by recursive functions and folds.
**LaneIndex** runs it: a workspace rebuilt from change sets and rescans, and a lane
of it whose plan asks git three times, walks, writes a delta and is composed with
the base's rows, while files, HEAD, ignore files and the base's index move. A walked
file is judged in one step or in two, as in `plan_overlay`: the base's copy is stat'ed
(`WalkFile`), and then read where git has no answer (`CompareFile`). `excuse.outrun`
is history: the files of the base that were edited in between.

**IndexCache** models `IndexCache.get_with_key` of a process without watchers at the
grain of the event loop: the staleness check and builds run in threads, so their
verdicts are used after an await. `entry[k]` is the task of a key, `jobs` what each
build knows and has seen, and `excuse` the history of what other processes and
evictions did meanwhile.

**EmbeddingService** models a documents request as a thread: look up, claim, buy
through the caching embedder slice by slice, release, wait for the claims of others,
start over; beside pushed vectors, provider and database failures, the death of the
server and a collection. `due`, `flying` and `paid` are what it has still to buy,
has with the provider and has paid for.

**DaemonLifecycle** models lock, socket path and pidfile at the grain of system
calls: `run` of the daemon from its first look at the path to its last unlink, and
the commands ask, start, stop and restart with their tries, stale-file clearing and
waits. A dead process is known by the files it left.

Compositions: GraphFolder extends GraphStore, and GraphStore implements
SnapshotStore; LaneIndex runs IndexWrite. GraphJobs and Rebuild meet at the graph
refresh: in Rebuild a refresh covers what it names (what GraphJobs proves of its
jobs), in GraphJobs an index pass announces, joins and ends. LaneOverlay takes from
GraphStore that a held version stays and that a graph has one writer. A rebuild is
one step of LaneIndex and several of IndexGeneration; an index is a set of edits in
IndexCache and a generation in IndexGeneration.

## 4. What is checked

Deadlock is checked for ReadAdmission, LaneIndex and DaemonLifecycle, where
something can always come next. In the other models the bounds on edits, asks,
builds or versions run out, so those runs say `CHECK_DEADLOCK FALSE`; the liveness
properties say what must not stop.

| Run | Instance | Distinct states | What it shows |
| --- | --- | --- | --- |
| `GraphStore` | 1 reader, 2 writers, 3 versions, 1 edit, 2 tries | 526 k | `HeldVersionIsWhole`, `CurrentIsWhole`, `RowsNeverGoBack`, the refinement `KeepsPromise`, `ConnectTerminates` |
| `LaneOverlay` | 3 lane edits, 3 base writes | 870 k | `OnlyCutFirstPassForgets`, `OnlyTornHides`, `LaneNeverBack` |
| `GraphFolder` | 1 reader, 2 writers, a remover, an older process, 2 versions, no edits; `UntilTheyMeet` | 1.03 M | `OnlyCollisionsDangle`, `OnlyMovesHide`, `HeldIsNotRemoved` |
| `GraphJobs` | a base and 2 lanes, 2 files, 2 index passes, cap 1, 3 asks | 222 k | `OneWorker`, `LimitComesBack`, `AsksLand`, `JobsEnd` |
| `ReadAdmission` | 4 requests, 2 slots, a room of 2 | 2.5 k | `OnlySlotsRun`, `PermitsKept`, `NoLostWakeup`, `WaitEnds` |
| `Rebuild` | a base alone, 4 edits, refreshes and troubles in all; or beside a lane, 2 | 724 k | `OnlySharingLoses`, `OnlyNamesLoseGraph`, `ComesToRest` |
| `Rebuild_shared` | a root alone, 1 edit, 1 refresh | counterexample | `NamedEditsLand` fails |
| `IndexGeneration` | 2 processes, 2 files of at most 1 chunk, 2 edits, 1 kill, 3 builds | 3.8 M | `OnlyTornMixes`, `OnlyOldPlansMislead`, `OnlyLateEditsHide` |
| `LaneIndex` | an ordinary file, one whose capsule differs in the lane, one let in by a negation only, a link; 2 edits, 1 commit, 1 ignore edit that covers the first | 736 k | `StoresDescribeTheirFiles`, `ReuseIsAFullBuild`, `ChecksFollowThePlan`, `SettledIndexFollowsTree`, `SettledLaneFollowsTree` |
| `IndexCache` | a workspace and a lane of it, 1 slot, 2 requests, 3 asks, 4 builds, 1 edit, 1 fault | 563 k | `OnlyTheseOverfill`, `OnlyTheseAnswerStale`, `FailuresLeave` |
| `EmbeddingService` | 2 requests, 2 texts, 2 widths, slices of 1, 3 asks, 1 event | 493 k | `PaidOnce`, `AnswersAreWhole`, `RequestsEnd` |
| `DaemonLifecycle` | a client that asks, an operator who stops and restarts, 2 daemon processes | 219 k | `OnlyEarlierChecksHide`, `OnlyTroubleCosts`, `CommandsEnd`, `HiddenLeave` |

Why the bounds suffice.

* *GraphStore*: a version is published, replaced, retired and its number passed over
  (3 versions) while one reader is between any two of its system calls; readers do
  not affect each other except by holding, and two writers are enough for one to be
  killed or to wait while the other works. One edit tells an older workspace from a
  newer.
* *GraphFolder*: two versions are one to remove and one built anew; two writers are
  one that waits for the lock a removal unlinks, and one that opens it anew. Where
  they have met, exploration stops: what the properties say after that is excused.
* *LaneOverlay*: three edits let one pass be lost, the next add to the debt and a
  third find it.
* *GraphJobs*: three roots are needed for a turn that is held, handed over and
  contended; two passes beside a request make two change sets fold into one
  follow-up, and a cap of one file makes the fold overflow. TLC starts from no
  published graph; any set of them is a start in the proofs.
* *ReadAdmission*: two slots and four requests have one running, one granted, one
  late and one arriving at once.
* *Rebuild*: two edits are one before and one after a scan; two troubles are an
  eviction with a deferred or failed pass after it.
* *IndexGeneration*: three builds are the generation that is there, one that
  overtakes and one that was planned on the first. Two files let the rows of one
  move under those of the other.
* *LaneIndex*: each path stands for a rule of its own, and two edits and a commit let
  a file change between each two looks the plan takes at git, and between the stat of
  the base's file and the comparison. An ignore file comes to cover (`Ignorable`) a path
  whose edits are reported; the proofs are for any set of paths.
* *IndexCache*: one slot and two keys evict at every build; three asks are one that
  builds, one that joins and one that finds the verdict of a thread out of date.
* *EmbeddingService*: two texts and two requests claim in opposite orders; a third
  ask finds what the first left.
* *DaemonLifecycle*: one daemon that ends and one that starts while the two clients
  stand between a look and an unlink.

Each property has a mutant: a plausible bug in the code, written as an operator
beside the definition it would replace (`A mutant of ...`), under which TLC finds
that property violated.

### Fairness

* GraphStore: weak fairness of connecting readers' steps and of writers'; strong
  fairness of `LockShared`, because flock wakes who waits for it once it is free.
  Nobody is assumed to begin anything.
* GraphJobs: asyncio runs every task that can run, so weak fairness of a job's
  steps; strong fairness of `LowerLimit`, because an `asyncio.Lock` is handed out in
  order; loads, workers and index passes end. A lane settles by looking again,
  which weak fairness covers.
* ReadAdmission: what the loop has made runnable runs, and a read ends. No deadline
  need pass and no client need leave.
* Rebuild: watch tasks and passes run, quiet windows and loads end. Edits, requests,
  evictions and failures are never forced, and are bounded, so `ComesToRest` speaks
  of the time after the last of them.
* EmbeddingService: the steps of each request, which are those of a thread; a
  provider answers or its timeout and bounded tries end the call. Failures, crashes
  and collections are never forced.
* DaemonLifecycle: each daemon runs, and its idle window ends while nobody is connected
  (30 minutes unless configured; with 0, which disables it, `HiddenLeave` would not
  hold). It may also end, and need not, while a client is: `idle_loop` looks at the last
  request handled and at rebuilds, not at connections. Each client runs too: its socket
  calls have timeouts, and its wait for a start ends after ten seconds. Kills are never
  forced.

### Disagreements met

One run ends in a counterexample, and `PROJECT.json` quotes the line it contradicts:
`Rebuild_shared`. A full rescan is left to a pass that has scanned already
(`daemon/server.py:676`), and an edit merged into it stays out of the index, although
`daemon/server.py:660` says that joining never loses a named edit.

Other statements of the repository are written down under "What the code does not
keep" in their modules. No run checks them; each is the stronger form of one that does
hold, and the runs' `Only...` properties say that there is no second way.

* `RetiredIsRetried` (GraphStore): `_read_pointer` reports a corrupt store when the
  version it just read the name of is retired before its `is_file`
  (`graph/store.py:522`); the docstring at 302 and `src/docs/graph.md` promise a retry.
* `StaleIsSeen` (LaneOverlay): a base worker lost between the commit of its rows and
  that of `built_at`, or between a prune and its copy, leaves an overlay of another
  content fresh. And in an in-place refresh the first pass commits
  (`graph/store.py:2013`) before the names it owes are recorded (1627), so that a worker
  lost there forgets them: the excuse of `OnlyCutFirstPassForgets`.
* `NameStaysWhole`, `HeldIsNotMoved` (GraphFolder): `remove_graph` unlinks `graph.lock`
  (`graph/store.py:756`), which admits two writers, against the comment at 73. Names are
  reused after a removal, and a build that fails into a reused name unlinks the sidecar
  under a reader that opened it. An older process may open `graph.sqlite` between the
  look into `/proc` and the rename.
* The excuses of `OnlyMovesHide`: a reader that looks between the rename of
  `graph.sqlite` and the publication, or whose pointer read precedes a copy's
  publication and sweep, is told that there is no graph. A migrator killed between the
  two leaves an unnamed version, which the next build sweeps; a remover killed after the
  pointer's unlink can leave a superseded `graph.sqlite` that the next reader migrates
  again.
* `LaneWaitsOutBase` (GraphJobs): a lane that had queued before its base's job began
  gets the turn between two passes of that job (`daemon/graph_jobs.py:353`, the note at
  344).
* `RoomIsBounded` (ReadAdmission): `check_room` counts running tasks while permits are
  being handed over.
* `LaneFollowsBase`, `RefreshIsCurrent`, `GraphEditsLand`, `QuietAfterSlot` (Rebuild):
  the same sharing; a graph mark consumed by a pass with narrower names
  (`daemon/server.py:779`); quiet is checked at 714, before the slot at 773.
* `ChangesInvalidate` (IndexGeneration): the stamp is taken when a build has written
  its stores, so an edit during the build passes validation. `OnlyTornMixes` excuses a
  publish killed between two renames: that folder is loaded as it is, and the daemon's
  `rebuild_index` reuses it and publishes the result as whole.
  `OnlyOldPlansMislead` excuses two more, both met while proving it: a slow build that
  publishes an older plan over a newer generation or over a deletion, after which the
  manifest of the folder is older than one it replaced and a file may be back at a
  recorded time with other rows (`newest`); and vectors read from a generation between
  those of the manifest and of the postings, which only their total count checks
  (`cache.py:646`), so that rows are taken by position from another generation
  (`blurred`). TLC shows the second at three files, four edits and three builds, outside
  the bounds of the run. `remove_index_components` says the metadata goes last; the code
  unlinks it first.
* `NamedPathsAreDropped` (LaneIndex): a named path that an ignore file has come to cover
  keeps its rows. Nearby, modelled and excused: links are indexed when named; files that
  only a negation lets in, and edits of ignore files, are not reported until a rescan;
  an unreadable new file makes `tree_moves_anything` true for ever; a workspace whose
  last row vanishes raises and goes on serving the old index; `lane.py` reads HEAD and
  the diffs at different times; and `plan_overlay` stats the base's file
  (`overlay.py:251`) before the two are compared (`lane.py:306`), so that a file of the
  base edited in between to what the lane holds lends rows of its older text. The lane
  is planned again when the base is rebuilt, which a refused rebuild never is.
  Seeding from a sibling has the same gap (`index/create.py:81` and `87`), for good; it
  is one step of the model, so no property here speaks of it.
* `EntriesFollowFiles` (IndexCache): the staleness check judges the stored index, not the
  entry that is answered; a lane with an index of its own may be answered by it; an
  overlay composed on a base that was evicted meanwhile is kept beside the slots; a
  failed build whose waiters have all given up stays until the next ask.
* EmbeddingService: claims are keyed by width, so one text may be bought at two widths at
  once; a provider's batch that fails inside a slice loses the batches before it; two
  local processes buy without claims; a grace period of 0 sweeps everything.
* `StartingIsSpared`, `RestartFindsNoOwner` (DaemonLifecycle): `clear_stale` leaves alone
  a daemon "still starting", but the pidfile is written (`daemon/server.py:1569`) after
  the daemon listens (1567), so a client that judged earlier unlinks the new socket; the
  daemon then fails at its chmod, or serves hidden behind the lock until it idles out.
  `stop` waits only until the socket refuses, while the old daemon drains with the lock
  held, so a restart's daemon may exit again (`daemon/cli.py:169`).

## 5. What is proved

The theorems hold for every value of the constants that satisfies the modules'
`ASSUME`s: bounds are naturals, `NoOne` is no process, sets of requests and roots
are finite, a lane's base is no lane.

**GraphStoreProofs**, the store: `TypeCorrect`, `HeldSafe`, `CurrentSafe`,
`NeverBack`, `PromiseKept`. None of the invariants is inductive by itself: that a held
version stays depends on what a sweeper may choose, and that on what the pointer can
name while it works. `IInv` therefore adds `LockInv` (who is past acquiring holds the
lock), `PublishedInv` (published and still there is whole; the current version is
the highest name), `ReaderInv` (a confirmed hold is on the path's own inode),
`SweepInv` (a version being unlinked is neither current nor held), `BuildInv` (what
a build remembers of the pointer is still so) and `RowsInv` (a build in progress
shows at least what the current version shows). One lemma per part of `IInv`, one
step per action. `PromiseKept` maps every step to a step of SnapshotStore or to a
stutter from `IInv`.

The folder: `FolderCorrect`, `OnlyMeetingsDangle`, `NothingElseHides`,
`RemovalSparesReaders` (GraphFolder). The names above do not survive a removal, so the folder has an
invariant of its own: `FolderLock` (who works has one of the two locks, who migrates
works), `FolderRemoval` (nobody works beside a removal, and nobody holds what it
deletes), `FolderTold` (who was told that there is no graph was told so with an excuse),
and, while no two writers have met, `FolderAlone`: the pointer names a whole version, a
build works on a version nobody else names, and a graph that is neither named nor in its
old place is gone or on its way. `NobodyBesideRemoval`, `SoleWorker` and `NotLost` are
the lemmas the actions share.

The overlays of lanes: `LaneTypeCorrect`, `OnlyThatWorkerForgets`, `OnlyATornBaseHides`,
`ShownStaysShown` (LaneOverlay). `BaseInv` orders the numbers a base gives out, `ShapeInv` and
`DebtInv` say what an overlay has and owes at each of its commits, `SeenInv` what its
stamp proves of the base, `OwnInv` that it shows no less of the lane than it did.

**JobsAndReadsProofs**, the daemon's two schedulers. Graph jobs: `TypeCorrect`,
`OneWorkerAlways`, `LimitAlwaysBack`, `AsksAlwaysLand`, `BaseAlwaysFirst`. `TurnInv`
ties the flag to its one owner; `LimitInv` says that whoever has a worker had saved the
full limit, without which restoring it could leave it lowered; `DebtInv` says that what
a job owes is in the pass under way or in the follow-up. The last theorem needs no
invariant: it follows from how `PassTurn` chooses.

Read admission: `AdmissionTypeCorrect`, `SlotsAlwaysBound`, `PermitsAlwaysKept`,
`WakeupNeverLost`, `QueuedAlwaysCounted`, all from one `AdmissionInv`, whose parts need
each other: a permit can be given back because it was counted, and the counters stay
natural because they count members of sets. The lemmas on cardinality are stated
once for any group of requests that moves at one step.

**RebuildProofs**: `NothingElseLosesAnEdit`, `NothingElseLosesGraph`. The invariant says
where a change is due: in what the watcher has pending, in what the watch task asks
for, or in the scope or the follow-up of the rebuild task (`Root`); `GraphKept` says the
same of Java files and the graph steps. Rest means that none of these is there.

**IndexGenerationProofs**: `Invariance`, `LoadsAreWhole`, `PublishedIsOneContent`,
`ValidatedIsCurrent`. `Inv` says who holds which lock (`Control`), that nothing recorded
is newer than the tree (`Recorded`), what a stamp says of the files behind it (`Stamps`)
and how far a build is (`Built`); and, until a torn folder or an old plan has tainted
it, what a build, a publish and a load hold of the folder (`Folder`, `Whole`, `Reading`,
`Staged`, `Publishing`). Its core is one lemma, `ReusedIsWhatIsThere`: rows read store
by store without the lock, where the counts agree, are rows of the content the plan
takes them for. Each action has a lemma of its own (`StatOldDoes` to `RenameDoes`), and
`OthersKeep` covers the processes that do not move. `newest` and `blurred` are in the
model because the proof failed without them.

**LaneIndexProofs**, the longest: `WritePlannedIs`, `Invariant`, `TypeIsCorrect`,
`StoresAreRight`, `ReuseIsFull`, `ChecksAreRight`, `IndexSettles`, `LaneSettles`. A sum
over a plan, a concatenation of rows and the loop of `WritePlan` are recursive functions
and folds, and an induction rule over an operator cannot be instantiated here. But a
statement about the first `k` items of a given list is a set of naturals, so
`InductionUpTo` states induction for sets; it follows from the library's theorem that `<`
is well-founded (`LeastNatural`). Each recursive definition is met once: `TotalIs`
(`Total` satisfies `Sums`), `FlattenIs` (`FlattenSeq` satisfies `Joins`, which says at
which row the rows of an item begin) and `WritePlanDoes`, whose loop invariant
`Loop`/`After` says which rows are reused from where and how many are embedded anew.
`WritePlannedIs` follows: an index is its entries, their running sums and their rows,
whatever was reused. The rest argues from these.

`Inv` has seven parts. `TreeInv`: a stamp stands for one content that its file has held,
for ever. `ValueInv`: the values that need no argument. `StoresInv`: the base's index,
the lane's delta and the overlay are sound, each entry with the rows of the content its
stamp stands for and names, postings and vectors row by row like the chunks (`Sound`,
`OverlaySound`). `QueueInv`: while no rescan is due, every path whose entry is not what
a walk would make is named in the queue or excused. `PlanInv`: what a plan under way has
of its three answers from git, and of a file that is yet to be compared, for each file
that has stood still since. `LaneInv`: an idle lane that was composed follows its own
files, but for those that outran the base's rows. `OutrunInv`: while no change is noted
the base's index is the one the plan read and does not list those files as they are, so
that a rebuild of the base is what ends the excuse. `StoresAreRight` needs `StoresInv`,
and that needs `WritePlannedIs` for every plan of right files; `ReuseIsFull` needs that a
sound index has nothing a full build would not have; the two about settling need
`QueueInv`, and `PlanInv` with `OutrunInv`. The assumptions are those of the two
modules: the walk's order names a path once, the first index is there (a build that
yields no row raises), the first contents can be read, and `None` is neither entry nor
index. All parts but `ValueInv`, which is about types, were also checked by TLC on the
instance of the run.

Two errors came to light and were mended. `Rebuilt` took a change set that happens to name every
file for a walk, which follows other rules (links and ignored paths), so it now has
`walked` as a parameter; and `SettledLaneFollowsTree` asked an entry of a readable file
that is cut into no chunk, which has none in the code either (blank text,
`chunking/chunking.py:32`). The instance TLC checks has neither case.

**IndexCacheProofs**: `Invariance`, `OnlyTheseEverOverfill`, `OnlyTheseEverAnswerStale`,
`FailuresAlwaysLeave`. `Inv` is a predicate `Sound` of builds, table, trees, stores,
requests and history, so that a step is a chain of changes of one of them
(`EvictedSound`, `EnteredSound`, `LaidSound`, `ChangedSound`, ...). `Refers`: what an
entry, a request or an overlay refers to is there and of its key, so an entry that is
what a request took for it has been that all the time. `Order`: the order of use is one,
so room is made by a least recently used entry. `Fits`: an overlay's base is resident
and the indexes of their own are no more than the slots, unless an excuse was noted.
`Awaits`: a resident build that is not done has somebody who waits, or who gave up.
`Judges`: the stored index has no stamp beyond what the resident one has seen, and a
verdict of the thread, or an answer, is no older than its question, unless the store was
overtaken. The order of use is kept as the keys used less recently, and what makes room
as a rank in it: a sequence would have asked for induction.

**EmbeddingServiceProofs**: `Invariance`, `NothingIsPaidTwice`, `EveryAnswerIsWhole`,
`OneBuyer`. `Claims` says who holds a claim, `Nested` how a request's sets lie in each
other, `Accounted` where a paid vector is, `Unpaid` that what is claimed is not paid
for, `Owned` what an answer is made of.

**DaemonLifecycleProofs**: `EarlierChecksAlwaysHide`, `OnlyTroubleEverCosts`. `LockInv`
and `SockInv` tie a daemon's place in its start to lock and path, `HideInv` says who can
still remove a socket, `SeenInv` what a client's look proves, `CmdInv` and `TryInv` what
has happened since a client's try began. `StepUndisturbed`, `OthersLeave` and `OwnStep`
reduce each action to the one process that moves.

### Only model-checked

* Liveness (`ConnectTerminates`, `JobsEnd`, `WaitEnds`, `ComesToRest`,
  `RequestsEnd`, `CommandsEnd`, `HiddenLeave`): fairness and ENABLED are out of the
  prover's reach.
* Every safety invariant and action property of a passing run, and the refinement of
  SnapshotStore, is stated by a theorem, so only liveness is left to the runs alone.
* No module declares a RECURSIVE operator.

## 6. What is not modelled, and why

* Pure text processing, scoring, parsing and reports: nothing interleaves.
* HTTP clients, model loading, prices, CLI, MCP registration, installer: I/O.
* The collection of orphans in the on-disk cache: plan, 12; its hazard is listed
  with a note.
* The rows of the graph store and how a question reads them through a base and an
  overlay: a version is whole or not, and shows a revision.
* Memory pressure as a number: `RLIMIT_DATA` is full or lowered, a refusal for
  lack of memory may happen whenever the code asks.
* The death of a watcher's worker process: the code takes no step after it but
  a line in the log.
