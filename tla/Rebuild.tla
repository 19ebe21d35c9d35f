------------------------------- MODULE Rebuild -------------------------------
(***************************************************************************)
(* How the daemon keeps its resident indexes current (daemon/server.py):   *)
(* a root's watcher reports change sets, a watch task gathers them until   *)
(* the root is quiet, and one rebuild task per root makes index passes,    *)
(* each with its graph step, until nothing is left that somebody asked for *)
(* meanwhile.  `refresh` asks for full rescans of its own.  A lane's index *)
(* is an overlay of its base's; a base that is rebuilt asks for a re-plan  *)
(* of its lanes.  Roots are evicted and loaded again at any time.          *)
(*                                                                         *)
(* One action is what the event loop runs between two awaits.  A pass      *)
(* reads the files it covers at one moment, Scan, and serves them at       *)
(* another, Swap.                                                          *)
(*                                                                         *)
(* What is abstracted: an item is a file, or BaseItem, the base generation *)
(* a lane was planned on; what an index lacks is the set of items that     *)
(* changed since the pass that read them.  Time is the flag `recent`: the  *)
(* quiet window after the last change, or the pause of a deferred rebuild. *)
(* Graph jobs are GraphJobs's; here a graph refresh covers what it names.  *)
(***************************************************************************)
EXTENDS Integers, FiniteSets

CONSTANTS
  Roots,      \* the cache keys of local roots
  Lanes,      \* those that are lanes ...
  BaseOf,     \* ... and the base of each
  Files,      \* the files of a root
  Java,       \* those the symbol graph is made of
  BaseItem,   \* the base generation a lane is planned on
  Clients,    \* clients that ask for `refresh`
  RootOf,     \* the root each asks for
  Cap,        \* _MAX_CHANGED_PATHS (4096)
  MaxEdits,   \* bound: edits
  MaxAsks,    \* bound: refreshes
  MaxTroubles \* bound: evictions, and passes that are deferred, refused or fail

ASSUME RootsAssumption == /\ Lanes \subseteq Roots /\ BaseOf \in [Lanes -> Roots \ Lanes]
                          /\ RootOf \in [Clients -> Roots]
                          /\ Java \subseteq Files /\ BaseItem \notin Files
ASSUME BoundsAssumption == {Cap, MaxEdits, MaxAsks, MaxTroubles} \subseteq Nat

VARIABLES
  resident, \* resident[k]: k's index is "no", "loading" or "served"
  watch,    \* watch[k]: k's watcher and watch task
  task,     \* task[k]: k's rebuild task
  client,   \* client[c]: where refresh c is, and what it was told
  dirty,    \* dirty[k]: items that changed since k's served index read them
  stored,   \* stored[k]: those that changed since k's index on disk read them
  built,    \* built[k]: those the index lacks that the running pass builds
  loads,    \* loads[k]: those the index lacks that is being loaded
  named,    \* history, named[k]: items of dirty[k] its watcher saw change, and no user was told of
  shared,   \* history, shared[k]: those of named[k] in a rescan left to a pass that ran already
  graphOwes,\* history, graphOwes[k]: Java files the watcher saw change, not yet in k's graph
  graphReads, \* history, graphReads[k]: those of them the running graph refresh reads
  graphLeft,\* history, graphLeft[k]: those of graphOwes[k] in a rescan left to a pass that named files follow
  owed,     \* history, owed[c]: what its index lacked when refresh c was asked
  edits, asks, troubles  \* how many so far

indexVars == <<dirty, stored, built, loads, named, shared>>
graphVars == <<graphOwes, graphReads, graphLeft>>
dataVars == <<indexVars, graphVars, owed>>
counters == <<edits, asks, troubles>>
vars == <<resident, watch, task, client, dataVars, counters>>

Items == Files \cup {BaseItem}
LanesOf(k) == {l \in Lanes : BaseOf[l] = k}

-----------------------------------------------------------------------------
(* Change sets: none, some files, or everything (None in the code). *)

ChangeSets == [kind : {"some"}, files : {F \in SUBSET Files : Cardinality(F) <= Cap}] \cup [kind : {"none", "all"}, files : {{}}]
Nothing == [kind |-> "none", files |-> {}]
All == [kind |-> "all", files |-> {}]
Named(F) == [kind |-> "some", files |-> F]

\* _merge_changes: past the cap one full rescan stands for the files.
Merge(old, new) ==
  LET both == old.files \cup new.files IN
  IF new.kind = "none" THEN old
  ELSE IF "all" \in {old.kind, new.kind} \/ Cardinality(both) > Cap THEN All
  ELSE Named(both)

\* What a pass over c reads: a lane is always planned anew as a whole.
Covered(k, c) == IF c.kind = "all" \/ k \in Lanes THEN Items ELSE c.files

TouchesGraph(c) == c.kind = "all" \/ c.files \cap Java # {}

-----------------------------------------------------------------------------
(* A root's watcher with its watch task, and its rebuild task. *)

\* watcher: not there, registering its watches, or reporting; seen: changes it
\* saw and has not delivered.  st: the watch task; told: what rebuild answered
\* it; pend: _watch_changes; recent: the quiet window is not over.
NoWatch == [watcher |-> "off", seen |-> {}, st |-> "none", told |-> "none", pend |-> Nothing, recent |-> FALSE]

\* pc: "new" before its first pass; cur: _rebuild_scope, what the pass covers;
\* changes: _rebuild_changes; mark: in _rebuild_graph; graph: the pass ends with
\* a graph step; res: what the index pass came to.
NoTask == [pc |-> "none", cur |-> Nothing, changes |-> Nothing, mark |-> FALSE, graph |-> FALSE, res |-> "none"]

Results == {"none", "ok", "changing", "skipped", "refused", "deferred", "failed"}

\* _note_change
Noted(w, c) == [w EXCEPT !.pend = Merge(@, c), !.recent = TRUE, !.st = IF @ = "none" THEN "waiting" ELSE @]

\* The task is over with result r: who awaits it is told.
TaskOver(k, w, r) ==
  /\ task' = [task EXCEPT ![k] = NoTask]
  /\ watch' = [w EXCEPT ![k] = IF w[k].st = "asked" THEN [w[k] EXCEPT !.st = "told", !.told = r] ELSE w[k]]
  /\ client' = [c \in Clients |-> IF RootOf[c] = k /\ client[c] = "waiting" THEN r ELSE client[c]]

\* A mutant of BeginPass: a pass put off drops its change set.
BeginPassDropping(k, t, w) ==
  IF w[k].st # "none" /\ w[k].recent
    THEN TaskOver(k, w, "changing")
    ELSE /\ task' = [task EXCEPT ![k] = [t EXCEPT !.pc = "lock", !.graph = t.graph \/ t.mark]]
         /\ watch' = w /\ UNCHANGED client

\* A pass over t.cur begins, or is left to the watch task while the tree changes.
BeginPass(k, t, w) ==
  IF w[k].st # "none" /\ w[k].recent
    THEN TaskOver(k, [w EXCEPT ![k].pend = Merge(@, t.cur)], "changing")
    ELSE /\ task' = [task EXCEPT ![k] = [t EXCEPT !.pc = "lock", !.graph = t.graph \/ t.mark]]
         /\ watch' = w /\ UNCHANGED client

\* A mutant of FollowUp: a graph refresh asked for meanwhile is dropped.
FollowChanges(k, t, w) ==
  IF t.changes # Nothing
    THEN BeginPass(k, [t EXCEPT !.cur = t.changes, !.changes = Nothing, !.graph = TRUE], w)
    ELSE TaskOver(k, w, t.res)

\* A mutant of FollowUp: the changes stay noted.
FollowAgain(k, t, w) ==
  CASE t.changes # Nothing -> BeginPass(k, [t EXCEPT !.cur = t.changes, !.graph = TRUE], w)
    [] t.changes = Nothing /\ t.mark ->
         /\ task' = [task EXCEPT ![k] = [t EXCEPT !.pc = "graph", !.cur = All, !.mark = FALSE, !.graph = TRUE]]
         /\ watch' = w /\ UNCHANGED client
    [] OTHER -> TaskOver(k, w, t.res)

\* _follow_up: another pass, a graph step alone, or the end.
FollowUp(k, t, w) ==
  CASE t.changes # Nothing ->
         BeginPass(k, [t EXCEPT !.cur = t.changes, !.changes = Nothing, !.graph = TRUE], w)
    [] t.changes = Nothing /\ t.mark ->
         /\ task' = [task EXCEPT ![k] = [t EXCEPT !.pc = "graph", !.cur = All, !.mark = FALSE, !.graph = TRUE]]
         /\ watch' = w /\ UNCHANGED client
    [] OTHER -> TaskOver(k, w, t.res)

\* The index pass came to r: its graph step, or what follows.
AfterIndex(k, w, r) ==
  LET t == [task[k] EXCEPT !.res = r] IN
  IF t.graph \/ t.mark
    THEN /\ task' = [task EXCEPT ![k] = [t EXCEPT !.pc = "graph", !.mark = FALSE]]
         /\ watch' = w /\ UNCHANGED client
    ELSE FollowUp(k, t, w)

\* A full rescan asked for while a pass over everything runs is that pass.
Shares(k, c) == task[k].pc \notin {"none", "new"} /\ c.kind = "all" /\ task[k].cur.kind = "all"

\* rebuild: a task is made, or what is asked for is left to the running one.
Rebuild(k, c, java) ==
  LET t == [task[k] EXCEPT !.mark = @ \/ java] IN
  task' = [task EXCEPT ![k] =
             CASE t.pc = "none" -> [NoTask EXCEPT !.pc = "new", !.cur = c, !.graph = java, !.mark = java]
               [] Shares(k, c) -> t
               [] OTHER -> [t EXCEPT !.changes = Merge(@, c)]]

-----------------------------------------------------------------------------
Init ==
  /\ resident = [k \in Roots |-> "no"] /\ watch = [k \in Roots |-> NoWatch]
  /\ task = [k \in Roots |-> NoTask] /\ client = [c \in Clients |-> "idle"]
  /\ dirty = [k \in Roots |-> {}] /\ stored = [k \in Roots |-> {}] /\ built = [k \in Roots |-> {}]
  /\ loads = [k \in Roots |-> {}] /\ named = [k \in Roots |-> {}] /\ shared = [k \in Roots |-> {}]
  /\ graphOwes = [k \in Roots |-> {}] /\ graphReads = [k \in Roots |-> {}] /\ graphLeft = [k \in Roots |-> {}]
  /\ owed = [c \in Clients |-> {}]
  /\ edits = 0 /\ asks = 0 /\ troubles = 0

(* Residency. *)

\* get_with_key: the root's watcher is started, then its index on disk is
\* loaded as it is; a lane, whose base is there, is planned.
Load(k) ==
  /\ resident[k] = "no"
  /\ k \in Lanes => resident[BaseOf[k]] = "served"
  /\ resident' = [resident EXCEPT ![k] = "loading"]
  /\ watch' = [watch EXCEPT ![k].watcher = "registering"]
  /\ loads' = [loads EXCEPT ![k] = IF k \in Lanes THEN {} ELSE stored[k]]
  /\ UNCHANGED <<task, client, dirty, stored, built, named, shared, graphVars, owed, counters>>

Loaded(k) ==
  /\ resident[k] = "loading"
  /\ resident' = [resident EXCEPT ![k] = "served"]
  /\ dirty' = [dirty EXCEPT ![k] = loads[k]] /\ loads' = [loads EXCEPT ![k] = {}]
  /\ UNCHANGED <<watch, task, client, stored, built, named, shared, graphVars, owed, counters>>

\* evict: an index, its overlays, and what the daemon kept for them, but not a
\* running pass.
Evict(k) ==
  LET E == {k} \cup LanesOf(k)
      stopped == {x \in E : task[x].pc = "new"} IN
  /\ resident[k] # "no" /\ troubles < MaxTroubles
  /\ troubles' = troubles + 1
  /\ resident' = [x \in Roots |-> IF x \in E THEN "no" ELSE resident[x]]
  /\ watch' = [x \in Roots |-> IF x \in E THEN NoWatch ELSE watch[x]]
  /\ task' = [x \in Roots |-> IF x \in stopped THEN NoTask ELSE task[x]]
  /\ client' = [c \in Clients |-> IF RootOf[c] \in stopped /\ client[c] = "waiting" THEN "skipped" ELSE client[c]]
  /\ dirty' = [x \in Roots |-> IF x \in E THEN {} ELSE dirty[x]]
  /\ loads' = [x \in Roots |-> IF x \in E THEN {} ELSE loads[x]]
  /\ named' = [x \in Roots |-> IF x \in E THEN {} ELSE named[x]]
  /\ shared' = [x \in Roots |-> IF x \in E THEN {} ELSE shared[x]]
  /\ graphOwes' = [x \in Roots |-> IF x \in E THEN {} ELSE graphOwes[x]]
  /\ graphLeft' = [x \in Roots |-> IF x \in E THEN {} ELSE graphLeft[x]]
  /\ UNCHANGED <<stored, built, graphReads, owed, edits, asks>>

(* The watcher. *)

\* A file is edited; the watcher sees it once its watches are registered.
Edit(k, f) ==
  LET seen == watch[k].watcher = "ready" IN
  /\ edits < MaxEdits
  /\ edits' = edits + 1
  /\ stored' = [stored EXCEPT ![k] = @ \cup {f}]
  /\ built' = [built EXCEPT ![k] = IF task[k].pc = "building" THEN @ \cup {f} ELSE @]
  /\ dirty' = [dirty EXCEPT ![k] = IF resident[k] = "served" THEN @ \cup {f} ELSE @]
  /\ loads' = [loads EXCEPT ![k] = IF resident[k] = "loading" THEN @ \cup {f} ELSE @]
  /\ watch' = [watch EXCEPT ![k].seen = IF seen THEN @ \cup {f} ELSE @]
  /\ named' = [named EXCEPT ![k] = IF seen THEN @ \cup {f} ELSE @]
  /\ graphOwes' = [graphOwes EXCEPT ![k] = IF seen THEN @ \cup ({f} \cap Java) ELSE @]
  /\ graphReads' = [graphReads EXCEPT ![k] = @ \ {f}]
  /\ owed' = [c \in Clients |-> IF RootOf[c] = k THEN owed[c] \ {f} ELSE owed[c]]
  /\ UNCHANGED <<resident, task, client, shared, graphLeft, asks, troubles>>

\* Every watch is registered: one full rescan.
WatchReady(k) ==
  /\ watch[k].watcher = "registering"
  /\ watch' = [watch EXCEPT ![k] = [Noted(@, All) EXCEPT !.watcher = "ready"]]
  /\ UNCHANGED <<resident, task, client, dataVars, counters>>

\* A change set is delivered.
Deliver(k) ==
  /\ watch[k].seen # {}
  /\ watch' = [watch EXCEPT ![k] = [Noted(@, Named(watch[k].seen)) EXCEPT !.seen = {}]]
  /\ UNCHANGED <<resident, task, client, dataVars, counters>>

\* Two seconds passed without a change, or 28 since a deferred rebuild.
Quiet(k) ==
  /\ watch[k].recent
  /\ watch' = [watch EXCEPT ![k].recent = FALSE]
  /\ UNCHANGED <<resident, task, client, dataVars, counters>>

\* _watch_rebuild asks for a rebuild once the root is quiet and loaded.
WatchAsks(k) ==
  /\ watch[k].st = "waiting" /\ ~watch[k].recent /\ resident[k] = "served"
  /\ Rebuild(k, watch[k].pend, TouchesGraph(watch[k].pend))
  /\ watch' = [watch EXCEPT ![k].st = "asked", ![k].pend = Nothing]
  /\ shared' = [shared EXCEPT ![k] = IF Shares(k, watch[k].pend) THEN @ \cup (named[k] \ watch[k].seen) ELSE @]
  /\ graphLeft' = [graphLeft EXCEPT ![k] = IF Shares(k, watch[k].pend) /\ task[k].changes.kind = "some"
                                              THEN @ \cup (graphOwes[k] \ watch[k].seen) ELSE @]
  /\ UNCHANGED <<resident, client, dirty, stored, built, loads, named, graphOwes, graphReads, owed, counters>>

\* It is answered: a rebuild that did not happen is retried later as a full
\* rescan, and changes noted meanwhile are asked for next.
WatchTold(k) ==
  LET w == [watch[k] EXCEPT !.told = "none"] IN
  /\ watch[k].st = "told"
  /\ watch' = [watch EXCEPT ![k] =
       CASE watch[k].told \in {"deferred", "failed"} -> [w EXCEPT !.st = "waiting", !.pend = All, !.recent = TRUE]
         [] watch[k].told \notin {"deferred", "failed"} /\ w.pend # Nothing -> [w EXCEPT !.st = "waiting"]
         [] OTHER -> [w EXCEPT !.st = "none", !.recent = FALSE]]
  /\ UNCHANGED <<resident, task, client, dataVars, counters>>

(* refresh. *)

\* _cmd_refresh and bring_current ask for a full rescan, without the graph.
Refresh(c) ==
  LET k == RootOf[c] IN
  /\ resident[k] = "served"
  /\ \/ client[c] = "idle" /\ asks < MaxAsks /\ asks' = asks + 1
     \/ client[c] = "changing" /\ UNCHANGED asks
  /\ Rebuild(k, All, FALSE)
  /\ owed' = [owed EXCEPT ![c] = dirty[k]]
  /\ client' = [client EXCEPT ![c] = "waiting"]
  /\ UNCHANGED <<resident, watch, indexVars, graphVars, edits, troubles>>

\* It answers with the result it was told; a root evicted meanwhile is skipped.
Answer(c) ==
  /\ \/ client[c] \in Results \ {"changing"}
     \/ client[c] = "changing" /\ resident[RootOf[c]] = "no"
  /\ client' = [client EXCEPT ![c] = "idle"]
  /\ owed' = [owed EXCEPT ![c] = {}]
  /\ UNCHANGED <<resident, watch, task, indexVars, graphVars, counters>>

(* The rebuild task. *)

\* _run_rebuild begins.
Run(k) ==
  /\ task[k].pc = "new"
  /\ BeginPass(k, task[k], watch)
  /\ UNCHANGED <<resident, dataVars, counters>>

\* _rebuild_once, once the construction slot is free, finds no index, or one
\* that is being loaded.
Skip(k) ==
  /\ task[k].pc = "lock" /\ resident[k] # "served"
  /\ AfterIndex(k, watch, "skipped")
  /\ UNCHANGED <<resident, dataVars, counters>>

\* The pass would go past a limit its user set: the user is told.
Refuse(k) ==
  /\ task[k].pc = "lock" /\ resident[k] = "served" /\ k \notin Lanes /\ troubles < MaxTroubles
  /\ troubles' = troubles + 1
  /\ named' = [named EXCEPT ![k] = @ \ Covered(k, task[k].cur)]
  /\ AfterIndex(k, watch, "refused")
  /\ UNCHANGED <<resident, dirty, stored, built, loads, shared, graphVars, owed, edits, asks>>

\* There is no memory for it.
Defer(k) ==
  /\ task[k].pc = "lock" /\ resident[k] = "served" /\ k \notin Lanes /\ troubles < MaxTroubles
  /\ troubles' = troubles + 1
  /\ AfterIndex(k, watch, "deferred")
  /\ UNCHANGED <<resident, dataVars, edits, asks>>

\* The thread reads what the pass covers.
Scan(k) ==
  /\ task[k].pc = "lock" /\ resident[k] = "served"
  /\ built' = [built EXCEPT ![k] = dirty[k] \ Covered(k, task[k].cur)]
  /\ task' = [task EXCEPT ![k].pc = "building"]
  /\ UNCHANGED <<resident, watch, client, dirty, stored, loads, named, shared, graphVars, owed, counters>>

\* replace: the new generation is served, in place of one loaded meanwhile too;
\* the lanes of a base are to be planned anew.
Swap(k) ==
  LET moved == dirty[k] # built[k]
      lanes == {l \in LanesOf(k) : resident[l] # "no"} IN
  /\ task[k].pc = "building" /\ resident[k] # "no"
  /\ resident' = [resident EXCEPT ![k] = "served"]
  /\ dirty' = [x \in Roots |-> IF x = k THEN built[k]
                               ELSE IF x \in lanes /\ resident[x] = "served" /\ moved THEN dirty[x] \cup {BaseItem}
                               ELSE dirty[x]]
  /\ stored' = [stored EXCEPT ![k] = built[k]]
  /\ built' = [x \in Roots |-> IF x = k THEN {}
                               ELSE IF x \in LanesOf(k) /\ task[x].pc = "building" /\ moved THEN built[x] \cup {BaseItem}
                               ELSE built[x]]
  /\ loads' = [x \in Roots |-> IF x = k THEN {}
                               ELSE IF x \in lanes /\ resident[x] = "loading" /\ moved THEN loads[x] \cup {BaseItem}
                               ELSE loads[x]]
  /\ named' = [x \in Roots |-> IF x = k THEN named[k] \cap built[k]
                               ELSE IF x \in lanes /\ moved THEN named[x] \cup {BaseItem} ELSE named[x]]
  /\ shared' = [shared EXCEPT ![k] = @ \cap built[k]]
  /\ AfterIndex(k, [x \in Roots |-> IF x \in lanes THEN Noted(watch[x], All) ELSE watch[x]], "ok")
  /\ UNCHANGED <<graphVars, owed, counters>>

\* It was evicted: the generation is on disk, nothing is served.
SwapNothing(k) ==
  /\ task[k].pc = "building" /\ resident[k] = "no"
  /\ stored' = [stored EXCEPT ![k] = built[k]] /\ built' = [built EXCEPT ![k] = {}]
  /\ AfterIndex(k, watch, "skipped")
  /\ UNCHANGED <<resident, dirty, loads, named, shared, graphVars, owed, counters>>

\* The pass fails, or runs out of memory: the task is over.
Fail(k, r) ==
  /\ task[k].pc = "building" /\ troubles < MaxTroubles
  /\ troubles' = troubles + 1
  /\ built' = [built EXCEPT ![k] = {}]
  /\ TaskOver(k, watch, r)
  /\ UNCHANGED <<resident, dirty, stored, loads, named, shared, graphVars, owed, edits, asks>>

\* _refresh_graph: a graph job reads the files it is asked for ...
StartGraph(k) ==
  /\ task[k].pc = "graph"
  /\ graphReads' = [graphReads EXCEPT ![k] =
                      IF task[k].cur.kind = "all" THEN graphOwes[k] ELSE graphOwes[k] \cap task[k].cur.files]
  /\ task' = [task EXCEPT ![k].pc = "graphing"]
  /\ UNCHANGED <<resident, watch, client, indexVars, graphOwes, graphLeft, owed, counters>>

\* ... and is over; a failure is logged.
EndGraph(k) ==
  /\ task[k].pc = "graphing"
  /\ graphOwes' = [graphOwes EXCEPT ![k] = @ \ graphReads[k]]
  /\ graphLeft' = [graphLeft EXCEPT ![k] = @ \ graphReads[k]]
  /\ graphReads' = [graphReads EXCEPT ![k] = {}]
  /\ FollowUp(k, task[k], watch)
  /\ UNCHANGED <<resident, indexVars, owed, counters>>

Pass(k) == Run(k) \/ Skip(k) \/ Scan(k) \/ Swap(k) \/ SwapNothing(k) \/ StartGraph(k) \/ EndGraph(k)

Watching(k) == WatchReady(k) \/ Deliver(k) \/ Quiet(k) \/ WatchAsks(k) \/ WatchTold(k)

Next ==
  \/ \E k \in Roots : \/ Load(k) \/ Loaded(k) \/ Evict(k) \/ Watching(k) \/ Pass(k)
                      \/ Refuse(k) \/ Defer(k) \/ Fail(k, "failed") \/ Fail(k, "deferred")
                      \/ \E f \in Files : Edit(k, f)
  \/ \E c \in Clients : Refresh(c) \/ Answer(c)

Spec == Init /\ [][Next]_vars

\* The loop runs what can run, quiet windows end, and so do loads and passes.
Fairness == \A k \in Roots : WF_vars(Watching(k)) /\ WF_vars(Pass(k)) /\ WF_vars(Loaded(k)) /\ WF_vars(Quiet(k))

FairSpec == Spec /\ Fairness

-----------------------------------------------------------------------------
(* Properties. *)

TypeOK ==
  /\ resident \in [Roots -> {"no", "loading", "served"}]
  /\ watch \in [Roots -> [watcher : {"off", "registering", "ready"}, seen : SUBSET Files,
                          st : {"none", "waiting", "asked", "told"}, told : Results,
                          pend : ChangeSets, recent : BOOLEAN]]
  /\ task \in [Roots -> [pc : {"none", "new", "lock", "building", "graph", "graphing"}, cur : ChangeSets,
                         changes : ChangeSets, mark : BOOLEAN, graph : BOOLEAN, res : Results]]
  /\ client \in [Clients -> Results \cup {"idle", "waiting"}]
  /\ {dirty, stored, built, loads, named, shared} \subseteq [Roots -> SUBSET Items]
  /\ {graphOwes, graphReads, graphLeft} \subseteq [Roots -> SUBSET Files]
  /\ owed \in [Clients -> SUBSET Items]
  /\ edits \in 0..MaxEdits /\ asks \in 0..MaxAsks /\ troubles \in 0..MaxTroubles

\* Nothing is left to do for k.
AtRest(k) ==
  /\ resident[k] = "served" /\ watch[k].watcher = "ready" /\ watch[k].seen = {}
  /\ watch[k].st = "none" /\ task[k].pc = "none"

\* "joining never loses a named edit": once k is at rest, its index has every
\* edit its watcher saw, and a lane's its base's generation, whatever was joined,
\* put off, deferred, failed or evicted on the way, but for what a refusal told of.
NamedEditsLand == \A k \in Roots : AtRest(k) => named[k] \cap dirty[k] = {}

\* There is one way to lose them: the full rescan they were merged into was left
\* to a pass that ran already, which had read the tree, or was put off unretried.
OnlySharingLoses == \A k \in Roots : AtRest(k) => named[k] \cap dirty[k] \subseteq shared[k]

\* The same for the symbol graph: a refresh asked for after a pass took its
\* graph step is not dropped ...
GraphEditsLand == \A k \in Roots : AtRest(k) => graphOwes[k] = {}

\* ... but for one way: a rescan left to a running pass that named files follow,
\* whose graph step is for those files alone.
OnlyNamesLoseGraph == \A k \in Roots : AtRest(k) => graphOwes[k] \subseteq graphLeft[k]

\* Once nobody edits, evicts or asks any more every resident root comes to rest:
\* put-off passes, retries, follow-ups and re-plans do not go on for ever.
ComesToRest == \A k \in Roots : <>[](resident[k] = "no" \/ AtRest(k))

\* A lane "is re-planned when its lane changes or its base is rebuilt".
LaneFollowsBase == \A l \in Lanes : AtRest(l) /\ AtRest(BaseOf[l]) => BaseItem \notin dirty[l]

\* refresh is for "an index that is current": when it answers, every edit made
\* before it was asked is in the index.
RefreshIsCurrent ==
  \A c \in Clients : client[c] = "ok" /\ resident[RootOf[c]] = "served" => owed[c] \cap dirty[RootOf[c]] = {}

\* Quiet is "checked again after waiting for the daemon-wide construction slot".
QuietAfterSlot == [][\A k \in Roots : task[k].pc = "lock" /\ task'[k].pc = "building" /\ watch[k].st # "none"
                                       => ~watch[k].recent]_vars
=============================================================================
