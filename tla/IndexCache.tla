----------------------------- MODULE IndexCache -----------------------------
(***************************************************************************)
(* The indexes a process without watchers keeps resident (index_cache.py   *)
(* IndexCache): the MCP server's, and those of a daemon that watches       *)
(* nothing.  Requests are coroutines of one event loop: what happens       *)
(* between two awaits is one action, and validation and builds run in      *)
(* threads beside it.                                                      *)
(*                                                                         *)
(* A request for a root checks the stored index against the files, throws  *)
(* out the resident entry when the store is stale, and joins or starts the *)
(* build of the entry.  A lane is answered by an overlay of its base's     *)
(* entry as soon as the base has an index; before that it has an index of  *)
(* its own.  Least recently used entries make room; overlays take none.    *)
(*                                                                         *)
(* What is abstracted: a tree is the number of its edits; a stored index   *)
(* is valid while no edit is newer than its stamp (IndexGeneration has the *)
(* detail), and an in-memory index is the edits it has seen.  Content      *)
(* selections, excludes, sub-directories and git urls select another key   *)
(* and are left out, as is last_used, which only reports.                  *)
(***************************************************************************)
EXTENDS Naturals, FiniteSets, Functions

CONSTANTS
  Requests, \* coroutines that ask
  Bases,    \* workspaces of their own
  Lanes,    \* folders of linked worktrees
  BaseOf,   \* the workspace a lane belongs to
  Slots,    \* max_size
  MaxAsks,  \* bound: requests
  MaxEdits, \* bound: edits of all trees
  MaxFaults, \* bound: builds that fail, clients that give up
  MaxJobs   \* bound: builds whose task or result something refers to

Keys == Bases \cup Lanes
None == 0                           \* no build, or no base

ASSUME CacheAssumption ==
  /\ BaseOf \in [Lanes -> Bases] /\ Bases \cap Lanes = {} /\ None \notin Keys /\ IsFiniteSet(Keys)
  /\ Slots \in Nat \ {0} /\ MaxAsks \in Nat /\ MaxEdits \in Nat /\ MaxFaults \in Nat /\ MaxJobs \in Nat

NoStore == [there |-> FALSE, seen |-> 0, stamp |-> 0]

VARIABLES
  version,   \* a tree: its edits so far
  disk,      \* its stored index: the edits it has seen, the edits there were when it was stamped
  jobs,      \* the builds whose task or result something refers to: see Job
  entry,     \* the build _tasks holds for a key
  older,     \* the order of _tasks: the keys in it used less recently than a key of it
  laneBases, \* _lane_bases: the base a resident lane overlays, as the key
  cooling,   \* keys whose _revalidate_after is in the future
  req,       \* the requests: see Idle
  excuse     \* history: what was counted against the bounds, and see the properties

vars == <<version, disk, jobs, entry, older, laneBases, cooling, req, excuse>>

\* An own index or an overlay of base's build; once begun, what it has seen and when it was stamped.
Job(k, own, base, st) ==
  [key |-> k, own |-> own, base |-> base, st |-> st, seen |-> 0, stamp |-> 0, loads |-> FALSE, deserted |-> FALSE]
NoJob == Job(None, TRUE, None, "free")
Ids == 1..MaxJobs
Live(j) == jobs[j].st \in {"new", "running"}
Ready(j) == j # None /\ jobs[j].st = "done"

\* at: the await a request is in; key: whose index it waits for; lane: whether it is a
\* lane's base; job: the build it awaits; cached, valid: the entry it checks and the verdict.
\* since: the edits there were when it asked; fresh: whether the answer was checked or begun since.
Idle == [at |-> "idle", key |-> None, lane |-> None, job |-> None, cached |-> None,
         valid |-> TRUE, since |-> 0, fresh |-> FALSE]

Init ==
  /\ version = [k \in Keys |-> 0]
  /\ disk \in [Keys -> {NoStore, [there |-> TRUE, seen |-> 0, stamp |-> 0]}]
  /\ \A l \in Lanes : ~disk[l].there
  /\ jobs = [j \in Ids |-> NoJob] /\ entry = [k \in Keys |-> None] /\ older = [k \in Keys |-> {}]
  /\ laneBases = [l \in Lanes |-> None] /\ cooling = {}
  /\ req = [r \in Requests |-> Idle]
  /\ excuse = [elsewhere |-> {}, late |-> {}, asked |-> 0, faults |-> 0, outlived |-> FALSE, adopted |-> FALSE]

-----------------------------------------------------------------------------
(* The table of entries.  E is its state: [entry, older, bases, cool]. *)

Table == [entry |-> entry, older |-> older, bases |-> laneBases, cool |-> cooling]
SetTable(E) == entry' = E.entry /\ older' = E.older /\ laneBases' = E.bases /\ cooling' = E.cool

Without(E, gone) ==
  [entry |-> [x \in Keys |-> IF x \in gone THEN None ELSE E.entry[x]],
   older |-> [x \in Keys |-> IF x \in gone THEN {} ELSE E.older[x] \ gone],
   bases |-> [l \in Lanes |-> IF l \in gone THEN None ELSE E.bases[l]],
   cool |-> E.cool \ gone]

\* A mutant of Evicted: overlays stay.
EvictedAlone(E, gone) == Without(E, gone)

\* evict: the entries and every overlay built on one of them.
Evicted(E, gone) == Without(E, gone \cup {l \in Lanes : E.bases[l] \in gone})

\* The indexes of their own: overlays cost their delta, not a slot.
InTable(E) == {k \in Keys : E.entry[k] # None}
FullKeys(E) == {k \in InTable(E) : k \in Lanes => E.bases[k] = None}

\* As many of the oldest go as leave one slot free.
RoomFor(E) ==
  LET full == FullKeys(E)
  IN Evicted(E, {k \in full : Cardinality(E.older[k] \cap full) + Slots <= Cardinality(full)})

\* Entries, requests, overlays and the threads that run them keep builds; the others are garbage.
Kept(js) ==
  LET near == {entry'[k] : k \in Keys} \cup {req'[r].job : r \in Requests} \cup {req'[r].cached : r \in Requests}
              \cup {j \in Ids : js[j].st \in {"new", "running"}}
      kept == near \cup {js[j].base : j \in near \ {None}}
  IN [j \in Ids |-> IF j \in kept THEN js[j] ELSE NoJob]

Room == \E j \in Ids : jobs[j].st = "free"
NewId == CHOOSE j \in Ids : jobs[j].st = "free"

Touched(E, k) == [E EXCEPT !.older = [x \in Keys |-> (IF x = k THEN InTable(E) ELSE @[x]) \ {k}]]

-----------------------------------------------------------------------------
(* _get_exact. *)

Overlayable(b) == disk[b].there \/ Ready(entry[b])

\* get_with_key: find_lane decides whether the request is for an overlay.
Ask(r, k) ==
  /\ req[r].at = "idle" /\ excuse.asked < MaxAsks
  /\ excuse' = [excuse EXCEPT !.asked = @ + 1]
  /\ LET viaBase == k \in Lanes /\ Overlayable(BaseOf[k]) IN
       req' = [req EXCEPT ![r] = [Idle EXCEPT
         !.at = "exact", !.key = IF viaBase THEN BaseOf[k] ELSE k,
         !.lane = IF viaBase THEN k ELSE None,
         !.since = version[IF viaBase THEN BaseOf[k] ELSE k]]]
  /\ UNCHANGED <<version, disk, jobs, entry, older, laneBases, cooling>>

\* Join the entry's build, or make room and start one.
Install(r, E) ==
  LET k == req[r].key IN
  IF E.entry[k] # None
  THEN /\ SetTable(Touched(E, k))
       /\ req' = [req EXCEPT ![r].at = "wait", ![r].job = E.entry[k], ![r].cached = None,
                             ![r].fresh = E.entry[k] = req[r].cached]
       /\ jobs' = Kept(jobs)
  ELSE /\ Room
       /\ SetTable(Touched([RoomFor(E) EXCEPT !.entry[k] = NewId], k))
       /\ req' = [req EXCEPT ![r].at = "wait", ![r].job = NewId, ![r].cached = None, ![r].fresh = TRUE]
       /\ jobs' = Kept([jobs EXCEPT ![NewId] = Job(k, TRUE, None, "new")])

\* _evict_if_stale leaves alone what is a lane's, being built, failed or cooling.
Checks(k) == Ready(entry[k]) /\ k \notin cooling /\ (k \in Lanes => laneBases[k] = None)

Exact(r) ==
  /\ req[r].at = "exact"
  /\ IF Checks(req[r].key)
     THEN /\ req' = [req EXCEPT ![r].at = "check", ![r].cached = entry[req[r].key]]
          /\ UNCHANGED <<jobs, entry, older, laneBases, cooling>>
     ELSE Install(r, Table)
  /\ UNCHANGED <<version, disk, excuse>>

\* A mutant of Valid: the store is looked for, not validated.
ValidIfThere(k) == disk[k].there

\* get_validated_cache, in a thread: the STORED index against the files.
Valid(k) == disk[k].there /\ version[k] <= disk[k].stamp

Validate(r) ==
  /\ req[r].at = "check"
  /\ req' = [req EXCEPT ![r].at = "checked", ![r].valid = Valid(req[r].key)]
  /\ UNCHANGED <<version, disk, jobs, entry, older, laneBases, cooling, excuse>>

\* Back on the loop: evict only the entry that was judged.
Resume(r) ==
  /\ req[r].at = "checked"
  /\ Install(r, IF ~req[r].valid /\ entry[req[r].key] = req[r].cached
                THEN Evicted(Table, {req[r].key}) ELSE Table)
  /\ UNCHANGED <<version, disk, excuse>>

-----------------------------------------------------------------------------
(* _get_overlay, from the answer of the base to the await of the overlay. *)

\* An overlay is planned anew when its base was rebuilt since, or its cooldown ran out.
Replans(l, base) ==
  LET current == entry[l] IN
  /\ Ready(current) /\ ~jobs[current].own
  /\ jobs[current].base # base \/ l \notin cooling

Overlay(r) ==
  LET lane == req[r].lane
      base == req[r].job
      starts == entry[lane] = None \/ Replans(lane, base)
      job == IF starts THEN NewId ELSE entry[lane]
  IN
  /\ req[r].at = "wait" /\ req[r].lane # None /\ Ready(base)
  /\ starts => Room
  /\ SetTable(Touched([Table EXCEPT !.entry[lane] = job, !.bases[lane] = req[r].key], lane))
  /\ req' = [req EXCEPT ![r].at = "overlay", ![r].key = lane, ![r].job = job, ![r].lane = None]
  /\ jobs' = Kept(IF starts THEN [jobs EXCEPT ![job] = Job(lane, FALSE, base, "new")] ELSE jobs)
  /\ excuse' = [excuse EXCEPT !.outlived = @ \/ entry[req[r].key] # base,
                              !.adopted = @ \/ (~starts /\ jobs[job].own)]
  /\ UNCHANGED <<version, disk>>

-----------------------------------------------------------------------------
(* How an await ends. *)

Answer(r) ==
  /\ \/ req[r].at = "wait" /\ req[r].lane = None
     \/ req[r].at = "overlay"
  /\ Ready(req[r].job)
  /\ req' = [req EXCEPT ![r] = Idle]
  /\ UNCHANGED <<version, disk, entry, older, laneBases, cooling, excuse>>
  /\ jobs' = Kept(jobs)

\* A client that gives up or a build that fails.
Fault == excuse.faults < MaxFaults /\ excuse' = [excuse EXCEPT !.faults = @ + 1]

\* A mutant of Raise: the failed entry is left for the staleness check.
RaiseOnly(r) ==
  /\ req[r].at \in {"wait", "overlay"} /\ jobs[req[r].job].st = "failed"
  /\ req' = [req EXCEPT ![r] = Idle]
  /\ SetTable(Table)
  /\ jobs' = Kept(jobs)
  /\ UNCHANGED <<version, disk, excuse>>

\* The build failed: whoever waited evicts it, unless it was replaced meanwhile.
Raise(r) ==
  /\ req[r].at \in {"wait", "overlay"} /\ jobs[req[r].job].st = "failed"
  /\ SetTable(IF entry[req[r].key] = req[r].job THEN Evicted(Table, {req[r].key}) ELSE Table)
  /\ req' = [req EXCEPT ![r] = Idle]
  /\ jobs' = Kept(jobs)
  /\ UNCHANGED <<version, disk, excuse>>

\* The client gives up; the build goes on without it.  One that gives up on a base or
\* on an index of its own, when the build is over and it has yet to run, takes the
\* entry with it.
Cancel(r) ==
  /\ req[r].at \in {"wait", "overlay"}
  /\ Fault
  /\ req' = [req EXCEPT ![r] = Idle]
  /\ SetTable(IF req[r].at = "wait" /\ ~Live(req[r].job) THEN Evicted(Table, {req[r].key}) ELSE Table)
  /\ jobs' = Kept([jobs EXCEPT ![req[r].job].deserted = TRUE])
  /\ UNCHANGED <<version, disk>>

-----------------------------------------------------------------------------
(* Builds, in threads. *)

\* from_path: a valid store is loaded, any other is built from the files as they are.
\* What an overlay has seen of its lane is left out.
Begin(j) ==
  LET k == jobs[j].key
      loads == jobs[j].own /\ Valid(k)
  IN
  /\ jobs[j].st = "new"
  /\ jobs' = [jobs EXCEPT ![j].st = "running", ![j].loads = loads,
                          ![j].seen = IF ~jobs[j].own THEN 0 ELSE IF loads THEN disk[k].seen ELSE version[k],
                          ![j].stamp = IF loads THEN disk[k].stamp ELSE 0]
  /\ UNCHANGED <<version, disk, entry, older, laneBases, cooling, req, excuse>>

\* What was built is stamped and published; then, back on the loop, the cooldown begins.
End(j) ==
  LET k == jobs[j].key
      stamp == IF jobs[j].loads THEN jobs[j].stamp ELSE IF jobs[j].own THEN version[k] ELSE 0
  IN
  /\ jobs[j].st = "running"
  /\ UNCHANGED <<version, entry, older, laneBases, req>>
  /\ excuse' = IF ~jobs[j].own THEN excuse ELSE
       [excuse EXCEPT !.late = IF jobs[j].seen < stamp THEN @ \cup {k} ELSE @,
                      !.elsewhere = IF entry[k] # j THEN @ \cup {k} ELSE @]
  /\ jobs' = Kept([jobs EXCEPT ![j].st = "done", ![j].stamp = stamp])
  /\ disk' = IF jobs[j].own /\ ~jobs[j].loads
             THEN [disk EXCEPT ![k] = [there |-> TRUE, seen |-> jobs[j].seen, stamp |-> stamp]] ELSE disk
  /\ cooling' = cooling \cup {k}

Fail(j) ==
  /\ jobs[j].st = "running" /\ ~jobs[j].loads
  /\ Fault
  /\ UNCHANGED <<version, disk, entry, older, laneBases, cooling, req>>
  /\ jobs' = Kept([jobs EXCEPT ![j].st = "failed"])

-----------------------------------------------------------------------------
(* Around them. *)

Edits == FoldFunction(LAMBDA n, m : n + m, 0, version)

Edit(k) ==
  /\ Edits < MaxEdits
  /\ version' = [version EXCEPT ![k] = @ + 1]
  /\ UNCHANGED <<disk, jobs, entry, older, laneBases, cooling, req, excuse>>

\* Another process brings the stored index up to date (once: a bound).
Elsewhere(k) ==
  /\ ~Valid(k) /\ excuse.elsewhere = {}
  /\ disk' = [disk EXCEPT ![k] = [there |-> TRUE, seen |-> version[k], stamp |-> version[k]]]
  /\ excuse' = [excuse EXCEPT !.elsewhere = @ \cup {k}]
  /\ UNCHANGED <<version, jobs, entry, older, laneBases, cooling, req>>

CoolDown(k) ==
  /\ k \in cooling
  /\ cooling' = cooling \ {k}
  /\ UNCHANGED <<version, disk, jobs, entry, older, laneBases, req, excuse>>

Step(r) == Exact(r) \/ Validate(r) \/ Resume(r) \/ Overlay(r) \/ Answer(r) \/ Raise(r)

Next ==
  \/ \E r \in Requests : Step(r) \/ Cancel(r) \/ \E k \in Keys : Ask(r, k)
  \/ \E j \in Ids : Begin(j) \/ End(j) \/ Fail(j)
  \/ \E k \in Bases : Elsewhere(k)
  \/ \E k \in Keys : Edit(k) \/ CoolDown(k)

Spec == Init /\ [][Next]_vars

-----------------------------------------------------------------------------
(* Properties. *)

Resident == {entry[k] : k \in Keys} \ {None}

\* "Max number of cached indexes to keep in memory": the indexes of their own that
\* entries or the overlays among them hold are no more than there are slots, unless
\* an overlay was installed on a base that had just been evicted or replaced, or a lane's own index is
\* taken for its overlay (index_cache.py:38, 199 and 418).
OnlyTheseOverfill ==
  LET held == {j \in Resident : jobs[j].own} \cup {jobs[j].base : j \in {i \in Resident : ~jobs[i].own}}
  IN excuse.outlived \/ excuse.adopted \/ Cardinality(held) <= Slots

\* A request whose entry was checked or begun for it is answered with an index that
\* has seen every edit from before it asked, unless the store was brought up to date
\* by another process or by a build evicted before it ended, or was stamped after an
\* edit the build missed
\* (_get_exact: "so an entry is rebuilt once its files change").
Answers(r) == req[r].at = "wait" /\ req[r].fresh /\ Ready(req[r].job)
Excused(k) == k \in excuse.late \cup excuse.elsewhere
OnlyTheseAnswerStale ==
  \A r \in Requests : Answers(r) => jobs[req[r].job].seen >= req[r].since \/ Excused(req[r].key)

\* A failed build is not kept for the requests to come: it stays resident only while
\* one that waited for it has yet to hear of it, or when one of those gave up.
FailuresLeave ==
  \A k \in Keys : entry[k] # None /\ jobs[entry[k]].st = "failed" =>
    \/ \E r \in Requests : req[r].job = entry[k]
    \/ jobs[entry[k]].deserted

-----------------------------------------------------------------------------
(* What the code does not keep: no run checks it. *)

\* The same as the docstring has it, without the excuses.
EntriesFollowFiles ==
  \A r \in Requests : Answers(r) => jobs[req[r].job].seen >= req[r].since
=============================================================================
