------------------------------ MODULE GraphJobs ------------------------------
(***************************************************************************)
(* The daemon's graph construction (daemon/graph_jobs.py): one job per     *)
(* graph root, one worker process at a time, handed out by priority.       *)
(*                                                                         *)
(* Everything runs on one asyncio loop, so what the code does between two  *)
(* awaits is one action here.  A job asks in a thread whether its root is  *)
(* a lane, waits until a lane's base has settled, takes or queues for the  *)
(* worker turn, checks that its root is still there, takes the index       *)
(* construction lock, lowers the daemon's memory limit, spawns the worker  *)
(* and reaps it; change sets that arrive meanwhile make a follow-up pass   *)
(* of the same job.  Its users are requests and index passes, which        *)
(* announce the refresh they will ask for.                                 *)
(*                                                                         *)
(* What is abstracted: a change set is a set of files; what the graph owes *)
(* is kept as history.  The turn's heap is ordered by (priority, ticket),  *)
(* a ticket counting from the waiters there are.  RLIMIT_DATA is full or   *)
(* lowered to the serving reserve.  Which roots are lanes does not change. *)
(***************************************************************************)
EXTENDS Integers, FiniteSets

CONSTANTS
  Roots,    \* graph roots
  Lanes,    \* those that are lanes ...
  BaseOf,   \* ... and the base root of each
  Files,    \* the files of a root
  Passes,   \* index passes that refresh a graph, of a root or of a directory in it
  RootOf,   \* the graph root each refreshes
  Whole,    \* those of a whole graph root, whose announcement a lane sees
  NoRoot,   \* nobody: the index lock is free
  Loader,   \* an index load or rebuild, the index lock's other user
  MaxJobs,  \* live jobs the queue admits (8)
  Cap,      \* files a pending change set may name (4096)
  MaxAsks   \* bound: index passes and requests

ASSUME RootsAssumption == /\ IsFiniteSet(Roots) /\ Lanes \subseteq Roots
                          /\ BaseOf \in [Lanes -> Roots \ Lanes]
                          /\ RootOf \in [Passes -> Roots] /\ Whole \subseteq Passes
                          /\ \A p, q \in Whole : RootOf[p] = RootOf[q] => p = q
                          /\ NoRoot \notin Roots /\ Loader \notin Roots /\ NoRoot # Loader
ASSUME BoundsAssumption == MaxJobs \in Nat /\ Cap \in Nat /\ MaxAsks \in Nat

VARIABLES
  pc,        \* pc[r]: where root r's job is, "none" without one
  ticket,    \* ticket[r]: the arrival order of a job queued for the turn
  turnHeld,  \* _turn_held
  indexLock, \* the holder of the index construction lock
  limit,     \* the daemon's RLIMIT_DATA
  saved,     \* saved[r]: old_soft in r's job
  paths,     \* paths[r]: the change set of the current pass
  pending,   \* pending[r]: the change set of the follow-up pass
  ready,     \* roots with a published graph (in the code's set from their first ensure on)
  gone,      \* roots whose directory was removed
  pass,      \* pass[p]: where index pass p is
  announced, \* roots whose refresh is announced
  closing,   \* the daemon stops
  cancelled, \* jobs that close() cancelled and that have not ended yet
  asks,      \* index passes and requests so far
  owing,     \* history, owing[r]: files a refresh was asked for and not delivered
  taken      \* history, taken[r]: those of them the running worker reads

turnVars == <<pc, ticket, turnHeld>>
limitVars == <<indexLock, limit, saved>>
workVars == <<paths, pending, owing, taken>>
userVars == <<pass, announced, asks>>
vars == <<turnVars, limitVars, workVars, ready, gone, userVars, closing, cancelled>>

\* A change set: "none", "all" for a whole refresh, or "some" of the files.
ChangeSets == [kind : {"some"}, files : SUBSET Files] \cup [kind : {"none", "all"}, files : {{}}]
Nothing == [kind |-> "none", files |-> {}]
All == [kind |-> "all", files |-> {}]
Named(F) == [kind |-> "some", files |-> F]
FilesOf(c) == IF c.kind = "all" THEN Files ELSE c.files

InTurn == {"turn", "locking", "spawn", "building", "reaping"}
HasWorker == {"spawn", "building", "reaping"}
Live == {r \in Roots : pc[r] # "none"}

\* A base, or any root that is no lane, goes before every lane.
Priority(r) == IF r \in Lanes THEN 1 ELSE 0

\* The waiter on top of the heap.
IsNext(r) ==
  /\ pc[r] = "queued"
  /\ \A s \in Roots : pc[s] = "queued" /\ s # r =>
       \/ Priority(r) < Priority(s)
       \/ Priority(r) = Priority(s) /\ ticket[r] < ticket[s]

\* The tickets once r has left the heap.
Without(r) == [s \in Roots |-> IF s = r THEN 0
                               ELSE IF ticket[s] > ticket[r] THEN ticket[s] - 1 ELSE ticket[s]]

\* A mutant of PassTurn: the turn is freed, nobody who waits for it is woken.
FreeTurn(r, next) ==
  /\ pc' = [pc EXCEPT ![r] = next]
  /\ turnHeld' = FALSE
  /\ UNCHANGED ticket

\* A mutant of PassTurn: the turn is freed and handed over.
FreeAndHandOver(r, next) ==
  /\ turnHeld' = FALSE
  /\ \/ /\ \A s \in Roots : pc[s] # "queued"
        /\ pc' = [pc EXCEPT ![r] = next]
        /\ UNCHANGED ticket
     \/ \E s \in Roots : /\ IsNext(s)
                         /\ pc' = [pc EXCEPT ![r] = next, ![s] = "turn"]
                         /\ ticket' = Without(s)

\* _pass_turn, by a job that goes on at next: to the first waiter, or free.
PassTurn(r, next) ==
  \/ /\ \A s \in Roots : pc[s] # "queued"
     /\ turnHeld' = FALSE
     /\ pc' = [pc EXCEPT ![r] = next]
     /\ UNCHANGED ticket
  \/ \E s \in Roots : /\ IsNext(s)
                      /\ pc' = [pc EXCEPT ![r] = next, ![s] = "turn"]
                      /\ ticket' = Without(s)
                      /\ UNCHANGED turnHeld

-----------------------------------------------------------------------------
Init ==
  /\ pc = [r \in Roots |-> "none"] /\ ticket = [r \in Roots |-> 0] /\ turnHeld = FALSE
  /\ indexLock = NoRoot /\ limit = "full" /\ saved = [r \in Roots |-> "full"]
  /\ paths = [r \in Roots |-> Nothing] /\ pending = [r \in Roots |-> Nothing]
  /\ owing = [r \in Roots |-> {}] /\ taken = [r \in Roots |-> {}]
  /\ ready \in SUBSET Roots /\ gone = {}
  /\ pass = [p \in Passes |-> "idle"] /\ announced = {} /\ asks = 0
  /\ closing = FALSE /\ cancelled = {}

\* _start, for a root without a job.
StartJob(r, c) ==
  /\ Cardinality(Live) < MaxJobs
  /\ r \in ready \/ r \notin gone
  /\ pc' = [pc EXCEPT ![r] = "begin"]
  /\ paths' = [paths EXCEPT ![r] = c]
  /\ UNCHANGED <<ticket, turnHeld, pending>>

\* A mutant of FoldIn: the newest change set replaces the pending one.
KeepNewest(r, c) == pending' = [pending EXCEPT ![r] = c]

\* _start, folding a change set into the running job's follow-up.
FoldIn(r, c) ==
  LET both == pending[r].files \cup c.files IN
  pending' = [pending EXCEPT ![r] =
                IF pending[r].kind = "all" \/ c.kind = "all" \/ Cardinality(both) > Cap
                  THEN All ELSE Named(both)]

\* The job is over: what it had not done is dropped, who joined it is told.
JobOver(r) ==
  /\ paths' = [paths EXCEPT ![r] = Nothing]
  /\ pending' = [pending EXCEPT ![r] = Nothing]
  /\ taken' = [taken EXCEPT ![r] = {}]
  /\ pass' = [p \in Passes |-> IF RootOf[p] = r /\ pass[p] = "joined" THEN "landed" ELSE pass[p]]
  /\ cancelled' = cancelled \ {r}
  /\ UNCHANGED <<announced, asks, closing>>

-----------------------------------------------------------------------------
(* The jobs' users. *)

\* ensure without refresh: a request on a root without a graph, the first one
\* after the daemon started, or one on a lane whose base moved.
Ask(r) ==
  /\ asks < MaxAsks /\ pc[r] = "none"
  /\ StartJob(r, All)
  /\ asks' = asks + 1
  /\ UNCHANGED <<limitVars, owing, taken, ready, gone, pass, announced, closing, cancelled>>

\* An index pass whose graph refresh will follow announces it first.
BeginPass(p) ==
  /\ asks < MaxAsks /\ pass[p] = "idle" /\ RootOf[p] \notin gone
  /\ asks' = asks + 1
  /\ pass' = [pass EXCEPT ![p] = "indexing"]
  /\ announced' = IF p \in Whole THEN announced \cup {RootOf[p]} ELSE announced
  /\ UNCHANGED <<turnVars, limitVars, workVars, ready, gone, closing, cancelled>>

\* ensure with refresh: a job is started or joined.
Refresh(p, c) ==
  LET r == RootOf[p] IN
  /\ pass[p] = "indexing"
  /\ IF pc[r] = "none" THEN StartJob(r, c)
     ELSE FoldIn(r, c) /\ UNCHANGED <<turnVars, paths>>
  /\ owing' = [owing EXCEPT ![r] = @ \cup FilesOf(c)]
  /\ taken' = [taken EXCEPT ![r] = @ \ FilesOf(c)]
  /\ pass' = [pass EXCEPT ![p] = "joined"]
  /\ UNCHANGED <<limitVars, ready, gone, announced, asks, closing, cancelled>>

\* The pass failed, or the full queue refused the refresh.
RefuseRefresh(p) ==
  /\ pass[p] = "indexing"
  /\ pass' = [pass EXCEPT ![p] = "landed"]
  /\ UNCHANGED <<turnVars, limitVars, workVars, ready, gone, announced, asks, closing, cancelled>>

\* The joined job is over: the announcement ends.
EndPass(p) ==
  /\ pass[p] = "landed"
  /\ pass' = [pass EXCEPT ![p] = "idle"]
  /\ announced' = IF p \in Whole THEN announced \ {RootOf[p]} ELSE announced
  /\ UNCHANGED <<turnVars, limitVars, workVars, ready, gone, asks, closing, cancelled>>

\* A lane or checkout is removed.
RemoveRoot(r) ==
  /\ r \in Lanes /\ r \notin gone
  /\ gone' = gone \cup {r}
  /\ UNCHANGED <<turnVars, limitVars, workVars, ready, userVars, closing, cancelled>>

\* An index load or rebuild has the index construction lock.
TakeLoad ==
  /\ indexLock = NoRoot
  /\ indexLock' = Loader
  /\ UNCHANGED <<turnVars, limit, saved, workVars, ready, gone, userVars, closing, cancelled>>

EndLoad ==
  /\ indexLock = Loader
  /\ indexLock' = NoRoot
  /\ UNCHANGED <<turnVars, limit, saved, workVars, ready, gone, userVars, closing, cancelled>>

-----------------------------------------------------------------------------
(* The jobs. *)

\* _base_settled
Settled(b) == pc[b] = "none" /\ b \notin announced

\* A lane waits until its base has settled; then the turn is taken or queued for.
Settle(r) ==
  /\ pc[r] = "begin"
  /\ r \in Lanes => Settled(BaseOf[r])
  /\ IF turnHeld
       THEN /\ pc' = [pc EXCEPT ![r] = "queued"]
            /\ ticket' = [ticket EXCEPT ![r] = 1 + Cardinality({s \in Roots : pc[s] = "queued"})]
            /\ UNCHANGED turnHeld
       ELSE /\ pc' = [pc EXCEPT ![r] = "turn"]
            /\ turnHeld' = TRUE
            /\ UNCHANGED ticket
  /\ UNCHANGED <<limitVars, workVars, ready, gone, userVars, closing, cancelled>>

\* The root is still there when its turn comes.
CheckRoot(r) ==
  /\ pc[r] = "turn" /\ r \notin gone
  /\ pc' = [pc EXCEPT ![r] = "locking"]
  /\ UNCHANGED <<ticket, turnHeld, limitVars, workVars, ready, gone, userVars, closing, cancelled>>

\* It was removed: dropped without a worker.
DropJob(r) ==
  /\ pc[r] = "turn" /\ r \in gone
  /\ ready' = ready \ {r}
  /\ PassTurn(r, "none") /\ JobOver(r)
  /\ owing' = [owing EXCEPT ![r] = {}]
  /\ UNCHANGED <<limitVars, gone>>

\* Under the index lock the memory limit is lowered to the serving reserve.
LowerLimit(r) ==
  /\ pc[r] = "locking" /\ indexLock = NoRoot
  /\ indexLock' = r
  /\ saved' = [saved EXCEPT ![r] = limit]
  /\ limit' = "reserve"
  /\ pc' = [pc EXCEPT ![r] = "spawn"]
  /\ UNCHANGED <<ticket, turnHeld, workVars, ready, gone, userVars, closing, cancelled>>

\* There is no memory for a worker: the job fails.
RefuseWorker(r) ==
  /\ pc[r] = "locking" /\ indexLock = NoRoot
  /\ PassTurn(r, "none") /\ JobOver(r)
  /\ owing' = [owing EXCEPT ![r] = {}]
  /\ UNCHANGED <<limitVars, ready, gone>>

\* The worker runs, the index lock is free; it is sent the pass's change set.
Spawn(r) ==
  /\ pc[r] = "spawn"
  /\ pc' = [pc EXCEPT ![r] = "building"]
  /\ indexLock' = NoRoot
  /\ taken' = [taken EXCEPT ![r] = owing[r] \cap FilesOf(paths[r])]
  /\ UNCHANGED <<ticket, turnHeld, limit, saved, paths, pending, owing, ready, gone, userVars, closing, cancelled>>

\* A mutant of SpawnFails: the memory limit stays lowered.
SpawnFailsLowered(r) ==
  /\ pc[r] = "spawn"
  /\ indexLock' = NoRoot
  /\ PassTurn(r, "none") /\ JobOver(r)
  /\ owing' = [owing EXCEPT ![r] = {}]
  /\ UNCHANGED <<limit, saved, ready, gone>>

\* The spawn fails or is cancelled.
SpawnFails(r) ==
  /\ pc[r] = "spawn"
  /\ limit' = saved[r] /\ saved' = [saved EXCEPT ![r] = "full"]
  /\ indexLock' = NoRoot
  /\ PassTurn(r, "none") /\ JobOver(r)
  /\ owing' = [owing EXCEPT ![r] = {}]
  /\ UNCHANGED <<ready, gone>>

\* The worker succeeded; a pending change set makes another pass of this job.
Finish(r) ==
  /\ pc[r] = "building"
  /\ limit' = saved[r] /\ saved' = [saved EXCEPT ![r] = "full"]
  /\ ready' = ready \cup {r}
  /\ owing' = [owing EXCEPT ![r] = @ \ taken[r]]
  /\ \/ pending[r] = Nothing /\ PassTurn(r, "none") /\ JobOver(r)
     \/ /\ pending[r] # Nothing /\ PassTurn(r, "begin")
        /\ paths' = [paths EXCEPT ![r] = pending[r]]
        /\ pending' = [pending EXCEPT ![r] = Nothing]
        /\ taken' = [taken EXCEPT ![r] = {}]
        /\ UNCHANGED <<userVars, closing, cancelled>>
  /\ UNCHANGED <<indexLock, gone>>

\* The worker failed, or was terminated and reaped for close().
WorkerFails(r) ==
  /\ \/ pc[r] = "building" /\ r \notin cancelled
     \/ pc[r] = "reaping"
  /\ limit' = saved[r] /\ saved' = [saved EXCEPT ![r] = "full"]
  /\ PassTurn(r, "none") /\ JobOver(r)
  /\ owing' = [owing EXCEPT ![r] = {}]
  /\ UNCHANGED <<indexLock, ready, gone>>

\* The daemon stops: close() cancels the jobs there are.
Close ==
  /\ ~closing /\ closing' = TRUE
  /\ cancelled' = Live
  /\ UNCHANGED <<turnVars, limitVars, workVars, ready, gone, userVars>>

\* A cancelled job ends where it waits; a granted turn is passed on.
CancelWaiting(r) ==
  /\ r \in cancelled /\ pc[r] \in {"begin", "queued", "turn", "locking"}
  /\ IF pc[r] \in {"turn", "locking"} THEN PassTurn(r, "none")
     ELSE /\ pc' = [pc EXCEPT ![r] = "none"]
          /\ ticket' = IF pc[r] = "queued" THEN Without(r) ELSE ticket
          /\ UNCHANGED turnHeld
  /\ JobOver(r)
  /\ owing' = [owing EXCEPT ![r] = {}]
  /\ UNCHANGED <<limitVars, ready, gone>>

\* A running worker is terminated and waited for.
CancelWorker(r) ==
  /\ r \in cancelled /\ pc[r] = "building"
  /\ pc' = [pc EXCEPT ![r] = "reaping"]
  /\ UNCHANGED <<ticket, turnHeld, limitVars, workVars, ready, gone, userVars, closing, cancelled>>

\* A job that close() has cancelled does nothing else any more.
JobStep(r) ==
  \/ /\ r \notin cancelled
     /\ Settle(r) \/ CheckRoot(r) \/ DropJob(r) \/ LowerLimit(r) \/ RefuseWorker(r)
        \/ Spawn(r) \/ Finish(r)
  \/ SpawnFails(r) \/ WorkerFails(r) \/ CancelWaiting(r) \/ CancelWorker(r)

Next ==
  \/ \E r \in Roots : Ask(r) \/ RemoveRoot(r) \/ JobStep(r)
  \/ \E p \in Passes : \/ BeginPass(p) \/ RefuseRefresh(p) \/ EndPass(p)
                       \/ Refresh(p, All) \/ \E F \in SUBSET Files : Refresh(p, Named(F))
  \/ TakeLoad \/ EndLoad \/ Close

Spec == Init /\ [][Next]_vars

\* asyncio runs every task that can run; its locks are handed out in order; an
\* index load, a worker and an index pass end.
Runs(r) ==
  \/ r \notin cancelled /\ (Settle(r) \/ CheckRoot(r) \/ DropJob(r) \/ Spawn(r))
  \/ r \in cancelled /\ SpawnFails(r)
  \/ Finish(r) \/ WorkerFails(r) \/ CancelWaiting(r) \/ CancelWorker(r)

Fairness ==
  /\ \A r \in Roots : WF_vars(Runs(r)) /\ SF_vars(r \notin cancelled /\ LowerLimit(r))
  /\ \A p \in Passes : WF_vars(RefuseRefresh(p) \/ EndPass(p))
  /\ WF_vars(EndLoad)

FairSpec == Spec /\ Fairness

-----------------------------------------------------------------------------
(* Properties. *)

TypeOK ==
  /\ pc \in [Roots -> InTurn \cup {"none", "begin", "queued"}]
  /\ ticket \in [Roots -> Nat] /\ turnHeld \in BOOLEAN
  /\ indexLock \in Roots \cup {NoRoot, Loader}
  /\ limit \in {"full", "reserve"} /\ saved \in [Roots -> {"full", "reserve"}]
  /\ paths \in [Roots -> ChangeSets] /\ pending \in [Roots -> ChangeSets]
  /\ owing \in [Roots -> SUBSET Files] /\ taken \in [Roots -> SUBSET Files]
  /\ ready \subseteq Roots /\ gone \subseteq Roots
  /\ pass \in [Passes -> {"idle", "indexing", "joined", "landed"}] /\ announced \subseteq Roots
  /\ asks \in 0..MaxAsks /\ closing \in BOOLEAN /\ cancelled \subseteq Roots

\* "One worker builds at a time": whatever is granted, cancelled, dropped or
\* failing meanwhile, two jobs never have a worker, nor the turn for one.
OneWorker == \A r, s \in Roots : pc[r] \in InTurn /\ pc[s] \in InTurn => r = s

\* The daemon serves under the lowered memory limit only while a worker is
\* there: no failure or cancellation leaves it lowered for good.
LimitComesBack == limit = "reserve" => \E r \in Roots : pc[r] \in HasWorker

\* "Watcher changes arriving during construction coalesce into a bounded
\* follow-up pass": when a job is over, every file of every refresh it was
\* joined for was read by a worker started after, or its waiters were told.
AsksLand == \A r \in Roots : pc[r] = "none" => owing[r] = {}

\* "a root that is no lane gets it before every lane".
BaseGoesFirst == [][\A l \in Lanes : pc[l] = "queued" /\ pc'[l] = "turn" =>
                      \A b \in Roots \ Lanes : pc[b] # "queued"]_vars

\* A job, once begun, is over some day, and so is the pass that joined it: a
\* lane and its base, the turn and the index lock never wait in a circle.
JobsEnd == \A r \in Roots : pc[r] = "begin" ~> pc[r] = "none"

-----------------------------------------------------------------------------
(* What the code does not keep: no run checks it. *)

\* "A lane also waits out its base's whole job, follow-up change sets [...]
\* included": it does not get the turn between two passes of its base's job.
LaneWaitsOutBase == [][\A l \in Lanes :
                         pc[l] = "queued" /\ pc'[l] = "turn" /\ pc[BaseOf[l]] = "building"
                           => pc'[BaseOf[l]] = "none"]_vars
=============================================================================
