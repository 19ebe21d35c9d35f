--------------------------- MODULE DaemonLifecycle ---------------------------
(***************************************************************************)
(* How processes find, start and stop the one daemon of a socket           *)
(* (daemon/client.py, the commands of daemon/cli.py, and run of            *)
(* daemon/server.py).  They share a lock file, the socket's path and a     *)
(* pidfile; a killed daemon leaves the last two behind, and whoever comes  *)
(* next clears them.                                                       *)
(*                                                                         *)
(* One action is a system call that other processes can see, or run        *)
(* between.  A process that died is named Dead by the files it left, so    *)
(* its identifier can be used again.  What a daemon does for a request is  *)
(* in the other modules: here it answers, is busy, fails, or goes away.    *)
(* Time appears as three choices: a start that takes more than its ten     *)
(* seconds, an answer that comes after the deadline, an idle window that   *)
(* is over.                                                                *)
(***************************************************************************)
EXTENDS Integers, FiniteSets

CONSTANTS
  Clients,          \* processes that ask, start, stop or restart
  CommandsOf,       \* what each may do: "ask", "start", "stop", "restart"
  Daemons,          \* bound: daemon processes that exist at once
  NoOne,            \* no process, no file
  Dead,             \* what a file names whose process is gone
  UnavailableTries, \* UNAVAILABLE_TRIES (3)
  FailedTries,      \* FAILED_TRIES (2)
  BusyTries         \* bound: busy answers before the deadline of a query

ASSUME ProcessesAssumption ==
  /\ NoOne \notin Daemons /\ Dead \notin Daemons \cup {NoOne}
  /\ CommandsOf \in [Clients -> SUBSET {"ask", "start", "stop", "restart"}]
ASSUME TriesAssumption == {UnavailableTries, FailedTries, BusyTries} \subseteq Nat \ {0}

VARIABLES
  pc,      \* pc[d]: where daemon process d is
  lock,    \* who holds the lock file
  sock,    \* whose socket the path is: a daemon's, a dead one's, or no file
  pidfile, \* whose pid the pidfile has
  leaving, \* daemons a shutdown command was answered by
  client,  \* client[c]: what c does
  blamed,  \* history: queries in whose present try a daemon was killed, stopped or hidden, or crashed
  excused  \* history: daemons whose socket was cleared on a check made before they listened

files == <<lock, sock, pidfile>>
vars == <<pc, files, leaving, client, blamed, excused>>

Starting == {"new", "locked", "looked", "bare", "bound", "listening"}
Up == {"ready", "serving"}
Ending == {"stopping", "emptied", "cleared"}

\* A connect is accepted by the kernel as soon as the daemon listens.
Listens(d) == pc[d] \in {"listening"} \cup Up

\* Its loop runs, and with it the tasks of its connections.
Attending == {d \in Daemons : pc[d] \in {"serving"} \cup Ending}

Reachable == sock \in {d \in Daemons : Listens(d)}

Hidden(d) == Listens(d) /\ sock # d
Trouble == \E d \in Daemons : pc[d] \in Ending \/ Hidden(d)

-----------------------------------------------------------------------------
(* A client: the command it runs, at which step, connected to whom; the    *)
(* unreachable, failed and busy tries of its query; and the daemons that   *)
(* listened when clear_stale looked.                                       *)

Commands == [at : {"idle", "call", "reconnect", "sent", "tried", "look", "check", "pid", "unlinkSocket", "unlinkPid",
                   "popen", "await", "probe", "order", "gone"},
             cmd : {"none", "ask", "start", "stop", "restart"}, to : Daemons \cup {NoOne},
             tries : Nat, fails : Nat, busy : Nat, seen : SUBSET Daemons]

Idle == [at |-> "idle", cmd |-> "none", to |-> NoOne, tries |-> 0, fails |-> 0, busy |-> 0, seen |-> {}]

Goto(c, at) == client' = [client EXCEPT ![c].at = at]
Done(c) == client' = [client EXCEPT ![c] = Idle]

\* The queries under way: a daemon's trouble is one of their present try.
Asking == {c \in Clients : client[c].cmd = "ask"}
Blame == blamed' = blamed \cup Asking

\* Process d is gone: the kernel closes its sockets and its lock.
Gone(d) ==
  /\ pc' = [pc EXCEPT ![d] = "off"]
  /\ lock' = IF lock = d THEN NoOne ELSE lock
  /\ sock' = IF sock = d THEN Dead ELSE sock
  /\ pidfile' = IF pidfile = d THEN Dead ELSE pidfile
  /\ leaving' = leaving \ {d}
  /\ client' = [c \in Clients |-> [client[c] EXCEPT !.to = IF @ = d THEN NoOne ELSE @, !.seen = @ \ {d}]]
  /\ excused' = excused \ {d}

Move(d, from, to) == pc[d] = from /\ pc' = [pc EXCEPT ![d] = to]

Init ==
  /\ pc = [d \in Daemons |-> "off"]
  /\ lock = NoOne /\ sock \in {NoOne, Dead} /\ pidfile \in {NoOne, Dead}
  /\ leaving = {} /\ client = [c \in Clients |-> Idle] /\ blamed = {} /\ excused = {}

-----------------------------------------------------------------------------
(* The daemon: run. *)

\* _acquire_lock; another daemon's lock ends this process with SocketInUse.
AcquireLock(d) ==
  \/ /\ Move(d, "new", "locked") /\ lock = NoOne /\ lock' = d
     /\ UNCHANGED <<sock, pidfile, leaving, client, blamed, excused>>
  \/ pc[d] = "new" /\ lock # NoOne /\ Gone(d) /\ UNCHANGED blamed

\* A socket file there is, or is not.
LookForSocket(d) ==
  /\ Move(d, "locked", IF sock = NoOne THEN "bare" ELSE "looked")
  /\ UNCHANGED <<files, leaving, client, blamed, excused>>

\* It is unlinked; somebody else may have cleared it since, which is an error.
UnlinkOld(d) ==
  \/ /\ Move(d, "looked", "bare") /\ sock # NoOne /\ sock' = NoOne
     /\ UNCHANGED <<lock, pidfile, leaving, client, blamed, excused>>
  \/ pc[d] = "looked" /\ sock = NoOne /\ Gone(d) /\ Blame

\* start_unix_server binds, then listens.
Bind(d) ==
  /\ Move(d, "bare", "bound") /\ sock' = d
  /\ UNCHANGED <<lock, pidfile, leaving, client, blamed, excused>>

Listen(d) == Move(d, "bound", "listening") /\ UNCHANGED <<files, leaving, client, blamed, excused>>

\* chmod of the path; a file that was cleared is an error.
Chmod(d) ==
  \/ Move(d, "listening", "ready") /\ sock = d /\ UNCHANGED <<files, leaving, client, blamed, excused>>
  \/ pc[d] = "listening" /\ sock # d /\ Gone(d) /\ Blame

WritePid(d) ==
  /\ Move(d, "ready", "serving") /\ pidfile' = d
  /\ UNCHANGED <<lock, sock, leaving, client, blamed, excused>>

\* A mutant of MustStop: a daemon never idles.
StopsWhenTold(d) == d \in leaving

\* A stop that comes at last: a shutdown was answered, or there is nobody to answer.
MustStop(d) == d \in leaving \/ \A c \in Clients : client[c].to # d

\* A mutant of Stop: the lock goes with the listener.
StopUnlocked(d) ==
  /\ Move(d, "serving", "stopping")
  /\ lock' = NoOne /\ Blame
  /\ UNCHANGED <<sock, pidfile, leaving, client, excused>>

\* A shutdown was answered, or idle_loop has seen no request for the window: it does not look at
\* connections, so one that is not handled yet, or a request longer than the window, holds no stop.
\* The listener is closed, and the path goes with it from Python 3.13 on.
Stop(d) ==
  /\ Move(d, "serving", "stopping")
  /\ sock' \in {sock, IF sock = d THEN NoOne ELSE sock}
  /\ Blame
  /\ UNCHANGED <<lock, pidfile, leaving, client, excused>>

\* Work is drained; the files go, and the lock at last.
RemoveSocket(d) ==
  /\ Move(d, "stopping", "emptied") /\ sock' = NoOne
  /\ UNCHANGED <<lock, pidfile, leaving, client, blamed, excused>>

RemovePid(d) ==
  /\ Move(d, "emptied", "cleared") /\ pidfile' = NoOne
  /\ UNCHANGED <<lock, sock, leaving, client, blamed, excused>>

Exit(d) == pc[d] = "cleared" /\ Gone(d) /\ UNCHANGED blamed

Kill(d) == pc[d] # "off" /\ Gone(d) /\ Blame

-----------------------------------------------------------------------------
(* A query: answer and call. *)

Ask(c) ==
  /\ client[c].at = "idle" /\ "ask" \in CommandsOf[c]
  /\ client' = [client EXCEPT ![c].at = "call", ![c].cmd = "ask"]
  /\ UNCHANGED <<pc, files, leaving, blamed, excused>>

\* A try begins: connect, or start a daemon.
Call(c) ==
  /\ client[c].at = "call"
  /\ client' = [client EXCEPT ![c].at = IF Reachable THEN "sent" ELSE "look",
                              ![c].to = IF Reachable THEN sock ELSE NoOne]
  /\ blamed' = IF Trouble THEN blamed \cup {c} ELSE blamed \ {c}
  /\ UNCHANGED <<pc, files, leaving, excused>>

\* A mutant of Unavailable: the try is not counted.
UncountedUnavailable(c) == client' = [client EXCEPT ![c].at = "tried", ![c].to = NoOne]

\* _count_try
Unavailable(c) == client' = [client EXCEPT ![c].at = "tried", ![c].to = NoOne, ![c].tries = @ + 1]

\* After spawn: the daemon is there, or has just gone.
Reconnect(c) ==
  /\ client[c].at = "reconnect"
  /\ IF Reachable THEN client' = [client EXCEPT ![c].at = "sent", ![c].to = sock] ELSE Unavailable(c)
  /\ UNCHANGED <<pc, files, leaving, blamed, excused>>

\* An answer, or an answer that says no for good.
Answered(c) ==
  /\ client[c].at = "sent" /\ client[c].cmd = "ask" /\ client[c].to \in Attending
  /\ \/ Done(c)
     \/ client' = [client EXCEPT ![c].at = "tried", ![c].to = NoOne, ![c].fails = @ + 1]
     \/ client' = [client EXCEPT ![c].at = "tried", ![c].to = NoOne, ![c].busy = @ + 1]
  /\ blamed' = blamed \ {c}
  /\ UNCHANGED <<pc, files, leaving, excused>>

\* The connection ends without an answer, or the deadline does.
Lost(c) ==
  /\ client[c].at = "sent" /\ client[c].cmd = "ask"
  /\ client[c].to \in Attending \cup {NoOne}
  /\ Unavailable(c)
  /\ UNCHANGED <<pc, files, leaving, blamed, excused>>

\* Asked again after a pause, unless its tries or its time are up: then it is
\* answered here, or reported as timed out.
Again(c) ==
  /\ client[c].at = "tried"
  /\ IF client[c].tries >= UnavailableTries \/ client[c].fails >= FailedTries \/ client[c].busy >= BusyTries
       THEN Done(c) ELSE Goto(c, "call")
  /\ blamed' = blamed \ {c}
  /\ UNCHANGED <<pc, files, leaving, excused>>

-----------------------------------------------------------------------------
(* clear_stale and spawn. *)

\* What follows clear_stale: the rest of spawn, or of _stop and _start.
Cleared(c) ==
  CASE client[c].cmd \in {"ask", "start"} -> Goto(c, "popen")
    [] client[c].cmd = "stop" -> Done(c)
    [] client[c].cmd = "restart" -> client' = [client EXCEPT ![c].at = "probe", ![c].cmd = "start"]

Look(c) ==
  /\ client[c].at = "look"
  /\ IF sock = NoOne /\ pidfile = NoOne THEN Cleared(c) ELSE Goto(c, "check")
  /\ UNCHANGED <<pc, files, leaving, blamed, excused>>

\* is_running
Check(c) ==
  /\ client[c].at = "check"
  /\ IF Reachable THEN Cleared(c)
     ELSE client' = [client EXCEPT ![c].at = "pid", ![c].seen = {d \in Daemons : Listens(d)}]
  /\ UNCHANGED <<pc, files, leaving, blamed, excused>>

\* A live process that owns the pidfile keeps its files.
ReadPid(c) ==
  /\ client[c].at = "pid"
  /\ IF pidfile \in Daemons THEN Cleared(c) ELSE Goto(c, "unlinkSocket")
  /\ UNCHANGED <<pc, files, leaving, blamed, excused>>

UnlinkSocket(c) ==
  LET hides == sock \in Daemons IN
  /\ client[c].at = "unlinkSocket"
  /\ sock' = NoOne
  /\ excused' = IF hides /\ sock \notin client[c].seen THEN excused \cup {sock} ELSE excused
  /\ IF hides THEN Blame ELSE UNCHANGED blamed
  /\ client' = [client EXCEPT ![c].at = "unlinkPid", ![c].seen = {}]
  /\ UNCHANGED <<pc, lock, pidfile, leaving>>

UnlinkPid(c) ==
  /\ client[c].at = "unlinkPid"
  /\ pidfile' = NoOne /\ Cleared(c)
  /\ UNCHANGED <<pc, lock, sock, leaving, blamed, excused>>

\* A mutant of Popen: nobody waits for the daemon to come up.
PopenUnawaited(c) ==
  /\ client[c].at = "popen"
  /\ \E d \in Daemons : Move(d, "off", "new")
  /\ Goto(c, "reconnect")
  /\ UNCHANGED <<files, leaving, blamed, excused>>

Popen(c) ==
  /\ client[c].at = "popen"
  /\ \E d \in Daemons : Move(d, "off", "new")
  /\ Goto(c, "await")
  /\ UNCHANGED <<files, leaving, blamed, excused>>

\* The system has no room for another process.
CannotStart(c) ==
  /\ client[c].at = "popen" /\ \A d \in Daemons : pc[d] # "off"
  /\ IF client[c].cmd = "ask" THEN Unavailable(c) ELSE Done(c)
  /\ UNCHANGED <<pc, files, leaving, blamed, excused>>

\* is_running is asked until it says yes, or the ten seconds are over.
Await(c) ==
  /\ client[c].at = "await" /\ Reachable
  /\ IF client[c].cmd = "ask" THEN Goto(c, "reconnect") ELSE Done(c)
  /\ UNCHANGED <<pc, files, leaving, blamed, excused>>

GiveUp(c) ==
  /\ client[c].at = "await"
  /\ IF client[c].cmd = "ask" THEN Unavailable(c) ELSE Done(c)
  /\ UNCHANGED <<pc, files, leaving, blamed, excused>>

-----------------------------------------------------------------------------
(* The commands: _start, _stop, and restart, which is both. *)

Command(c) ==
  /\ client[c].at = "idle"
  /\ \E cmd \in CommandsOf[c] \ {"ask"} : client' = [client EXCEPT ![c].at = "probe", ![c].cmd = cmd]
  /\ UNCHANGED <<pc, files, leaving, blamed, excused>>

Probe(c) ==
  /\ client[c].at = "probe"
  /\ CASE ~Reachable -> Goto(c, "look")
       [] Reachable /\ client[c].cmd = "start" -> Done(c)
       [] OTHER -> Goto(c, "order")
  /\ UNCHANGED <<pc, files, leaving, blamed, excused>>

\* What follows _stop.
Stopped(c) ==
  IF client[c].cmd = "stop" THEN Done(c)
  ELSE client' = [client EXCEPT ![c].at = "probe", ![c].cmd = "start", ![c].to = NoOne]

\* call("shutdown"), which starts nothing.
Order(c) ==
  /\ client[c].at = "order"
  /\ IF Reachable THEN client' = [client EXCEPT ![c].at = "sent", ![c].to = sock] ELSE Stopped(c)
  /\ UNCHANGED <<pc, files, leaving, blamed, excused>>

\* The command is answered, and _stop waits; or it failed.
Ordered(c) ==
  /\ client[c].at = "sent" /\ client[c].cmd # "ask"
  /\ \/ /\ client[c].to \in {d \in Daemons : pc[d] = "serving"}
        /\ leaving' = leaving \cup {client[c].to}
        /\ client' = [client EXCEPT ![c].at = "gone", ![c].to = NoOne]
     \/ /\ client[c].to \in Attending \cup {NoOne}
        /\ Stopped(c) /\ UNCHANGED leaving
  /\ UNCHANGED <<pc, files, blamed, excused>>

\* It waits until nobody accepts, which is not until the daemon is gone; or ten seconds.
WaitGone(c) ==
  /\ client[c].at = "gone"
  /\ \/ ~Reachable /\ Goto(c, "look")
     \/ Reachable /\ Stopped(c)
  /\ UNCHANGED <<pc, files, leaving, blamed, excused>>

-----------------------------------------------------------------------------

Run(d) ==
  \/ AcquireLock(d) \/ LookForSocket(d) \/ UnlinkOld(d) \/ Bind(d) \/ Listen(d) \/ Chmod(d) \/ WritePid(d)
  \/ Stop(d) \/ RemoveSocket(d) \/ RemovePid(d) \/ Exit(d)

Step(c) ==
  \/ Call(c) \/ Reconnect(c) \/ Answered(c) \/ Lost(c) \/ Again(c)
  \/ Look(c) \/ Check(c) \/ ReadPid(c) \/ UnlinkSocket(c) \/ UnlinkPid(c) \/ Popen(c) \/ CannotStart(c)
  \/ Await(c) \/ GiveUp(c)
  \/ Probe(c) \/ Order(c) \/ Ordered(c) \/ WaitGone(c)

Next ==
  \/ \E d \in Daemons : Run(d) \/ Kill(d)
  \/ \E c \in Clients : Ask(c) \/ Command(c) \/ Step(c)

Spec == Init /\ [][Next]_vars

\* Processes run, sockets have timeouts, and the idle window ends when nobody is
\* answered.  Nobody need ask or be killed, and no daemon with a client need idle.
Fairness == /\ \A d \in Daemons : WF_vars((pc[d] = "serving" => MustStop(d)) /\ Run(d))
            /\ \A c \in Clients : WF_vars(Step(c))

FairSpec == Spec /\ Fairness

-----------------------------------------------------------------------------
(* Properties. *)

TypeOK ==
  /\ pc \in [Daemons -> {"off"} \cup Starting \cup Up \cup Ending]
  /\ lock \in Daemons \cup {NoOne} /\ {sock, pidfile} \subseteq Daemons \cup {NoOne, Dead}
  /\ leaving \subseteq Daemons /\ blamed \subseteq Clients /\ excused \subseteq Daemons
  /\ client \in [Clients -> Commands]

\* "A flock held for the daemon's lifetime, so two daemons can never own one
\* socket": a daemon that listens is behind its socket's path, whatever daemons
\* ended, crashed or were killed, and whoever cleared up after them, but for one
\* way: clear_stale had found nobody there before this daemon listened, and
\* unlinked the path after.
OnlyEarlierChecksHide == \A d \in Daemons : Hidden(d) => d \in excused

\* Time is up for c while a daemon is at work for it, or none can be started.
Late(c) ==
  \/ client[c].at = "popen"
  \/ client[c].at = "await" /\ \E d \in Daemons : pc[d] \in Starting
  \/ client[c].at = "await" /\ Reachable
  \/ client[c].at = "sent" /\ client[c].to \in {d \in Daemons : pc[d] = "serving"}

\* A query loses a try to an unreachable daemon, and after UNAVAILABLE_TRIES its
\* answer from one, only to a cause within that try: a daemon was killed or
\* crashed, was stopping, was hidden or too slow, or could not be started.  Starting together,
\* losing the lock, or finding another's leftovers costs nobody anything.
OnlyTroubleCosts == [][\A c \in Clients : client'[c].tries > client[c].tries => c \in blamed \/ Late(c)]_vars

\* "zemble never fails a query for a reason another try fixes": every query and
\* command ends, also when daemons are killed for ever.
CommandsEnd == \A c \in Clients : client[c].at # "idle" ~> client[c].at = "idle"

\* A daemon nobody can reach does not keep the lock from those that start one:
\* it idles, and leaves.
HiddenLeave == \A d \in Daemons : Hidden(d) ~> ~Hidden(d)

-----------------------------------------------------------------------------
(* What the code does not keep: no run checks it. *)

\* clear_stale leaves alone "a daemon that is still starting".  It does not know
\* one: the pidfile is written after the daemon listens.
StartingIsSpared == [][\A d \in Daemons : sock = d /\ sock' # d /\ pc[d] \in Starting \cup Up => pc'[d] = "off"]_vars

\* "Wait for the old process to actually go away, so `restart` does not find the
\* socket still owned by the exiting daemon."
RestartFindsNoOwner == \A c \in Clients : client[c].at = "look" /\ client[c].cmd = "restart" => lock = NoOne
=============================================================================
