---------------------------- MODULE ReadAdmission ----------------------------
(***************************************************************************)
(* Admission of the daemon's reads (daemon/admission.py, and its callers   *)
(* in daemon/server.py): a request is prepared, waits for one of a few     *)
(* permits until its deadline, and then runs as a task of its own that     *)
(* keeps the permit until the work is done, whether or not its client is   *)
(* still there.                                                            *)
(*                                                                         *)
(* The permits are an asyncio.Semaphore, modelled from its use: a release  *)
(* hands the permit to the first waiter, which runs only when the loop     *)
(* comes to it; until then its deadline may pass, and others may arrive.   *)
(*                                                                         *)
(* What is abstracted: time (a deadline may pass whenever it is awaited),  *)
(* and what is prepared and read.  A request that ended may come again.    *)
(***************************************************************************)
EXTENDS Integers, FiniteSets

CONSTANTS
  Requests,   \* requests (a bound: those there are at one time)
  Slots,      \* ZEMBLE_DAEMON_READ_SLOTS (4)
  QueueLimit  \* ZEMBLE_DAEMON_QUEUE_LIMIT (32)

ASSUME RequestsAssumption == IsFiniteSet(Requests)
ASSUME SlotsAssumption == Slots \in Nat \ {0} /\ QueueLimit \in Nat

VARIABLES
  place,      \* place[r]: where request r is; see AdmissionTypeOK
  ahead,   \* ahead[r]: the requests that came before r and still wait
  value,   \* the semaphore's free permits
  queued,  \* self.queued
  active,  \* self.active
  left     \* requests whose client has stopped waiting for the running work

admissionVars == <<place, ahead, value, queued, active, left>>

In(places) == {r \in Requests : place[r] \in places}
Waiting == In({"waiting"})

\* A permit was handed to them and is not given back: "granted" ones have not
\* run since, "late" ones have seen their deadline pass meanwhile.
HoldersIn(p) == {r \in Requests : p[r] \in {"granted", "late", "running"}}
Holders == HoldersIn(place)

\* Those inside acquire().
InRoom == In({"waiting", "granted", "late", "cancelled"})

\* check_room
HasRoom == Cardinality(active) < Slots \/ queued < QueueLimit

\* Semaphore: a permit is free, and nobody was there before.
Free == value > 0 /\ In({"waiting", "granted", "late"}) = {}

\* W are the first waiters, as many as there are permits for.
FirstWaiters(W, permits) ==
  /\ W \subseteq Waiting
  /\ \A r \in W : ahead[r] \subseteq W
  /\ Cardinality(W) <= permits
  /\ Cardinality(W) < permits => W = Waiting

\* Requests leave the line.
LeaveLine(W) == ahead' = [r \in Requests |-> IF r \in W THEN {} ELSE ahead[r] \ W]

AdmissionInit ==
  /\ place = [r \in Requests |-> "idle"] /\ ahead = [r \in Requests |-> {}]
  /\ value = Slots /\ queued = 0 /\ active = {} /\ left = {}

-----------------------------------------------------------------------------
(* handle: a request that is refused or answered is idle again. *)

\* A request comes, finds room, and is prepared.
Arrive(r) ==
  /\ place[r] = "idle" /\ HasRoom
  /\ Cardinality(In({"preparing"})) < Slots + QueueLimit
  /\ place' = [place EXCEPT ![r] = "preparing"]
  /\ UNCHANGED <<ahead, value, queued, active, left>>

\* Its preparation fails or outlasts its deadline, there is no memory for the
\* read, or the waiting room is full by now.
Refuse(r) ==
  /\ place[r] = "preparing"
  /\ place' = [place EXCEPT ![r] = "idle"]
  /\ UNCHANGED <<ahead, value, queued, active, left>>

\* A mutant of Enter: who comes waits in front of the line.
EnterInFront(r) ==
  /\ place[r] = "preparing" /\ HasRoom
  /\ \/ /\ Free
        /\ place' = [place EXCEPT ![r] = "running"]
        /\ value' = value - 1 /\ active' = active \cup {r}
        /\ UNCHANGED <<ahead, queued>>
     \/ /\ ~Free
        /\ place' = [place EXCEPT ![r] = "waiting"]
        /\ queued' = queued + 1
        /\ ahead' = [s \in Requests |-> IF s \in Waiting THEN ahead[s] \cup {r} ELSE ahead[s]]
        /\ UNCHANGED <<value, active>>
  /\ UNCHANGED left

\* run: it has a permit at once, and its task is created, or it waits for one.
Enter(r) ==
  /\ place[r] = "preparing" /\ HasRoom
  /\ \/ /\ Free
        /\ place' = [place EXCEPT ![r] = "running"]
        /\ value' = value - 1 /\ active' = active \cup {r}
        /\ UNCHANGED <<ahead, queued>>
     \/ /\ ~Free
        /\ place' = [place EXCEPT ![r] = "waiting"]
        /\ queued' = queued + 1 /\ ahead' = [ahead EXCEPT ![r] = Waiting]
        /\ UNCHANGED <<value, active>>
  /\ UNCHANGED left

\* A mutant of Start: the permits that are still free wake nobody.
StartAlone(r) ==
  /\ place[r] = "granted"
  /\ place' = [place EXCEPT ![r] = "running"]
  /\ queued' = queued - 1 /\ active' = active \cup {r}
  /\ UNCHANGED <<ahead, value, left>>

\* A waiter that was handed a permit runs: its task is created, and the
\* semaphore hands out what permits are still free.
Start(r) ==
  /\ place[r] = "granted"
  /\ \E W \in SUBSET Requests :
       /\ FirstWaiters(W, value)
       /\ place' = [s \in Requests |-> IF s = r THEN "running" ELSE IF s \in W THEN "granted" ELSE place[s]]
       /\ value' = value - Cardinality(W)
       /\ LeaveLine(W)
  /\ queued' = queued - 1 /\ active' = active \cup {r}
  /\ UNCHANGED left

\* The deadline of a waiter passes; it is told when the loop comes to it.
Deadline(r) ==
  /\ place[r] \in {"waiting", "granted"}
  /\ place' = [place EXCEPT ![r] = IF @ = "waiting" THEN "cancelled" ELSE "late"]
  /\ LeaveLine({r})
  /\ UNCHANGED <<value, queued, active, left>>

\* A mutant of GiveUp: a permit it was handed is not given back.
GiveUpKeeping(r) ==
  /\ place[r] \in {"cancelled", "late"}
  /\ place' = [place EXCEPT ![r] = "idle"]
  /\ queued' = queued - 1
  /\ UNCHANGED <<ahead, value, active, left>>

\* It leaves the waiting room, refused; a permit it was handed goes back.
GiveUp(r) ==
  /\ place[r] \in {"cancelled", "late"}
  /\ LET permits == IF place[r] = "late" THEN value + 1 ELSE value IN
     \E W \in SUBSET Requests :
       /\ FirstWaiters(W, permits)
       /\ place' = [s \in Requests |-> IF s = r THEN "idle" ELSE IF s \in W THEN "granted" ELSE place[s]]
       /\ value' = permits - Cardinality(W)
       /\ LeaveLine(W)
  /\ queued' = queued - 1
  /\ UNCHANGED <<active, left>>

\* A mutant of LeaveRunning: the permit goes with the client.
LeaveWithPermit(r) ==
  /\ place[r] = "running" /\ r \notin left
  /\ left' = left \cup {r}
  /\ value' = value + 1 /\ active' = active \ {r}
  /\ UNCHANGED <<place, ahead, queued>>

\* A deadline passes, or the client is cancelled, while the work runs: the task goes on.
LeaveRunning(r) ==
  /\ place[r] = "running" /\ r \notin left
  /\ left' = left \cup {r}
  /\ UNCHANGED <<place, ahead, value, queued, active>>

\* The work ends: its permit goes to the first waiter.
EndRead(r) ==
  /\ place[r] = "running"
  /\ \E W \in SUBSET Requests :
       /\ FirstWaiters(W, 1)
       /\ place' = [s \in Requests |-> IF s = r THEN "idle" ELSE IF s \in W THEN "granted" ELSE place[s]]
       /\ value' = value + 1 - Cardinality(W)
       /\ LeaveLine(W)
  /\ active' = active \ {r} /\ left' = left \ {r}
  /\ UNCHANGED queued

AdmissionNext == \E r \in Requests : \/ Arrive(r) \/ Refuse(r) \/ Enter(r) \/ Start(r) \/ Deadline(r)
                            \/ GiveUp(r) \/ LeaveRunning(r) \/ EndRead(r)

AdmissionSpec == AdmissionInit /\ [][AdmissionNext]_admissionVars

\* The loop runs every task that can run, and a read ends.  No deadline need
\* pass and no preparation need end.
FairAdmissionSpec == AdmissionSpec /\ \A r \in Requests : WF_admissionVars(Start(r) \/ GiveUp(r)) /\ WF_admissionVars(EndRead(r))

-----------------------------------------------------------------------------
(* Properties. *)

AdmissionTypeOK ==
  /\ place \in [Requests -> {"idle", "preparing", "waiting", "granted", "late", "cancelled", "running"}]
  /\ ahead \in [Requests -> SUBSET Requests]
  /\ value \in Nat /\ queued \in Nat
  /\ active \subseteq Requests /\ left \subseteq Requests

\* "Keep permits with running tasks, including after their clients stop
\* waiting": however deadlines, grants and releases fall together, no more
\* reads really run than there are slots, and active is what really runs.
OnlySlotsRun == active = In({"running"}) /\ Cardinality(active) <= Slots

\* No permit is lost or made up: each is free or somebody's who gives it back.
PermitsKept == value + Cardinality(Holders) = Slots

\* No lost wakeup: a permit is free while someone waits only until a waiter
\* that was handed one has run, and then hands out the rest.
NoLostWakeup == value > 0 /\ Waiting # {} => In({"granted", "late"}) # {}

\* queued counts those in the waiting room, however each left it.
QueuedCounted == queued = Cardinality(InRoom)

\* "FIFO waiting room": a request that waits is out of the room some day though
\* others keep coming, and without its deadline's help.
WaitEnds == \A r \in Requests : place[r] = "waiting" ~> place[r] # "waiting"

-----------------------------------------------------------------------------
(* What the code does not keep: no run checks it. *)

\* "a 32-request waiting room": while every slot is taken no more wait than that.
RoomIsBounded == Cardinality(active) = Slots => queued <= QueueLimit
=============================================================================
