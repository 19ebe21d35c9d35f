------------------------ MODULE DaemonLifecycleProofs ------------------------
(***************************************************************************)
(* OnlyEarlierChecksHide and OnlyTroubleCosts of DaemonLifecycle, for any  *)
(* number of clients, daemons and tries.                                   *)
(*                                                                         *)
(* The first rests on the lock: all who touch the path while a daemon has  *)
(* it bound are clients, and what such a client had seen listen is hidden  *)
(* already (SeenInv).  The second adds what a query may count on while     *)
(* nothing has gone wrong in its try (TryInv).                             *)
(***************************************************************************)
EXTENDS DaemonLifecycle, TLAPS

Bound == {"bound", "listening", "ready", "serving"}

\* A command is under way wherever its client is.
CmdInv == \A c \in Clients : client[c].at # "idle" => client[c].cmd # "none"

\* Who is past the lock has it, and who has it is past it.
LockInv == /\ \A d \in Daemons : pc[d] \notin {"off", "new"} => lock = d
           /\ lock \in Daemons => pc[lock] \notin {"off", "new"}

\* The path is of a daemon that bound it and has not removed it.
SockInv == sock \in Daemons => pc[sock] \in Bound \cup {"stopping"}

\* A daemon whose path is gone was hidden by an earlier check.
HideInv == \A d \in Daemons : pc[d] \in Bound /\ sock # d => d \in excused

\* Who listened when a check found nobody has lost its path before, and for good.
SeenInv == \A c \in Clients : \A d \in client[c].seen :
             pc[d] \in {"listening"} \cup Up \cup Ending /\ sock # d

FilesInv == TypeOK /\ CmdInv /\ LockInv /\ SockInv /\ HideInv /\ SeenInv

-----------------------------------------------------------------------------
(* The files. *)

\* A client's record stays one when what it points at changes.
LEMMA Repointed ==
  ASSUME NEW r \in Commands, NEW t \in Daemons \cup {NoOne}, NEW S \in SUBSET Daemons
  PROVE  [r EXCEPT !.to = t, !.seen = S] \in Commands
  BY DEF Commands

\* What a client's step leaves of the clients.
ClientsOK == client \in [Clients -> Commands] /\ CmdInv

LEMMA Kept ==
  ASSUME ClientsOK, NEW c \in Clients, NEW r \in Commands, r.at = "idle" \/ r.cmd # "none", client' = [client EXCEPT ![c] = r]
  PROVE  ClientsOK'
BY DEF ClientsOK, CmdInv

Places == {"call", "reconnect", "sent", "tried", "look", "check", "pid", "unlinkSocket", "unlinkPid", "popen", "await",
           "probe", "order", "gone"}

LEMMA GotoKeeps ==
  ASSUME ClientsOK, NEW c \in Clients, client[c].at # "idle", NEW at \in Places, Goto(c, at)
  PROVE  ClientsOK'
<1>1. client[c] \in Commands /\ client[c].cmd # "none"
  BY DEF ClientsOK, CmdInv
<1> DEFINE r == [client[c] EXCEPT !.at = at]
<1>2. r \in Commands /\ r.cmd # "none"
  BY <1>1 DEF Commands, Places
<1>3. client' = [client EXCEPT ![c] = r]
  BY DEF Goto
<1> HIDE DEF r
<1> QED
  BY <1>2, <1>3, Kept

LEMMA DoneKeeps ==
  ASSUME ClientsOK, NEW c \in Clients, Done(c)
  PROVE  ClientsOK'
<1>1. Idle \in Commands /\ Idle.at = "idle"
  BY DEF Idle, Commands
<1> QED
  BY <1>1, Kept DEF Done

\* The other shapes of a client's step: where to, with whom, what is counted or seen.
LEMMA MovedKeeps ==
  ASSUME ClientsOK, NEW c \in Clients, NEW at \in Places, NEW cmd \in {"ask", "start", "stop", "restart"},
         NEW to \in Daemons \cup {NoOne}, NEW S \in SUBSET Daemons
  PROVE  /\ client' = [client EXCEPT ![c].at = at, ![c].cmd = cmd, ![c].to = to] => ClientsOK'
         /\ client' = [client EXCEPT ![c].at = at, ![c].cmd = cmd] => ClientsOK'
         /\ client[c].at # "idle" /\ client' = [client EXCEPT ![c].at = at, ![c].to = to] => ClientsOK'
         /\ client[c].at # "idle" /\ client' = [client EXCEPT ![c].at = at, ![c].to = to, ![c].tries = @ + 1] => ClientsOK'
         /\ client[c].at # "idle" /\ client' = [client EXCEPT ![c].at = at, ![c].to = to, ![c].fails = @ + 1] => ClientsOK'
         /\ client[c].at # "idle" /\ client' = [client EXCEPT ![c].at = at, ![c].to = to, ![c].busy = @ + 1] => ClientsOK'
         /\ client[c].at # "idle" /\ client' = [client EXCEPT ![c].at = at, ![c].seen = S] => ClientsOK'
<1>0. client[c] \in Commands /\ (client[c].at # "idle" => client[c].cmd # "none")
  BY DEF ClientsOK, CmdInv
<1>1. ASSUME client' = [client EXCEPT ![c].at = at, ![c].cmd = cmd, ![c].to = to] PROVE ClientsOK'
  <2> DEFINE r == [client[c] EXCEPT !.at = at, !.cmd = cmd, !.to = to]
  <2>1. r \in Commands /\ r.cmd # "none"
    BY <1>0, <1>1 DEF Commands, Places
  <2>2. client' = [client EXCEPT ![c] = r]
    BY <1>1
  <2> HIDE DEF r
  <2> QED
    BY <2>1, <2>2, Kept
<1>2. ASSUME client' = [client EXCEPT ![c].at = at, ![c].cmd = cmd] PROVE ClientsOK'
  <2> DEFINE r == [client[c] EXCEPT !.at = at, !.cmd = cmd]
  <2>1. r \in Commands /\ r.cmd # "none"
    BY <1>0, <1>2 DEF Commands, Places
  <2>2. client' = [client EXCEPT ![c] = r]
    BY <1>2
  <2> HIDE DEF r
  <2> QED
    BY <2>1, <2>2, Kept
<1>3. ASSUME client[c].at # "idle", client' = [client EXCEPT ![c].at = at, ![c].to = to] PROVE ClientsOK'
  <2> DEFINE r == [client[c] EXCEPT !.at = at, !.to = to]
  <2>0. client[c].cmd # "none"
    BY <1>0, <1>3
  <2>1. r \in Commands /\ r.cmd # "none"
    <3>1. r \in Commands
      BY <1>0, <2>0 DEF Commands, Places
    <3>2. r.cmd # "none"
      BY <1>0, <2>0 DEF Commands
    <3> QED
      BY <3>1, <3>2
  <2>2. client' = [client EXCEPT ![c] = r]
    BY <1>3
  <2> HIDE DEF r
  <2> QED
    BY <2>1, <2>2, Kept
<1>4. ASSUME client[c].at # "idle", client' = [client EXCEPT ![c].at = at, ![c].to = to, ![c].tries = @ + 1] PROVE ClientsOK'
  <2> DEFINE n == client[c].tries + 1
             r == [client[c] EXCEPT !.at = at, !.to = to, !.tries = n]
  <2>0. client[c].cmd # "none" /\ n \in Nat
    BY <1>0, <1>4 DEF Commands
  <2> HIDE DEF n
  <2>1. r \in Commands /\ r.cmd # "none"
    <3>1. r \in Commands
      BY <1>0, <2>0 DEF Commands, Places
    <3>2. r.cmd # "none"
      BY <1>0, <2>0 DEF Commands
    <3> QED
      BY <3>1, <3>2
  <2>2. client' = [client EXCEPT ![c] = r]
    BY <1>4 DEF n
  <2> HIDE DEF r
  <2> QED
    BY <2>1, <2>2, Kept
<1>5. ASSUME client[c].at # "idle", client' = [client EXCEPT ![c].at = at, ![c].to = to, ![c].fails = @ + 1] PROVE ClientsOK'
  <2> DEFINE n == client[c].fails + 1
             r == [client[c] EXCEPT !.at = at, !.to = to, !.fails = n]
  <2>0. client[c].cmd # "none" /\ n \in Nat
    BY <1>0, <1>5 DEF Commands
  <2> HIDE DEF n
  <2>1. r \in Commands /\ r.cmd # "none"
    <3>1. r \in Commands
      BY <1>0, <2>0 DEF Commands, Places
    <3>2. r.cmd # "none"
      BY <1>0, <2>0 DEF Commands
    <3> QED
      BY <3>1, <3>2
  <2>2. client' = [client EXCEPT ![c] = r]
    BY <1>5 DEF n
  <2> HIDE DEF r
  <2> QED
    BY <2>1, <2>2, Kept
<1>6. ASSUME client[c].at # "idle", client' = [client EXCEPT ![c].at = at, ![c].to = to, ![c].busy = @ + 1] PROVE ClientsOK'
  <2> DEFINE n == client[c].busy + 1
             r == [client[c] EXCEPT !.at = at, !.to = to, !.busy = n]
  <2>0. client[c].cmd # "none" /\ n \in Nat
    BY <1>0, <1>6 DEF Commands
  <2> HIDE DEF n
  <2>1. r \in Commands /\ r.cmd # "none"
    <3>1. r \in Commands
      BY <1>0, <2>0 DEF Commands, Places
    <3>2. r.cmd # "none"
      BY <1>0, <2>0 DEF Commands
    <3> QED
      BY <3>1, <3>2
  <2>2. client' = [client EXCEPT ![c] = r]
    BY <1>6 DEF n
  <2> HIDE DEF r
  <2> QED
    BY <2>1, <2>2, Kept
<1>7. ASSUME client[c].at # "idle", client' = [client EXCEPT ![c].at = at, ![c].seen = S] PROVE ClientsOK'
  <2> DEFINE r == [client[c] EXCEPT !.at = at, !.seen = S]
  <2>0. client[c].cmd # "none"
    BY <1>0, <1>7
  <2>1. r \in Commands /\ r.cmd # "none"
    <3>1. r \in Commands
      BY <1>0, <2>0 DEF Commands, Places
    <3>2. r.cmd # "none"
      BY <1>0, <2>0 DEF Commands
    <3> QED
      BY <3>1, <3>2
  <2>2. client' = [client EXCEPT ![c] = r]
    BY <1>7
  <2> HIDE DEF r
  <2> QED
    BY <2>1, <2>2, Kept
<1> QED
  BY <1>1, <1>2, <1>3, <1>4, <1>5, <1>6, <1>7

\* The helpers' steps.
LEMMA HelpersKeep ==
  ASSUME ClientsOK, NEW c \in Clients, NoOne \notin Daemons, client[c].at # "idle"
  PROVE  /\ Unavailable(c) => ClientsOK'
         /\ Cleared(c) => ClientsOK'
         /\ Stopped(c) => ClientsOK'
<1>1. Unavailable(c) => ClientsOK'
  BY MovedKeeps DEF Unavailable, Places
<1>2. client[c].cmd \in {"ask", "start", "stop", "restart"}
  BY DEF ClientsOK, CmdInv, Commands
<1>3. Cleared(c) => ClientsOK'
  <2>1. Goto(c, "popen") => ClientsOK'
    BY GotoKeeps DEF Places
  <2>2. client' = [client EXCEPT ![c].at = "probe", ![c].cmd = "start"] => ClientsOK'
    BY MovedKeeps DEF Places
  <2>3. Cleared(c) => Goto(c, "popen") \/ Done(c) \/ client' = [client EXCEPT ![c].at = "probe", ![c].cmd = "start"]
    BY <1>2 DEF Cleared
  <2> QED
    BY <2>1, <2>2, <2>3, DoneKeeps
<1>4. Stopped(c) => ClientsOK'
  <2>1. client' = [client EXCEPT ![c].at = "probe", ![c].cmd = "start", ![c].to = NoOne] => ClientsOK'
    BY MovedKeeps DEF Places
  <2> QED
    BY <2>1, DoneKeeps DEF Stopped
<1> QED
  BY <1>1, <1>3, <1>4

\* Every step keeps the types, and a command where there was one.
LEMMA TypeStep == TypeOK /\ CmdInv /\ [Next]_vars => TypeOK' /\ CmdInv'
<1> SUFFICES ASSUME TypeOK, CmdInv, [Next]_vars PROVE TypeOK' /\ CmdInv'
  OBVIOUS
<1> USE ProcessesAssumption DEF TypeOK, CmdInv, files
<1>g. ASSUME NEW d \in Daemons, Gone(d), UNCHANGED blamed \/ Blame PROVE TypeOK' /\ CmdInv'
  <2>1. \A c \in Clients : client'[c] = [client[c] EXCEPT !.to = IF @ = d THEN NoOne ELSE @, !.seen = @ \ {d}]
    BY <1>g DEF Gone
  <2>2. ASSUME NEW c \in Clients PROVE client'[c] \in Commands
    <3>1. client[c] \in Commands
      OBVIOUS
    <3> DEFINE t == IF client[c].to = d THEN NoOne ELSE client[c].to
               S == client[c].seen \ {d}
    <3>2. t \in Daemons \cup {NoOne} /\ S \in SUBSET Daemons
      BY <3>1 DEF Commands
    <3>3. client'[c] = [client[c] EXCEPT !.to = t, !.seen = S]
      BY <2>1
    <3> HIDE DEF t, S
    <3>4. [client[c] EXCEPT !.to = t, !.seen = S] \in Commands
      BY <3>1, <3>2, Repointed
    <3> QED
      BY <3>3, <3>4
  <2>4. client' \in [Clients -> Commands]
    BY <1>g, <2>2 DEF Gone
  <2>3. \A c \in Clients : client'[c].at = client[c].at /\ client'[c].cmd = client[c].cmd
    BY <2>1 DEF Commands
  <2> QED
    BY <1>g, <2>3, <2>4 DEF Gone, Blame, Asking
<1>m. ASSUME NEW d \in Daemons, NEW from, NEW to \in {"off"} \cup Starting \cup Up \cup Ending, Move(d, from, to),
             UNCHANGED <<leaving, client, excused>>, UNCHANGED blamed \/ Blame,
             {lock', sock', pidfile'} \subseteq {lock, sock, pidfile, d, NoOne}, lock' # Dead
      PROVE  TypeOK' /\ CmdInv'
  BY <1>m DEF Move, Blame, Asking
<1>1. ASSUME NEW d \in Daemons, AcquireLock(d) PROVE TypeOK' /\ CmdInv'
  BY <1>1, <1>g, <1>m DEF AcquireLock, Starting
<1>2. ASSUME NEW d \in Daemons, LookForSocket(d) PROVE TypeOK' /\ CmdInv'
  BY <1>2, <1>m DEF LookForSocket, Starting
<1>3. ASSUME NEW d \in Daemons, UnlinkOld(d) PROVE TypeOK' /\ CmdInv'
  BY <1>3, <1>g, <1>m DEF UnlinkOld, Starting
<1>4. ASSUME NEW d \in Daemons, Bind(d) PROVE TypeOK' /\ CmdInv'
  BY <1>4, <1>m DEF Bind, Starting
<1>5. ASSUME NEW d \in Daemons, Listen(d) PROVE TypeOK' /\ CmdInv'
  BY <1>5, <1>m DEF Listen, Starting
<1>6. ASSUME NEW d \in Daemons, Chmod(d) PROVE TypeOK' /\ CmdInv'
  BY <1>6, <1>g, <1>m DEF Chmod, Up
<1>7. ASSUME NEW d \in Daemons, WritePid(d) PROVE TypeOK' /\ CmdInv'
  BY <1>7, <1>m DEF WritePid, Up
<1>8. ASSUME NEW d \in Daemons, Stop(d) PROVE TypeOK' /\ CmdInv'
  BY <1>8, <1>m DEF Stop, Ending
<1>9. ASSUME NEW d \in Daemons, RemoveSocket(d) PROVE TypeOK' /\ CmdInv'
  BY <1>9, <1>m DEF RemoveSocket, Ending
<1>10. ASSUME NEW d \in Daemons, RemovePid(d) PROVE TypeOK' /\ CmdInv'
  BY <1>10, <1>m DEF RemovePid, Ending
<1>11. ASSUME NEW d \in Daemons, Exit(d) \/ Kill(d) PROVE TypeOK' /\ CmdInv'
  BY <1>11, <1>g DEF Exit, Kill
<1>c. ClientsOK
  BY DEF ClientsOK
<1>12. ASSUME NEW c \in Clients, Ask(c) PROVE TypeOK' /\ CmdInv'
  <2>1. ClientsOK'
    BY <1>12, <1>c, MovedKeeps DEF Ask, Places
  <2> QED
    BY <1>12, <2>1 DEF ClientsOK, Ask
<1>13. ASSUME NEW c \in Clients, Call(c) PROVE TypeOK' /\ CmdInv'
  <2>1. ClientsOK'
    <3> DEFINE at == IF Reachable THEN "sent" ELSE "look"
               to == IF Reachable THEN sock ELSE NoOne
    <3>1. at \in Places /\ to \in Daemons \cup {NoOne}
      BY DEF Places, Reachable
    <3>2. client[c].at # "idle" /\ client' = [client EXCEPT ![c].at = at, ![c].to = to]
      BY <1>13 DEF Call
    <3> HIDE DEF at, to
    <3> QED
      BY <1>c, <3>1, <3>2, MovedKeeps
  <2> QED
    BY <1>13, <2>1 DEF ClientsOK, Call
<1>14. ASSUME NEW c \in Clients, Reconnect(c) PROVE TypeOK' /\ CmdInv'
  <2>1. ClientsOK'
    BY <1>14, <1>c, MovedKeeps, HelpersKeep DEF Reconnect, Places, Reachable
  <2> QED
    BY <1>14, <2>1 DEF ClientsOK, Reconnect
<1>15. ASSUME NEW c \in Clients, Answered(c) PROVE TypeOK' /\ CmdInv'
  <2>1. ClientsOK'
    <3>1. client[c].at # "idle" /\ "tried" \in Places
      BY <1>15 DEF Answered, Places
    <3>2. CASE Done(c)
      BY <1>c, <3>2, DoneKeeps
    <3>3. CASE client' = [client EXCEPT ![c].at = "tried", ![c].to = NoOne, ![c].fails = @ + 1]
      BY <1>c, <3>1, <3>3, MovedKeeps
    <3>4. CASE client' = [client EXCEPT ![c].at = "tried", ![c].to = NoOne, ![c].busy = @ + 1]
      BY <1>c, <3>1, <3>4, MovedKeeps
    <3> QED
      BY <1>15, <3>2, <3>3, <3>4 DEF Answered
  <2> QED
    BY <1>15, <2>1 DEF ClientsOK, Answered
<1>16. ASSUME NEW c \in Clients, Lost(c) PROVE TypeOK' /\ CmdInv'
  <2>1. ClientsOK'
    BY <1>16, <1>c, HelpersKeep DEF Lost
  <2> QED
    BY <1>16, <2>1 DEF ClientsOK, Lost
<1>17. ASSUME NEW c \in Clients, Again(c) PROVE TypeOK' /\ CmdInv'
  <2>1. ClientsOK'
    BY <1>17, <1>c, GotoKeeps, DoneKeeps DEF Again, Places
  <2> QED
    BY <1>17, <2>1 DEF ClientsOK, Again
<1>18. ASSUME NEW c \in Clients, Look(c) PROVE TypeOK' /\ CmdInv'
  <2>1. ClientsOK'
    BY <1>18, <1>c, GotoKeeps, HelpersKeep DEF Look, Places
  <2> QED
    BY <1>18, <2>1 DEF ClientsOK, Look
<1>19. ASSUME NEW c \in Clients, Check(c) PROVE TypeOK' /\ CmdInv'
  <2>1. ClientsOK'
    <3> DEFINE S == {d \in Daemons : Listens(d)}
    <3>1. client[c].at # "idle" /\ "pid" \in Places /\ S \in SUBSET Daemons
      BY <1>19 DEF Check, Places
    <3>2. Cleared(c) \/ client' = [client EXCEPT ![c].at = "pid", ![c].seen = S]
      BY <1>19 DEF Check
    <3> HIDE DEF S
    <3> QED
      BY <1>c, <3>1, <3>2, MovedKeeps, HelpersKeep
  <2> QED
    BY <1>19, <2>1 DEF ClientsOK, Check
<1>20. ASSUME NEW c \in Clients, ReadPid(c) PROVE TypeOK' /\ CmdInv'
  <2>1. ClientsOK'
    BY <1>20, <1>c, GotoKeeps, HelpersKeep DEF ReadPid, Places
  <2> QED
    BY <1>20, <2>1 DEF ClientsOK, ReadPid
<1>21. ASSUME NEW c \in Clients, UnlinkSocket(c) PROVE TypeOK' /\ CmdInv'
  <2>1. ClientsOK'
    BY <1>21, <1>c, MovedKeeps DEF UnlinkSocket, Places, Blame, Asking
  <2> QED
    BY <1>21, <2>1 DEF ClientsOK, UnlinkSocket, Blame, Asking
<1>22. ASSUME NEW c \in Clients, UnlinkPid(c) PROVE TypeOK' /\ CmdInv'
  <2>1. ClientsOK'
    BY <1>22, <1>c, HelpersKeep DEF UnlinkPid
  <2> QED
    BY <1>22, <2>1 DEF ClientsOK, UnlinkPid
<1>23. ASSUME NEW c \in Clients, Popen(c) PROVE TypeOK' /\ CmdInv'
  <2>1. ClientsOK'
    BY <1>23, <1>c, GotoKeeps DEF Popen, Places, Move, Starting
  <2> QED
    BY <1>23, <2>1 DEF ClientsOK, Popen, Move, Starting
<1>24. ASSUME NEW c \in Clients, CannotStart(c) PROVE TypeOK' /\ CmdInv'
  <2>1. ClientsOK'
    BY <1>24, <1>c, HelpersKeep, DoneKeeps DEF CannotStart
  <2> QED
    BY <1>24, <2>1 DEF ClientsOK, CannotStart
<1>25. ASSUME NEW c \in Clients, Await(c) PROVE TypeOK' /\ CmdInv'
  <2>1. ClientsOK'
    BY <1>25, <1>c, GotoKeeps, DoneKeeps DEF Await, Places
  <2> QED
    BY <1>25, <2>1 DEF ClientsOK, Await
<1>26. ASSUME NEW c \in Clients, GiveUp(c) PROVE TypeOK' /\ CmdInv'
  <2>1. ClientsOK'
    BY <1>26, <1>c, HelpersKeep, DoneKeeps DEF GiveUp
  <2> QED
    BY <1>26, <2>1 DEF ClientsOK, GiveUp
<1>27. ASSUME NEW c \in Clients, Command(c) PROVE TypeOK' /\ CmdInv'
  <2>1. ClientsOK'
    BY <1>27, <1>c, MovedKeeps DEF Command, Places
  <2> QED
    BY <1>27, <2>1 DEF ClientsOK, Command
<1>28. ASSUME NEW c \in Clients, Probe(c) PROVE TypeOK' /\ CmdInv'
  <2>1. ClientsOK'
    BY <1>28, <1>c, GotoKeeps, DoneKeeps DEF Probe, Places
  <2> QED
    BY <1>28, <2>1 DEF ClientsOK, Probe
<1>29. ASSUME NEW c \in Clients, Order(c) PROVE TypeOK' /\ CmdInv'
  <2>1. ClientsOK'
    BY <1>29, <1>c, MovedKeeps, HelpersKeep DEF Order, Places, Reachable
  <2> QED
    BY <1>29, <2>1 DEF ClientsOK, Order
<1>30. ASSUME NEW c \in Clients, Ordered(c) PROVE TypeOK' /\ CmdInv'
  <2>1. ClientsOK'
    BY <1>30, <1>c, MovedKeeps, HelpersKeep DEF Ordered, Places
  <2> QED
    BY <1>30, <2>1 DEF ClientsOK, Ordered
<1>31. ASSUME NEW c \in Clients, WaitGone(c) PROVE TypeOK' /\ CmdInv'
  <2>1. ClientsOK'
    BY <1>31, <1>c, GotoKeeps, HelpersKeep DEF WaitGone, Places
  <2> QED
    BY <1>31, <2>1 DEF ClientsOK, WaitGone
<1>32. CASE UNCHANGED vars
  BY <1>32 DEF vars
<1> QED
  BY <1>1, <1>2, <1>3, <1>4, <1>5, <1>6, <1>7, <1>8, <1>9, <1>10, <1>11, <1>12, <1>13, <1>14, <1>15, <1>16, <1>17, <1>18, <1>19, <1>20, <1>21, <1>22, <1>23, <1>24, <1>25, <1>26, <1>27, <1>28, <1>29, <1>30, <1>31, <1>32 DEF Next, Run, Step

\* Most steps of a client touch no socket and start no daemon.
LEMMA ClientFrame ==
  ASSUME NEW c \in Clients, Ask(c) \/ Command(c) \/ Step(c), ~Popen(c), ~UnlinkSocket(c)
  PROVE  UNCHANGED <<pc, lock, sock, excused>>
BY DEF Ask, Command, Step, Call, Reconnect, Answered, Lost, Again, Look, Check, ReadPid, UnlinkPid, CannotStart, Await, GiveUp,
       Probe, Order, Ordered, WaitGone, files

-----------------------------------------------------------------------------
(* What the lock keeps apart: a step that touches the files.               *)

LEMMA FilesStep == FilesInv /\ [Next]_vars => LockInv' /\ SockInv' /\ HideInv'
<1> SUFFICES ASSUME FilesInv, [Next]_vars PROVE LockInv' /\ SockInv' /\ HideInv'
  OBVIOUS
<1> USE ProcessesAssumption DEF Starting, Up, Ending, Bound, LockInv, SockInv, HideInv
<1>0. TypeOK /\ LockInv /\ SockInv /\ HideInv /\ SeenInv
  BY DEF FilesInv
<1>g. ASSUME NEW d \in Daemons, Gone(d) PROVE LockInv' /\ SockInv' /\ HideInv'
  BY <1>0, <1>g DEF Gone, TypeOK
<1>1. ASSUME NEW d \in Daemons, AcquireLock(d) PROVE LockInv' /\ SockInv' /\ HideInv'
  BY <1>0, <1>1, <1>g DEF AcquireLock, Move, TypeOK, files
<1>2. ASSUME NEW d \in Daemons, LookForSocket(d) PROVE LockInv' /\ SockInv' /\ HideInv'
  BY <1>0, <1>2 DEF LookForSocket, Move, TypeOK, files
<1>3. ASSUME NEW d \in Daemons, UnlinkOld(d) PROVE LockInv' /\ SockInv' /\ HideInv'
  BY <1>0, <1>3, <1>g DEF UnlinkOld, Move, TypeOK, files
<1>4. ASSUME NEW d \in Daemons, Bind(d) PROVE LockInv' /\ SockInv' /\ HideInv'
  BY <1>0, <1>4 DEF Bind, Move, TypeOK, files
<1>5. ASSUME NEW d \in Daemons, Listen(d) PROVE LockInv' /\ SockInv' /\ HideInv'
  BY <1>0, <1>5 DEF Listen, Move, TypeOK, files
<1>6. ASSUME NEW d \in Daemons, Chmod(d) PROVE LockInv' /\ SockInv' /\ HideInv'
  BY <1>0, <1>6, <1>g DEF Chmod, Move, TypeOK, files
<1>7. ASSUME NEW d \in Daemons, WritePid(d) PROVE LockInv' /\ SockInv' /\ HideInv'
  BY <1>0, <1>7 DEF WritePid, Move, TypeOK, files
<1>8. ASSUME NEW d \in Daemons, Stop(d) PROVE LockInv' /\ SockInv' /\ HideInv'
  BY <1>0, <1>8 DEF Stop, Move, TypeOK, files
<1>9. ASSUME NEW d \in Daemons, RemoveSocket(d) PROVE LockInv' /\ SockInv' /\ HideInv'
  BY <1>0, <1>9 DEF RemoveSocket, Move, TypeOK, files
<1>10. ASSUME NEW d \in Daemons, RemovePid(d) PROVE LockInv' /\ SockInv' /\ HideInv'
  BY <1>0, <1>10 DEF RemovePid, Move, TypeOK, files
<1>11. ASSUME NEW d \in Daemons, Exit(d) \/ Kill(d) PROVE LockInv' /\ SockInv' /\ HideInv'
  BY <1>11, <1>g DEF Exit, Kill
<1>12. ASSUME NEW c \in Clients, Popen(c) PROVE LockInv' /\ SockInv' /\ HideInv'
  BY <1>0, <1>12 DEF Popen, Move, TypeOK, files
<1>13. ASSUME NEW c \in Clients, UnlinkSocket(c) PROVE LockInv' /\ SockInv' /\ HideInv'
  BY <1>0, <1>13 DEF UnlinkSocket, TypeOK, SeenInv
<1>14. ASSUME NEW c \in Clients, Ask(c) \/ Command(c) \/ Step(c), ~Popen(c), ~UnlinkSocket(c) PROVE LockInv' /\ SockInv' /\ HideInv'
  BY <1>0, <1>14, ClientFrame
<1>15. CASE UNCHANGED vars
  BY <1>0, <1>15 DEF vars, files
<1> QED
  BY <1>1, <1>2, <1>3, <1>4, <1>5, <1>6, <1>7, <1>8, <1>9, <1>10, <1>11, <1>12, <1>13, <1>14, <1>15 DEF Next, Run

\* What a client knows of the others, it knows from its own checks.
LEMMA ClientSees ==
  ASSUME TypeOK, CmdInv, NEW c \in Clients, Ask(c) \/ Command(c) \/ Step(c), NEW e \in Clients, NEW d \in client'[e].seen
  PROVE  d \in client[e].seen \/ (Listens(d) /\ d \in Daemons /\ sock # d)
<1> USE DEF TypeOK
<1> DEFINE Goal == d \in client[e].seen \/ (Listens(d) /\ d \in Daemons /\ sock # d)
<1>1. client[c] \in Commands
  OBVIOUS
<1>2. ASSUME NEW at, Goto(c, at) PROVE Goal
  BY <1>1, <1>2 DEF Goto, Commands
<1>3. ASSUME Done(c) PROVE Goal
  BY <1>1, <1>3 DEF Done, Idle, Commands
<1>4. ASSUME Unavailable(c) PROVE Goal
  BY <1>1, <1>4 DEF Unavailable, Commands
<1>5. ASSUME client[c].at # "idle", Cleared(c) PROVE Goal
  <2>1. client[c].cmd \in {"ask", "start", "stop", "restart"}
    BY <1>1, <1>5 DEF CmdInv, Commands
  <2>2. CASE Goto(c, "popen")
    BY <1>2, <2>2
  <2>3. CASE client' = [client EXCEPT ![c].at = "probe", ![c].cmd = "start"]
    BY <1>1, <2>3 DEF Commands
  <2> QED
    BY <1>3, <1>5, <2>1, <2>2, <2>3 DEF Cleared
<1>6. ASSUME Stopped(c) PROVE Goal
  BY <1>1, <1>3, <1>6 DEF Stopped, Commands
<1>7. ASSUME Ask(c) PROVE Goal
  BY <1>1, <1>7 DEF Ask, Commands
<1>8. ASSUME Command(c) PROVE Goal
  <2>1. PICK cmd \in CommandsOf[c] \ {"ask"} : client' = [client EXCEPT ![c].at = "probe", ![c].cmd = cmd]
    BY <1>8 DEF Command
  <2> QED
    BY <1>1, <2>1 DEF Commands
<1>9. ASSUME Call(c) PROVE Goal
  BY <1>1, <1>9 DEF Call, Commands
<1>10. ASSUME Reconnect(c) PROVE Goal
  BY <1>1, <1>10, <1>4 DEF Reconnect, Commands
<1>11. ASSUME Answered(c) PROVE Goal
  BY <1>1, <1>11, <1>3 DEF Answered, Commands
<1>12. ASSUME Lost(c) PROVE Goal
  BY <1>1, <1>12, <1>4 DEF Lost, Commands
<1>13. ASSUME Again(c) PROVE Goal
  BY <1>1, <1>13, <1>2, <1>3 DEF Again, Commands
<1>14. ASSUME Look(c) PROVE Goal
  BY <1>1, <1>14, <1>2, <1>5 DEF Look, Commands
<1>15. ASSUME Check(c) PROVE Goal
  BY <1>1, <1>15, <1>5 DEF Check, Commands, Reachable
<1>16. ASSUME ReadPid(c) PROVE Goal
  BY <1>1, <1>16, <1>2, <1>5 DEF ReadPid, Commands
<1>17. ASSUME UnlinkSocket(c) PROVE Goal
  BY <1>1, <1>17 DEF UnlinkSocket, Commands
<1>18. ASSUME UnlinkPid(c) PROVE Goal
  BY <1>1, <1>18, <1>5 DEF UnlinkPid, Commands
<1>19. ASSUME Popen(c) PROVE Goal
  BY <1>1, <1>19, <1>2 DEF Popen, Commands
<1>20. ASSUME CannotStart(c) PROVE Goal
  BY <1>1, <1>20, <1>3, <1>4 DEF CannotStart, Commands
<1>21. ASSUME Await(c) PROVE Goal
  BY <1>1, <1>21, <1>2, <1>3 DEF Await, Commands
<1>22. ASSUME GiveUp(c) PROVE Goal
  BY <1>1, <1>22, <1>3, <1>4 DEF GiveUp, Commands
<1>23. ASSUME Probe(c) PROVE Goal
  BY <1>1, <1>23, <1>2, <1>3 DEF Probe, Commands
<1>24. ASSUME Order(c) PROVE Goal
  BY <1>1, <1>24, <1>6 DEF Order, Commands
<1>25. ASSUME Ordered(c) PROVE Goal
  BY <1>1, <1>25, <1>6 DEF Ordered, Commands
<1>26. ASSUME WaitGone(c) PROVE Goal
  BY <1>1, <1>26, <1>2, <1>6 DEF WaitGone, Commands
<1> QED
  BY <1>7, <1>8, <1>9, <1>10, <1>11, <1>12, <1>13, <1>14, <1>15, <1>16, <1>17, <1>18, <1>19, <1>20, <1>21, <1>22, <1>23, <1>24, <1>25, <1>26 DEF Step

LEMMA SeenStep == FilesInv /\ [Next]_vars => SeenInv'
<1> SUFFICES ASSUME FilesInv, [Next]_vars PROVE SeenInv'
  OBVIOUS
<1> USE ProcessesAssumption DEF Starting, Up, Ending, SeenInv
<1>0. TypeOK /\ LockInv /\ SockInv /\ HideInv /\ SeenInv
  BY DEF FilesInv
<1>s. \A c \in Clients : client[c].seen \subseteq Daemons
  BY <1>0 DEF TypeOK, Commands
<1>g. ASSUME NEW d \in Daemons, Gone(d) PROVE SeenInv'
  <2>0. \A c \in Clients : client'[c] = [client[c] EXCEPT !.to = IF @ = d THEN NoOne ELSE @, !.seen = @ \ {d}]
    BY <1>g DEF Gone
  <2>1. ASSUME NEW c \in Clients PROVE client'[c].seen = client[c].seen \ {d}
    <3>1. client[c] \in Commands
      BY <1>0 DEF TypeOK
    <3> DEFINE t == IF client[c].to = d THEN NoOne ELSE client[c].to
               S == client[c].seen \ {d}
    <3>2. client'[c] = [client[c] EXCEPT !.to = t, !.seen = S]
      BY <2>0
    <3> HIDE DEF t, S
    <3>3. client'[c].seen = S
      BY <3>1, <3>2 DEF Commands
    <3> QED
      BY <3>3 DEF S
  <2> QED
    <3> SUFFICES ASSUME NEW c \in Clients, NEW e \in client'[c].seen
                 PROVE  pc'[e] \in {"listening"} \cup Up \cup Ending /\ sock' # e
      OBVIOUS
    <3>1. e \in client[c].seen /\ e # d /\ e \in Daemons
      BY <1>s, <2>1
    <3>2. pc'[e] = pc[e] /\ sock' \in {sock, Dead}
      BY <1>0, <1>g, <3>1 DEF Gone, TypeOK
    <3> QED
      BY <1>0, <3>1, <3>2
<1>1. ASSUME NEW d \in Daemons, AcquireLock(d) PROVE SeenInv'
  BY <1>0, <1>s, <1>1, <1>g DEF AcquireLock, Move, TypeOK, files
<1>2. ASSUME NEW d \in Daemons, LookForSocket(d) PROVE SeenInv'
  BY <1>0, <1>s, <1>2 DEF LookForSocket, Move, TypeOK, files
<1>3. ASSUME NEW d \in Daemons, UnlinkOld(d) PROVE SeenInv'
  BY <1>0, <1>s, <1>3, <1>g DEF UnlinkOld, Move, TypeOK, files
<1>4. ASSUME NEW d \in Daemons, Bind(d) PROVE SeenInv'
  BY <1>0, <1>s, <1>4 DEF Bind, Move, TypeOK, files
<1>5. ASSUME NEW d \in Daemons, Listen(d) PROVE SeenInv'
  BY <1>0, <1>s, <1>5 DEF Listen, Move, TypeOK, files
<1>6. ASSUME NEW d \in Daemons, Chmod(d) PROVE SeenInv'
  BY <1>0, <1>s, <1>6, <1>g DEF Chmod, Move, TypeOK, files
<1>7. ASSUME NEW d \in Daemons, WritePid(d) PROVE SeenInv'
  BY <1>0, <1>s, <1>7 DEF WritePid, Move, TypeOK, files
<1>8. ASSUME NEW d \in Daemons, Stop(d) PROVE SeenInv'
  BY <1>0, <1>s, <1>8 DEF Stop, Move, TypeOK, files
<1>9. ASSUME NEW d \in Daemons, RemoveSocket(d) PROVE SeenInv'
  BY <1>0, <1>s, <1>9 DEF RemoveSocket, Move, TypeOK, files
<1>10. ASSUME NEW d \in Daemons, RemovePid(d) PROVE SeenInv'
  BY <1>0, <1>s, <1>10 DEF RemovePid, Move, TypeOK, files
<1>11. ASSUME NEW d \in Daemons, Exit(d) \/ Kill(d) PROVE SeenInv'
  BY <1>11, <1>g DEF Exit, Kill
<1>12. ASSUME NEW c \in Clients, Ask(c) \/ Command(c) \/ Step(c), Popen(c) PROVE SeenInv'
  BY <1>0, <1>s, <1>12, ClientSees DEF FilesInv, Popen, Move, TypeOK, files, Listens
<1>13. ASSUME NEW c \in Clients, Ask(c) \/ Command(c) \/ Step(c), UnlinkSocket(c) PROVE SeenInv'
  BY <1>0, <1>s, <1>13, ClientSees DEF FilesInv, UnlinkSocket, TypeOK, Listens
<1>14. ASSUME NEW c \in Clients, Ask(c) \/ Command(c) \/ Step(c), ~Popen(c), ~UnlinkSocket(c) PROVE SeenInv'
  BY <1>0, <1>s, <1>14, ClientFrame, ClientSees DEF FilesInv, Listens
<1>15. CASE UNCHANGED vars
  BY <1>0, <1>s, <1>15 DEF vars, files
<1> QED
  BY <1>1, <1>2, <1>3, <1>4, <1>5, <1>6, <1>7, <1>8, <1>9, <1>10, <1>11, <1>12, <1>13, <1>14, <1>15 DEF Next, Run

-----------------------------------------------------------------------------
(* Theorems. *)

LEMMA FilesInit == Init => FilesInv
BY ProcessesAssumption DEF Init, FilesInv, TypeOK, CmdInv, LockInv, SockInv, HideInv, SeenInv, Idle, Commands, Bound

LEMMA FilesKept == Spec => []FilesInv
<1>1. FilesInv /\ [Next]_vars => FilesInv'
  BY TypeStep, FilesStep, SeenStep DEF FilesInv
<1> QED
  BY FilesInit, <1>1, PTL DEF Spec

\* Every variable keeps its type: daemon/client.py, daemon/cli.py and run of daemon/server.py.
THEOREM TypeCorrect == Spec => []TypeOK
BY FilesKept, PTL DEF FilesInv

\* A daemon that listens and is not behind its path was hidden by a clear_stale that had checked before it listened.
THEOREM EarlierChecksAlwaysHide == Spec => []OnlyEarlierChecksHide
<1>1. FilesInv => OnlyEarlierChecksHide
  BY DEF FilesInv, HideInv, OnlyEarlierChecksHide, Hidden, Listens, Bound, Up
<1> QED
  BY FilesKept, <1>1, PTL

-----------------------------------------------------------------------------
(* What a query may count on within a try.                                 *)

InTry(c) == client[c].cmd = "ask" /\ client[c].at \notin {"idle", "call", "tried"}

\* A daemon ends, or serves where nobody finds it.
Amiss == \E d \in Daemons : pc[d] \in Ending \/ (pc[d] \in Up /\ sock # d)

\* A daemon is there, or starts.
Coming == (\E d \in Daemons : pc[d] \in Starting) \/ Reachable

Waits(c) ==
  /\ client[c].at = "await" => Coming
  /\ client[c].at = "reconnect" => Reachable
  /\ client[c].at = "sent" => client[c].to \in Daemons /\ Listens(client[c].to)

\* Unless something happened in its try, nothing is amiss, and what it waits for is there or comes.
TryInv == \A c \in Clients :
            /\ client[c].at = "reconnect" => client[c].cmd = "ask"
            /\ InTry(c) => c \in blamed \/ (~Amiss /\ Waits(c))

\* What a step does to the daemons that a query is not blamed for.
Undisturbed ==
  /\ ~Amiss'
  /\ Coming => Coming'
  /\ Reachable => Reachable'
  /\ \A d \in Daemons : Listens(d) => Listens(d)'

LEMMA StepUndisturbed ==
  ASSUME FilesInv, [Next]_vars, NEW c \in Clients, client[c].cmd = "ask", c \notin blamed', ~Amiss
  PROVE  Undisturbed
<1> USE ProcessesAssumption DEF Starting, Up, Ending, Undisturbed, Amiss, Coming, Reachable, Listens
<1>0. TypeOK /\ LockInv /\ SockInv
  BY DEF FilesInv
<1>b. ~Blame
  BY DEF Blame, Asking
<1>g. ASSUME NEW d \in Daemons, Gone(d), ~Listens(d), pc[d] = "new" => lock # NoOne, pc[d] \in {"new", "cleared"} PROVE Undisturbed
  BY <1>0, <1>g DEF Gone, TypeOK, LockInv
<1>1. ASSUME NEW d \in Daemons, AcquireLock(d) PROVE Undisturbed
  BY <1>0, <1>b, <1>1, <1>g DEF AcquireLock, Move, TypeOK, LockInv, SockInv, files
<1>2. ASSUME NEW d \in Daemons, LookForSocket(d) PROVE Undisturbed
  BY <1>0, <1>b, <1>2 DEF LookForSocket, Move, TypeOK, LockInv, SockInv, files
<1>3. ASSUME NEW d \in Daemons, UnlinkOld(d) PROVE Undisturbed
  BY <1>0, <1>b, <1>3 DEF UnlinkOld, Move, TypeOK, LockInv, SockInv, files
<1>4. ASSUME NEW d \in Daemons, Bind(d) PROVE Undisturbed
  BY <1>0, <1>b, <1>4 DEF Bind, Move, TypeOK, LockInv, SockInv, files
<1>5. ASSUME NEW d \in Daemons, Listen(d) PROVE Undisturbed
  BY <1>0, <1>b, <1>5 DEF Listen, Move, TypeOK, LockInv, SockInv, files
<1>6. ASSUME NEW d \in Daemons, Chmod(d) PROVE Undisturbed
  BY <1>0, <1>b, <1>6 DEF Chmod, Move, TypeOK, LockInv, SockInv, files
<1>7. ASSUME NEW d \in Daemons, WritePid(d) PROVE Undisturbed
  BY <1>0, <1>b, <1>7 DEF WritePid, Move, TypeOK, LockInv, SockInv, files
<1>8. ASSUME NEW d \in Daemons, Stop(d) PROVE Undisturbed
  BY <1>0, <1>b, <1>8 DEF Stop, Move, TypeOK, LockInv, SockInv, files
<1>9. ASSUME NEW d \in Daemons, RemoveSocket(d) PROVE Undisturbed
  BY <1>0, <1>b, <1>9 DEF RemoveSocket, Move, TypeOK, LockInv, SockInv, files
<1>10. ASSUME NEW d \in Daemons, RemovePid(d) PROVE Undisturbed
  BY <1>0, <1>b, <1>10 DEF RemovePid, Move, TypeOK, LockInv, SockInv, files
<1>11. ASSUME NEW d \in Daemons, Exit(d) PROVE Undisturbed
  BY <1>0, <1>b, <1>11 DEF Exit, Move, TypeOK, LockInv, SockInv, files
<1>12. ASSUME NEW d \in Daemons, Kill(d) PROVE Undisturbed
  BY <1>0, <1>b, <1>12 DEF Kill, Move, TypeOK, LockInv, SockInv, files
<1>13. ASSUME NEW a \in Clients, Popen(a) PROVE Undisturbed
  BY <1>0, <1>13 DEF Popen, Move, TypeOK, files
<1>14. ASSUME NEW a \in Clients, UnlinkSocket(a) PROVE Undisturbed
  BY <1>0, <1>b, <1>14 DEF UnlinkSocket, TypeOK
<1>15. ASSUME NEW a \in Clients, Ask(a) \/ Command(a) \/ Step(a), ~Popen(a), ~UnlinkSocket(a) PROVE Undisturbed
  BY <1>15, ClientFrame
<1>16. CASE UNCHANGED vars
  BY <1>16 DEF vars, files
<1> QED
  BY <1>1, <1>2, <1>3, <1>4, <1>5, <1>6, <1>7, <1>8, <1>9, <1>10, <1>11, <1>12, <1>13, <1>14, <1>15, <1>16 DEF Next, Run

\* Others leave a client where it is, and what it was blamed for.
LEMMA OthersLeave ==
  ASSUME TypeOK, CmdInv, [Next]_vars, NEW c \in Clients, ~(Ask(c) \/ Command(c) \/ Step(c))
  PROVE  /\ client'[c].at = client[c].at /\ client'[c].cmd = client[c].cmd
         /\ client'[c].tries = client[c].tries
         /\ client'[c].to = client[c].to \/ (client[c].to \in Daemons /\ pc'[client[c].to] = "off")
         /\ c \in blamed => c \in blamed'
<1> DEFINE Same == client'[c] = client[c] /\ (c \in blamed => c \in blamed')
           Goal == /\ client'[c].at = client[c].at /\ client'[c].cmd = client[c].cmd
                   /\ client'[c].tries = client[c].tries
                   /\ client'[c].to = client[c].to \/ (client[c].to \in Daemons /\ pc'[client[c].to] = "off")
                   /\ c \in blamed => c \in blamed'
<1>1. ASSUME NEW d \in Daemons, Gone(d), UNCHANGED blamed \/ Blame PROVE Goal
  <2>1. client[c] \in Commands
    BY DEF TypeOK
  <2> DEFINE t == IF client[c].to = d THEN NoOne ELSE client[c].to
             S == client[c].seen \ {d}
  <2>2. client'[c] = [client[c] EXCEPT !.to = t, !.seen = S]
    BY <1>1 DEF Gone
  <2> HIDE DEF S
  <2>3. /\ client'[c].at = client[c].at /\ client'[c].cmd = client[c].cmd
        /\ client'[c].tries = client[c].tries /\ client'[c].to = t
    BY <2>1, <2>2 DEF Commands
  <2>4. pc'[d] = "off"
    BY <1>1 DEF Gone, TypeOK
  <2> QED
    BY <1>1, <2>3, <2>4 DEF Blame
<1>2. ASSUME NEW d \in Daemons, Run(d) \/ Kill(d) PROVE Goal
  <2>1. (Gone(d) /\ (UNCHANGED blamed \/ Blame)) \/ Same
    BY <1>2 DEF Run, Kill, AcquireLock, LookForSocket, UnlinkOld, Bind, Listen, Chmod, WritePid, Stop, RemoveSocket, RemovePid,
                Exit, Blame, files
  <2> QED
    BY <1>1, <2>1
<1>3. ASSUME NEW a \in Clients, Ask(a) \/ Command(a) \/ Step(a) PROVE Same
  <2>1. a # c
    BY <1>3
  <2>2. client[a].at # "idle" => client[a].cmd \in {"ask", "start", "stop", "restart"}
    BY DEF TypeOK, CmdInv, Commands
  <2> USE <2>1 DEF TypeOK
  <2>3. Ask(a) => Same
    BY DEF Ask
  <2>4. Command(a) => Same
    BY DEF Command
  <2>5. Call(a) => Same
    BY DEF Call
  <2>6. Reconnect(a) => Same
    BY DEF Reconnect, Unavailable
  <2>7. Answered(a) => Same
    BY DEF Answered, Done
  <2>8. Lost(a) => Same
    BY DEF Lost, Unavailable
  <2>9. Again(a) => Same
    BY DEF Again, Done, Goto
  <2>10. Look(a) => Same
    BY <2>2 DEF Look, Cleared, Done, Goto
  <2>11. Check(a) => Same
    BY <2>2 DEF Check, Cleared, Done, Goto
  <2>12. ReadPid(a) => Same
    BY <2>2 DEF ReadPid, Cleared, Done, Goto
  <2>13. UnlinkSocket(a) => Same
    BY DEF UnlinkSocket, Blame
  <2>14. UnlinkPid(a) => Same
    BY <2>2 DEF UnlinkPid, Cleared, Done, Goto
  <2>15. Popen(a) => Same
    BY DEF Popen, Goto
  <2>16. CannotStart(a) => Same
    BY DEF CannotStart, Unavailable, Done
  <2>17. Await(a) => Same
    BY DEF Await, Goto, Done
  <2>18. GiveUp(a) => Same
    BY DEF GiveUp, Unavailable, Done
  <2>19. Probe(a) => Same
    BY DEF Probe, Goto, Done
  <2>20. Order(a) => Same
    BY DEF Order, Stopped, Done
  <2>21. Ordered(a) => Same
    BY DEF Ordered, Stopped, Done
  <2>22. WaitGone(a) => Same
    BY DEF WaitGone, Stopped, Done, Goto
  <2> QED
    BY <1>3, <2>3, <2>4, <2>5, <2>6, <2>7, <2>8, <2>9, <2>10, <2>11, <2>12, <2>13, <2>14, <2>15, <2>16, <2>17, <2>18, <2>19, <2>20, <2>21, <2>22 DEF Step
<1>4. CASE UNCHANGED vars
  BY <1>4 DEF vars
<1> QED
  BY <1>2, <1>3, <1>4 DEF Next

\* Where a client's own step takes it.
LEMMA OwnStep ==
  ASSUME TypeOK, CmdInv, NEW c \in Clients, Ask(c) \/ Command(c) \/ Step(c)
  PROVE  /\ client'[c].at = "reconnect" =>
              /\ client'[c].cmd = "ask" \/ (client[c].at = "reconnect" /\ client'[c].cmd = client[c].cmd)
              /\ Reachable /\ UNCHANGED <<pc, sock>>
         /\ InTry(c)' =>
              \/ Call(c)
              \/ /\ InTry(c) /\ (c \in blamed => c \in blamed')
                 /\ client'[c].at = "await" => \E d \in Daemons : pc'[d] \in Starting
                 /\ client'[c].at = "sent" => Reachable /\ client'[c].to = sock
         /\ client'[c].tries > client[c].tries =>
              client[c].at = "popen" \/ (client[c].at = "await" /\ client[c].cmd = "ask") \/ (client[c].at = "reconnect" /\ ~Reachable) \/ Lost(c)
<1> DEFINE Back == client'[c].at = "reconnect" =>
              /\ client'[c].cmd = "ask" \/ (client[c].at = "reconnect" /\ client'[c].cmd = client[c].cmd)
              /\ Reachable /\ UNCHANGED <<pc, sock>>
           Trying == InTry(c)' =>
              \/ Call(c)
              \/ /\ InTry(c) /\ (c \in blamed => c \in blamed')
                 /\ client'[c].at = "await" => \E d \in Daemons : pc'[d] \in Starting
                 /\ client'[c].at = "sent" => Reachable /\ client'[c].to = sock
           Counted == client'[c].tries > client[c].tries =>
              client[c].at = "popen" \/ (client[c].at = "await" /\ client[c].cmd = "ask") \/ (client[c].at = "reconnect" /\ ~Reachable) \/ Lost(c)
           Goal == Back /\ Trying /\ Counted
           Moved(at) == /\ client'[c].at = at /\ client'[c].cmd = client[c].cmd /\ client'[c].tries = client[c].tries
           Ended == client'[c].at = "idle" /\ client'[c].tries = 0
<1>0. client[c] \in Commands /\ client \in [Clients -> Commands]
  BY DEF TypeOK
<1>t. client[c].tries \in Nat /\ (client[c].at # "idle" => client[c].cmd \in {"ask", "start", "stop", "restart"})
  BY <1>0 DEF Commands, CmdInv
<1>1. ASSUME NEW at, Goto(c, at) PROVE Moved(at)
  BY <1>0, <1>1 DEF Goto, Commands
<1>2. Done(c) => Ended
  BY <1>0 DEF Done, Idle
<1>3. Unavailable(c) => client'[c].at = "tried"
  BY <1>0 DEF Unavailable, Commands
<1>r. client' = [client EXCEPT ![c].at = "probe", ![c].cmd = "start"] =>
        client'[c].at = "probe" /\ client'[c].cmd = "start" /\ client'[c].tries = client[c].tries
  BY <1>0 DEF Commands
<1>4. client[c].at # "idle" /\ Cleared(c) => Moved("popen") \/ Ended \/
        (client'[c].at = "probe" /\ client'[c].cmd = "start" /\ client'[c].tries = client[c].tries)
  <2> SUFFICES ASSUME client[c].at # "idle", Cleared(c)
               PROVE  Goto(c, "popen") \/ Done(c) \/ client' = [client EXCEPT ![c].at = "probe", ![c].cmd = "start"]
    BY <1>1, <1>2, <1>r
  <2> QED
    BY <1>t DEF Cleared
<1>5. Stopped(c) => Ended \/ (client'[c].at = "probe" /\ client'[c].cmd = "start" /\ client'[c].tries = client[c].tries)
  BY <1>0, <1>2 DEF Stopped, Commands
<1> HIDE DEF Moved, Ended
<1>6. ASSUME Ask(c) PROVE Goal
  BY <1>0, <1>t, <1>6 DEF Ask, Moved, Ended, InTry, files, Commands
<1>7. ASSUME Command(c) PROVE Goal
  <2>1. PICK cmd \in CommandsOf[c] \ {"ask"} : client' = [client EXCEPT ![c].at = "probe", ![c].cmd = cmd]
    BY <1>7 DEF Command
  <2>2. client'[c].at = "probe" /\ client'[c].cmd = cmd /\ client'[c].tries = client[c].tries
    BY <1>0, <2>1 DEF Commands
  <2> QED
    BY <1>t, <2>1, <2>2 DEF InTry
<1>8. ASSUME Call(c) PROVE Goal
  BY <1>0, <1>t, <1>8 DEF Call, Moved, Ended, InTry, files, Commands
<1>9. ASSUME Reconnect(c) PROVE Goal
  BY <1>0, <1>t, <1>9, <1>3 DEF Reconnect, Reachable, Moved, Ended, InTry, files, Commands
<1>10. ASSUME Answered(c) PROVE Goal
  BY <1>0, <1>t, <1>10, <1>2 DEF Answered, Moved, Ended, InTry, files, Commands
<1>11. ASSUME Lost(c) PROVE Goal
  BY <1>0, <1>t, <1>11, <1>3 DEF Lost, Moved, Ended, InTry, files, Commands
<1>12. ASSUME Again(c) PROVE Goal
  BY <1>0, <1>t, <1>12, <1>1, <1>2 DEF Again, Moved, Ended, InTry, files, Commands
<1>13. ASSUME Look(c) PROVE Goal
  BY <1>0, <1>t, <1>13, <1>1, <1>4 DEF Look, Moved, Ended, InTry, files, Commands
<1>14. ASSUME Check(c) PROVE Goal
  BY <1>0, <1>t, <1>14, <1>4 DEF Check, Moved, Ended, InTry, files, Commands
<1>15. ASSUME ReadPid(c) PROVE Goal
  BY <1>0, <1>t, <1>15, <1>1, <1>4 DEF ReadPid, Moved, Ended, InTry, files, Commands
<1>16. ASSUME UnlinkSocket(c) PROVE Goal
  BY <1>0, <1>t, <1>16 DEF UnlinkSocket, Blame, Moved, Ended, InTry, files, Commands
<1>17. ASSUME UnlinkPid(c) PROVE Goal
  BY <1>0, <1>t, <1>17, <1>4 DEF UnlinkPid, Moved, Ended, InTry, files, Commands
<1>18. ASSUME Popen(c) PROVE Goal
  <2>1. Moved("await") /\ client[c].at = "popen" /\ blamed' = blamed
    BY <1>18, <1>1 DEF Popen
  <2>2. \E d \in Daemons : pc'[d] \in Starting
    BY <1>18 DEF Popen, Move, Starting, TypeOK
  <2> QED
    BY <1>t, <2>1, <2>2 DEF Moved, InTry
<1>19. ASSUME CannotStart(c) PROVE Goal
  BY <1>0, <1>t, <1>19, <1>2, <1>3 DEF CannotStart, Moved, Ended, InTry, files, Commands
<1>20. ASSUME Await(c) PROVE Goal
  BY <1>0, <1>t, <1>20, <1>1, <1>2 DEF Await, Moved, Ended, InTry, files, Commands
<1>21. ASSUME GiveUp(c) PROVE Goal
  BY <1>0, <1>t, <1>21, <1>2, <1>3 DEF GiveUp, Moved, Ended, InTry, files, Commands
<1>22. ASSUME Probe(c) PROVE Goal
  BY <1>0, <1>t, <1>22, <1>1, <1>2 DEF Probe, Moved, Ended, InTry, files, Commands
<1>23. ASSUME Order(c) PROVE Goal
  BY <1>0, <1>t, <1>23, <1>5 DEF Order, Reachable, Moved, Ended, InTry, files, Commands
<1>24. ASSUME Ordered(c) PROVE Goal
  BY <1>0, <1>t, <1>24, <1>5 DEF Ordered, Moved, Ended, InTry, files, Commands
<1>25. ASSUME WaitGone(c) PROVE Goal
  BY <1>0, <1>t, <1>25, <1>1, <1>5 DEF WaitGone, Moved, Ended, InTry, files, Commands
<1> QED
  BY <1>6, <1>7, <1>8, <1>9, <1>10, <1>11, <1>12, <1>13, <1>14, <1>15, <1>16, <1>17, <1>18, <1>19, <1>20, <1>21, <1>22, <1>23, <1>24, <1>25 DEF Step

LEMMA TryStep == FilesInv /\ TryInv /\ [Next]_vars => TryInv'
<1> SUFFICES ASSUME FilesInv, TryInv, [Next]_vars, NEW c \in Clients
             PROVE  /\ client'[c].at = "reconnect" => client'[c].cmd = "ask"
                    /\ InTry(c)' => c \in blamed' \/ (~Amiss' /\ Waits(c)')
  BY DEF TryInv
<1>0. TypeOK /\ CmdInv
  BY DEF FilesInv
<1>1. /\ client[c].at = "reconnect" => client[c].cmd = "ask"
      /\ InTry(c) => c \in blamed \/ (~Amiss /\ Waits(c))
  BY DEF TryInv
<1>2. CASE ~(Ask(c) \/ Command(c) \/ Step(c))
  <2>1. /\ client'[c].at = client[c].at /\ client'[c].cmd = client[c].cmd
        /\ client'[c].to = client[c].to \/ (client[c].to \in Daemons /\ pc'[client[c].to] = "off")
        /\ c \in blamed => c \in blamed'
    BY <1>0, <1>2, OthersLeave
  <2>2. ASSUME InTry(c)', c \notin blamed' PROVE ~Amiss' /\ Waits(c)'
    <3>1. client[c].cmd = "ask" /\ ~Amiss /\ Waits(c)
      BY <1>1, <2>1, <2>2 DEF InTry
    <3>2. Undisturbed
      BY <2>2, <3>1, StepUndisturbed
    <3>3. (client[c].at = "sent" => client[c].to \in Daemons /\ Listens(client[c].to))'
      BY <2>1, <3>1, <3>2 DEF Waits, Undisturbed, Listens, Up
    <3> QED
      BY <2>1, <3>1, <3>2, <3>3 DEF Waits, Undisturbed
  <2> QED
    BY <1>1, <2>1, <2>2
<1>3. CASE Ask(c) \/ Command(c) \/ Step(c)
  <2>1. /\ client'[c].at = "reconnect" =>
              /\ client'[c].cmd = "ask" \/ (client[c].at = "reconnect" /\ client'[c].cmd = client[c].cmd)
              /\ Reachable /\ UNCHANGED <<pc, sock>>
        /\ InTry(c)' =>
              \/ Call(c)
              \/ /\ InTry(c) /\ (c \in blamed => c \in blamed')
                 /\ client'[c].at = "await" => \E d \in Daemons : pc'[d] \in Starting
                 /\ client'[c].at = "sent" => Reachable /\ client'[c].to = sock
    BY <1>0, <1>3, OwnStep
  <2>2. ASSUME InTry(c)', c \notin blamed', ~Call(c) PROVE ~Amiss' /\ Waits(c)'
    <3>1. client[c].cmd = "ask" /\ ~Amiss
      BY <1>1, <2>1, <2>2 DEF InTry
    <3>2. Undisturbed
      BY <2>2, <3>1, StepUndisturbed
    <3>3. client'[c].at = "await" => Coming'
      BY <2>1, <2>2 DEF Coming
    <3>4. client'[c].at = "reconnect" => Reachable'
      BY <2>1, <3>2 DEF Undisturbed
    <3>5. (client[c].at = "sent" => client[c].to \in Daemons /\ Listens(client[c].to))'
      BY <2>1, <2>2, <3>2 DEF Undisturbed, Reachable, Listens, Up
    <3> QED
      BY <3>2, <3>3, <3>4, <3>5 DEF Waits, Undisturbed
  <2>3. ASSUME Call(c), c \notin blamed' PROVE ~Amiss' /\ Waits(c)'
    <3>1. ~Trouble /\ UNCHANGED <<pc, sock>>
      BY <2>3 DEF Call, files
    <3>2. ~Amiss'
      BY <3>1 DEF Trouble, Amiss, Hidden, Listens
    <3>3. /\ client'[c].at \in {"sent", "look"}
          /\ client'[c].at = "sent" => Reachable /\ client'[c].to = sock
      BY <1>0, <2>3 DEF Call, TypeOK, Commands
    <3>4. (client[c].at = "sent" => client[c].to \in Daemons /\ Listens(client[c].to))'
      BY <3>1, <3>3 DEF Reachable, Listens
    <3> QED
      BY <3>2, <3>3, <3>4 DEF Waits
  <2> QED
    BY <1>1, <2>1, <2>2, <2>3
<1> QED
  BY <1>2, <1>3

\* A query loses a try only to trouble within that try.
THEOREM OnlyTroubleEverCosts == Spec => OnlyTroubleCosts
<1>1. Init => TryInv
  BY DEF Init, TryInv, InTry, Idle
<1>2. ASSUME FilesInv, TryInv, [Next]_vars, NEW c \in Clients, client'[c].tries > client[c].tries
      PROVE  c \in blamed \/ Late(c)
  <2>0. TypeOK /\ CmdInv /\ client[c].tries \in Nat
    BY <1>2 DEF FilesInv, TypeOK, Commands
  <2>1. Ask(c) \/ Command(c) \/ Step(c)
    BY <1>2, <2>0, OthersLeave
  <2>2. client[c].at = "popen" \/ (client[c].at = "await" /\ client[c].cmd = "ask") \/ (client[c].at = "reconnect" /\ ~Reachable) \/ Lost(c)
    BY <1>2, <2>0, <2>1, OwnStep
  <2>3. CASE client[c].at = "await" /\ client[c].cmd = "ask"
    BY <1>2, <2>3 DEF TryInv, InTry, Waits, Coming, Late
  <2>5. CASE client[c].at = "reconnect" /\ ~Reachable
    BY <1>2, <2>5 DEF TryInv, InTry, Waits
  <2>6. CASE Lost(c)
    BY <1>2, <2>6, ProcessesAssumption DEF Lost, Attending, Listens, TryInv, InTry, Waits, Amiss, Late
  <2> QED
    BY <2>2, <2>3, <2>5, <2>6 DEF Late
<1>3. FilesInv /\ TryInv /\ [Next]_vars => [\A c \in Clients : client'[c].tries > client[c].tries => c \in blamed \/ Late(c)]_vars
  BY <1>2
<1> QED
  BY <1>1, <1>3, FilesKept, TryStep, PTL DEF Spec, OnlyTroubleCosts

=============================================================================
