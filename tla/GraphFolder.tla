----------------------------- MODULE GraphFolder -----------------------------
(***************************************************************************)
(* GraphStore with what else happens to its folder (graph/store.py): the   *)
(* removal of the whole graph (remove_graph), which zemble's cache         *)
(* commands run beside builders and readers, and the migration of the      *)
(* single-file store of an older zemble (_migrate_legacy), by whoever      *)
(* comes first, a reader too.                                              *)
(*                                                                         *)
(* Removal ends by unlinking graph.lock itself, so who excludes whom       *)
(* depends on the inode a process opened: it opens graph.lock, possibly    *)
(* waits, and is then given the lock of that inode, named by the path or   *)
(* not.  One removal is modelled, so there is one nameless inode.          *)
(*                                                                         *)
(* A process of the older zemble is external: it opens the single file and *)
(* closes it.  What it writes meanwhile, and that it might create the file *)
(* anew, is left out, and so are edits of the tree: what a version's rows   *)
(* show is GraphStore's question, here it is whether there is a version.   *)
(***************************************************************************)
EXTENDS GraphStore

CONSTANTS Remover  \* the process that removes the graph

ASSUME RemoverAssumption == Remover \notin Readers \cup Writers \cup {NoOne}
ASSUME ProcessesAssumption == Readers \cap Writers = {} /\ NoOne \notin Readers

VARIABLES
  fd,        \* fd[p]: none, named or stray, the graph.lock inode p has open
  strayLock, \* the holder of the nameless inode's lock
  rm,        \* the remover's control
  rmNames,   \* the versions it has the exclusive locks of
  older,     \* graph.sqlite, the older zemble's store, is there
  elder,     \* a process of the older zemble has it open
  mig,       \* mig[p]: how far p is with its migration
  target,    \* target[p]: the version it migrates to
  sure,      \* readers that found neither pointer nor older store
  met,       \* history: a process with the nameless inode's lock wrote beside another
  gone,      \* history: there was no graph at first, or it was removed, or its migrator killed
  crossed    \* history: readers that looked for a graph while it was gone, being moved, or published

Procs == Readers \cup Writers
lockVars == <<fd, strayLock>>
rmVars == <<rm, rmNames>>
migVars == <<older, elder, mig, target, sure>>
history == <<met, gone, crossed>>
allVars == <<vars, lockVars, rmVars, migVars, history>>

FInit ==
  /\ Init
  /\ fd = [p \in Procs |-> "none"]
  /\ strayLock = NoOne
  /\ rm = "idle" /\ rmNames = {}
  /\ older \in BOOLEAN /\ elder = FALSE
  /\ mig = [p \in Procs |-> "none"] /\ target = [p \in Procs |-> 0]
  /\ sure = {} /\ met = FALSE /\ gone = ~older /\ crossed = {}

-----------------------------------------------------------------------------
(* graph.lock. *)

\* os.open of graph.lock; an flock that is held waits.
OpenLock(p) ==
  /\ fd[p] = "none"
  /\ IF p \in Writers THEN wpc[p] = "idle" ELSE rpc[p] = "wait"
  /\ fd' = [fd EXCEPT ![p] = "named"]
  /\ UNCHANGED <<vars, strayLock, rmVars, migVars>>

TakeNamed(w, k) ==
  /\ fd[w] = "named"
  /\ Acquire(w, k)
  /\ UNCHANGED <<lockVars, rmVars, migVars>>

\* The lock of the inode that was unlinked while this writer waited for it.
TakeStray(w, k) ==
  /\ fd[w] = "stray" /\ wpc[w] = "idle" /\ strayLock = NoOne
  /\ strayLock' = w
  /\ kind' = [kind EXCEPT ![w] = k]
  /\ wpc' = [wpc EXCEPT ![w] = "resolve"]
  /\ UNCHANGED <<tree, diskVars, lock, readerVars, base, new, seen, todo, victim, fd, rmVars, migVars>>

\* A reader that is to migrate takes the writers' lock.
TakeAsReader(r) ==
  /\ rpc[r] = "wait"
  /\ \/ fd[r] = "named" /\ lock = NoOne /\ lock' = r /\ UNCHANGED strayLock
     \/ fd[r] = "stray" /\ strayLock = NoOne /\ strayLock' = r /\ UNCHANGED lock
  /\ rpc' = [rpc EXCEPT ![r] = "inLock"]
  /\ UNCHANGED <<tree, diskVars, rver, fresh, tries, writerVars, fd, rmVars, migVars>>

\* p closes its descriptor of graph.lock; what it was at is forgotten.
CloseLock(p) ==
  /\ fd' = [fd EXCEPT ![p] = "none"]
  /\ strayLock' = IF strayLock = p THEN NoOne ELSE strayLock
  /\ mig' = [mig EXCEPT ![p] = "none"] /\ target' = [target EXCEPT ![p] = 0]

\* A writer lets go, or is killed, with whichever lock it has.
Leave(w) ==
  /\ Release(w) \/ Crash(w)
  /\ CloseLock(w)
  /\ UNCHANGED <<rmVars, older, elder, sure>>

-----------------------------------------------------------------------------
(* Readers: _readable_pointer. *)

\* A reader's flock of a sidecar also waits for the remover's exclusive locks.
ReaderStep(r) ==
  /\ rpc[r] = "opened" => ~(fresh[r] /\ rver[r] \in rmNames)
  /\ ConnectStep(r)
  /\ UNCHANGED <<lockVars, rmVars, migVars>>

\* There is no pointer: is there an older store?
LookForOlder(r) ==
  /\ rpc[r] = "missing" /\ r \notin sure
  /\ IF older THEN rpc' = [rpc EXCEPT ![r] = "wait"] /\ UNCHANGED sure
              ELSE sure' = sure \cup {r} /\ UNCHANGED rpc
  /\ UNCHANGED <<tree, diskVars, lock, rver, fresh, tries, writerVars, lockVars, rmVars, older, elder, mig, target>>

\* _locked_pointer finds a pointer, its own migration's too, or nothing at all any more.
FindInLock(r) ==
  /\ rpc[r] = "inLock" /\ mig[r] = "none"
  /\ pointer.cur # 0 \/ ~older
  /\ rver' = [rver EXCEPT ![r] = pointer.cur]
  /\ rpc' = [rpc EXCEPT ![r] = IF pointer.cur = 0 THEN "missing" ELSE IF pointer.cur \in db THEN "resolved" ELSE "corrupt"]
  /\ sure' = IF pointer.cur = 0 THEN sure \cup {r} ELSE sure
  /\ lock' = IF lock = r THEN NoOne ELSE lock
  /\ CloseLock(r)
  /\ UNCHANGED <<tree, diskVars, fresh, tries, writerVars, rmVars, older, elder>>

\* Closed, or killed, wherever it is.
Shut(r) ==
  /\ rpc[r] # "idle"
  /\ rpc' = [rpc EXCEPT ![r] = "idle"] /\ rver' = [rver EXCEPT ![r] = 0]
  /\ fresh' = [fresh EXCEPT ![r] = FALSE] /\ tries' = [tries EXCEPT ![r] = 0]
  /\ sure' = sure \ {r}
  /\ lock' = IF lock = r THEN NoOne ELSE lock
  /\ CloseLock(r)
  /\ UNCHANGED <<tree, diskVars, writerVars, rmVars, older, elder>>

-----------------------------------------------------------------------------
(* _migrate_legacy, by a process in the lock. *)

\* A build from source, and a sweep, leave the older store where it is.
Migrates(p) ==
  /\ IF p \in Readers THEN rpc[p] = "inLock" ELSE wpc[p] = "resolve" /\ kind[p] \in {"build", "compact"}
  /\ mig[p] = "none" /\ pointer.cur = 0 /\ older

\* Nobody has the file open: it will be renamed.
ChooseMove(p, n) ==
  /\ Migrates(p) /\ ~elder /\ IsNextVersion(n)
  /\ mig' = [mig EXCEPT ![p] = "moving"] /\ target' = [target EXCEPT ![p] = n]
  /\ UNCHANGED <<vars, lockVars, rmVars, older, elder, sure>>

\* Somebody has: it is copied.
ChooseCopy(p, n) ==
  /\ Migrates(p) /\ elder /\ IsNextVersion(n)
  /\ mig' = [mig EXCEPT ![p] = "copying"] /\ target' = [target EXCEPT ![p] = n]
  /\ db' = db \cup {n}
  /\ UNCHANGED <<tree, sidecar, complete, rows, pointer, published, lock, readerVars, writerVars, lockVars, rmVars,
                 older, elder, sure>>

Move(p) ==
  /\ mig[p] = "moving" /\ older
  /\ older' = FALSE /\ db' = db \cup {target[p]}
  /\ mig' = [mig EXCEPT ![p] = "moved"]
  /\ UNCHANGED <<tree, sidecar, complete, rows, pointer, published, lock, readerVars, writerVars, lockVars, rmVars,
                 elder, target, sure>>

\* The version has the store's journal mode and schema.
Seal(p) ==
  /\ mig[p] \in {"moved", "copying"}
  /\ complete' = complete \cup {target[p]}
  /\ mig' = [mig EXCEPT ![p] = "sealed"]
  /\ UNCHANGED <<tree, db, sidecar, rows, pointer, published, lock, readerVars, writerVars, lockVars, rmVars,
                 older, elder, target, sure>>

\* A mutant of SealFails: what was moved is discarded like a copy.
DiscardAnyway(p) ==
  /\ mig[p] \in {"moved", "copying"}
  /\ db' = db \ {target[p]} /\ sidecar' = sidecar \ {target[p]} /\ SidecarGone(target[p])
  /\ mig' = [mig EXCEPT ![p] = "failed"]
  /\ UNCHANGED <<tree, complete, rows, pointer, published, lock, rpc, rver, tries, writerVars, lockVars, rmVars,
                 older, elder, target, sure>>

\* It could not be sealed: what was moved is moved back, a copy discarded.
SealFails(p) ==
  /\ mig[p] \in {"moved", "copying"}
  /\ db' = db \ {target[p]} /\ sidecar' = sidecar \ {target[p]} /\ SidecarGone(target[p])
  /\ older' = (older \/ mig[p] = "moved")
  /\ mig' = [mig EXCEPT ![p] = "failed"]
  /\ UNCHANGED <<tree, complete, rows, pointer, published, lock, rpc, rver, tries, writerVars, lockVars, rmVars,
                 elder, target, sure>>

\* The older store is malformed: a build starts over from source beside it.
RebuildFromSource(w) ==
  /\ mig[w] = "failed" /\ kind[w] = "build"
  /\ mig' = [mig EXCEPT ![w] = "none"] /\ target' = [target EXCEPT ![w] = 0]
  /\ kind' = [kind EXCEPT ![w] = "force"]
  /\ wpc' = [wpc EXCEPT ![w] = "plan"]
  /\ UNCHANGED <<tree, diskVars, lock, readerVars, base, new, seen, todo, victim, lockVars, rmVars, older, elder, sure>>

PublishMigrated(p) ==
  /\ mig[p] = "sealed"
  /\ pointer' = [cur |-> target[p], prev |-> 0]
  /\ published' = published \cup {target[p]}
  /\ mig' = [mig EXCEPT ![p] = "none"] /\ target' = [target EXCEPT ![p] = 0]
  /\ UNCHANGED <<tree, db, sidecar, complete, rows, lock, readerVars, writerVars, lockVars, rmVars, older, elder, sure>>

\* The older zemble opens its store, or closes it.
Elder ==
  /\ elder \/ older
  /\ elder' = ~elder
  /\ UNCHANGED <<vars, lockVars, rmVars, older, mig, target, sure>>

\* A writer that migrates does nothing else; one that ends a sweep drops an
\* older store that nobody has open.
WorkOn(w) ==
  /\ mig[w] = "none" /\ ~Migrates(w) /\ wpc[w] # "release"
  /\ WriterStep(w)
  /\ older' = (older /\ ~(wpc[w] = "sweep" /\ todo[w] = {} /\ ~elder))
  /\ UNCHANGED <<lockVars, rmVars, elder, mig, target, sure>>

-----------------------------------------------------------------------------
(* remove_graph. *)

\* A mutant of RemoveStart: readers of the current version alone are looked for.
RemoveStartCurrentOnly ==
  /\ rm = "idle" /\ lock = NoOne /\ ~(older /\ elder)
  /\ ~ \E r \in Readers : HoldsShared(r, pointer.cur)
  /\ lock' = Remover
  /\ rm' = "locked" /\ rmNames' = OnDisk
  /\ sidecar' = sidecar \cup OnDisk
  /\ UNCHANGED <<tree, db, complete, rows, pointer, published, readerVars, writerVars, lockVars, migVars>>

\* Every version is locked exclusively and the older store open nowhere, or
\* nothing is removed.
RemoveStart ==
  /\ rm = "idle" /\ lock = NoOne /\ ~(older /\ elder)
  /\ ~ \E r \in Readers, v \in OnDisk : HoldsShared(r, v)
  /\ lock' = Remover
  /\ rm' = "locked" /\ rmNames' = OnDisk
  /\ sidecar' = sidecar \cup OnDisk
  /\ UNCHANGED <<tree, db, complete, rows, pointer, published, readerVars, writerVars, lockVars, migVars>>

\* The pointer goes first.
RemovePointer ==
  /\ rm = "locked"
  /\ pointer' = [cur |-> 0, prev |-> 0]
  /\ rm' = "pointerGone"
  /\ UNCHANGED <<tree, db, sidecar, complete, rows, published, lock, readerVars, writerVars, lockVars, migVars, rmNames>>

\* A mutant of RemoveVersion: it does not wait for the pointer to go.
RemoveVersionFirst(v) ==
  /\ rm \in {"locked", "pointerGone"} /\ v \in rmNames
  /\ db' = db \ {v} /\ complete' = complete \ {v} /\ sidecar' = sidecar \ {v}
  /\ rows' = [rows EXCEPT ![v] = 0]
  /\ SidecarGone(v)
  /\ rmNames' = rmNames \ {v}
  /\ UNCHANGED <<tree, pointer, published, lock, rpc, rver, tries, writerVars, lockVars, migVars, rm>>

\* Then one version after the other, database and sidecars.
RemoveVersion(v) ==
  /\ rm = "pointerGone" /\ v \in rmNames
  /\ db' = db \ {v} /\ complete' = complete \ {v} /\ sidecar' = sidecar \ {v}
  /\ rows' = [rows EXCEPT ![v] = 0]
  /\ SidecarGone(v)
  /\ rmNames' = rmNames \ {v}
  /\ UNCHANGED <<tree, pointer, published, lock, rpc, rver, tries, writerVars, lockVars, migVars, rm>>

\* The older store goes last.
RemoveOlder ==
  /\ rm = "pointerGone" /\ rmNames = {} /\ older
  /\ older' = FALSE
  /\ UNCHANGED <<vars, lockVars, rmVars, elder, mig, target, sure>>

\* graph.lock is unlinked under its lock: who has it open is left on a nameless
\* inode, the next to open the path creates another.
RemoveLock ==
  /\ rm = "pointerGone" /\ rmNames = {} /\ ~older
  /\ lock' = NoOne
  /\ fd' = [p \in Procs |-> IF fd[p] = "named" THEN "stray" ELSE fd[p]]
  /\ rm' = "done"
  /\ UNCHANGED <<tree, diskVars, readerVars, writerVars, strayLock, rmNames, migVars>>

\* The remover is killed; what it had not deleted yet stays.
LoseRemover ==
  /\ rm \in {"locked", "pointerGone"}
  /\ lock' = NoOne
  /\ rm' = "idle" /\ rmNames' = {}
  /\ UNCHANGED <<tree, diskVars, readerVars, writerVars, lockVars, migVars>>

-----------------------------------------------------------------------------

Working == {w \in Writers : wpc[w] # "idle"} \cup {r \in Readers : rpc[r] = "inLock"}
Collision == strayLock # NoOne /\ \E p, q \in Working : p # q

\* Between the rename of the older store and the pointer to it.
Moved == ~older /\ \E p \in Procs : mig[p] \in {"moved", "sealed"}

Unfindable == gone \/ Moved \/ pointer.cur # 0
Looking == {r \in Readers : rpc[r] \in {"missing", "wait", "inLock"}}

FolderStep ==
  \/ Elder
  \/ \E r \in Readers : ReaderStep(r) \/ LookForOlder(r) \/ TakeAsReader(r) \/ FindInLock(r) \/ Shut(r)
  \/ \E w \in Writers : \/ \E k \in Kinds : TakeNamed(w, k) \/ TakeStray(w, k)
                        \/ RebuildFromSource(w) \/ WorkOn(w) \/ Leave(w)
  \/ \E p \in Procs : \/ OpenLock(p) \/ Move(p) \/ Seal(p) \/ SealFails(p) \/ PublishMigrated(p)
                      \/ \E n \in Versions : ChooseMove(p, n) \/ ChooseCopy(p, n)
  \/ RemoveStart \/ RemovePointer \/ RemoveOlder \/ RemoveLock \/ LoseRemover
  \/ \E v \in Versions : RemoveVersion(v)

FNext ==
  /\ FolderStep
  /\ met' = (met \/ Collision')
  /\ gone' = /\ pointer'.cur = 0
             /\ gone \/ rm' # rm \/ (Moved /\ \E p \in Procs : mig[p] \in {"moved", "sealed"} /\ mig'[p] = "none")
  /\ crossed' = {r \in Looking' : r \in crossed \/ Unfindable \/ Unfindable'}

FSpec == FInit /\ [][FNext]_allVars

-----------------------------------------------------------------------------
(* Properties. *)

\* "a reader is never left on a half-removed graph": no step of a removal,
\* whenever it starts, deletes the database under an open connection.  (One whose
\* sidecar a failed build unlinked stands on a database that is gone already.)
HeldIsNotRemoved ==
  [][rmNames' # rmNames =>
       \A r \in Readers : rpc[r] = "held" /\ fresh[r] => rver[r] \notin db \ db']_allVars

\* "so a new reader finds no graph rather than a missing version": the pointer
\* never names a version that is not there, whole.  There is one exception: graph.lock,
\* "held by the one process allowed to write a workspace's graph", was unlinked under
\* a writer that waited for it, and that writer, with the lock of a nameless inode,
\* swept what the next one built.
OnlyCollisionsDangle == pointer.cur # 0 => pointer.cur \in complete \/ met

\* The older graph is not lost on the way: a reader is told that there is no graph
\* only if, since it read the pointer, the store was between its rename and the
\* pointer that names it, or was published, or was gone: removed, or its migrator
\* killed between the two.  Failures, kills anywhere else, and readers, writers
\* and older processes in any order leave it to be found.
OnlyMovesHide == sure \subseteq crossed \/ met

-----------------------------------------------------------------------------
(* What the code does not keep: no run checks it. *)

\* "a new build never reuses a published name": what a reader resolved by name
\* and then held is a whole, published version.
NameStaysWhole == \A r \in Readers : rpc[r] = "held" => rver[r] \in complete

\* "a rename when no process has graph.sqlite open": one may open it after the
\* look into /proc and before the rename.
HeldIsNotMoved == [][\A p \in Procs : mig[p] = "moving" /\ mig'[p] = "moved" => ~elder]_allVars
=============================================================================
