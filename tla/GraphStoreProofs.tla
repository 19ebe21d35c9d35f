--------------------------- MODULE GraphStoreProofs ---------------------------
(***************************************************************************)
(* Proofs about GraphStore, for any number of readers and writers and any  *)
(* bounds: type correctness, the safety of what a reader holds, the order  *)
(* of what it shows, and the refinement of SnapshotStore.  Then the same   *)
(* of its folder (GraphFolder): what its removal and the migration of an   *)
(* older store leave to be found; and of the lanes that overlay a store    *)
(* (LaneOverlay): what a lost worker makes them forget or pass as fresh.   *)
(***************************************************************************)
EXTENDS GraphFolder, LaneOverlay, TLAPS

-----------------------------------------------------------------------------
(* The inductive invariant, in parts.                                      *)

\* Whoever is past acquiring holds graph.lock, so at most one writer is.
LockInv == \A w \in Writers : wpc[w] # "idle" => lock = w

\* What was published and is still there is whole, and the current version is
\* the highest name ever published.
PublishedInv ==
  /\ complete \subseteq db
  /\ StillThere \subseteq complete
  /\ \A v \in published : v <= pointer.cur
  /\ pointer.cur # 0 => pointer.cur \in StillThere

\* A reader only ever goes after published names, and a confirmed hold is on
\* the path's own inode and on a database that is there.
ReaderInv == \A r \in Readers :
  /\ rpc[r] \in {"named", "resolved", "opened", "locked", "held"} => rver[r] \in published
  /\ rpc[r] = "held" => fresh[r] /\ rver[r] \in db
  /\ rpc[r] = "idle" => tries[r] = 0
  /\ rpc[r] = "again" => tries[r] < HoldAttempts

\* A retirement is of a version that is not current and that nobody holds.
SweepInv == \A w \in Writers :
  /\ wpc[w] \in {"sweep", "unlinkDb", "unlinkSidecar"} => pointer.cur \notin todo[w]
  /\ wpc[w] \in {"unlinkDb", "unlinkSidecar"} =>
       /\ victim[w] \in Versions \ {pointer.cur}
       /\ \A r \in Readers : ~HoldsShared(r, victim[w])

\* What a build remembers of the pointer is still so while it writes, and the
\* version it writes is on disk, above every published one.
BuildInv == \A w \in Writers :
  /\ wpc[w] \in {"idle", "resolve", "plan", "refreshing", "drift"} => new[w] = 0
  /\ wpc[w] \in {"sweep", "unlinkDb", "unlinkSidecar", "plan"} /\ new[w] = 0 /\ kind[w] \in {"build", "force"}
       => base[w] \in {0, pointer.cur}
  /\ wpc[w] \in {"refreshing", "drift", "vacuum"} => base[w] = pointer.cur /\ pointer.cur # 0
  /\ wpc[w] \in {"writing", "vacuum", "publish"} => new[w] \in db /\ new[w] > pointer.cur
  /\ wpc[w] \in {"writing", "vacuum"} => new[w] \notin complete
  /\ wpc[w] = "publish" => new[w] \in complete

\* A build under way shows at least the revision the current version shows.
RowsInv ==
  /\ \A v \in Versions : rows[v] <= tree
  /\ \A w \in Writers :
       /\ wpc[w] \in {"writing", "refreshing"} =>
            seen[w] <= tree /\ (pointer.cur # 0 => rows[pointer.cur] <= seen[w])
       /\ wpc[w] = "publish" /\ pointer.cur # 0 => rows[pointer.cur] <= rows[new[w]]

IInv == /\ TypeOK /\ LockInv /\ PublishedInv /\ ReaderInv
        /\ SweepInv /\ BuildInv /\ RowsInv

-----------------------------------------------------------------------------
\* The version numbers are the numbers up to the bound, without the 0 that
\* stands for no version; the bounds have a zero.
LEMMA VersionFacts ==
  /\ \A v \in Versions : v \in 0..MaxVersion /\ v # 0 /\ v \in Nat
  /\ \A n \in 0..MaxVersion : n # 0 => n \in Versions
  /\ \A n \in 0..MaxVersion : n \in Nat
  /\ 0 \in 0..MaxVersion /\ 0 \in 0..MaxEdits /\ 0 \in 0..HoldAttempts
  /\ \A e \in 0..MaxEdits : e \in Nat
  BY BoundsAssumption DEF Versions

-----------------------------------------------------------------------------
\* Every step keeps the types.
LEMMA TypeStep ==
  ASSUME IInv, [Next]_vars
  PROVE  TypeOK'
<1> USE BoundsAssumption, NoOneAssumption, VersionFacts DEF IInv, TypeOK, diskVars, readerVars, writerVars
<1>1. CASE Edit
  BY <1>1 DEF Edit
<1>2. ASSUME NEW r \in Readers, ReadPointer(r) PROVE TypeOK'
  BY <1>2 DEF ReadPointer, ReaderInv
<1>3. ASSUME NEW r \in Readers, CheckNamed(r) PROVE TypeOK'
  BY <1>3 DEF CheckNamed
<1>4. ASSUME NEW r \in Readers, OpenSidecar(r) PROVE TypeOK'
  BY <1>4 DEF OpenSidecar, ReaderInv
<1>5. ASSUME NEW r \in Readers, LockShared(r) PROVE TypeOK'
  BY <1>5 DEF LockShared
<1>6. ASSUME NEW r \in Readers, CheckHold(r) PROVE TypeOK'
  BY <1>6 DEF CheckHold
<1>7. ASSUME NEW r \in Readers, CloseReader(r) PROVE TypeOK'
  BY <1>7 DEF CloseReader
<1>8. ASSUME NEW w \in Writers, NEW k \in Kinds, Acquire(w, k) PROVE TypeOK'
  BY <1>8 DEF Acquire
<1>9. ASSUME NEW w \in Writers, Resolve(w) PROVE TypeOK'
  BY <1>9 DEF Resolve, RetiredVersions, OnDisk
<1>10. ASSUME NEW w \in Writers, NEW v \in Versions, SweepSkip(w, v) PROVE TypeOK'
  BY <1>10 DEF SweepSkip
<1>11. ASSUME NEW w \in Writers, NEW v \in Versions, SweepTake(w, v) PROVE TypeOK'
  BY <1>11 DEF SweepTake
<1>12. ASSUME NEW w \in Writers, UnlinkDb(w) PROVE TypeOK'
  BY <1>12 DEF UnlinkDb
<1>13. ASSUME NEW w \in Writers, UnlinkSidecar(w) PROVE TypeOK'
  BY <1>13 DEF UnlinkSidecar, SidecarGone
<1>14. ASSUME NEW w \in Writers, EndSweep(w) PROVE TypeOK'
  BY <1>14 DEF EndSweep, RetiredVersions, OnDisk
<1>15. ASSUME NEW w \in Writers, NEW n \in Versions, StartWhole(w, n) PROVE TypeOK'
  BY <1>15 DEF StartWhole
<1>16. ASSUME NEW w \in Writers, CommitWhole(w) PROVE TypeOK'
  BY <1>16 DEF CommitWhole, BuildInv
<1>17. ASSUME NEW w \in Writers, StartRefresh(w) PROVE TypeOK'
  BY <1>17 DEF StartRefresh
<1>18. ASSUME NEW w \in Writers, CommitRefresh(w) PROVE TypeOK'
  BY <1>18 DEF CommitRefresh, BuildInv
<1>19. ASSUME NEW w \in Writers, NoDrift(w) PROVE TypeOK'
  BY <1>19 DEF NoDrift, RetiredVersions, OnDisk
<1>20. ASSUME NEW w \in Writers, NEW n \in Versions, StartVacuum(w, n) PROVE TypeOK'
  BY <1>20 DEF StartVacuum
<1>21. ASSUME NEW w \in Writers, EndVacuum(w) PROVE TypeOK'
  BY <1>21 DEF EndVacuum, BuildInv
<1>22. ASSUME NEW w \in Writers, Publish(w) PROVE TypeOK'
  BY <1>22 DEF Publish, RetiredVersions, OnDisk, BuildInv
<1>23. ASSUME NEW w \in Writers, Fail(w) PROVE TypeOK'
  BY <1>23 DEF Fail, SidecarGone
<1>24. ASSUME NEW w \in Writers, FindMalformed(w) PROVE TypeOK'
  BY <1>24 DEF FindMalformed, SidecarGone, Kinds
<1>25. ASSUME NEW w \in Writers, Release(w) PROVE TypeOK'
  BY <1>25 DEF Release, LetGo, Kinds
<1>26. ASSUME NEW w \in Writers, Crash(w) PROVE TypeOK'
  BY <1>26 DEF Crash, LetGo, Kinds
<1>27. CASE UNCHANGED vars
  BY <1>27 DEF vars
<1>28. QED
  BY <1>1, <1>2, <1>3, <1>4, <1>5, <1>6, <1>7, <1>8, <1>9, <1>10, <1>11, <1>12, <1>13, <1>14, <1>15, <1>16, <1>17, <1>18, <1>19, <1>20, <1>21, <1>22, <1>23, <1>24, <1>25, <1>26, <1>27 DEF Next, ConnectStep, WriterStep

\* graph.lock has one holder, and only the holder is past acquiring it.
LEMMA LockStep ==
  ASSUME IInv, [Next]_vars
  PROVE  LockInv'
<1> USE NoOneAssumption DEF IInv, TypeOK, LockInv, diskVars, readerVars, writerVars
<1>1. CASE Edit
  BY <1>1 DEF Edit
<1>2. ASSUME NEW r \in Readers, ReadPointer(r) PROVE LockInv'
  BY <1>2 DEF ReadPointer
<1>3. ASSUME NEW r \in Readers, CheckNamed(r) PROVE LockInv'
  BY <1>3 DEF CheckNamed
<1>4. ASSUME NEW r \in Readers, OpenSidecar(r) PROVE LockInv'
  BY <1>4 DEF OpenSidecar
<1>5. ASSUME NEW r \in Readers, LockShared(r) PROVE LockInv'
  BY <1>5 DEF LockShared
<1>6. ASSUME NEW r \in Readers, CheckHold(r) PROVE LockInv'
  BY <1>6 DEF CheckHold
<1>7. ASSUME NEW r \in Readers, CloseReader(r) PROVE LockInv'
  BY <1>7 DEF CloseReader
<1>8. ASSUME NEW w \in Writers, NEW k \in Kinds, Acquire(w, k) PROVE LockInv'
  BY <1>8 DEF Acquire
<1>9. ASSUME NEW w \in Writers, Resolve(w) PROVE LockInv'
  BY <1>9 DEF Resolve
<1>10. ASSUME NEW w \in Writers, NEW v \in Versions, SweepSkip(w, v) PROVE LockInv'
  BY <1>10 DEF SweepSkip
<1>11. ASSUME NEW w \in Writers, NEW v \in Versions, SweepTake(w, v) PROVE LockInv'
  BY <1>11 DEF SweepTake
<1>12. ASSUME NEW w \in Writers, UnlinkDb(w) PROVE LockInv'
  BY <1>12 DEF UnlinkDb
<1>13. ASSUME NEW w \in Writers, UnlinkSidecar(w) PROVE LockInv'
  BY <1>13 DEF UnlinkSidecar
<1>14. ASSUME NEW w \in Writers, EndSweep(w) PROVE LockInv'
  BY <1>14 DEF EndSweep
<1>15. ASSUME NEW w \in Writers, NEW n \in Versions, StartWhole(w, n) PROVE LockInv'
  BY <1>15 DEF StartWhole
<1>16. ASSUME NEW w \in Writers, CommitWhole(w) PROVE LockInv'
  BY <1>16 DEF CommitWhole
<1>17. ASSUME NEW w \in Writers, StartRefresh(w) PROVE LockInv'
  BY <1>17 DEF StartRefresh
<1>18. ASSUME NEW w \in Writers, CommitRefresh(w) PROVE LockInv'
  BY <1>18 DEF CommitRefresh
<1>19. ASSUME NEW w \in Writers, NoDrift(w) PROVE LockInv'
  BY <1>19 DEF NoDrift
<1>20. ASSUME NEW w \in Writers, NEW n \in Versions, StartVacuum(w, n) PROVE LockInv'
  BY <1>20 DEF StartVacuum
<1>21. ASSUME NEW w \in Writers, EndVacuum(w) PROVE LockInv'
  BY <1>21 DEF EndVacuum
<1>22. ASSUME NEW w \in Writers, Publish(w) PROVE LockInv'
  BY <1>22 DEF Publish
<1>23. ASSUME NEW w \in Writers, Fail(w) PROVE LockInv'
  BY <1>23 DEF Fail
<1>24. ASSUME NEW w \in Writers, FindMalformed(w) PROVE LockInv'
  BY <1>24 DEF FindMalformed
<1>25. ASSUME NEW w \in Writers, Release(w) PROVE LockInv'
  BY <1>25 DEF Release, LetGo
<1>26. ASSUME NEW w \in Writers, Crash(w) PROVE LockInv'
  BY <1>26 DEF Crash, LetGo
<1>27. CASE UNCHANGED vars
  BY <1>27 DEF vars
<1>28. QED
  BY <1>1, <1>2, <1>3, <1>4, <1>5, <1>6, <1>7, <1>8, <1>9, <1>10, <1>11, <1>12, <1>13, <1>14, <1>15, <1>16, <1>17, <1>18, <1>19, <1>20, <1>21, <1>22, <1>23, <1>24, <1>25, <1>26, <1>27 DEF Next, ConnectStep, WriterStep

\* No step takes a published version's content or the current version away.
LEMMA PublishedStep ==
  ASSUME IInv, [Next]_vars
  PROVE  PublishedInv'
<1> USE BoundsAssumption, NoOneAssumption, VersionFacts DEF IInv, TypeOK, LockInv, PublishedInv, StillThere, diskVars, readerVars, writerVars
<1>1. CASE Edit
  BY <1>1 DEF Edit
<1>2. ASSUME NEW r \in Readers, ReadPointer(r) PROVE PublishedInv'
  BY <1>2 DEF ReadPointer
<1>3. ASSUME NEW r \in Readers, CheckNamed(r) PROVE PublishedInv'
  BY <1>3 DEF CheckNamed
<1>4. ASSUME NEW r \in Readers, OpenSidecar(r) PROVE PublishedInv'
  BY <1>4 DEF OpenSidecar
<1>5. ASSUME NEW r \in Readers, LockShared(r) PROVE PublishedInv'
  BY <1>5 DEF LockShared
<1>6. ASSUME NEW r \in Readers, CheckHold(r) PROVE PublishedInv'
  BY <1>6 DEF CheckHold
<1>7. ASSUME NEW r \in Readers, CloseReader(r) PROVE PublishedInv'
  BY <1>7 DEF CloseReader
<1>8. ASSUME NEW w \in Writers, NEW k \in Kinds, Acquire(w, k) PROVE PublishedInv'
  BY <1>8 DEF Acquire
<1>9. ASSUME NEW w \in Writers, Resolve(w) PROVE PublishedInv'
  BY <1>9 DEF Resolve
<1>10. ASSUME NEW w \in Writers, NEW v \in Versions, SweepSkip(w, v) PROVE PublishedInv'
  BY <1>10 DEF SweepSkip
<1>11. ASSUME NEW w \in Writers, NEW v \in Versions, SweepTake(w, v) PROVE PublishedInv'
  BY <1>11 DEF SweepTake
<1>12. ASSUME NEW w \in Writers, UnlinkDb(w) PROVE PublishedInv'
  BY <1>12 DEF UnlinkDb, SweepInv
<1>13. ASSUME NEW w \in Writers, UnlinkSidecar(w) PROVE PublishedInv'
  BY <1>13 DEF UnlinkSidecar
<1>14. ASSUME NEW w \in Writers, EndSweep(w) PROVE PublishedInv'
  BY <1>14 DEF EndSweep
<1>15. ASSUME NEW w \in Writers, NEW n \in Versions, StartWhole(w, n) PROVE PublishedInv'
  BY <1>15 DEF StartWhole, IsNextVersion, OnDisk
<1>16. ASSUME NEW w \in Writers, CommitWhole(w) PROVE PublishedInv'
  BY <1>16 DEF CommitWhole, BuildInv
<1>17. ASSUME NEW w \in Writers, StartRefresh(w) PROVE PublishedInv'
  BY <1>17 DEF StartRefresh
<1>18. ASSUME NEW w \in Writers, CommitRefresh(w) PROVE PublishedInv'
  BY <1>18 DEF CommitRefresh
<1>19. ASSUME NEW w \in Writers, NoDrift(w) PROVE PublishedInv'
  BY <1>19 DEF NoDrift
<1>20. ASSUME NEW w \in Writers, NEW n \in Versions, StartVacuum(w, n) PROVE PublishedInv'
  BY <1>20 DEF StartVacuum, IsNextVersion, OnDisk
<1>21. ASSUME NEW w \in Writers, EndVacuum(w) PROVE PublishedInv'
  BY <1>21 DEF EndVacuum, BuildInv
<1>22. ASSUME NEW w \in Writers, Publish(w) PROVE PublishedInv'
  BY <1>22 DEF Publish, BuildInv
<1>23. ASSUME NEW w \in Writers, Fail(w) PROVE PublishedInv'
  BY <1>23 DEF Fail, BuildInv
<1>24. ASSUME NEW w \in Writers, FindMalformed(w) PROVE PublishedInv'
  BY <1>24 DEF FindMalformed, BuildInv
<1>25. ASSUME NEW w \in Writers, Release(w) PROVE PublishedInv'
  BY <1>25 DEF Release, LetGo
<1>26. ASSUME NEW w \in Writers, Crash(w) PROVE PublishedInv'
  BY <1>26 DEF Crash, LetGo
<1>27. CASE UNCHANGED vars
  BY <1>27 DEF vars
<1>28. QED
  BY <1>1, <1>2, <1>3, <1>4, <1>5, <1>6, <1>7, <1>8, <1>9, <1>10, <1>11, <1>12, <1>13, <1>14, <1>15, <1>16, <1>17, <1>18, <1>19, <1>20, <1>21, <1>22, <1>23, <1>24, <1>25, <1>26, <1>27 DEF Next, ConnectStep, WriterStep

\* A step of anyone else leaves a reader on what it resolved or held.
LEMMA HoldStep ==
  ASSUME IInv, [Next]_vars
  PROVE  ReaderInv'
<1> USE BoundsAssumption, NoOneAssumption, VersionFacts DEF IInv, TypeOK, LockInv, ReaderInv, diskVars, readerVars, writerVars
<1>1. CASE Edit
  BY <1>1 DEF Edit
<1>2. ASSUME NEW r \in Readers, ReadPointer(r) PROVE ReaderInv'
  BY <1>2 DEF ReadPointer, PublishedInv, StillThere
<1>3. ASSUME NEW r \in Readers, CheckNamed(r) PROVE ReaderInv'
  BY <1>3 DEF CheckNamed
<1>4. ASSUME NEW r \in Readers, OpenSidecar(r) PROVE ReaderInv'
  BY <1>4 DEF OpenSidecar
<1>5. ASSUME NEW r \in Readers, LockShared(r) PROVE ReaderInv'
  BY <1>5 DEF LockShared
<1>6. ASSUME NEW r \in Readers, CheckHold(r) PROVE ReaderInv'
  BY <1>6 DEF CheckHold
<1>7. ASSUME NEW r \in Readers, CloseReader(r) PROVE ReaderInv'
  BY <1>7 DEF CloseReader
<1>8. ASSUME NEW w \in Writers, NEW k \in Kinds, Acquire(w, k) PROVE ReaderInv'
  BY <1>8 DEF Acquire
<1>9. ASSUME NEW w \in Writers, Resolve(w) PROVE ReaderInv'
  BY <1>9 DEF Resolve
<1>10. ASSUME NEW w \in Writers, NEW v \in Versions, SweepSkip(w, v) PROVE ReaderInv'
  BY <1>10 DEF SweepSkip
<1>11. ASSUME NEW w \in Writers, NEW v \in Versions, SweepTake(w, v) PROVE ReaderInv'
  BY <1>11 DEF SweepTake
<1>12. ASSUME NEW w \in Writers, UnlinkDb(w) PROVE ReaderInv'
  BY <1>12 DEF UnlinkDb, SweepInv, HoldsShared
<1>13. ASSUME NEW w \in Writers, UnlinkSidecar(w) PROVE ReaderInv'
  BY <1>13 DEF UnlinkSidecar, SidecarGone, SweepInv, HoldsShared
<1>14. ASSUME NEW w \in Writers, EndSweep(w) PROVE ReaderInv'
  BY <1>14 DEF EndSweep
<1>15. ASSUME NEW w \in Writers, NEW n \in Versions, StartWhole(w, n) PROVE ReaderInv'
  BY <1>15 DEF StartWhole
<1>16. ASSUME NEW w \in Writers, CommitWhole(w) PROVE ReaderInv'
  BY <1>16 DEF CommitWhole
<1>17. ASSUME NEW w \in Writers, StartRefresh(w) PROVE ReaderInv'
  BY <1>17 DEF StartRefresh
<1>18. ASSUME NEW w \in Writers, CommitRefresh(w) PROVE ReaderInv'
  BY <1>18 DEF CommitRefresh
<1>19. ASSUME NEW w \in Writers, NoDrift(w) PROVE ReaderInv'
  BY <1>19 DEF NoDrift
<1>20. ASSUME NEW w \in Writers, NEW n \in Versions, StartVacuum(w, n) PROVE ReaderInv'
  BY <1>20 DEF StartVacuum
<1>21. ASSUME NEW w \in Writers, EndVacuum(w) PROVE ReaderInv'
  BY <1>21 DEF EndVacuum
<1>22. ASSUME NEW w \in Writers, Publish(w) PROVE ReaderInv'
  BY <1>22 DEF Publish
<1>23. ASSUME NEW w \in Writers, Fail(w) PROVE ReaderInv'
  BY <1>23 DEF Fail, SidecarGone, BuildInv, PublishedInv
<1>24. ASSUME NEW w \in Writers, FindMalformed(w) PROVE ReaderInv'
  BY <1>24 DEF FindMalformed, SidecarGone, BuildInv, PublishedInv
<1>25. ASSUME NEW w \in Writers, Release(w) PROVE ReaderInv'
  BY <1>25 DEF Release, LetGo
<1>26. ASSUME NEW w \in Writers, Crash(w) PROVE ReaderInv'
  BY <1>26 DEF Crash, LetGo
<1>27. CASE UNCHANGED vars
  BY <1>27 DEF vars
<1>28. QED
  BY <1>1, <1>2, <1>3, <1>4, <1>5, <1>6, <1>7, <1>8, <1>9, <1>10, <1>11, <1>12, <1>13, <1>14, <1>15, <1>16, <1>17, <1>18, <1>19, <1>20, <1>21, <1>22, <1>23, <1>24, <1>25, <1>26, <1>27 DEF Next, ConnectStep, WriterStep

\* A retirement stays on a version that is neither current nor held.
LEMMA SweepStep ==
  ASSUME IInv, [Next]_vars
  PROVE  SweepInv'
<1> USE BoundsAssumption, NoOneAssumption, VersionFacts DEF IInv, TypeOK, LockInv, SweepInv, HoldsShared, diskVars, readerVars, writerVars
<1>1. CASE Edit
  BY <1>1 DEF Edit
<1>2. ASSUME NEW r \in Readers, ReadPointer(r) PROVE SweepInv'
  BY <1>2 DEF ReadPointer
<1>3. ASSUME NEW r \in Readers, CheckNamed(r) PROVE SweepInv'
  BY <1>3 DEF CheckNamed
<1>4. ASSUME NEW r \in Readers, OpenSidecar(r) PROVE SweepInv'
  BY <1>4 DEF OpenSidecar
<1>5. ASSUME NEW r \in Readers, LockShared(r) PROVE SweepInv'
  BY <1>5 DEF LockShared, HoldsExclusive
<1>6. ASSUME NEW r \in Readers, CheckHold(r) PROVE SweepInv'
  BY <1>6 DEF CheckHold
<1>7. ASSUME NEW r \in Readers, CloseReader(r) PROVE SweepInv'
  BY <1>7 DEF CloseReader
<1>8. ASSUME NEW w \in Writers, NEW k \in Kinds, Acquire(w, k) PROVE SweepInv'
  BY <1>8 DEF Acquire
<1>9. ASSUME NEW w \in Writers, Resolve(w) PROVE SweepInv'
  BY <1>9 DEF Resolve, RetiredVersions
<1>10. ASSUME NEW w \in Writers, NEW v \in Versions, SweepSkip(w, v) PROVE SweepInv'
  BY <1>10 DEF SweepSkip
<1>11. ASSUME NEW w \in Writers, NEW v \in Versions, SweepTake(w, v) PROVE SweepInv'
  BY <1>11 DEF SweepTake
<1>12. ASSUME NEW w \in Writers, UnlinkDb(w) PROVE SweepInv'
  BY <1>12 DEF UnlinkDb
<1>13. ASSUME NEW w \in Writers, UnlinkSidecar(w) PROVE SweepInv'
  BY <1>13 DEF UnlinkSidecar, SidecarGone
<1>14. ASSUME NEW w \in Writers, EndSweep(w) PROVE SweepInv'
  BY <1>14 DEF EndSweep, RetiredVersions
<1>15. ASSUME NEW w \in Writers, NEW n \in Versions, StartWhole(w, n) PROVE SweepInv'
  BY <1>15 DEF StartWhole
<1>16. ASSUME NEW w \in Writers, CommitWhole(w) PROVE SweepInv'
  BY <1>16 DEF CommitWhole
<1>17. ASSUME NEW w \in Writers, StartRefresh(w) PROVE SweepInv'
  BY <1>17 DEF StartRefresh
<1>18. ASSUME NEW w \in Writers, CommitRefresh(w) PROVE SweepInv'
  BY <1>18 DEF CommitRefresh
<1>19. ASSUME NEW w \in Writers, NoDrift(w) PROVE SweepInv'
  BY <1>19 DEF NoDrift, RetiredVersions
<1>20. ASSUME NEW w \in Writers, NEW n \in Versions, StartVacuum(w, n) PROVE SweepInv'
  BY <1>20 DEF StartVacuum
<1>21. ASSUME NEW w \in Writers, EndVacuum(w) PROVE SweepInv'
  BY <1>21 DEF EndVacuum
<1>22. ASSUME NEW w \in Writers, Publish(w) PROVE SweepInv'
  BY <1>22 DEF Publish, RetiredVersions
<1>23. ASSUME NEW w \in Writers, Fail(w) PROVE SweepInv'
  BY <1>23 DEF Fail, SidecarGone
<1>24. ASSUME NEW w \in Writers, FindMalformed(w) PROVE SweepInv'
  BY <1>24 DEF FindMalformed, SidecarGone
<1>25. ASSUME NEW w \in Writers, Release(w) PROVE SweepInv'
  BY <1>25 DEF Release, LetGo
<1>26. ASSUME NEW w \in Writers, Crash(w) PROVE SweepInv'
  BY <1>26 DEF Crash, LetGo
<1>27. CASE UNCHANGED vars
  BY <1>27 DEF vars
<1>28. QED
  BY <1>1, <1>2, <1>3, <1>4, <1>5, <1>6, <1>7, <1>8, <1>9, <1>10, <1>11, <1>12, <1>13, <1>14, <1>15, <1>16, <1>17, <1>18, <1>19, <1>20, <1>21, <1>22, <1>23, <1>24, <1>25, <1>26, <1>27 DEF Next, ConnectStep, WriterStep

\* What a build remembers stays true until it publishes.
LEMMA BuildStep ==
  ASSUME IInv, [Next]_vars
  PROVE  BuildInv'
<1> USE BoundsAssumption, NoOneAssumption, VersionFacts DEF IInv, TypeOK, LockInv, BuildInv, diskVars, readerVars, writerVars
<1>1. CASE Edit
  BY <1>1 DEF Edit
<1>2. ASSUME NEW r \in Readers, ReadPointer(r) PROVE BuildInv'
  BY <1>2 DEF ReadPointer
<1>3. ASSUME NEW r \in Readers, CheckNamed(r) PROVE BuildInv'
  BY <1>3 DEF CheckNamed
<1>4. ASSUME NEW r \in Readers, OpenSidecar(r) PROVE BuildInv'
  BY <1>4 DEF OpenSidecar
<1>5. ASSUME NEW r \in Readers, LockShared(r) PROVE BuildInv'
  BY <1>5 DEF LockShared
<1>6. ASSUME NEW r \in Readers, CheckHold(r) PROVE BuildInv'
  BY <1>6 DEF CheckHold
<1>7. ASSUME NEW r \in Readers, CloseReader(r) PROVE BuildInv'
  BY <1>7 DEF CloseReader
<1>8. ASSUME NEW w \in Writers, NEW k \in Kinds, Acquire(w, k) PROVE BuildInv'
  BY <1>8 DEF Acquire, Kinds
<1>9. ASSUME NEW w \in Writers, Resolve(w) PROVE BuildInv'
  BY <1>9 DEF Resolve, Kinds
<1>10. ASSUME NEW w \in Writers, NEW v \in Versions, SweepSkip(w, v) PROVE BuildInv'
  BY <1>10 DEF SweepSkip
<1>11. ASSUME NEW w \in Writers, NEW v \in Versions, SweepTake(w, v) PROVE BuildInv'
  BY <1>11 DEF SweepTake
<1>12. ASSUME NEW w \in Writers, UnlinkDb(w) PROVE BuildInv'
  BY <1>12 DEF UnlinkDb, PublishedInv
<1>13. ASSUME NEW w \in Writers, UnlinkSidecar(w) PROVE BuildInv'
  BY <1>13 DEF UnlinkSidecar
<1>14. ASSUME NEW w \in Writers, EndSweep(w) PROVE BuildInv'
  BY <1>14 DEF EndSweep, Kinds
<1>15. ASSUME NEW w \in Writers, NEW n \in Versions, StartWhole(w, n) PROVE BuildInv'
  BY <1>15 DEF StartWhole, IsNextVersion, OnDisk, PublishedInv, StillThere
<1>16. ASSUME NEW w \in Writers, CommitWhole(w) PROVE BuildInv'
  BY <1>16 DEF CommitWhole
<1>17. ASSUME NEW w \in Writers, StartRefresh(w) PROVE BuildInv'
  BY <1>17 DEF StartRefresh
<1>18. ASSUME NEW w \in Writers, CommitRefresh(w) PROVE BuildInv'
  BY <1>18 DEF CommitRefresh
<1>19. ASSUME NEW w \in Writers, NoDrift(w) PROVE BuildInv'
  BY <1>19 DEF NoDrift
<1>20. ASSUME NEW w \in Writers, NEW n \in Versions, StartVacuum(w, n) PROVE BuildInv'
  BY <1>20 DEF StartVacuum, IsNextVersion, OnDisk, PublishedInv, StillThere
<1>21. ASSUME NEW w \in Writers, EndVacuum(w) PROVE BuildInv'
  BY <1>21 DEF EndVacuum
<1>22. ASSUME NEW w \in Writers, Publish(w) PROVE BuildInv'
  BY <1>22 DEF Publish
<1>23. ASSUME NEW w \in Writers, Fail(w) PROVE BuildInv'
  BY <1>23 DEF Fail
<1>24. ASSUME NEW w \in Writers, FindMalformed(w) PROVE BuildInv'
  BY <1>24 DEF FindMalformed
<1>25. ASSUME NEW w \in Writers, Release(w) PROVE BuildInv'
  BY <1>25 DEF Release, LetGo
<1>26. ASSUME NEW w \in Writers, Crash(w) PROVE BuildInv'
  BY <1>26 DEF Crash, LetGo
<1>27. CASE UNCHANGED vars
  BY <1>27 DEF vars
<1>28. QED
  BY <1>1, <1>2, <1>3, <1>4, <1>5, <1>6, <1>7, <1>8, <1>9, <1>10, <1>11, <1>12, <1>13, <1>14, <1>15, <1>16, <1>17, <1>18, <1>19, <1>20, <1>21, <1>22, <1>23, <1>24, <1>25, <1>26, <1>27 DEF Next, ConnectStep, WriterStep

\* The revisions keep their order.
LEMMA RowsStep ==
  ASSUME IInv, [Next]_vars
  PROVE  RowsInv'
<1> USE BoundsAssumption, NoOneAssumption, VersionFacts DEF IInv, TypeOK, LockInv, RowsInv, diskVars, readerVars, writerVars
<1>1. CASE Edit
  BY <1>1 DEF Edit
<1>2. ASSUME NEW r \in Readers, ReadPointer(r) PROVE RowsInv'
  BY <1>2 DEF ReadPointer
<1>3. ASSUME NEW r \in Readers, CheckNamed(r) PROVE RowsInv'
  BY <1>3 DEF CheckNamed
<1>4. ASSUME NEW r \in Readers, OpenSidecar(r) PROVE RowsInv'
  BY <1>4 DEF OpenSidecar
<1>5. ASSUME NEW r \in Readers, LockShared(r) PROVE RowsInv'
  BY <1>5 DEF LockShared
<1>6. ASSUME NEW r \in Readers, CheckHold(r) PROVE RowsInv'
  BY <1>6 DEF CheckHold
<1>7. ASSUME NEW r \in Readers, CloseReader(r) PROVE RowsInv'
  BY <1>7 DEF CloseReader
<1>8. ASSUME NEW w \in Writers, NEW k \in Kinds, Acquire(w, k) PROVE RowsInv'
  BY <1>8 DEF Acquire
<1>9. ASSUME NEW w \in Writers, Resolve(w) PROVE RowsInv'
  BY <1>9 DEF Resolve
<1>10. ASSUME NEW w \in Writers, NEW v \in Versions, SweepSkip(w, v) PROVE RowsInv'
  BY <1>10 DEF SweepSkip
<1>11. ASSUME NEW w \in Writers, NEW v \in Versions, SweepTake(w, v) PROVE RowsInv'
  BY <1>11 DEF SweepTake
<1>12. ASSUME NEW w \in Writers, UnlinkDb(w) PROVE RowsInv'
  BY <1>12 DEF UnlinkDb, SweepInv
<1>13. ASSUME NEW w \in Writers, UnlinkSidecar(w) PROVE RowsInv'
  BY <1>13 DEF UnlinkSidecar
<1>14. ASSUME NEW w \in Writers, EndSweep(w) PROVE RowsInv'
  BY <1>14 DEF EndSweep
<1>15. ASSUME NEW w \in Writers, NEW n \in Versions, StartWhole(w, n) PROVE RowsInv'
  BY <1>15 DEF StartWhole, BuildInv
<1>16. ASSUME NEW w \in Writers, CommitWhole(w) PROVE RowsInv'
  BY <1>16 DEF CommitWhole, BuildInv
<1>17. ASSUME NEW w \in Writers, StartRefresh(w) PROVE RowsInv'
  BY <1>17 DEF StartRefresh, BuildInv
<1>18. ASSUME NEW w \in Writers, CommitRefresh(w) PROVE RowsInv'
  BY <1>18 DEF CommitRefresh, BuildInv
<1>19. ASSUME NEW w \in Writers, NoDrift(w) PROVE RowsInv'
  BY <1>19 DEF NoDrift
<1>20. ASSUME NEW w \in Writers, NEW n \in Versions, StartVacuum(w, n) PROVE RowsInv'
  BY <1>20 DEF StartVacuum
<1>21. ASSUME NEW w \in Writers, EndVacuum(w) PROVE RowsInv'
  BY <1>21 DEF EndVacuum, BuildInv
<1>22. ASSUME NEW w \in Writers, Publish(w) PROVE RowsInv'
  BY <1>22 DEF Publish, BuildInv
<1>23. ASSUME NEW w \in Writers, Fail(w) PROVE RowsInv'
  BY <1>23 DEF Fail
<1>24. ASSUME NEW w \in Writers, FindMalformed(w) PROVE RowsInv'
  BY <1>24 DEF FindMalformed
<1>25. ASSUME NEW w \in Writers, Release(w) PROVE RowsInv'
  BY <1>25 DEF Release, LetGo
<1>26. ASSUME NEW w \in Writers, Crash(w) PROVE RowsInv'
  BY <1>26 DEF Crash, LetGo
<1>27. CASE UNCHANGED vars
  BY <1>27 DEF vars
<1>28. QED
  BY <1>1, <1>2, <1>3, <1>4, <1>5, <1>6, <1>7, <1>8, <1>9, <1>10, <1>11, <1>12, <1>13, <1>14, <1>15, <1>16, <1>17, <1>18, <1>19, <1>20, <1>21, <1>22, <1>23, <1>24, <1>25, <1>26, <1>27 DEF Next, ConnectStep, WriterStep

-----------------------------------------------------------------------------
\* The invariant holds at the start and every step keeps it.
THEOREM Inductive == Spec => []IInv
<1>1. Init => IInv
  BY BoundsAssumption, NoOneAssumption, VersionFacts
  DEF Init, IInv, TypeOK, LockInv, PublishedInv, ReaderInv, SweepInv, BuildInv, RowsInv,
      StillThere, HoldsShared, Kinds
<1>2. IInv /\ [Next]_vars => IInv'
  <2> SUFFICES ASSUME IInv, [Next]_vars PROVE IInv'
    OBVIOUS
  <2> QED
    BY TypeStep, LockStep, PublishedStep, HoldStep, SweepStep, BuildStep, RowsStep DEF IInv
<1>3. QED
  BY <1>1, <1>2, PTL DEF Spec

\* The variables keep their types, whatever the numbers of readers, writers,
\* versions and edits (graph/store.py, the versioned layout).
THEOREM TypeCorrect == Spec => []TypeOK
<1>1. IInv => TypeOK
  BY DEF IInv
<1>2. QED
  BY <1>1, Inductive, PTL

\* A connection never stands on a version that is gone or half written
\* (_hold_version against _retire and the builds).
THEOREM HeldSafe == Spec => []HeldVersionIsWhole
<1>1. IInv => HeldVersionIsWhole
  BY DEF IInv, ReaderInv, PublishedInv, StillThere, HeldVersionIsWhole
<1>2. QED
  BY <1>1, Inductive, PTL

\* The version the pointer names is on disk and whole after every step, a kill
\* included (_install, _sweep, _build_into).
THEOREM CurrentSafe == Spec => []CurrentIsWhole
<1>1. IInv => CurrentIsWhole
  BY DEF IInv, PublishedInv, StillThere, CurrentIsWhole
<1>2. QED
  BY <1>1, Inductive, PTL

-----------------------------------------------------------------------------
\* The step formula of RowsNeverGoBack.
Forward == pointer.cur # 0 =>
             pointer'.cur # 0 /\ rows'[pointer'.cur] >= rows[pointer.cur]

\* No step makes the current version show an older workspace.
LEMMA ForwardStep ==
  ASSUME IInv, [Next]_vars
  PROVE  Forward
<1> USE BoundsAssumption, NoOneAssumption, VersionFacts DEF Forward, IInv, TypeOK, LockInv, diskVars, readerVars, writerVars
<1>1. CASE Edit
  BY <1>1 DEF Edit
<1>2. ASSUME NEW r \in Readers, ReadPointer(r) PROVE Forward
  BY <1>2 DEF ReadPointer
<1>3. ASSUME NEW r \in Readers, CheckNamed(r) PROVE Forward
  BY <1>3 DEF CheckNamed
<1>4. ASSUME NEW r \in Readers, OpenSidecar(r) PROVE Forward
  BY <1>4 DEF OpenSidecar
<1>5. ASSUME NEW r \in Readers, LockShared(r) PROVE Forward
  BY <1>5 DEF LockShared
<1>6. ASSUME NEW r \in Readers, CheckHold(r) PROVE Forward
  BY <1>6 DEF CheckHold
<1>7. ASSUME NEW r \in Readers, CloseReader(r) PROVE Forward
  BY <1>7 DEF CloseReader
<1>8. ASSUME NEW w \in Writers, NEW k \in Kinds, Acquire(w, k) PROVE Forward
  BY <1>8 DEF Acquire
<1>9. ASSUME NEW w \in Writers, Resolve(w) PROVE Forward
  BY <1>9 DEF Resolve
<1>10. ASSUME NEW w \in Writers, NEW v \in Versions, SweepSkip(w, v) PROVE Forward
  BY <1>10 DEF SweepSkip
<1>11. ASSUME NEW w \in Writers, NEW v \in Versions, SweepTake(w, v) PROVE Forward
  BY <1>11 DEF SweepTake
<1>12. ASSUME NEW w \in Writers, UnlinkDb(w) PROVE Forward
  BY <1>12 DEF UnlinkDb, SweepInv
<1>13. ASSUME NEW w \in Writers, UnlinkSidecar(w) PROVE Forward
  BY <1>13 DEF UnlinkSidecar
<1>14. ASSUME NEW w \in Writers, EndSweep(w) PROVE Forward
  BY <1>14 DEF EndSweep
<1>15. ASSUME NEW w \in Writers, NEW n \in Versions, StartWhole(w, n) PROVE Forward
  BY <1>15 DEF StartWhole
<1>16. ASSUME NEW w \in Writers, CommitWhole(w) PROVE Forward
  BY <1>16 DEF CommitWhole, BuildInv
<1>17. ASSUME NEW w \in Writers, StartRefresh(w) PROVE Forward
  BY <1>17 DEF StartRefresh
<1>18. ASSUME NEW w \in Writers, CommitRefresh(w) PROVE Forward
  BY <1>18 DEF CommitRefresh, BuildInv, RowsInv
<1>19. ASSUME NEW w \in Writers, NoDrift(w) PROVE Forward
  BY <1>19 DEF NoDrift
<1>20. ASSUME NEW w \in Writers, NEW n \in Versions, StartVacuum(w, n) PROVE Forward
  BY <1>20 DEF StartVacuum
<1>21. ASSUME NEW w \in Writers, EndVacuum(w) PROVE Forward
  BY <1>21 DEF EndVacuum, BuildInv
<1>22. ASSUME NEW w \in Writers, Publish(w) PROVE Forward
  BY <1>22 DEF Publish, BuildInv, RowsInv
<1>23. ASSUME NEW w \in Writers, Fail(w) PROVE Forward
  BY <1>23 DEF Fail
<1>24. ASSUME NEW w \in Writers, FindMalformed(w) PROVE Forward
  BY <1>24 DEF FindMalformed
<1>25. ASSUME NEW w \in Writers, Release(w) PROVE Forward
  BY <1>25 DEF Release, LetGo
<1>26. ASSUME NEW w \in Writers, Crash(w) PROVE Forward
  BY <1>26 DEF Crash, LetGo
<1>27. CASE UNCHANGED vars
  BY <1>27 DEF vars
<1>28. QED
  BY <1>1, <1>2, <1>3, <1>4, <1>5, <1>6, <1>7, <1>8, <1>9, <1>10, <1>11, <1>12, <1>13, <1>14, <1>15, <1>16, <1>17, <1>18, <1>19, <1>20, <1>21, <1>22, <1>23, <1>24, <1>25, <1>26, <1>27 DEF Next, ConnectStep, WriterStep

\* What readers are given of the workspace never goes back, over refreshes,
\* full builds, compactions, sweeps, failures and kills (_build_into,
\* _compact_if_drifted, _install).
THEOREM NeverBack == Spec => RowsNeverGoBack
<1>1. IInv /\ [Next]_vars => [Forward]_vars
  BY ForwardStep
<1>2. QED
  BY <1>1, Inductive, PTL DEF Spec, RowsNeverGoBack, Forward

-----------------------------------------------------------------------------
(* The refinement of SnapshotStore.                                        *)

\* Every step of the store is a step of SnapshotStore or changes nothing a
\* reader can tell.
LEMMA PromiseStep ==
  ASSUME IInv, [Next]_vars
  PROVE  [Promise!AbsNext]_(Promise!absVars)
<1> USE BoundsAssumption, NoOneAssumption, VersionFacts DEF Promise!absVars, IInv, TypeOK, LockInv, StillThere, diskVars, readerVars, writerVars
<1>1. CASE Edit
  BY <1>1 DEF Edit
<1>2. ASSUME NEW r \in Readers, ReadPointer(r) PROVE [Promise!AbsNext]_(Promise!absVars)
  BY <1>2 DEF ReadPointer
<1>3. ASSUME NEW r \in Readers, CheckNamed(r) PROVE [Promise!AbsNext]_(Promise!absVars)
  BY <1>3 DEF CheckNamed
<1>4. ASSUME NEW r \in Readers, OpenSidecar(r) PROVE [Promise!AbsNext]_(Promise!absVars)
  BY <1>4 DEF OpenSidecar
<1>5. ASSUME NEW r \in Readers, LockShared(r) PROVE [Promise!AbsNext]_(Promise!absVars)
  BY <1>5 DEF LockShared
<1>6. ASSUME NEW r \in Readers, CheckHold(r) PROVE [Promise!AbsNext]_(Promise!absVars)
  <2>1. CASE fresh[r] /\ rver[r] \in db
    <3>1. PICK v \in Versions : v = rver[r]
      BY <1>6 DEF CheckHold, ReaderInv
    <3>2. Promise!Open(r, v)
      <4>1. rpc[r] = "locked" /\ v \in StillThere /\ rpc' = [rpc EXCEPT ![r] = "held"]
        BY <1>6, <2>1, <3>1 DEF CheckHold, ReaderInv
      <4>2. UNCHANGED <<rver, db, published, pointer, rows>>
        BY <1>6, <2>1 DEF CheckHold
      <4>3. [q \in Readers |-> IF rpc'[q] = "held" THEN rver'[q] ELSE 0]
              = [[q \in Readers |-> IF rpc[q] = "held" THEN rver[q] ELSE 0] EXCEPT ![r] = v]
        BY <3>1, <4>1, <4>2
      <4>4. QED
        BY <4>1, <4>2, <4>3 DEF Promise!Open
    <3>3. QED
      BY <3>2 DEF Promise!AbsNext
  <2>2. CASE ~(fresh[r] /\ rver[r] \in db)
    BY <1>6, <2>2 DEF CheckHold
  <2>3. QED
    BY <2>1, <2>2
<1>7. ASSUME NEW r \in Readers, CloseReader(r) PROVE [Promise!AbsNext]_(Promise!absVars)
  <2>1. CASE rpc[r] = "held"
    <3>1. Promise!Close(r)
      BY <1>7, <2>1 DEF CloseReader, ReaderInv, Promise!Close
    <3>2. QED
      BY <3>1 DEF Promise!AbsNext
  <2>2. CASE rpc[r] # "held"
    BY <1>7, <2>2 DEF CloseReader
  <2>3. QED
    BY <2>1, <2>2
<1>8. ASSUME NEW w \in Writers, NEW k \in Kinds, Acquire(w, k) PROVE [Promise!AbsNext]_(Promise!absVars)
  BY <1>8 DEF Acquire
<1>9. ASSUME NEW w \in Writers, Resolve(w) PROVE [Promise!AbsNext]_(Promise!absVars)
  BY <1>9 DEF Resolve
<1>10. ASSUME NEW w \in Writers, NEW v \in Versions, SweepSkip(w, v) PROVE [Promise!AbsNext]_(Promise!absVars)
  BY <1>10 DEF SweepSkip
<1>11. ASSUME NEW w \in Writers, NEW v \in Versions, SweepTake(w, v) PROVE [Promise!AbsNext]_(Promise!absVars)
  BY <1>11 DEF SweepTake
<1>12. ASSUME NEW w \in Writers, UnlinkDb(w) PROVE [Promise!AbsNext]_(Promise!absVars)
  <2> PICK v \in Versions : v = victim[w]
    BY <1>12 DEF UnlinkDb, SweepInv
  <2>1. CASE v \in StillThere
    <3>1. Promise!DropGraph(v)
      <4>1. v # pointer.cur /\ \A r \in Readers : rpc[r] = "held" => rver[r] # v
        BY <1>12 DEF UnlinkDb, SweepInv, ReaderInv, HoldsShared
      <4>2. \A r \in Readers : (IF rpc[r] = "held" THEN rver[r] ELSE 0) # v
        BY <4>1, VersionFacts
      <4>3. db' = db \ {v} /\ rows' = [rows EXCEPT ![v] = 0]
        BY <1>12 DEF UnlinkDb
      <4>4. UNCHANGED <<rver, rpc, published, pointer>>
        BY <1>12 DEF UnlinkDb
      <4>5. StillThere' = StillThere \ {v}
        BY <4>3, <4>4
      <4>6. [u \in Versions |-> IF u \in StillThere' THEN rows'[u] ELSE 0]
              = [[u \in Versions |-> IF u \in StillThere THEN rows[u] ELSE 0] EXCEPT ![v] = 0]
        BY <4>3, <4>5
      <4>7. QED
        BY <2>1, <4>1, <4>2, <4>4, <4>5, <4>6 DEF Promise!DropGraph
    <3>2. QED
      BY <3>1 DEF Promise!AbsNext
  <2>2. CASE v \notin StillThere
    BY <1>12, <2>2 DEF UnlinkDb
  <2>3. QED
    BY <2>1, <2>2
<1>13. ASSUME NEW w \in Writers, UnlinkSidecar(w) PROVE [Promise!AbsNext]_(Promise!absVars)
  BY <1>13 DEF UnlinkSidecar
<1>14. ASSUME NEW w \in Writers, EndSweep(w) PROVE [Promise!AbsNext]_(Promise!absVars)
  BY <1>14 DEF EndSweep
<1>15. ASSUME NEW w \in Writers, NEW n \in Versions, StartWhole(w, n) PROVE [Promise!AbsNext]_(Promise!absVars)
  BY <1>15 DEF StartWhole, IsNextVersion, OnDisk, PublishedInv
<1>16. ASSUME NEW w \in Writers, CommitWhole(w) PROVE [Promise!AbsNext]_(Promise!absVars)
  BY <1>16 DEF CommitWhole, BuildInv, PublishedInv
<1>17. ASSUME NEW w \in Writers, StartRefresh(w) PROVE [Promise!AbsNext]_(Promise!absVars)
  BY <1>17 DEF StartRefresh
<1>18. ASSUME NEW w \in Writers, CommitRefresh(w) PROVE [Promise!AbsNext]_(Promise!absVars)
  <2> PICK s \in 0..MaxEdits : s = seen[w]
    OBVIOUS
  <2>1. Promise!RefreshGraph(s)
    BY <1>18 DEF CommitRefresh, BuildInv, RowsInv, PublishedInv, Promise!RefreshGraph
  <2>2. QED
    BY <2>1 DEF Promise!AbsNext
<1>19. ASSUME NEW w \in Writers, NoDrift(w) PROVE [Promise!AbsNext]_(Promise!absVars)
  BY <1>19 DEF NoDrift
<1>20. ASSUME NEW w \in Writers, NEW n \in Versions, StartVacuum(w, n) PROVE [Promise!AbsNext]_(Promise!absVars)
  BY <1>20 DEF StartVacuum, IsNextVersion, OnDisk, PublishedInv
<1>21. ASSUME NEW w \in Writers, EndVacuum(w) PROVE [Promise!AbsNext]_(Promise!absVars)
  BY <1>21 DEF EndVacuum, BuildInv, PublishedInv
<1>22. ASSUME NEW w \in Writers, Publish(w) PROVE [Promise!AbsNext]_(Promise!absVars)
  <2> PICK v \in Versions : v = new[w]
    BY <1>22 DEF Publish, BuildInv
  <2> PICK s \in 0..MaxEdits : s = rows[v]
    OBVIOUS
  <2>1. Promise!PublishGraph(v, s)
    <3>1. v \in db \ published /\ (pointer.cur # 0 => pointer.cur \in StillThere /\ s >= rows[pointer.cur])
      BY <1>22 DEF Publish, BuildInv, RowsInv, PublishedInv
    <3>2. pointer'.cur = v /\ published' = published \cup {v}
      BY <1>22 DEF Publish
    <3>3. UNCHANGED <<rver, rpc, db, rows>>
      BY <1>22 DEF Publish
    <3>4. StillThere' = StillThere \cup {v}
      BY <3>1, <3>2, <3>3
    <3>5. [u \in Versions |-> IF u \in StillThere' THEN rows'[u] ELSE 0]
            = [[u \in Versions |-> IF u \in StillThere THEN rows[u] ELSE 0] EXCEPT ![v] = s]
      BY <3>3, <3>4
    <3>6. pointer.cur # 0 =>
            [u \in Versions |-> IF u \in StillThere THEN rows[u] ELSE 0][pointer.cur] = rows[pointer.cur]
      BY <3>1
    <3>7. QED
      BY <3>1, <3>2, <3>3, <3>4, <3>5, <3>6 DEF Promise!PublishGraph
  <2>2. QED
    BY <2>1 DEF Promise!AbsNext
<1>23. ASSUME NEW w \in Writers, Fail(w) PROVE [Promise!AbsNext]_(Promise!absVars)
  BY <1>23 DEF Fail, BuildInv, PublishedInv
<1>24. ASSUME NEW w \in Writers, FindMalformed(w) PROVE [Promise!AbsNext]_(Promise!absVars)
  BY <1>24 DEF FindMalformed, BuildInv, PublishedInv
<1>25. ASSUME NEW w \in Writers, Release(w) PROVE [Promise!AbsNext]_(Promise!absVars)
  BY <1>25 DEF Release, LetGo
<1>26. ASSUME NEW w \in Writers, Crash(w) PROVE [Promise!AbsNext]_(Promise!absVars)
  BY <1>26 DEF Crash, LetGo
<1>27. CASE UNCHANGED vars
  BY <1>27 DEF vars
<1>28. QED
  BY <1>1, <1>2, <1>3, <1>4, <1>5, <1>6, <1>7, <1>8, <1>9, <1>10, <1>11, <1>12, <1>13, <1>14, <1>15, <1>16, <1>17, <1>18, <1>19, <1>20, <1>21, <1>22, <1>23, <1>24, <1>25, <1>26, <1>27 DEF Next, ConnectStep, WriterStep

\* For any readers, writers and bounds the store keeps what SnapshotStore
\* promises (graph/store.py, the versioned layout).
THEOREM PromiseKept == Spec => KeepsPromise
<1>1. Init => Promise!AbsInit
  BY VersionFacts DEF Init, StillThere, Promise!AbsInit
<1>2. IInv /\ [Next]_vars => [Promise!AbsNext]_(Promise!absVars)
  BY PromiseStep
<1>3. QED
  BY <1>1, <1>2, Inductive, PTL DEF Spec, KeepsPromise, Promise!AbsSpec

-----------------------------------------------------------------------------
(* The folder: removal and migration (GraphFolder).                        *)

FolderTypes ==
  /\ db \subseteq Versions /\ sidecar \subseteq Versions /\ complete \subseteq Versions
  /\ pointer \in [cur : 0..MaxVersion, prev : 0..MaxVersion]
  /\ rpc \in [Readers -> {"idle", "again", "missing", "named", "resolved", "opened", "locked", "held",
                          "corrupt", "wait", "inLock"}]
  /\ rver \in [Readers -> 0..MaxVersion] /\ fresh \in [Readers -> BOOLEAN]
  /\ wpc \in [Writers -> {"idle", "resolve", "sweep", "unlinkDb", "unlinkSidecar", "plan",
                          "writing", "refreshing", "drift", "vacuum", "publish", "release"}]
  /\ base \in [Writers -> 0..MaxVersion] /\ new \in [Writers -> 0..MaxVersion]
  /\ todo \in [Writers -> SUBSET Versions] /\ victim \in [Writers -> 0..MaxVersion]
  /\ fd \in [Procs -> {"none", "named", "stray"}]
  /\ mig \in [Procs -> {"none", "moving", "moved", "copying", "sealed", "failed"}]
  /\ target \in [Procs -> 0..MaxVersion]
  /\ rmNames \subseteq Versions /\ sure \subseteq Readers
  /\ \A r \in Readers : rpc[r] \in {"named", "resolved"} => rver[r] \in Versions
  /\ \A w \in Writers : wpc[w] \in {"writing", "vacuum", "publish"} => new[w] \in Versions
  /\ \A p \in Procs : mig[p] # "none" => target[p] \in Versions

\* Who works in the folder has one of the two locks, and who migrates works.
FolderLock ==
  /\ \A p \in Working : lock = p \/ strayLock = p
  /\ \A p \in Procs : mig[p] # "none" => p \in Working /\ (p \in Writers => wpc[p] = "resolve")

\* There is no nameless inode before a removal is done; a removal under way has the
\* lock, and the versions it has yet to delete are held by nobody.
FolderRemoval ==
  /\ rm # "done" => strayLock = NoOne /\ \A p \in Procs : fd[p] # "stray"
  /\ rm \in {"locked", "pointerGone"} => lock = Remover
  /\ rm = "pointerGone" => pointer.cur = 0 /\ gone
  /\ rm \notin {"locked", "pointerGone"} => rmNames = {}
  /\ \A r \in Readers, v \in rmNames : ~HoldsShared(r, v)

\* Who was told that there is no graph looked for it when it was not to be found.
FolderTold == \A r \in sure : rpc[r] = "missing" /\ (r \in crossed \/ met)

\* While no two have met: what is whole is there, the current version too.
FolderWhole == complete \subseteq db /\ (pointer.cur # 0 => pointer.cur \in complete)

\* A sweep spares the current version, and what a build writes is another one that is
\* not whole before it commits.
FolderBuild == \A w \in Writers :
  /\ wpc[w] \in {"sweep", "unlinkDb", "unlinkSidecar"} => pointer.cur # 0 /\ pointer.cur \notin todo[w]
  /\ wpc[w] \in {"unlinkDb", "unlinkSidecar"} => victim[w] # pointer.cur
  /\ wpc[w] \in {"refreshing", "drift", "vacuum"} => pointer.cur # 0
  /\ wpc[w] \in {"idle", "resolve", "plan", "refreshing", "drift"} => new[w] = 0
  /\ wpc[w] \in {"idle", "resolve"} => base[w] = 0
  /\ wpc[w] = "plan" /\ base[w] # 0 => pointer.cur # 0
  /\ wpc[w] \in {"writing", "vacuum", "publish"} => new[w] \in db /\ new[w] # pointer.cur
  /\ wpc[w] \in {"writing", "vacuum"} => new[w] \notin complete
  /\ wpc[w] = "publish" => new[w] \in complete

\* A migration is into a version that is whole once it is sealed; no version is
\* current meanwhile.
FolderMigrate == \A p \in Procs :
  /\ mig[p] # "none" => pointer.cur = 0
  /\ mig[p] \in {"moving", "moved", "copying"} => target[p] \notin complete
  /\ mig[p] \in {"moved", "copying"} => target[p] \in db
  /\ mig[p] = "sealed" => target[p] \in complete

\* A graph that is nowhere to be found is gone, or on its way.
FolderFound == pointer.cur = 0 /\ ~older => gone \/ \E p \in Procs : mig[p] \in {"moved", "sealed"}

FolderAlone == FolderWhole /\ FolderBuild /\ FolderMigrate /\ FolderFound

FolderInv ==
  /\ FolderTypes /\ FolderLock /\ FolderRemoval /\ FolderTold
  /\ ~met => ~Collision /\ FolderAlone

LEMMA ProcFacts ==
  /\ NoOne \notin Procs /\ Remover \notin Procs /\ Remover # NoOne
  /\ \A r \in Readers : r \in Procs /\ r \notin Writers
  /\ \A w \in Writers : w \in Procs /\ w \notin Readers
  /\ Working \subseteq Procs
  BY NoOneAssumption, RemoverAssumption, ProcessesAssumption DEF Procs, Working

LEMMA FolderTypesStep == ASSUME FolderInv, FolderStep PROVE FolderTypes'
<1> USE ProcFacts, VersionFacts DEF FolderInv, FolderTypes, diskVars, readerVars, writerVars, vars, lockVars, rmVars, migVars
<1>1. ASSUME NEW r \in Readers, ReaderStep(r) PROVE FolderTypes'
  <2> USE DEF ReaderStep
  <2>1. CASE ReadPointer(r)
    BY <1>1, <2>1 DEF ReadPointer
  <2>2. CASE CheckNamed(r)
    BY <1>1, <2>2 DEF CheckNamed
  <2>3. CASE OpenSidecar(r)
    BY <1>1, <2>3 DEF OpenSidecar
  <2>4. CASE LockShared(r)
    BY <1>1, <2>4 DEF LockShared
  <2>5. CASE CheckHold(r)
    <3>1. PICK to \in {"held", "again", "corrupt"} : rpc' = [rpc EXCEPT ![r] = to]
      BY <2>5 DEF CheckHold
    <3>2. fresh' \in [Readers -> BOOLEAN]
      BY <2>5 DEF CheckHold
    <3> QED BY <1>1, <2>5, <3>1, <3>2 DEF CheckHold
  <2> QED BY <1>1, <2>1, <2>2, <2>3, <2>4, <2>5 DEF ConnectStep
<1>2. ASSUME NEW r \in Readers, LookForOlder(r) \/ TakeAsReader(r) PROVE FolderTypes'
  BY <1>2 DEF LookForOlder, TakeAsReader
<1>3. ASSUME NEW r \in Readers, FindInLock(r) \/ Shut(r) PROVE FolderTypes'
  <2>1. CASE FindInLock(r)
    BY <2>1 DEF FindInLock, CloseLock
  <2>2. CASE Shut(r)
    BY <2>2 DEF Shut, CloseLock
  <2> QED BY <1>3, <2>1, <2>2
<1>4. ASSUME NEW w \in Writers, NEW k \in Kinds, TakeNamed(w, k) \/ TakeStray(w, k) PROVE FolderTypes'
  BY <1>4 DEF TakeNamed, TakeStray, Acquire
<1>5. ASSUME NEW w \in Writers, RebuildFromSource(w) \/ Leave(w) PROVE FolderTypes'
  <2>1. CASE RebuildFromSource(w)
    BY <2>1 DEF RebuildFromSource
  <2>2. CASE Leave(w)
    <3>1. LetGo(w) /\ CloseLock(w) /\ UNCHANGED <<diskVars, readerVars, rmVars, sure>>
      BY <2>2 DEF Leave, Release, Crash
    <3> QED BY <3>1 DEF LetGo, CloseLock
  <2> QED BY <1>5, <2>1, <2>2
<1>6. ASSUME NEW w \in Writers, WorkOn(w) PROVE FolderTypes'
  <2> USE DEF WorkOn
  <2>1. CASE Resolve(w)
    BY <1>6, <2>1 DEF Resolve, RetiredVersions, OnDisk
  <2>2. ASSUME NEW v \in Versions, SweepSkip(w, v) \/ SweepTake(w, v) PROVE FolderTypes'
    BY <1>6, <2>2 DEF SweepSkip, SweepTake
  <2>3. CASE UnlinkDb(w) \/ UnlinkSidecar(w)
    <3>1. CASE UnlinkDb(w)
      BY <1>6, <3>1 DEF UnlinkDb
    <3>2. CASE UnlinkSidecar(w)
      BY <1>6, <3>2 DEF UnlinkSidecar, SidecarGone
    <3> QED BY <2>3, <3>1, <3>2
  <2>4. CASE EndSweep(w)
    BY <1>6, <2>4 DEF EndSweep, RetiredVersions, OnDisk
  <2>5. ASSUME NEW n \in Versions, StartWhole(w, n) \/ StartVacuum(w, n) PROVE FolderTypes'
    BY <1>6, <2>5 DEF StartWhole, StartVacuum
  <2>6. CASE CommitWhole(w) \/ StartRefresh(w) \/ CommitRefresh(w) \/ EndVacuum(w)
    BY <1>6, <2>6 DEF CommitWhole, StartRefresh, CommitRefresh, EndVacuum
  <2>7. CASE NoDrift(w) \/ Publish(w)
    BY <1>6, <2>7 DEF NoDrift, Publish, RetiredVersions, OnDisk
  <2>8. CASE Fail(w) \/ FindMalformed(w)
    <3>1. CASE Fail(w)
      BY <1>6, <3>1 DEF Fail, SidecarGone
    <3>2. CASE FindMalformed(w)
      BY <1>6, <3>2 DEF FindMalformed, SidecarGone
    <3> QED BY <2>8, <3>1, <3>2
  <2>9. ~Release(w)
    BY <1>6 DEF Release
  <2> QED BY <1>6, <2>1, <2>2, <2>3, <2>4, <2>5, <2>6, <2>7, <2>8, <2>9 DEF WriterStep
<1>7. ASSUME NEW p \in Procs, OpenLock(p) \/ Move(p) \/ Seal(p) \/ PublishMigrated(p) PROVE FolderTypes'
  BY <1>7 DEF OpenLock, Move, Seal, PublishMigrated
<1>8. ASSUME NEW p \in Procs, SealFails(p) PROVE FolderTypes'
  BY <1>8 DEF SealFails, SidecarGone
<1>9. ASSUME NEW p \in Procs, NEW n \in Versions, ChooseMove(p, n) \/ ChooseCopy(p, n) PROVE FolderTypes'
  BY <1>9 DEF ChooseMove, ChooseCopy
<1>10. CASE Elder \/ RemoveStart \/ RemovePointer \/ RemoveOlder
  BY <1>10 DEF Elder, RemoveStart, RemovePointer, RemoveOlder, OnDisk
<1>11. CASE RemoveLock \/ LoseRemover
  BY <1>11 DEF RemoveLock, LoseRemover
<1>12. ASSUME NEW v \in Versions, RemoveVersion(v) PROVE FolderTypes'
  BY <1>12 DEF RemoveVersion, SidecarGone
<1> QED BY <1>1, <1>2, <1>3, <1>4, <1>5, <1>6, <1>7, <1>8, <1>9, <1>10, <1>11, <1>12 DEF FolderStep

\* Nobody works in the folder while it is being removed.
LEMMA NobodyBesideRemoval ==
  ASSUME FolderInv, rm \in {"locked", "pointerGone"}
  PROVE  /\ Working = {} /\ \A w \in Writers : wpc[w] = "idle"
         /\ \A r \in Readers : rpc[r] # "inLock"
         /\ \A p \in Procs : mig[p] = "none" /\ fd[p] # "stray"
         /\ strayLock = NoOne /\ lock = Remover
<1>1. lock = Remover /\ strayLock = NoOne /\ \A p \in Procs : fd[p] # "stray"
  BY DEF FolderInv, FolderRemoval
<1>2. Working = {}
  BY <1>1, ProcFacts DEF FolderInv, FolderLock
<1> QED BY <1>1, <1>2 DEF Working, FolderInv, FolderLock

LEMMA FolderLockStep == ASSUME FolderInv, FolderStep PROVE FolderLock'
<1> USE ProcFacts DEF FolderInv, FolderLock, Working, diskVars, readerVars, writerVars, vars, lockVars, rmVars, migVars
<1>0. /\ wpc = [w \in Writers |-> wpc[w]] /\ rpc = [r \in Readers |-> rpc[r]]
      /\ mig = [p \in Procs |-> mig[p]]
  BY DEF FolderTypes
<1> HIDE DEF FolderInv
<1>a. FolderLock
  BY DEF FolderInv
<1>1. ASSUME NEW r \in Readers, ReaderStep(r) PROVE FolderLock'
  <2>1. \A q \in Readers : rpc'[q] = "inLock" <=> rpc[q] = "inLock"
    BY <1>0, <1>1 DEF ReaderStep, ConnectStep, ReadPointer, CheckNamed, OpenSidecar, LockShared, CheckHold
  <2>2. UNCHANGED <<lock, strayLock, wpc, mig>>
    BY <1>1 DEF ReaderStep, ConnectStep, ReadPointer, CheckNamed, OpenSidecar, LockShared, CheckHold
  <2> QED BY <1>a, <2>1, <2>2
<1>2. ASSUME NEW r \in Readers, LookForOlder(r) \/ TakeAsReader(r) PROVE FolderLock'
  BY <1>0, <1>a, <1>2 DEF LookForOlder, TakeAsReader
<1>3. ASSUME NEW r \in Readers, FindInLock(r) \/ Shut(r) PROVE FolderLock'
  <2>1. /\ rpc'[r] # "inLock" /\ \A q \in Readers \ {r} : rpc'[q] = rpc[q]
        /\ mig' = [mig EXCEPT ![r] = "none"] /\ wpc' = wpc
        /\ lock' = IF lock = r THEN NoOne ELSE lock
        /\ strayLock' = IF strayLock = r THEN NoOne ELSE strayLock
    BY <1>0, <1>3 DEF FindInLock, Shut, CloseLock
  <2> QED BY <1>0, <1>a, <2>1
<1>4. ASSUME NEW w \in Writers, NEW k \in Kinds, TakeNamed(w, k) \/ TakeStray(w, k) PROVE FolderLock'
  BY <1>0, <1>a, <1>4 DEF TakeNamed, TakeStray, Acquire
<1>5. ASSUME NEW w \in Writers, RebuildFromSource(w) PROVE FolderLock'
  BY <1>0, <1>a, <1>5 DEF RebuildFromSource
<1>6. ASSUME NEW w \in Writers, Leave(w) PROVE FolderLock'
  <2>1. /\ wpc'[w] = "idle" /\ \A q \in Writers \ {w} : wpc'[q] = wpc[q]
        /\ mig' = [mig EXCEPT ![w] = "none"] /\ rpc' = rpc
        /\ lock' = IF lock = w THEN NoOne ELSE lock
        /\ strayLock' = IF strayLock = w THEN NoOne ELSE strayLock
    BY <1>0, <1>6 DEF Leave, Release, Crash, LetGo, CloseLock
  <2> QED BY <1>0, <1>a, <2>1
<1>7. ASSUME NEW w \in Writers, WorkOn(w) PROVE FolderLock'
  <2>1. /\ wpc[w] # "idle" /\ \A q \in Writers \ {w} : wpc'[q] = wpc[q]
        /\ UNCHANGED <<lock, strayLock, mig, rpc>> /\ mig[w] = "none"
    <3> USE <1>0, <1>7 DEF WorkOn
    <3>1. CASE \E v \in Versions : SweepSkip(w, v) \/ SweepTake(w, v) \/ StartWhole(w, v) \/ StartVacuum(w, v)
      BY <3>1 DEF SweepSkip, SweepTake, StartWhole, StartVacuum
    <3>2. CASE Resolve(w) \/ UnlinkDb(w) \/ UnlinkSidecar(w) \/ EndSweep(w) \/ NoDrift(w)
      BY <3>2 DEF Resolve, UnlinkDb, UnlinkSidecar, EndSweep, NoDrift
    <3>3. CASE CommitWhole(w) \/ StartRefresh(w) \/ CommitRefresh(w) \/ EndVacuum(w) \/ Publish(w)
      BY <3>3 DEF CommitWhole, StartRefresh, CommitRefresh, EndVacuum, Publish
    <3>4. CASE Fail(w) \/ FindMalformed(w) \/ Release(w)
      BY <3>4 DEF Fail, FindMalformed, Release
    <3> QED BY <3>1, <3>2, <3>3, <3>4 DEF WriterStep
  <2> QED BY <1>a, <2>1
<1>8. ASSUME NEW p \in Procs, OpenLock(p) \/ Move(p) \/ Seal(p) \/ SealFails(p) \/ PublishMigrated(p) PROVE FolderLock'
  BY <1>0, <1>a, <1>8 DEF OpenLock, Move, Seal, SealFails, PublishMigrated
<1>9. ASSUME NEW p \in Procs, NEW n \in Versions, ChooseMove(p, n) \/ ChooseCopy(p, n) PROVE FolderLock'
  <2>1. /\ p \in Working /\ (p \in Writers => wpc[p] = "resolve")
        /\ mig' = [mig EXCEPT ![p] = "moving"] \/ mig' = [mig EXCEPT ![p] = "copying"]
        /\ UNCHANGED <<lock, strayLock, rpc, wpc>>
    BY <1>9 DEF ChooseMove, ChooseCopy, Migrates, Procs
  <2> QED BY <1>0, <1>a, <2>1
<1>10. CASE Elder \/ RemovePointer \/ RemoveOlder \/ \E v \in Versions : RemoveVersion(v)
  BY <1>a, <1>10 DEF Elder, RemovePointer, RemoveOlder, RemoveVersion
<1>11. CASE RemoveStart
  BY <1>a, <1>11 DEF RemoveStart
<1>12. CASE RemoveLock \/ LoseRemover
  BY <1>a, <1>12, NobodyBesideRemoval DEF RemoveLock, LoseRemover
<1> QED BY <1>1, <1>2, <1>3, <1>4, <1>5, <1>6, <1>7, <1>8, <1>9, <1>10, <1>11, <1>12 DEF FolderStep

LEMMA FolderRemovalStep == ASSUME FolderInv, FNext PROVE FolderRemoval'
<1> USE ProcFacts DEF FolderRemoval, diskVars, readerVars, writerVars, vars, lockVars, rmVars, migVars
<1>0. FolderStep /\ (rm = "pointerGone" /\ pointer'.cur = 0 => gone') /\ (rm' # rm /\ pointer'.cur = 0 => gone')
  BY DEF FNext, FolderInv
<1>a. FolderRemoval /\ FolderTypes
  BY DEF FolderInv
<1>b. ASSUME UNCHANGED <<rm, rmNames, pointer, lock>>,
             rm # "done" => strayLock' = NoOne /\ \A p \in Procs : fd'[p] # "stray",
             \A r \in Readers, v \in rmNames : ~HoldsShared(r, v)'
      PROVE  FolderRemoval'
  BY <1>0, <1>a, <1>b
<1>c. ASSUME UNCHANGED <<rm, rmNames>>, rm \notin {"locked", "pointerGone"},
             rm # "done" => strayLock' = NoOne /\ \A p \in Procs : fd'[p] # "stray"
      PROVE  FolderRemoval'
  BY <1>a, <1>c
<1>d. Working # {} => rm \notin {"locked", "pointerGone"}
  BY NobodyBesideRemoval
<1>e. ASSUME NEW p \in Procs, CloseLock(p), rm # "done"
      PROVE  strayLock' = NoOne /\ \A q \in Procs : fd'[q] # "stray"
  BY <1>a, <1>e DEF CloseLock, FolderTypes
<1>1. ASSUME NEW r \in Readers, ReaderStep(r) PROVE FolderRemoval'
  <2>1. UNCHANGED <<rm, rmNames, pointer, lock, strayLock, fd>>
    BY <1>1 DEF ReaderStep, ConnectStep, ReadPointer, CheckNamed, OpenSidecar, LockShared, CheckHold
  <2>2. ASSUME NEW q \in Readers, NEW v \in rmNames, HoldsShared(q, v)' PROVE FALSE
    <3>1. q = r
      BY <1>1, <1>a, <2>2 DEF ReaderStep, ConnectStep, ReadPointer, CheckNamed, OpenSidecar, LockShared, CheckHold,
                              FolderTypes, HoldsShared
    <3>2. LockShared(r) \/ CheckHold(r)
      BY <1>1, <1>a, <2>2, <3>1 DEF ReaderStep, ConnectStep, ReadPointer, CheckNamed, OpenSidecar, FolderTypes, HoldsShared
    <3>3. CASE LockShared(r)
      BY <1>1, <1>a, <2>2, <3>1, <3>3 DEF ReaderStep, LockShared, FolderTypes, HoldsShared
    <3>4. CASE CheckHold(r)
      BY <1>1, <1>a, <2>2, <3>1, <3>4 DEF CheckHold, FolderTypes, HoldsShared
    <3> QED BY <3>2, <3>3, <3>4
  <2> QED BY <1>a, <1>b, <2>1, <2>2
<1>2. ASSUME NEW r \in Readers, LookForOlder(r) PROVE FolderRemoval'
  BY <1>a, <1>b, <1>2 DEF LookForOlder, FolderTypes, HoldsShared
<1>3. ASSUME NEW r \in Readers, TakeAsReader(r) PROVE FolderRemoval'
  <2>1. rm \notin {"locked", "pointerGone"} /\ (fd[r] = "stray" => rm = "done")
    BY <1>a, <1>3 DEF TakeAsReader
  <2> QED BY <1>a, <1>c, <1>3, <2>1 DEF TakeAsReader
<1>4. ASSUME NEW r \in Readers, FindInLock(r) PROVE FolderRemoval'
  <2>1. r \in Working
    BY <1>4 DEF FindInLock, Working
  <2>2. CloseLock(r) /\ UNCHANGED <<rm, rmNames>>
    BY <1>4 DEF FindInLock
  <2> QED BY <1>c, <1>d, <1>e, <2>1, <2>2
<1>5. ASSUME NEW r \in Readers, Shut(r) PROVE FolderRemoval'
  <2>1. CloseLock(r) /\ UNCHANGED <<rm, rmNames, pointer>> /\ lock' = IF lock = r THEN NoOne ELSE lock
    BY <1>5 DEF Shut
  <2>2. \A q \in Readers, v \in rmNames : ~HoldsShared(q, v)'
    BY <1>a, <1>5 DEF Shut, HoldsShared, FolderTypes
  <2>3. CASE rm \in {"locked", "pointerGone"}
    BY <1>a, <1>b, <1>e, <2>1, <2>2, <2>3
  <2>4. CASE rm \notin {"locked", "pointerGone"}
    BY <1>c, <1>e, <2>1, <2>4
  <2> QED BY <2>3, <2>4
<1>6. ASSUME NEW w \in Writers, NEW k \in Kinds, TakeNamed(w, k) \/ TakeStray(w, k) PROVE FolderRemoval'
  <2>1. rm \notin {"locked", "pointerGone"} /\ (TakeStray(w, k) => rm = "done")
    BY <1>a, <1>6 DEF TakeNamed, TakeStray, Acquire
  <2> QED BY <1>a, <1>c, <1>6, <2>1 DEF TakeNamed, TakeStray
<1>7. ASSUME NEW w \in Writers, RebuildFromSource(w) \/ WorkOn(w) \/ Leave(w) PROVE FolderRemoval'
  <2>1. w \in Working /\ UNCHANGED <<rm, rmNames>>
    <3>1. CASE RebuildFromSource(w)
      BY <3>1 DEF RebuildFromSource, FolderInv, FolderLock
    <3>2. CASE WorkOn(w)
      BY <3>2 DEF WorkOn, WriterStep, Resolve, SweepSkip, SweepTake, UnlinkDb, UnlinkSidecar, EndSweep, StartWhole,
                  StartVacuum, CommitWhole, StartRefresh, CommitRefresh, NoDrift, EndVacuum, Publish, Fail,
                  FindMalformed, Release, Working
    <3>3. CASE Leave(w)
      BY <3>3 DEF Leave, Release, Crash, Working
    <3> QED BY <1>7, <3>1, <3>2, <3>3
  <2>2. (CloseLock(w) \/ UNCHANGED <<strayLock, fd>>)
    BY <1>7 DEF RebuildFromSource, WorkOn, Leave
  <2> QED BY <1>a, <1>c, <1>d, <1>e, <2>1, <2>2
<1>8. ASSUME NEW p \in Procs, OpenLock(p) PROVE FolderRemoval'
  BY <1>a, <1>b, <1>8 DEF OpenLock, FolderTypes, HoldsShared
<1>9. ASSUME NEW p \in Procs, Move(p) \/ Seal(p) \/ SealFails(p) \/ PublishMigrated(p) PROVE FolderRemoval'
  <2>1. p \in Working
    BY <1>9 DEF Move, Seal, SealFails, PublishMigrated, FolderInv, FolderLock
  <2>2. UNCHANGED <<rm, rmNames, strayLock, fd>>
    BY <1>9 DEF Move, Seal, SealFails, PublishMigrated
  <2> QED BY <1>a, <1>c, <1>d, <2>1, <2>2
<1>10. ASSUME NEW p \in Procs, NEW n \in Versions, ChooseMove(p, n) \/ ChooseCopy(p, n) PROVE FolderRemoval'
  <2>1. p \in Working
    BY <1>10 DEF ChooseMove, ChooseCopy, Migrates, Procs, Working
  <2>2. UNCHANGED <<rm, rmNames, strayLock, fd>>
    BY <1>10 DEF ChooseMove, ChooseCopy
  <2> QED BY <1>a, <1>c, <1>d, <2>1, <2>2
<1>11. CASE Elder
  BY <1>a, <1>b, <1>11 DEF Elder, HoldsShared
<1>12. CASE RemoveStart
  BY <1>a, <1>12 DEF RemoveStart, HoldsShared
<1>13. CASE RemovePointer
  BY <1>0, <1>a, <1>13 DEF RemovePointer, HoldsShared
<1>14. ASSUME NEW v \in Versions, RemoveVersion(v) PROVE FolderRemoval'
  BY <1>0, <1>a, <1>14 DEF RemoveVersion, SidecarGone, HoldsShared
<1>15. CASE RemoveOlder
  BY <1>a, <1>b, <1>15 DEF RemoveOlder, HoldsShared
<1>16. CASE RemoveLock \/ LoseRemover
  BY <1>a, <1>16 DEF RemoveLock, LoseRemover
<1> QED BY <1>0, <1>1, <1>2, <1>3, <1>4, <1>5, <1>6, <1>7, <1>8, <1>9, <1>10, <1>11, <1>12, <1>13, <1>14, <1>15, <1>16
        DEF FolderStep

\* A store that is not there to be opened is either not lost or excused.
LEMMA NotLost == FolderInv /\ ~older => Unfindable \/ met
  BY DEF FolderInv, FolderAlone, FolderFound, Unfindable, Moved

LEMMA FolderToldStep == ASSUME FolderInv, FNext PROVE FolderTold'
<1> USE ProcFacts DEF diskVars, readerVars, writerVars, vars, lockVars, rmVars, migVars
<1>1. FolderStep /\ FolderTypes /\ FolderTold /\ (met => met')
  BY DEF FNext, FolderInv
<1>2. ASSUME NEW r \in Readers, rpc'[r] = "missing", r \in crossed \/ met \/ Unfindable
      PROVE  r \in crossed' \/ met'
  BY <1>1, <1>2 DEF FNext, Looking
<1>3. ASSUME NEW r \in Readers, LookForOlder(r) PROVE FolderTold'
  <2>1. rpc[r] = "missing" /\ (r \in sure' => ~older \/ r \in sure) /\ sure' \subseteq sure \cup {r}
    BY <1>1, <1>3 DEF LookForOlder, FolderTypes
  <2>2. \A q \in sure' : rpc'[q] = "missing"
    BY <1>1, <1>3, <2>1 DEF LookForOlder, FolderTypes, FolderTold
  <2>3. \A q \in sure' : q \in crossed \/ met \/ Unfindable
    BY <1>1, <1>3, <2>1, NotLost DEF FolderTold, LookForOlder
  <2> QED BY <1>1, <1>2, <2>1, <2>2, <2>3 DEF FolderTold, FolderTypes
<1>4. ASSUME NEW r \in Readers, FindInLock(r) PROVE FolderTold'
  <2>0. r \notin sure /\ sure' = IF pointer.cur = 0 THEN sure \cup {r} ELSE sure
    BY <1>1, <1>4 DEF FindInLock, FolderTold
  <2>1. \A q \in sure' : (q = r /\ pointer.cur = 0) \/ (q \in sure /\ q # r)
    BY <2>0
  <2>2. \A q \in sure' : rpc'[q] = "missing"
    BY <1>1, <1>4, <2>1 DEF FindInLock, FolderTypes, FolderTold
  <2>3. \A q \in sure' : q \in crossed \/ met \/ Unfindable
    BY <1>1, <1>4, <2>1, NotLost DEF FolderTold, FindInLock
  <2> QED BY <1>1, <1>2, <1>4, <2>1, <2>2, <2>3 DEF FolderTold, FolderTypes
<1>5. ASSUME sure' \subseteq sure, \A q \in sure' : rpc'[q] = "missing" PROVE FolderTold'
  BY <1>1, <1>2, <1>5 DEF FolderTold, FolderTypes
<1>6. ASSUME sure' = sure, \A q \in Readers : rpc[q] = "missing" => rpc'[q] = "missing" PROVE FolderTold'
  BY <1>1, <1>5, <1>6 DEF FolderTold, FolderTypes
<1>7. ASSUME NEW r \in Readers, ReaderStep(r) \/ TakeAsReader(r) PROVE FolderTold'
  <2>1. sure' = sure
    BY <1>7 DEF ReaderStep, TakeAsReader
  <2>2. \A q \in Readers : rpc[q] = "missing" => rpc'[q] = "missing"
    BY <1>1, <1>7 DEF ReaderStep, ConnectStep, ReadPointer, CheckNamed, OpenSidecar, LockShared, CheckHold, TakeAsReader,
                      FolderTypes
  <2> QED BY <1>6, <2>1, <2>2
<1>8. ASSUME NEW r \in Readers, Shut(r) PROVE FolderTold'
  BY <1>1, <1>5, <1>8 DEF Shut, FolderTypes, FolderTold
<1>9. ASSUME NEW w \in Writers, NEW k \in Kinds, TakeNamed(w, k) \/ TakeStray(w, k) PROVE FolderTold'
  BY <1>6, <1>9 DEF TakeNamed, TakeStray, Acquire
<1>10. ASSUME NEW w \in Writers, RebuildFromSource(w) \/ Leave(w) PROVE FolderTold'
  BY <1>6, <1>10 DEF RebuildFromSource, Leave, Release, Crash
<1>11. ASSUME NEW w \in Writers, WorkOn(w) PROVE FolderTold'
  <2>1. UNCHANGED <<rpc, sure>>
    BY <1>11 DEF WorkOn, WriterStep, Resolve, SweepSkip, SweepTake, UnlinkDb, UnlinkSidecar, EndSweep, StartWhole,
                 StartVacuum, CommitWhole, StartRefresh, CommitRefresh, NoDrift, EndVacuum, Publish, Fail,
                 FindMalformed, Release
  <2> QED BY <1>6, <2>1
<1>12. ASSUME NEW p \in Procs, OpenLock(p) \/ Move(p) \/ Seal(p) \/ SealFails(p) \/ PublishMigrated(p) PROVE FolderTold'
  BY <1>6, <1>12 DEF OpenLock, Move, Seal, SealFails, PublishMigrated
<1>13. ASSUME NEW p \in Procs, NEW n \in Versions, ChooseMove(p, n) \/ ChooseCopy(p, n) PROVE FolderTold'
  BY <1>6, <1>13 DEF ChooseMove, ChooseCopy
<1>14. CASE Elder \/ RemoveStart \/ RemovePointer \/ RemoveOlder \/ RemoveLock \/ LoseRemover
  BY <1>6, <1>14 DEF Elder, RemoveStart, RemovePointer, RemoveOlder, RemoveLock, LoseRemover
<1>15. ASSUME NEW v \in Versions, RemoveVersion(v) PROVE FolderTold'
  BY <1>6, <1>15 DEF RemoveVersion
<1> QED BY <1>1, <1>3, <1>4, <1>7, <1>8, <1>9, <1>10, <1>11, <1>12, <1>13, <1>14, <1>15 DEF FolderStep

\* While no two have met, who works in the folder works alone.
LEMMA SoleWorker ==
  ASSUME FolderInv, ~met, NEW p \in Working
  PROVE  /\ \A q \in Working : q = p
         /\ \A w \in Writers \ {p} : wpc[w] = "idle"
         /\ \A q \in Procs \ {p} : mig[q] = "none"
         /\ \A w \in Writers : mig[p] # "none" => wpc[w] \in {"idle", "resolve"}
<1>1. \A q \in Working : q = p
  BY ProcFacts DEF FolderInv, FolderLock, Collision
<1>2. \A q \in Procs : mig[q] # "none" => q \in Working /\ (q \in Writers => wpc[q] = "resolve")
  BY DEF FolderInv, FolderLock
<1> QED BY <1>1, <1>2, ProcFacts DEF Working

LEMMA FreshIsNew ==
  ASSUME FolderTypes, FolderWhole, NEW n, IsNextVersion(n)
  PROVE  n \in Versions /\ n # 0 /\ n \notin db /\ n \notin complete /\ n # pointer.cur
<1>1. n \in Versions /\ n \notin db
  BY VersionFacts DEF IsNextVersion, OnDisk, FolderTypes
<1> QED BY <1>1, VersionFacts DEF FolderWhole, FolderTypes

\* What FNext says of gone, as FolderFound needs it.
LEMMA GoneStep ==
  ASSUME FNext, pointer'.cur = 0
  PROVE  /\ gone \/ rm' # rm => gone'
         /\ \A p \in Procs : ~older /\ mig[p] \in {"moved", "sealed"} /\ mig'[p] = "none" => gone'
  BY DEF FNext, Moved

\* The steps that leave the database files, the pointer, the writers and the migrations alone.
LEMMA QuietStep ==
  ASSUME FolderAlone, FNext, UNCHANGED <<db, complete, pointer, wpc, base, new, todo, victim, mig, target, older>>
  PROVE  FolderAlone'
<1>1. FolderWhole' /\ FolderBuild' /\ FolderMigrate'
  BY DEF FolderAlone, FolderWhole, FolderBuild, FolderMigrate
<1>2. FolderFound'
  BY GoneStep DEF FolderAlone, FolderFound
<1> QED BY <1>1, <1>2 DEF FolderAlone

\* p, in the lock of nobody, stops what it does: it is closed, leaves or is killed.
LEMMA StopStep ==
  ASSUME FolderInv, FolderAlone, FNext, NEW p \in Procs, UNCHANGED <<db, complete, pointer, older>>,
         mig' = [mig EXCEPT ![p] = "none"], target' = [target EXCEPT ![p] = 0],
         UNCHANGED <<wpc, base, new, todo, victim>> \/ (p \in Writers /\ LetGo(p))
  PROVE  FolderAlone'
<1>0. FolderTypes
  BY DEF FolderInv
<1>1. FolderWhole'
  BY DEF FolderAlone, FolderWhole
<1>2. FolderBuild'
  BY <1>0 DEF FolderAlone, FolderBuild, LetGo, FolderTypes
<1>3. FolderMigrate'
  BY <1>0 DEF FolderAlone, FolderMigrate, FolderTypes
<1>4. FolderFound'
  <2>1. SUFFICES ASSUME pointer.cur = 0, ~older, NEW q \in Procs, mig[q] \in {"moved", "sealed"} PROVE FolderFound'
    BY GoneStep DEF FolderAlone, FolderFound
  <2>2. CASE q = p
    <3>1. mig'[q] = "none"
      BY <1>0, <2>2 DEF FolderTypes
    <3> QED BY <2>1, <3>1, GoneStep DEF FolderFound
  <2>3. CASE q # p
    <3>1. mig'[q] = mig[q]
      BY <1>0, <2>3 DEF FolderTypes
    <3> QED BY <2>1, <3>1 DEF FolderFound
  <2> QED BY <2>2, <2>3
<1> QED BY <1>1, <1>2, <1>3, <1>4 DEF FolderAlone

\* A writer at its own work: nothing is being migrated, the other writers are idle.
LEMMA WorkStep ==
  ASSUME FolderInv, ~met, FNext, NEW w \in Writers, WorkOn(w)
  PROVE  FolderAlone'
<1> USE DEF diskVars, readerVars, writerVars, vars
<1>0. FolderTypes /\ FolderAlone /\ mig' = mig /\ mig[w] = "none"
  BY DEF FolderInv, WorkOn
<1>1. wpc[w] # "idle"
  BY DEF WorkOn, WriterStep, Resolve, SweepSkip, SweepTake, UnlinkDb, UnlinkSidecar, EndSweep, StartWhole,
         StartVacuum, CommitWhole, StartRefresh, CommitRefresh, NoDrift, EndVacuum, Publish, Fail,
         FindMalformed, Release
<1>2. /\ \A v \in Writers \ {w} : wpc[v] = "idle" /\ new[v] = 0 /\ base[v] = 0
      /\ \A p \in Procs : mig[p] = "none"
  BY <1>0, <1>1, SoleWorker, ProcFacts DEF Working, FolderAlone, FolderBuild
<1>3. FolderMigrate'
  BY <1>0, <1>2 DEF FolderMigrate
<1>4. ASSUME pointer'.cur = 0 => pointer.cur = 0 /\ (~older' => ~older) PROVE FolderFound'
  BY <1>0, <1>2, <1>4, GoneStep DEF FolderFound, FolderAlone
<1>5. ASSUME FolderWhole', FolderFound',
             \A v \in Writers \ {w} : UNCHANGED <<wpc[v], new[v], base[v]>>,
             /\ wpc'[w] \in {"sweep", "unlinkDb", "unlinkSidecar"} => pointer'.cur # 0 /\ pointer'.cur \notin todo'[w]
             /\ wpc'[w] \in {"unlinkDb", "unlinkSidecar"} => victim'[w] # pointer'.cur
             /\ wpc'[w] \in {"refreshing", "drift", "vacuum"} => pointer'.cur # 0
             /\ wpc'[w] \in {"resolve", "plan", "refreshing", "drift"} => new'[w] = 0
             /\ wpc'[w] \notin {"idle", "resolve"}
             /\ wpc'[w] = "plan" /\ base'[w] # 0 => pointer'.cur # 0
             /\ wpc'[w] \in {"writing", "vacuum", "publish"} => new'[w] \in db' /\ new'[w] # pointer'.cur
             /\ wpc'[w] \in {"writing", "vacuum"} => new'[w] \notin complete'
             /\ wpc'[w] = "publish" => new'[w] \in complete'
      PROVE  FolderAlone'
  <2>1. \A v \in Writers \ {w} : wpc'[v] = "idle" /\ new'[v] = 0 /\ base'[v] = 0
    BY <1>2, <1>5
  <2>2. FolderBuild'
    BY <1>5, <2>1 DEF FolderBuild
  <2> QED BY <1>3, <1>5, <2>2 DEF FolderAlone
<1> USE DEF FolderAlone, FolderWhole, FolderBuild, FolderTypes, WorkOn
<1>6. CASE Resolve(w)
  <2>1. FolderWhole' /\ FolderFound'
    BY <1>0, <1>4, <1>6 DEF Resolve
  <2> QED BY <1>0, <1>5, <1>6, <2>1 DEF Resolve, RetiredVersions
<1>7. ASSUME NEW v \in Versions, SweepSkip(w, v) PROVE FolderAlone'
  <2>1. FolderWhole' /\ FolderFound'
    BY <1>0, <1>4, <1>7 DEF SweepSkip
  <2> QED BY <1>0, <1>5, <1>7, <2>1 DEF SweepSkip
<1>8. ASSUME NEW v \in Versions, SweepTake(w, v) PROVE FolderAlone'
  <2>1. FolderWhole' /\ FolderFound'
    BY <1>0, <1>4, <1>8 DEF SweepTake
  <2> QED BY <1>0, <1>5, <1>8, <2>1 DEF SweepTake
<1>9. CASE UnlinkDb(w)
  <2>1. FolderWhole' /\ FolderFound'
    BY <1>0, <1>4, <1>9 DEF UnlinkDb
  <2> QED BY <1>0, <1>5, <1>9, <2>1 DEF UnlinkDb
<1>10. CASE UnlinkSidecar(w)
  <2>1. FolderWhole' /\ FolderFound'
    BY <1>0, <1>4, <1>10 DEF UnlinkSidecar
  <2> QED BY <1>0, <1>5, <1>10, <2>1 DEF UnlinkSidecar
<1>11. CASE EndSweep(w)
  <2>1. pointer'.cur = pointer.cur /\ pointer.cur # 0
    BY <1>0, <1>11 DEF EndSweep
  <2>2. FolderWhole' /\ FolderFound'
    BY <1>0, <1>4, <1>11, <2>1 DEF EndSweep
  <2> QED BY <1>0, <1>5, <1>11, <2>1, <2>2 DEF EndSweep, RetiredVersions
<1>12. ASSUME NEW n \in Versions, StartWhole(w, n) \/ StartVacuum(w, n) PROVE FolderAlone'
  <2>1. n # 0 /\ n \notin db /\ n \notin complete /\ n # pointer.cur
    BY <1>0, <1>12, FreshIsNew DEF StartWhole, StartVacuum
  <2>2. FolderWhole' /\ FolderFound'
    BY <1>0, <1>4, <1>12 DEF StartWhole, StartVacuum
  <2> QED BY <1>0, <1>5, <1>12, <2>1, <2>2 DEF StartWhole, StartVacuum
<1>13. CASE CommitWhole(w) \/ EndVacuum(w)
  <2>1. FolderWhole' /\ FolderFound'
    BY <1>0, <1>4, <1>13 DEF CommitWhole, EndVacuum
  <2> QED BY <1>0, <1>5, <1>13, <2>1 DEF CommitWhole, EndVacuum
<1>14. CASE StartRefresh(w) \/ CommitRefresh(w) \/ NoDrift(w)
  <2>1. FolderWhole' /\ FolderFound'
    BY <1>0, <1>4, <1>14 DEF StartRefresh, CommitRefresh, NoDrift
  <2> QED BY <1>0, <1>5, <1>14, <2>1 DEF StartRefresh, CommitRefresh, NoDrift, RetiredVersions
<1>15. CASE Publish(w)
  <2>1. pointer'.cur = new[w] /\ new[w] # 0 /\ new[w] \in complete
    BY <1>0, <1>15, VersionFacts DEF Publish
  <2>2. FolderWhole' /\ FolderFound'
    BY <1>0, <1>4, <1>15, <2>1 DEF Publish
  <2> QED BY <1>0, <1>5, <1>15, <2>1, <2>2 DEF Publish, RetiredVersions
<1>16. CASE Fail(w) \/ FindMalformed(w)
  <2>1. new[w] \notin complete
    BY <1>0, <1>16, VersionFacts DEF Fail, FindMalformed
  <2>2. FolderWhole' /\ FolderFound'
    BY <1>0, <1>4, <1>16, <2>1 DEF Fail, FindMalformed
  <2> QED BY <1>0, <1>5, <1>16, <2>1, <2>2 DEF Fail, FindMalformed
<1>17. ~Release(w)
  BY DEF Release
<1> QED BY <1>6, <1>7, <1>8, <1>9, <1>10, <1>11, <1>12, <1>13, <1>14, <1>15, <1>16, <1>17 DEF WriterStep

\* A step of a migration: its process works alone, and the writers have not begun.
LEMMA MigrateStep ==
  ASSUME FolderInv, ~met, FNext, NEW p \in Procs,
         \/ Move(p) \/ Seal(p) \/ SealFails(p) \/ PublishMigrated(p)
         \/ \E n \in Versions : ChooseMove(p, n) \/ ChooseCopy(p, n)
  PROVE  FolderAlone'
<1> USE DEF diskVars, readerVars, writerVars, vars
<1>0. FolderTypes /\ FolderAlone
  BY DEF FolderInv
<1>1. p \in Working /\ (p \in Writers => wpc[p] = "resolve")
  <2>1. CASE \E n \in Versions : ChooseMove(p, n) \/ ChooseCopy(p, n)
    BY <2>1, ProcFacts DEF ChooseMove, ChooseCopy, Migrates, Working, Procs
  <2>2. CASE mig[p] # "none"
    BY <2>2 DEF FolderInv, FolderLock
  <2> QED BY <2>1, <2>2 DEF Move, Seal, SealFails, PublishMigrated
<1>2. /\ \A q \in Procs \ {p} : mig[q] = "none"
      /\ \A w \in Writers : wpc[w] \in {"idle", "resolve"} /\ new[w] = 0 /\ base[w] = 0
  BY <1>0, <1>1, SoleWorker DEF FolderAlone, FolderBuild
<1>3. pointer.cur = 0
  BY <1>0 DEF Move, Seal, SealFails, PublishMigrated, ChooseMove, ChooseCopy, Migrates, FolderAlone, FolderMigrate
<1>4. FolderBuild'
  <2>1. UNCHANGED <<wpc, new, base>>
    BY DEF Move, Seal, SealFails, PublishMigrated, ChooseMove, ChooseCopy
  <2> QED BY <1>2, <2>1 DEF FolderBuild
<1>5. ASSUME FolderWhole', FolderFound',
             \A q \in Procs \ {p} : mig'[q] = mig[q],
             /\ mig'[p] # "none" => pointer'.cur = 0
             /\ mig'[p] \in {"moving", "moved", "copying"} => target'[p] \notin complete'
             /\ mig'[p] \in {"moved", "copying"} => target'[p] \in db'
             /\ mig'[p] = "sealed" => target'[p] \in complete'
      PROVE  FolderAlone'
  <2>1. \A q \in Procs \ {p} : mig'[q] = "none"
    BY <1>2, <1>5
  <2>2. FolderMigrate'
    BY <1>5, <2>1 DEF FolderMigrate
  <2> QED BY <1>4, <1>5, <2>2 DEF FolderAlone
<1> USE DEF FolderAlone, FolderWhole, FolderMigrate, FolderTypes
<1>6. CASE Move(p)
  <2>1. mig'[p] = "moved" /\ \A q \in Procs \ {p} : mig'[q] = mig[q]
    BY <1>0, <1>6 DEF Move
  <2>2. FolderWhole' /\ FolderFound'
    BY <1>0, <1>6, <2>1 DEF Move, FolderFound
  <2> QED BY <1>0, <1>3, <1>5, <1>6, <2>1, <2>2 DEF Move
<1>7. CASE Seal(p)
  <2>1. mig'[p] = "sealed" /\ \A q \in Procs \ {p} : mig'[q] = mig[q]
    BY <1>0, <1>7 DEF Seal
  <2>2. FolderWhole' /\ FolderFound'
    BY <1>0, <1>7, <2>1 DEF Seal, FolderFound
  <2> QED BY <1>0, <1>3, <1>5, <1>7, <2>1, <2>2 DEF Seal
<1>8. CASE SealFails(p)
  <2>1. mig'[p] = "failed" /\ \A q \in Procs \ {p} : mig'[q] = mig[q]
    BY <1>0, <1>8 DEF SealFails
  <2>2. FolderWhole'
    BY <1>0, <1>8 DEF SealFails
  <2>3. FolderFound'
    BY <1>0, <1>2, <1>8, <2>1, GoneStep DEF SealFails, FolderFound
  <2> QED BY <1>0, <1>3, <1>5, <1>8, <2>1, <2>2, <2>3 DEF SealFails
<1>9. CASE PublishMigrated(p)
  <2>1. mig'[p] = "none" /\ \A q \in Procs \ {p} : mig'[q] = mig[q]
    BY <1>0, <1>9 DEF PublishMigrated
  <2>2. pointer'.cur # 0 /\ pointer'.cur \in complete
    BY <1>0, <1>9, VersionFacts DEF PublishMigrated
  <2>3. FolderWhole' /\ FolderFound'
    BY <1>0, <1>9, <2>2 DEF PublishMigrated, FolderFound
  <2> QED BY <1>5, <2>1, <2>3
<1>10. ASSUME NEW n \in Versions, ChooseMove(p, n) \/ ChooseCopy(p, n) PROVE FolderAlone'
  <2>1. n \notin db /\ n \notin complete
    BY <1>0, <1>10, FreshIsNew DEF ChooseMove, ChooseCopy
  <2>2. /\ mig'[p] \in {"moving", "copying"} /\ target'[p] = n /\ \A q \in Procs \ {p} : mig'[q] = mig[q]
        /\ mig[p] = "none"
    BY <1>0, <1>10 DEF ChooseMove, ChooseCopy, Migrates
  <2>3. FolderWhole' /\ FolderFound'
    BY <1>0, <1>10 DEF ChooseMove, ChooseCopy, Migrates, FolderFound
  <2> QED BY <1>0, <1>3, <1>5, <1>10, <2>1, <2>2, <2>3 DEF ChooseMove, ChooseCopy
<1> QED BY <1>6, <1>7, <1>8, <1>9, <1>10

\* A step of the removal: nobody else works.
LEMMA RemoveStep ==
  ASSUME FolderInv, ~met, FNext,
         RemovePointer \/ RemoveOlder \/ \E v \in Versions : RemoveVersion(v)
  PROVE  FolderAlone'
<1> USE DEF diskVars, readerVars, writerVars, vars, lockVars, rmVars, migVars
<1>0. /\ FolderTypes /\ FolderAlone
      /\ \A w \in Writers : wpc[w] = "idle" /\ new[w] = 0 /\ base[w] = 0
      /\ \A p \in Procs : mig[p] = "none"
      /\ rm = "pointerGone" => pointer.cur = 0 /\ gone
  BY NobodyBesideRemoval DEF FolderInv, FolderRemoval, FolderAlone, FolderBuild, RemovePointer, RemoveOlder, RemoveVersion
<1>1. pointer'.cur = 0 /\ UNCHANGED <<wpc, new, base, mig>>
  BY <1>0 DEF RemovePointer, RemoveOlder, RemoveVersion
<1>2. FolderBuild' /\ FolderMigrate'
  BY <1>0, <1>1 DEF FolderBuild, FolderMigrate
<1>3. FolderWhole'
  BY <1>0, <1>1 DEF FolderWhole, FolderAlone, RemovePointer, RemoveOlder, RemoveVersion
<1>4. gone'
  BY <1>0, <1>1, GoneStep DEF RemovePointer, RemoveOlder, RemoveVersion
<1> QED BY <1>2, <1>3, <1>4 DEF FolderAlone, FolderFound

LEMMA FolderAloneStep == ASSUME FolderInv, ~met, FNext PROVE FolderAlone'
<1> USE DEF diskVars, readerVars, writerVars, vars, lockVars, rmVars, migVars
<1>0. FolderStep /\ FolderTypes /\ FolderAlone
  BY DEF FNext, FolderInv
<1>1. ASSUME NEW r \in Readers, ReaderStep(r) \/ LookForOlder(r) \/ TakeAsReader(r) PROVE FolderAlone'
  BY <1>0, <1>1, QuietStep DEF ReaderStep, ConnectStep, ReadPointer, CheckNamed, OpenSidecar, LockShared, CheckHold,
                               LookForOlder, TakeAsReader
<1>2. ASSUME NEW r \in Readers, FindInLock(r) \/ Shut(r) PROVE FolderAlone'
  BY <1>0, <1>2, StopStep, ProcFacts DEF FindInLock, Shut, CloseLock
<1>3. ASSUME NEW w \in Writers, NEW k \in Kinds, TakeNamed(w, k) \/ TakeStray(w, k) PROVE FolderAlone'
  <2>1. /\ wpc' = [wpc EXCEPT ![w] = "resolve"] /\ wpc[w] = "idle"
        /\ UNCHANGED <<db, complete, pointer, base, new, todo, victim, mig, target, older>>
    BY <1>3 DEF TakeNamed, TakeStray, Acquire
  <2>2. FolderWhole' /\ FolderBuild' /\ FolderMigrate'
    BY <1>0, <2>1 DEF FolderAlone, FolderWhole, FolderBuild, FolderMigrate, FolderTypes
  <2>3. FolderFound'
    BY <1>0, <2>1, GoneStep DEF FolderAlone, FolderFound
  <2> QED BY <2>2, <2>3 DEF FolderAlone
<1>4. ASSUME NEW w \in Writers, RebuildFromSource(w) PROVE FolderAlone'
  <2>1. /\ mig' = [mig EXCEPT ![w] = "none"] /\ mig[w] = "failed" /\ wpc' = [wpc EXCEPT ![w] = "plan"]
        /\ target' = [target EXCEPT ![w] = 0]
        /\ UNCHANGED <<db, complete, pointer, base, new, todo, victim, older>>
    BY <1>4 DEF RebuildFromSource
  <2>2. wpc[w] = "resolve" /\ w \in Procs
    BY <2>1, ProcFacts DEF FolderInv, FolderLock
  <2>3. FolderWhole' /\ FolderMigrate'
    BY <1>0, <2>1 DEF FolderAlone, FolderWhole, FolderMigrate, FolderTypes
  <2>4. FolderBuild'
    BY <1>0, <2>1, <2>2 DEF FolderAlone, FolderBuild, FolderTypes
  <2>5. \A p \in Procs : mig[p] \in {"moved", "sealed"} => mig'[p] = mig[p]
    BY <1>0, <2>1 DEF FolderTypes
  <2>6. FolderFound'
    BY <1>0, <2>1, <2>5, GoneStep DEF FolderAlone, FolderFound
  <2> QED BY <2>3, <2>4, <2>6 DEF FolderAlone
<1>5. ASSUME NEW w \in Writers, Leave(w) PROVE FolderAlone'
  BY <1>0, <1>5, StopStep, ProcFacts DEF Leave, Release, Crash, CloseLock
<1>6. ASSUME NEW p \in Procs, OpenLock(p) PROVE FolderAlone'
  BY <1>0, <1>6, QuietStep DEF OpenLock
<1>7. CASE Elder \/ RemoveStart \/ RemoveLock \/ LoseRemover
  BY <1>0, <1>7, QuietStep DEF Elder, RemoveStart, RemoveLock, LoseRemover
<1> QED BY <1>0, <1>1, <1>2, <1>3, <1>4, <1>5, <1>6, <1>7, WorkStep, MigrateStep, RemoveStep DEF FolderStep

LEMMA FolderInductive == FolderInv /\ [FNext]_allVars => FolderInv'
<1> SUFFICES ASSUME FolderInv, [FNext]_allVars PROVE FolderInv'
  OBVIOUS
<1>1. CASE FNext
  <2>1. FolderStep /\ (~met' => ~met /\ ~Collision')
    BY <1>1 DEF FNext
  <2>2. FolderTypes' /\ FolderLock' /\ FolderRemoval' /\ FolderTold'
    BY <1>1, <2>1, FolderTypesStep, FolderLockStep, FolderRemovalStep, FolderToldStep
  <2> QED BY <1>1, <2>1, <2>2, FolderAloneStep DEF FolderInv
<1>2. CASE UNCHANGED allVars
  BY <1>2 DEF allVars, vars, diskVars, readerVars, writerVars, lockVars, rmVars, migVars, history, FolderInv, FolderTypes,
              FolderLock, FolderRemoval, FolderTold, FolderAlone, FolderWhole, FolderBuild, FolderMigrate, FolderFound,
              Working, Collision, HoldsShared
<1> QED BY <1>1, <1>2

LEMMA FolderInitial == FInit => FolderInv
<1> SUFFICES ASSUME FInit PROVE FolderInv
  OBVIOUS
<1> USE VersionFacts, ProcFacts DEF FInit, Init
<1>1. FolderTypes
  BY DEF FolderTypes, Kinds
<1>2. FolderLock /\ FolderRemoval /\ FolderTold
  BY DEF FolderLock, FolderRemoval, FolderTold, Working, HoldsShared
<1>3. ~Collision /\ FolderAlone
  BY DEF Collision, FolderAlone, FolderWhole, FolderBuild, FolderMigrate, FolderFound
<1> QED BY <1>1, <1>2, <1>3 DEF FolderInv

THEOREM FolderCorrect == FSpec => []FolderInv
BY FolderInitial, FolderInductive, PTL DEF FSpec

\* The pointer names a whole version, however builds, sweeps, compactions, migrations,
\* a removal, failures and kills interleave (store.py: _install, remove_graph,
\* _migrate_legacy), unless two have written beside each other after graph.lock itself
\* was unlinked.
THEOREM OnlyMeetingsDangle == FSpec => []OnlyCollisionsDangle
<1>1. FolderInv => OnlyCollisionsDangle
  BY DEF FolderInv, FolderAlone, FolderWhole, OnlyCollisionsDangle
<1> QED BY <1>1, FolderCorrect, PTL

\* A reader is told that there is no graph only when the older store was on its way
\* into the pointer, was published behind the reader's look, or was gone
\* (store.py: _readable_pointer, _locked_pointer).
THEOREM NothingElseHides == FSpec => []OnlyMovesHide
<1>1. FolderInv => OnlyMovesHide
  BY DEF FolderInv, FolderTold, OnlyMovesHide
<1> QED BY <1>1, FolderCorrect, PTL

\* No step of a removal deletes the database under a connection (store.py: remove_graph).
THEOREM RemovalSparesReaders == FSpec => HeldIsNotRemoved
<1>1. ASSUME FolderInv, [FNext]_allVars, rmNames' # rmNames, NEW r \in Readers, rpc[r] = "held", fresh[r]
      PROVE  rver[r] \notin db \ db'
  <2>1. FNext
    BY <1>1 DEF allVars, rmVars
  <2>2. ~ HoldsShared(r, rver[r]) \/ rver[r] \notin rmNames
    BY <1>1 DEF FolderInv, FolderRemoval
  <2>3. rver[r] \notin rmNames
    BY <1>1, <2>2 DEF HoldsShared
  <2>4. CASE \E v \in Versions : RemoveVersion(v)
    BY <2>3, <2>4 DEF RemoveVersion
  <2>5. CASE RemoveStart \/ LoseRemover
    BY <2>5 DEF RemoveStart, LoseRemover, diskVars
  <2>6. (\E v \in Versions : RemoveVersion(v)) \/ RemoveStart \/ LoseRemover
    BY <1>1, <2>1 DEF FNext, FolderStep, Elder, ReaderStep, LookForOlder, TakeAsReader, FindInLock, Shut, TakeNamed,
                      TakeStray, RebuildFromSource, WorkOn, Leave, OpenLock, Move, Seal, SealFails, PublishMigrated,
                      ChooseMove, ChooseCopy, RemovePointer, RemoveOlder, RemoveLock, rmVars
  <2> QED BY <2>4, <2>5, <2>6
<1>2. FolderInv /\ [FNext]_allVars =>
        [rmNames' # rmNames => \A r \in Readers : rpc[r] = "held" /\ fresh[r] => rver[r] \notin db \ db']_allVars
  BY <1>1
<1> QED BY <1>2, FolderCorrect, PTL DEF FSpec, HeldIsNotRemoved

-----------------------------------------------------------------------------
(***************************************************************************)
(* The overlays of lanes (LaneOverlay).                                    *)
(***************************************************************************)

\* Between the first pass and its names, and up to the end, the draft has rows.
HasRows == lpc \in {"owe", "install", "second", "paid"}

\* The base: numbers come from the clock, and the stamp lags while rows are unannounced.
BaseInv ==
  /\ bver <= clock + 1
  /\ bpc = "pruned" => bver <= clock
  /\ \A v \in BaseVersions : held[v].stamp <= clock
  /\ bpc = "rows" => held[bver].stamp < clock

\* The lane's writer works on a draft of its own until that is installed.
ShapeInv ==
  /\ lpc = "idle" => draft = NoOverlay /\ ~reuse
  /\ lpc # "idle" => draft \in Overlays
  /\ reuse => overlay = draft
  /\ lpc = "install" => ~reuse
  /\ lpc \in {"second", "paid"} => reuse

\* Every moved name is owed, about to be, or counted as forgotten.
Inherited == IF reuse THEN forgotten ELSE {}
Unrecorded == IF lpc = "owe" THEN moved ELSE {}
DebtInv ==
  /\ overlay # NoOverlay /\ ~reuse => overlay.unresolved \subseteq overlay.owed \cup forgotten
  /\ lpc # "idle" => draft.unresolved \subseteq draft.owed \cup Unrecorded \cup Inherited
  /\ lpc = "paid" => draft.unresolved \subseteq forgotten

\* An overlay of the current version with its stamp has seen what it holds only,
\* while the base's writer is at rest and has not torn that version.
Settled(o) ==
  /\ o.ver <= bver
  /\ o.ver = bver => o.stamp <= held[bver].stamp
  /\ o.ver = bver /\ o.stamp = held[bver].stamp /\ bpc = "idle" /\ bver \notin torn
       => o.against \subseteq {held[bver].gen}

SeenInv ==
  /\ overlay # NoOverlay => Settled(overlay) /\ overlay.against # {}
  /\ lpc # "idle" => Settled(draft)
  /\ HasRows => draft.against # {}

\* What the lane shows is on its disk, and a draft does not lag behind it.
OwnInv ==
  /\ overlay # NoOverlay => overlay.own <= laneTree
  /\ lpc # "idle" => draft.own <= laneTree
  /\ HasRows /\ overlay # NoOverlay => overlay.own <= draft.own

LaneInv == LaneTypeOK /\ BaseInv /\ ShapeInv /\ DebtInv /\ SeenInv /\ OwnInv

-----------------------------------------------------------------------------

\* An overlay is told from none by its base version.
LEMMA SomeOverlay == \A o \in Overlays : o # NoOverlay
  BY WritesAssumption DEF Overlays, NoOverlay, BaseVersions

LEMMA LaneInitHolds == LaneInit => LaneInv
<1> SUFFICES ASSUME LaneInit PROVE LaneInv
  OBVIOUS
<1> USE WritesAssumption DEF LaneInit
<1>1. LaneTypeOK
  <2>1. bver \in BaseVersions /\ 0 \in 0..MaxBaseWrites /\ 0 \in 0..MaxLaneEdits
    BY DEF BaseVersions
  <2> QED BY <2>1 DEF LaneTypeOK
<1>2. BaseInv
  BY DEF BaseInv, BaseVersions
<1>3. ShapeInv
  BY DEF ShapeInv
<1>4. DebtInv
  BY DEF DebtInv
<1>5. SeenInv /\ OwnInv
  BY DEF SeenInv, OwnInv, HasRows
<1> QED BY <1>1, <1>2, <1>3, <1>4, <1>5 DEF LaneInv

-----------------------------------------------------------------------------
(* One lemma per part of the invariant, one step per action that can disturb it. *)

\* Whatever a pass commits is an overlay again.
LEMMA DraftStep == LaneInv /\ (FirstPass \/ Owe \/ SecondPass \/ PayOff) => draft' \in Overlays
<1> SUFFICES ASSUME LaneInv, FirstPass \/ Owe \/ SecondPass \/ PayOff PROVE draft' \in Overlays
  OBVIOUS
<1> USE WritesAssumption DEF LaneInv, LaneTypeOK
<1>1. draft \in Overlays
  BY DEF FirstPass, Owe, SecondPass, PayOff, ShapeInv
<1>2. held[draft.ver].gen \in 0..MaxBaseWrites
  BY <1>1 DEF Overlays
<1>3. CASE FirstPass
  <2>1. moved' \subseteq Revisions
    BY <1>1, <1>3 DEF FirstPass, Revisions, Overlays
  <2> QED BY <1>1, <1>2, <1>3, <2>1 DEF FirstPass, Commit, Overlays
<1>4. CASE Owe
  BY <1>1, <1>4 DEF Owe, Commit, Overlays
<1>5. CASE SecondPass
  BY <1>1, <1>2, <1>5 DEF SecondPass, Commit, Overlays
<1>6. CASE PayOff
  BY <1>1, <1>6 DEF PayOff, Commit, Overlays
<1> QED BY <1>3, <1>4, <1>5, <1>6

\* A lane's build begins with an overlay, the published one or an empty one.
LEMMA StartDraft == LaneInv /\ StartLane => draft' \in Overlays
<1> SUFFICES ASSUME LaneInv, StartLane PROVE draft' \in Overlays
  OBVIOUS
<1>1. CASE reuse'
  BY <1>1 DEF StartLane, OverlayOf, LaneInv, LaneTypeOK
<1>2. CASE ~reuse'
  <2>1. draft' = [ver |-> bver, stamp |-> held[bver].stamp, against |-> {},
                  own |-> 0, unresolved |-> {}, owed |-> {}]
    BY <1>2 DEF StartLane
  <2>2. bver \in BaseVersions /\ held[bver].stamp \in 0..MaxBaseWrites /\ 0 \in 0..MaxLaneEdits
    BY WritesAssumption DEF LaneInv, LaneTypeOK
  <2> QED BY <2>1, <2>2 DEF Overlays
<1> QED BY <1>1, <1>2

LEMMA LaneTypeStep == LaneInv /\ [LaneNext]_overlayVars => LaneTypeOK'
<1> SUFFICES ASSUME LaneInv, [LaneNext]_overlayVars PROVE LaneTypeOK'
  OBVIOUS
<1> USE WritesAssumption DEF LaneInv, LaneTypeOK
<1>1. CASE EditLane
  BY <1>1 DEF EditLane, baseVars, laneVars
<1>2. CASE CommitBaseRows
  BY <1>2 DEF CommitBaseRows, laneVars
<1>3. CASE StampBase
  BY <1>3 DEF StampBase, laneVars
<1>4. CASE RebuildBase
  <2>1. bver' \in BaseVersions
    BY <1>4 DEF RebuildBase, BaseVersions, BaseInv
  <2> QED BY <1>4, <2>1 DEF RebuildBase, laneVars
<1>5. CASE PruneKeys
  BY <1>5 DEF PruneKeys, laneVars
<1>6. CASE PublishCompacted
  <2>1. bver' \in BaseVersions
    BY <1>6 DEF PublishCompacted, BaseVersions, BaseInv
  <2> QED BY <1>6, <2>1 DEF PublishCompacted, laneVars
<1>7. CASE LoseBaseWriter
  BY <1>7 DEF LoseBaseWriter, laneVars
<1>8. CASE StartLane
  <2>1. draft' \in Overlays
    BY <1>8, StartDraft
  <2>2. reuse' \in BOOLEAN
    BY <1>8 DEF StartLane, OverlayOf
  <2> QED BY <1>8, <2>1, <2>2 DEF StartLane, baseVars
<1>9. CASE FirstPass \/ Owe \/ SecondPass \/ PayOff
  <2>1. draft' \in Overlays
    BY <1>9, DraftStep
  <2>2. overlay' \in Overlays \cup {NoOverlay}
    BY <1>9, <2>1 DEF FirstPass, Owe, SecondPass, PayOff, Commit
  <2>3. moved' \subseteq Revisions
    <3>1. CASE FirstPass
      <4>1. draft \in Overlays
        BY <3>1 DEF FirstPass, ShapeInv
      <4> QED BY <3>1, <4>1 DEF FirstPass, Revisions, Overlays
    <3> QED BY <1>9, <3>1 DEF Owe, SecondPass, PayOff
  <2>4. lpc' \in {"owe", "second", "install", "paid"} /\ UNCHANGED <<laneTree, baseVars, reuse, forgotten>>
    BY <1>9 DEF FirstPass, Owe, SecondPass, PayOff
  <2> QED BY <2>1, <2>2, <2>3, <2>4 DEF baseVars
<1>10. CASE InstallOverlay \/ EndLane \/ LoseLaneWriter
  BY <1>10 DEF InstallOverlay, EndLane, LoseLaneWriter, baseVars
<1>11. CASE UNCHANGED overlayVars
  BY <1>11 DEF overlayVars, baseVars, laneVars
<1> QED BY <1>1, <1>2, <1>3, <1>4, <1>5, <1>6, <1>7, <1>8, <1>9, <1>10, <1>11 DEF LaneNext

LEMMA BaseStep == LaneInv /\ [LaneNext]_overlayVars => BaseInv'
<1> SUFFICES ASSUME LaneInv, [LaneNext]_overlayVars PROVE BaseInv'
  OBVIOUS
<1> USE WritesAssumption DEF LaneInv, LaneTypeOK, BaseInv, BaseVersions
<1>1. CASE CommitBaseRows
  BY <1>1 DEF CommitBaseRows
<1>2. CASE StampBase
  BY <1>2 DEF StampBase
<1>3. CASE RebuildBase
  BY <1>3 DEF RebuildBase
<1>4. CASE PruneKeys
  BY <1>4 DEF PruneKeys
<1>5. CASE PublishCompacted
  BY <1>5 DEF PublishCompacted
<1>6. CASE LoseBaseWriter
  BY <1>6 DEF LoseBaseWriter
<1>7. CASE UNCHANGED baseVars
  BY <1>7 DEF baseVars
<1> QED BY <1>1, <1>2, <1>3, <1>4, <1>5, <1>6, <1>7
        DEF LaneNext, overlayVars, EditLane, StartLane, FirstPass, Owe, InstallOverlay, SecondPass, PayOff, EndLane, LoseLaneWriter

LEMMA ShapeStep == LaneInv /\ [LaneNext]_overlayVars => ShapeInv'
<1> SUFFICES ASSUME LaneInv, [LaneNext]_overlayVars PROVE ShapeInv'
  OBVIOUS
<1> USE DEF LaneInv, ShapeInv
<1>1. CASE UNCHANGED laneVars
  BY <1>1 DEF laneVars
<1>2. CASE StartLane
  <2>1. draft' \in Overlays
    BY <1>2, StartDraft DEF LaneInv
  <2> QED BY <1>2, <2>1 DEF StartLane
<1>3. CASE FirstPass \/ Owe \/ SecondPass \/ PayOff
  <2>1. lpc # "idle" /\ lpc' # "idle" /\ reuse' = reuse /\ (lpc' \in {"second", "paid"} => reuse)
        /\ (lpc' = "install" => ~reuse) /\ overlay' = (IF reuse THEN draft' ELSE overlay)
    BY <1>3 DEF FirstPass, Owe, SecondPass, PayOff, Commit
  <2>2. draft' \in Overlays
    BY <1>3, DraftStep DEF LaneInv
  <2> QED BY <2>1, <2>2
<1>4. CASE InstallOverlay
  BY <1>4 DEF InstallOverlay
<1>5. CASE EndLane \/ LoseLaneWriter
  BY <1>5 DEF EndLane, LoseLaneWriter
<1> QED BY <1>1, <1>2, <1>3, <1>4, <1>5
        DEF LaneNext, overlayVars, EditLane, CommitBaseRows, StampBase, RebuildBase, PruneKeys, PublishCompacted, LoseBaseWriter

LEMMA DebtStep == LaneInv /\ [LaneNext]_overlayVars => DebtInv'
<1> SUFFICES ASSUME LaneInv, [LaneNext]_overlayVars PROVE DebtInv'
  OBVIOUS
<1> USE DEF LaneInv, ShapeInv, DebtInv, Inherited, Unrecorded
<1>1. CASE UNCHANGED laneVars
  BY <1>1 DEF laneVars
<1>2. CASE StartLane
  BY <1>2, SomeOverlay DEF StartLane, OverlayOf
<1>3. CASE FirstPass
  <2>1. draft'.unresolved = draft.unresolved \cup moved' /\ draft'.owed = draft.owed
    BY <1>3 DEF FirstPass, Commit, Overlays
  <2> QED BY <1>3, <2>1 DEF FirstPass, Commit
<1>4. CASE Owe
  <2>1. draft'.unresolved = draft.unresolved /\ draft'.owed = draft.owed \cup moved
    BY <1>4 DEF Owe, Commit, Overlays
  <2> QED BY <1>4, <2>1 DEF Owe, Commit
<1>5. CASE InstallOverlay
  BY <1>5 DEF InstallOverlay
<1>6. CASE SecondPass
  <2>1. draft'.unresolved = draft.unresolved \ draft.owed /\ draft'.owed = draft.owed
    BY <1>6 DEF SecondPass, Commit, Overlays
  <2> QED BY <1>6, <2>1 DEF SecondPass, Commit
<1>7. CASE PayOff
  <2>1. draft'.unresolved = draft.unresolved /\ draft'.owed = {}
    BY <1>7 DEF PayOff, Commit, Overlays
  <2> QED BY <1>7, <2>1 DEF PayOff, Commit
<1>8. CASE EndLane
  BY <1>8 DEF EndLane
<1>9. CASE LoseLaneWriter
  BY <1>9 DEF LoseLaneWriter
<1> QED BY <1>1, <1>2, <1>3, <1>4, <1>5, <1>6, <1>7, <1>8, <1>9
        DEF LaneNext, overlayVars, EditLane, CommitBaseRows, StampBase, RebuildBase, PruneKeys, PublishCompacted, LoseBaseWriter

-----------------------------------------------------------------------------

\* An overlay keeps what it saw while the base's writer moves on: a version it is
\* of is left behind, or its stamp is, or it is torn.
LEMMA BaseKeepsSettled ==
  ASSUME LaneInv, [LaneNext]_overlayVars, UNCHANGED laneVars,
         NEW o \in Overlays, Settled(o)
  PROVE  Settled(o)'
<1> USE WritesAssumption DEF LaneInv, LaneTypeOK, BaseInv, Settled, BaseVersions
<1>0. o.ver \in Nat /\ o.stamp \in Nat
  BY DEF Overlays
<1>1. CASE UNCHANGED baseVars
  BY <1>1 DEF baseVars
<1>2. CASE CommitBaseRows
  BY <1>0, <1>2 DEF CommitBaseRows
<1>3. CASE StampBase
  BY <1>0, <1>3 DEF StampBase
<1>4. CASE RebuildBase
  <2>1. bver \in Nat /\ bver' = bver + 1
    BY <1>4 DEF RebuildBase
  <2>2. o.ver < bver'
    BY <1>0, <2>1
  <2> QED BY <1>0, <2>1, <2>2
<1>5. CASE PruneKeys
  BY <1>0, <1>5 DEF PruneKeys
<1>6. CASE PublishCompacted
  <2>1. bver \in Nat /\ bver' = bver + 1
    BY <1>6 DEF PublishCompacted
  <2>2. o.ver < bver'
    BY <1>0, <2>1
  <2> QED BY <1>0, <2>1, <2>2
<1>7. CASE LoseBaseWriter
  BY <1>0, <1>7 DEF LoseBaseWriter
<1> QED BY <1>1, <1>2, <1>3, <1>4, <1>5, <1>6, <1>7
        DEF LaneNext, overlayVars, EditLane, StartLane, FirstPass, Owe, InstallOverlay, SecondPass, PayOff, EndLane, LoseLaneWriter

\* What a pass reads of the base version it holds is what that version holds.
LEMMA PassSettles ==
  ASSUME LaneInv, lpc # "idle", UNCHANGED baseVars,
         draft'.ver = draft.ver, draft'.stamp = draft.stamp,
         draft'.against = draft.against \/ draft'.against = draft.against \cup {held[draft.ver].gen}
  PROVE  Settled(draft)'
  BY DEF LaneInv, SeenInv, Settled, baseVars

LEMMA SeenStep == LaneInv /\ [LaneNext]_overlayVars => SeenInv'
<1> SUFFICES ASSUME LaneInv, [LaneNext]_overlayVars PROVE SeenInv'
  OBVIOUS
<1> USE DEF LaneInv, SeenInv, HasRows
<1>1. CASE UNCHANGED laneVars
  <2>1. overlay # NoOverlay => Settled(overlay)'
    BY <1>1, BaseKeepsSettled DEF LaneTypeOK, laneVars
  <2>2. lpc # "idle" => Settled(draft)'
    BY <1>1, BaseKeepsSettled DEF ShapeInv, laneVars
  <2> QED BY <1>1, <2>1, <2>2 DEF laneVars
<1>2. CASE StartLane
  <2>1. Settled(draft)'
    <3>1. CASE reuse'
      BY <1>2, <3>1 DEF StartLane, Settled, OverlayOf, baseVars
    <3>2. CASE ~reuse'
      <4>1. draft'.ver = bver /\ draft'.stamp = held[bver].stamp /\ draft'.against = {} /\ UNCHANGED baseVars
        BY <1>2, <3>2 DEF StartLane
      <4>2. bver \in Nat /\ held[bver].stamp \in Nat
        BY WritesAssumption DEF LaneTypeOK, BaseVersions
      <4> QED BY <4>1, <4>2 DEF Settled, baseVars
    <3> QED BY <3>1, <3>2
  <2>2. overlay # NoOverlay => Settled(overlay)'
    BY <1>2 DEF StartLane, Settled, baseVars
  <2> QED BY <1>2, <2>1, <2>2 DEF StartLane
<1>3. CASE FirstPass \/ Owe \/ SecondPass \/ PayOff
  <2>1. /\ lpc # "idle" /\ UNCHANGED baseVars
        /\ draft'.ver = draft.ver /\ draft'.stamp = draft.stamp
        /\ draft'.against = draft.against \/ draft'.against = draft.against \cup {held[draft.ver].gen}
        /\ lpc' # "first" /\ lpc' # "idle"
        /\ FirstPass => draft'.against = draft.against \cup {held[draft.ver].gen}
        /\ overlay' = IF reuse THEN draft' ELSE overlay
    BY <1>3 DEF FirstPass, Owe, SecondPass, PayOff, Commit, ShapeInv, Overlays
  <2>2. Settled(draft)'
    BY <2>1, PassSettles
  <2>3. draft'.against # {}
    BY <1>3, <2>1 DEF Owe, SecondPass, PayOff
  <2>4. overlay # NoOverlay => Settled(overlay)'
    BY <2>1, <2>2 DEF Settled, baseVars
  <2> QED BY <2>1, <2>2, <2>3, <2>4
<1>4. CASE InstallOverlay
  BY <1>4 DEF InstallOverlay, Settled, baseVars
<1>5. CASE EndLane \/ LoseLaneWriter
  BY <1>5 DEF EndLane, LoseLaneWriter, Settled, baseVars
<1> QED BY <1>1, <1>2, <1>3, <1>4, <1>5
        DEF LaneNext, overlayVars, EditLane, CommitBaseRows, StampBase, RebuildBase, PruneKeys, PublishCompacted, LoseBaseWriter

LEMMA OwnStep == LaneInv /\ [LaneNext]_overlayVars => OwnInv'
<1> SUFFICES ASSUME LaneInv, [LaneNext]_overlayVars PROVE OwnInv'
  OBVIOUS
<1>0. /\ overlay # NoOverlay => overlay.own \in Nat
      /\ lpc # "idle" => draft.own \in Nat
      /\ laneTree \in Nat
  BY WritesAssumption DEF LaneInv, LaneTypeOK, ShapeInv, Overlays
<1> USE <1>0 DEF LaneInv, OwnInv, HasRows
<1>1. CASE EditLane
  BY <1>1 DEF EditLane, laneVars
<1>2. CASE UNCHANGED <<laneTree, laneVars>>
  BY <1>2 DEF laneVars
<1>3. CASE StartLane
  <2>1. overlay' = overlay /\ laneTree' = laneTree /\ lpc' = "first"
    BY <1>3 DEF StartLane
  <2>2. draft'.own = IF reuse' THEN overlay.own ELSE 0
    BY <1>3 DEF StartLane
  <2>3. reuse' => overlay # NoOverlay
    BY <1>3 DEF StartLane, OverlayOf
  <2> QED BY <2>1, <2>2, <2>3
<1>4. CASE FirstPass \/ Owe \/ SecondPass \/ PayOff
  <2>1. /\ lpc # "idle" /\ lpc' # "idle" /\ laneTree' = laneTree
        /\ overlay' = IF reuse THEN draft' ELSE overlay
        /\ draft'.own = IF FirstPass THEN laneTree ELSE draft.own
        /\ ~FirstPass => HasRows
    BY <1>4 DEF FirstPass, Owe, SecondPass, PayOff, Commit, ShapeInv, Overlays
  <2> QED BY <2>1
<1>5. CASE InstallOverlay
  BY <1>5 DEF InstallOverlay
<1>6. CASE EndLane \/ LoseLaneWriter
  BY <1>6 DEF EndLane, LoseLaneWriter
<1> QED BY <1>1, <1>2, <1>3, <1>4, <1>5, <1>6
        DEF LaneNext, overlayVars, CommitBaseRows, StampBase, RebuildBase, PruneKeys, PublishCompacted, LoseBaseWriter

-----------------------------------------------------------------------------
(* The theorems. *)

LEMMA LaneInductive == LaneSpec => []LaneInv
<1>1. LaneInv /\ [LaneNext]_overlayVars => LaneInv'
  BY LaneTypeStep, BaseStep, ShapeStep, DebtStep, SeenStep, OwnStep DEF LaneInv
<1> QED BY LaneInitHolds, <1>1, PTL DEF LaneSpec

\* Every variable keeps its type, for any number of edits and writes.
THEOREM LaneTypeCorrect == LaneSpec => []LaneTypeOK
<1>1. LaneInv => LaneTypeOK
  BY DEF LaneInv
<1> QED BY LaneInductive, <1>1, PTL

\* "a worker stopped between them leaves its next refresh to finish the job", but for
\* the one worker that was lost between the two commits: nothing else, in any number of
\* refreshes, losses and moves of the base, makes an overlay forget a name it owes.
THEOREM OnlyThatWorkerForgets == LaneSpec => []OnlyCutFirstPassForgets
<1>1. LaneInv => OnlyCutFirstPassForgets
  BY DEF LaneInv, DebtInv, ShapeInv, Inherited, Unrecorded, OnlyCutFirstPassForgets
<1> QED BY LaneInductive, <1>1, PTL

\* graph_stale passes no overlay resolved against anything but what its base holds,
\* unless a lost worker of the base left that version torn.
THEOREM OnlyATornBaseHides == LaneSpec => []OnlyTornHides
<1>1. LaneInv => OnlyTornHides
  <2> SUFFICES ASSUME LaneInv, lpc = "idle", bpc = "idle", overlay # NoOverlay, ~Stale, bver \notin torn
               PROVE  overlay.against = {held[bver].gen}
    BY DEF OnlyTornHides
  <2>1. overlay.ver = bver /\ overlay.stamp = held[bver].stamp
    BY DEF Stale, OverlayOf
  <2> QED BY <2>1 DEF LaneInv, SeenInv, Settled
<1> QED BY LaneInductive, <1>1, PTL

\* An edit the lane's graph has shown is never taken back.
THEOREM ShownStaysShown == LaneSpec => LaneNeverBack
<1>1. LaneInv /\ [LaneNext]_overlayVars => (overlay # NoOverlay => overlay' # NoOverlay /\ overlay'.own >= overlay.own)
  <2> SUFFICES ASSUME LaneInv, [LaneNext]_overlayVars, overlay # NoOverlay
               PROVE  overlay' # NoOverlay /\ overlay'.own >= overlay.own
    OBVIOUS
  <2>0. overlay \in Overlays /\ overlay.own \in Nat /\ laneTree \in Nat
    BY WritesAssumption DEF LaneInv, LaneTypeOK, Overlays
  <2>1. CASE overlay' = overlay
    BY <2>0, <2>1
  <2>2. CASE FirstPass \/ Owe \/ SecondPass \/ PayOff
    <3>1. overlay' = IF reuse THEN draft' ELSE overlay
      BY <2>2 DEF FirstPass, Owe, SecondPass, PayOff, Commit
    <3>2. draft' \in Overlays
      BY <2>2, DraftStep
    <3>3. reuse => draft = overlay
      BY DEF LaneInv, ShapeInv
    <3>4. reuse => draft'.own >= overlay.own
      <4>1. draft'.own = IF FirstPass THEN laneTree ELSE draft.own
        BY <2>2 DEF FirstPass, Owe, SecondPass, PayOff, Commit, LaneInv, ShapeInv, Overlays
      <4> QED BY <2>0, <3>3, <4>1 DEF LaneInv, OwnInv
    <3> QED BY <2>0, <3>1, <3>2, <3>4, SomeOverlay
  <2>3. CASE InstallOverlay
    BY <2>0, <2>3, SomeOverlay, WritesAssumption DEF InstallOverlay, LaneInv, ShapeInv, OwnInv, HasRows, Overlays
  <2> QED BY <2>1, <2>2, <2>3
          DEF LaneNext, overlayVars, laneVars, EditLane, CommitBaseRows, StampBase, RebuildBase, PruneKeys, PublishCompacted,
              LoseBaseWriter, StartLane, EndLane, LoseLaneWriter
<1> QED BY LaneInductive, <1>1, PTL DEF LaneSpec, LaneNeverBack
=============================================================================
