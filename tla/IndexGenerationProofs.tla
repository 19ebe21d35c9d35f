------------------------ MODULE IndexGenerationProofs ------------------------
(***************************************************************************)
(* Proofs about IndexGeneration, for any number of processes and files and *)
(* any bounds: what validation passes, what a load serves and what a build *)
(* is about to publish.                                                    *)
(***************************************************************************)
EXTENDS IndexGeneration, TLAPS

-----------------------------------------------------------------------------
(* The inductive invariant, in parts. *)

Content == [ver : Nat, size : Nat]
\* What the tree, a stat or a manifest has of a file.
Told == {Missing} \cup [ver : Nat \ {0}, size : Nat \ {0}]
Store == [Files -> Content]
Stock == [Stores -> Store]
Trees == [Files -> Told]
Manifest == [files : Trees, time : Nat, late : SUBSET Files]

Types ==
  /\ tree \in Trees /\ clock \in Nat
  /\ disk \in Stock /\ meta \in Manifest
  /\ holders \in [Procs -> {"free", "shared", "exclusive"}]
  /\ pc \in [Procs -> {"idle", "walk", "previous", "plan", "read", "publish", "rename", "open", "load", "served"}]
  /\ next \in [Procs -> 1..(FileCount + 1)] /\ step \in [Procs -> 0..StoreCount]
  /\ got \in [Procs -> Stock] /\ man \in [Procs -> Manifest]
  /\ stage \in [Procs -> Stock] /\ plan \in [Procs -> Manifest]
  /\ mixed = [p \in Procs |-> mixed[p]] /\ newest \in [Files -> Nat]

\* Where a process is says which lock it has, and what it has in hand.
ControlOf(p) ==
  /\ holders[p] = "exclusive" <=> pc[p] = "rename"
  /\ holders[p] = "shared" <=> pc[p] = "load"
  /\ pc[p] \notin {"previous", "load", "rename"} => step[p] = 0
  /\ pc[p] = "rename" => step[p] # StoreCount
  /\ pc[p] \notin {"plan", "read"} => next[p] = 1
  /\ pc[p] = "read" => next[p] \in Files /\ plan[p].files[next[p]] # Missing
  /\ pc[p] = "walk" => got[p] = NoStores
  /\ pc[p] \notin {"publish", "rename"} => plan[p].time = 0
Control == \A p \in Procs :
  /\ ControlOf(p)
  /\ pc[p] = "rename" => \A q \in Procs \ {p} : holders[q] = "free"

\* What is recorded of a file is not newer than the tree has it, and if as new it is what the tree has.
Sound(x, c, now) == x.ver <= now /\ (c # Missing => x.ver < c.ver \/ x = c)
Recorded ==
  /\ \A f \in Files : /\ tree[f].ver <= clock /\ Sound(meta.files[f], tree[f], clock)
                     /\ newest[f] <= clock /\ (tree[f] # Missing => newest[f] <= tree[f].ver)
  /\ \A s \in Stores, f \in Files : Sound(disk[s][f], tree[f], clock)
  /\ \A p \in Procs, f \in Files : Sound(man[p].files[f], tree[f], clock) /\ Sound(plan[p].files[f], tree[f], clock)
  /\ \A p \in Procs, s \in Stores, f \in Files :
       Sound(got[p][s][f], tree[f], clock) /\ Sound(stage[p][s][f], tree[f], clock)

\* A file no newer than the stamp is as the manifest has it, or was overtaken.
Stamped(M, files, now) ==
  /\ M.time <= now
  /\ \A f \in Files : files[f] # Missing /\ files[f].ver <= M.time => M.files[f].ver = files[f].ver \/ f \in M.late
Planned(p, f) == IF pc[p] = "read" THEN f <= next[p] ELSE f < next[p]
PlannedAt(p) == pc[p] \in {"plan", "read"} =>
  \A f \in Files : Planned(p, f) => plan[p].files[f].ver = tree[f].ver \/ f \in plan[p].late
Stamps ==
  /\ Stamped(meta, tree, clock)
  /\ \A p \in Procs : Stamped(man[p], tree, clock) /\ Stamped(plan[p], tree, clock) /\ PlannedAt(p)

\* A generation under way: file by file the stores agree with the plan, and have nothing
\* of what is yet to be planned.
Agrees(S, files, f) == \A s \in Checked : S[s][f].size = files[f].size
BuiltAt(p, f) ==
  /\ pc[p] \in {"plan", "read"} /\ f >= next[p] => \A s \in Stores : stage[p][s][f] = Missing
  /\ pc[p] \in {"plan", "read"} /\ ~Planned(p, f) => plan[p].files[f] = Missing
  /\ pc[p] \in {"plan", "read"} /\ f < next[p] => Agrees(stage[p], plan[p].files, f)
  /\ pc[p] \in {"publish", "rename"} => Agrees(stage[p], plan[p].files, f)
  /\ plan[p].files[f] = Missing => \A s \in Checked : stage[p][s][f] = Missing
Built == \A p \in Procs, f \in Files : BuiltAt(p, f)

\* What a reader that knows M has in S of the files the tree still has as M has them.
Current(told, c) == c # Missing /\ told.ver = c.ver
Alike(S) == \A f \in Files, s \in Checked : S[s][f].ver = S["chunks"][f].ver
Sized(S, M) == \A s \in Checked : Sizes(S[s]) = Sizes(M.files)
Reusable(S, M, files) ==
  /\ Sized(S, M)
  /\ \A f \in Files, s \in Checked : Current(M.files[f], files[f]) => S[s][f] = files[f]

\* While nothing is tainted: no published store has an older content of a file than any
\* published manifest had.
Folder ==
  /\ \A f \in Files : meta.files[f].ver <= newest[f]
  /\ \A p \in Procs, f \in Files : man[p].files[f].ver <= newest[f]
  /\ \A f \in Files, s \in Checked :
       tree[f] # Missing /\ newest[f] = tree[f].ver => disk[s][f] = tree[f] \/ disk[s][f].size = 0

\* A folder that is not torn holds one generation.
Renaming == \E p \in Procs : pc[p] = "rename" /\ step[p] # 0
Whole == torn \/ Renaming \/ (Sized(disk, meta) /\ Alike(disk))

\* What is read is what was there.
ReadingOf(p) ==
  /\ pc[p] = "previous" /\ step[p] = 0 => got[p] = NoStores
  /\ pc[p] = "previous" => \A f \in Files, s \in Checked :
       Current(man[p].files[f], tree[f]) => got[p][s][f] = tree[f] \/ got[p][s][f].size = 0
  /\ pc[p] \in {"plan", "read"} => Reusable(got[p], man[p], tree)
  /\ pc[p] = "load" /\ ~mixed[p] =>
       /\ ~torn
       /\ step[p] >= 1 => man[p] = meta
       /\ step[p] >= 2 => got[p]["bm25"] = disk["bm25"]
       /\ step[p] >= 3 => got[p]["vectors"] = disk["vectors"]
       /\ step[p] >= 4 => got[p]["chunks"] = disk["chunks"]
  /\ pc[p] = "served" /\ ~mixed[p] => Reusable(got[p], man[p], tree) /\ Alike(got[p])
Reading == \A p \in Procs : ReadingOf(p)

\* What a build has staged of a file is one content, the tree's if the plan still is.
StagedAt(p, f) ==
  \/ pc[p] \in {"publish", "rename"}
  \/ pc[p] \in {"plan", "read"} /\ f < next[p]
  => /\ \A s \in Checked : stage[p][s][f] = stage[p]["chunks"][f]
     /\ plan[p].files[f].ver = tree[f].ver => stage[p]["chunks"][f] = tree[f]
Staged == \A p \in Procs, f \in Files : StagedAt(p, f)

\* A publish under way: not out of date, and its first stores are in place.
PublishingOf(p) == pc[p] = "rename" =>
  /\ \A f \in Files : plan[p].files[f].ver = 0 \/ plan[p].files[f].ver >= newest[f]
  /\ step[p] >= 1 => disk["bm25"] = stage[p]["bm25"]
  /\ step[p] >= 2 => disk["chunks"] = stage[p]["chunks"]
  /\ step[p] >= 3 => disk["vectors"] = stage[p]["vectors"]
Publishing == \A p \in Procs : PublishingOf(p)

Inv ==
  /\ Types /\ Control /\ Recorded /\ Stamps /\ Built
  /\ Untainted => Folder /\ Whole /\ Reading /\ Staged /\ Publishing
LEMMA Orders ==
  /\ PublishOrder[1] = "bm25" /\ PublishOrder[2] = "chunks" /\ PublishOrder[3] = "vectors"
  /\ PublishOrder[4] = "symbols" /\ PublishOrder[5] = "meta"
  /\ PreviousOrder[1] = "meta" /\ \A i \in 2..5 : PreviousOrder[i] \in Stores
  /\ LoadOrder[1] = "meta" /\ LoadOrder[2] = "bm25" /\ LoadOrder[3] = "vectors" /\ LoadOrder[4] = "chunks"
  /\ LoadOrder[5] = "symbols"
  /\ "meta" \notin Stores /\ Checked \subseteq Stores
  BY DEF PublishOrder, PreviousOrder, LoadOrder, Checked, Stores

LEMMA TheStores == Stores = {"bm25", "chunks", "vectors", "symbols"} /\ Checked = {"bm25", "chunks", "vectors"}
  BY DEF Checked, Stores

LEMMA Empty ==
  /\ Missing \in Content /\ Missing \in Told /\ Missing.ver = 0 /\ Missing.size = 0 /\ Told \subseteq Content
  /\ \A x \in Told : x.ver = 0 <=> x = Missing
  /\ \A x \in Told : x.size = 0 <=> x = Missing
  BY DEF Missing, Content, Told

LEMMA NoIndex ==
  /\ NoStores \in Stock /\ NoManifest \in Manifest
  /\ NoManifest.files = Nothing /\ NoManifest.time = 0 /\ NoManifest.late = {}
  /\ \A f \in Files : Nothing[f] = Missing
  /\ \A s \in Stores : NoStores[s] = Nothing
  BY Empty DEF Nothing, Store, Stock, NoStores, NoManifest, Manifest, Trees

LEMMA NoIndexTypes == NoStores \in Stock /\ NoManifest \in Manifest
  BY NoIndex

LEMMA Bounds == FileCount \in Nat \ {0} /\ Files = 1..FileCount
  BY BoundsAssumption DEF Files

LEMMA PutStore ==
  ASSUME NEW S \in Stock, NEW s \in Stores, NEW c \in Store
  PROVE  [S EXCEPT ![s] = c] \in Stock
  BY DEF Stock

\* What the actions do to the stores and the manifest of a build.
PutRows(S, f, c) == [s \in Stores |-> [S[s] EXCEPT ![f] = c[s]]]
PutTold(M, f, x) == [M EXCEPT !.files[f] = x]
PutLate(M, f) == [M EXCEPT !.late = @ \cup {f}]
PutTime(M, t) == [M EXCEPT !.time = t]

LEMMA PutFile ==
  ASSUME NEW S \in Stock, NEW f \in Files, NEW c, \A s \in Stores : c[s] \in Content
  PROVE  /\ PutRows(S, f, c) \in Stock
         /\ \A s \in Stores, g \in Files : PutRows(S, f, c)[s][g] = IF g = f THEN c[s] ELSE S[s][g]
<1>1. \A s \in Stores : [S[s] EXCEPT ![f] = c[s]] \in Store
  BY DEF Store, Stock
<1> QED BY <1>1 DEF Stock, Store, PutRows

LEMMA PutManifest ==
  ASSUME NEW M \in Manifest, NEW f \in Files
  PROVE  /\ M.files \in Trees /\ M.files[f] \in Told /\ M.time \in Nat /\ M.files[f].ver \in Nat
         /\ \A x \in Told : /\ PutTold(M, f, x) \in Manifest
                            /\ PutTold(M, f, x).time = M.time /\ PutTold(M, f, x).late = M.late
                            /\ \A g \in Files : PutTold(M, f, x).files[g] = IF g = f THEN x ELSE M.files[g]
         /\ PutLate(M, f) \in Manifest
         /\ PutLate(M, f).files = M.files /\ PutLate(M, f).time = M.time /\ PutLate(M, f).late = M.late \cup {f}
<1>1. M.files \in Trees /\ M.files[f] \in Told /\ M.time \in Nat
  BY DEF Manifest, Trees
<1>2. M.files[f].ver \in Nat
  BY <1>1, Empty DEF Content
<1>3. ASSUME NEW x \in Told
      PROVE  /\ PutTold(M, f, x) \in Manifest
             /\ PutTold(M, f, x).time = M.time /\ PutTold(M, f, x).late = M.late
             /\ \A g \in Files : PutTold(M, f, x).files[g] = IF g = f THEN x ELSE M.files[g]
  BY DEF Manifest, Trees, PutTold
<1>4. /\ PutLate(M, f) \in Manifest
      /\ PutLate(M, f).files = M.files /\ PutLate(M, f).time = M.time /\ PutLate(M, f).late = M.late \cup {f}
  BY DEF Manifest, PutLate
<1> QED BY <1>1, <1>2, <1>3, <1>4

LEMMA PutToldIs ==
  ASSUME NEW M \in Manifest, NEW f \in Files, NEW x \in Told
  PROVE  /\ PutTold(M, f, x).time = M.time /\ PutTold(M, f, x).late = M.late
         /\ \A g \in Files : PutTold(M, f, x).files[g] = IF g = f THEN x ELSE M.files[g]
  BY PutManifest

LEMMA StampManifest ==
  ASSUME NEW M \in Manifest, NEW t \in Nat
  PROVE  /\ PutTime(M, t) \in Manifest
         /\ PutTime(M, t).files = M.files /\ PutTime(M, t).late = M.late /\ PutTime(M, t).time = t
  BY DEF Manifest, PutTime

LEMMA ReadTypes ==
  ASSUME Types, NEW p \in Procs, NEW order, ReadStore(p, order), \A i \in 1..5 : order[i] \in Stores \cup {"meta"}
  PROVE  got' \in [Procs -> Stock] /\ man' \in [Procs -> Manifest] /\ step' \in [Procs -> 0..StoreCount]
<1> DEFINE s == order[step[p] + 1]
<1>0. step \in [Procs -> 0..5] /\ got \in [Procs -> Stock] /\ man \in [Procs -> Manifest] /\ disk \in Stock /\ meta \in Manifest
  BY DEF Types, StoreCount
<1>1. step[p] + 1 \in 1..5 /\ step' \in [Procs -> 0..StoreCount]
  BY <1>0 DEF ReadStore, StoreCount
<1>2. CASE s = "meta"
  BY <1>0, <1>1, <1>2 DEF ReadStore
<1>3. CASE s # "meta"
  <2>1. s \in Stores /\ got' = [got EXCEPT ![p][s] = disk[s]] /\ man' = man
    BY <1>1, <1>3 DEF ReadStore
  <2> HIDE DEF s
  <2>2. disk[s] \in Store /\ got[p] \in Stock
    BY <1>0, <2>1 DEF Stock
  <2>3. got' = [got EXCEPT ![p] = [got[p] EXCEPT ![s] = disk[s]]]
    BY <2>1
  <2>4. [got[p] EXCEPT ![s] = disk[s]] \in Stock
    BY <2>1, <2>2, PutStore
  <2> QED BY <1>0, <1>1, <2>1, <2>3, <2>4
<1> QED BY <1>2, <1>3

\* Which lock, file and store a process has in hand stays in bounds.
LEMMA TypesStep == ASSUME Types, Control, Next PROVE Types'
<1> USE DEF Types, disks, reading, building, blames, hist, Go, StoreCount
<1>1. ASSUME NEW f \in Files, Edit(f) PROVE Types'
  <2>1. tree' \in Trees /\ clock' \in Nat
    BY <1>1, BoundsAssumption, Empty DEF Edit, Told, Trees
  <2>2. \A p \in Procs : PutLate(plan[p], f) \in Manifest
    BY PutManifest
  <2>3. plan' \in [Procs -> Manifest]
    BY <1>1, <2>2 DEF Edit, PutLate
  <2> QED BY <1>1, <2>1, <2>3 DEF Edit
<1>2. ASSUME NEW p \in Procs, Begin(p) \/ Walk(p) PROVE Types'
  BY <1>2, NoIndexTypes DEF Begin, Walk
<1>4. ASSUME NEW p \in Procs, ReadPrevious(p) \/ Load(p) PROVE Types'
  <2>1. \A i \in 1..5 : LoadOrder[i] \in Stores \cup {"meta"} /\ PreviousOrder[i] \in Stores \cup {"meta"}
    BY DEF LoadOrder, PreviousOrder, Stores
  <2>2. got' \in [Procs -> Stock] /\ man' \in [Procs -> Manifest] /\ step' \in [Procs -> 0..StoreCount]
    BY <1>4, <2>1, ReadTypes DEF ReadPrevious, Load
  <2> QED BY <1>4, <2>2 DEF ReadPrevious, Load
<1>5. ASSUME NEW p \in Procs, EndPrevious(p) \/ RebuildServed(p) PROVE Types'
  BY <1>5, NoIndexTypes DEF EndPrevious, RebuildServed, StartPlan, Unstage, Forget
<1>6. ASSUME NEW p \in Procs, StatOld(p) PROVE Types'
  <2> DEFINE f == next[p]
             R == [s \in Stores |-> Reused(p, s, f)]
  <2>1. f \in Files /\ next' \in [Procs -> 1..(FileCount + 1)]
    BY <1>6, Bounds DEF StatOld
  <2>2. man[p].files[f] \in Told
    BY <2>1, PutManifest
  <2>3. \A s \in Stores : R[s] \in Content
    <3>1. ASSUME NEW s \in Stores PROVE got[p][s][f] \in Content
      BY <2>1 DEF Store, Stock
    <3> QED BY <2>2, <3>1, Empty DEF Reused, Content
  <2>4. stage' \in [Procs -> Stock]
    <3>1. stage' = stage \/ stage' = [stage EXCEPT ![p] = PutRows(stage[p], f, R)]
      BY <1>6 DEF StatOld, PutRows
    <3> HIDE DEF R, f
    <3>2. PutRows(stage[p], f, R) \in Stock
      BY <2>1, <2>3, PutFile
    <3> QED BY <3>1, <3>2
  <2>5. plan' \in [Procs -> Manifest]
    <3>1. plan' = plan \/ plan' = [plan EXCEPT ![p] = PutTold(plan[p], f, man[p].files[f])]
      BY <1>6 DEF StatOld, PutTold
    <3>2. PutTold(plan[p], f, man[p].files[f]) \in Manifest
      BY <2>1, <2>2, PutManifest
    <3> QED BY <3>1, <3>2
  <2> QED BY <1>6, <2>1, <2>4, <2>5 DEF StatOld
<1>7. ASSUME NEW p \in Procs, StatNew(p) PROVE Types'
  <2> DEFINE f == next[p]
  <2>1. plan' = [plan EXCEPT ![p] = PutTold(plan[p], f, tree[f])] /\ f \in Files
    BY <1>7 DEF StatNew, PutTold
  <2>2. PutTold(plan[p], f, tree[f]) \in Manifest
    BY <2>1, PutManifest DEF Trees
  <2> QED BY <1>7, <2>1, <2>2 DEF StatNew
<1>8. ASSUME NEW p \in Procs, ReadFile(p) PROVE Types'
  <2> DEFINE f == next[p]
             R == [s \in Stores |-> tree[f]]
  <2>1. f \in Files /\ next' \in [Procs -> 1..(FileCount + 1)]
    BY <1>8, Bounds DEF ReadFile, Control, ControlOf
  <2>2. tree[f] \in Told /\ plan[p].files[f] \in Told /\ plan[p].files[f] # Missing
    BY <1>8, <2>1, PutManifest DEF Trees, Control, ControlOf, ReadFile
  <2>3. stage' \in [Procs -> Stock]
    <3>1. stage' = stage \/ stage' = [stage EXCEPT ![p] = PutRows(stage[p], f, R)]
      BY <1>8 DEF ReadFile, PutRows
    <3>2. \A s \in Stores : R[s] \in Content
      BY <2>2, Empty
    <3> HIDE DEF R, f
    <3>3. PutRows(stage[p], f, R) \in Stock
      BY <2>1, <3>2, PutFile
    <3> QED BY <3>1, <3>3
  <2>4. plan' \in [Procs -> Manifest]
    <3>1. ASSUME tree[f] # Missing PROVE [plan[p].files[f] EXCEPT !.size = tree[f].size] \in Told
      BY <2>2, <3>1 DEF Told
    <3>2. \/ plan' = [plan EXCEPT ![p] = PutTold(plan[p], f, Missing)]
          \/ /\ tree[f] # Missing
             /\ plan' = [plan EXCEPT ![p] = PutTold(plan[p], f, [plan[p].files[f] EXCEPT !.size = tree[f].size])]
      BY <1>8 DEF ReadFile, PutTold
    <3>3. PutTold(plan[p], f, Missing) \in Manifest
      BY <2>1, Empty, PutManifest
    <3>4. ASSUME tree[f] # Missing PROVE PutTold(plan[p], f, [plan[p].files[f] EXCEPT !.size = tree[f].size]) \in Manifest
      BY <2>1, <3>1, <3>4, PutManifest
    <3> QED BY <3>2, <3>3, <3>4
  <2> QED BY <1>8, <2>1, <2>3, <2>4 DEF ReadFile
<1>9. ASSUME NEW p \in Procs, EndPlan(p) PROVE Types'
  <2>1. PutTime(plan[p], clock) \in Manifest
    BY StampManifest
  <2>2. plan' \in [Procs -> Manifest]
    <3>1. \/ plan' = [plan EXCEPT ![p] = NoManifest]
          \/ plan' = [plan EXCEPT ![p] = PutTime(plan[p], clock)]
      BY <1>9 DEF EndPlan, Unstage, PutTime
    <3> QED BY <2>1, <3>1, NoIndexTypes
  <2>3. next' \in [Procs -> 1..(FileCount + 1)]
    BY <1>9, Bounds DEF EndPlan
  <2> QED BY <1>9, <2>2, <2>3, NoIndexTypes DEF EndPlan, Unstage, Forget
<1>10. ASSUME NEW p \in Procs, LockExclusive(p) PROVE Types'
  BY <1>10 DEF LockExclusive
<1>11. ASSUME NEW p \in Procs, LockShared(p) \/ EndLoad(p) \/ Lose(p) PROVE Types'
  BY <1>11, NoIndexTypes DEF LockShared, EndLoad, Lose, Forget, Unstage
<1>12. ASSUME NEW p \in Procs, Rename(p) PROVE Types'
  <2>1. step[p] \in 0..4
    BY <1>12 DEF Rename, Control, ControlOf
  <2>2. CASE step[p] = 4
    <3>0. PublishOrder[step[p] + 1] = "meta"
      BY <2>2, Orders
    <3>1. \A f \in Files : plan[p].files[f].ver \in Nat
      BY PutManifest
    <3>2. newest' \in [Files -> Nat]
      BY <1>12, <3>0, <3>1 DEF Rename
    <3> QED BY <1>12, <3>0, <3>2, NoIndexTypes DEF Rename, Forget, Unstage
  <2>3. CASE step[p] # 4
    <3>1. PublishOrder[step[p] + 1] \in Stores
      BY <2>1, <2>3 DEF PublishOrder, Stores
    <3>2. PublishOrder[step[p] + 1] # "meta"
      BY <3>1, Orders
    <3>3. disk' \in Stock /\ step' \in [Procs -> 0..StoreCount]
      <4> DEFINE s == PublishOrder[step[p] + 1]
      <4>1. disk' = [disk EXCEPT ![s] = stage[p][s]] /\ step' = [step EXCEPT ![p] = @ + 1]
        BY <1>12, <3>2 DEF Rename
      <4> HIDE DEF s
      <4>2. stage[p][s] \in Store
        BY <3>1 DEF Stock, s
      <4>3. disk' \in Stock
        BY <3>1, <4>1, <4>2, PutStore DEF s
      <4> QED BY <2>1, <2>3, <4>1, <4>3
    <3> QED BY <1>12, <3>2, <3>3 DEF Rename
  <2> QED BY <2>2, <2>3
<1> QED BY <1>1, <1>2, <1>4, <1>5, <1>6, <1>7, <1>8, <1>9, <1>10, <1>11, <1>12 DEF Next


\* The other processes keep what they have in hand.
Keep(p) == \A q \in Procs \ {p} :
  /\ pc'[q] = pc[q] /\ holders'[q] = holders[q] /\ next'[q] = next[q] /\ step'[q] = step[q]
  /\ got'[q] = got[q] /\ man'[q] = man[q] /\ stage'[q] = stage[q] /\ plan'[q] = plan[q] /\ mixed'[q] = mixed[q]

OwnStep(p) ==
  \/ Begin(p) \/ Walk(p) \/ ReadPrevious(p) \/ EndPrevious(p)
  \/ StatOld(p) \/ StatNew(p) \/ ReadFile(p) \/ EndPlan(p)
  \/ LockExclusive(p) \/ Rename(p)
  \/ LockShared(p) \/ Load(p) \/ EndLoad(p)
  \/ RebuildServed(p) \/ Lose(p)

LEMMA OthersKeep ==
  ASSUME Types, NEW p \in Procs, OwnStep(p)
  PROVE  Keep(p)
<1>0. /\ holders = [q \in Procs |-> holders[q]] /\ pc = [q \in Procs |-> pc[q]]
      /\ next = [q \in Procs |-> next[q]] /\ step = [q \in Procs |-> step[q]]
      /\ got = [q \in Procs |-> got[q]] /\ man = [q \in Procs |-> man[q]]
      /\ stage = [q \in Procs |-> stage[q]] /\ plan = [q \in Procs |-> plan[q]]
      /\ mixed = [q \in Procs |-> mixed[q]]
  BY DEF Types
<1> USE DEF Keep, disks, reading, building, blames, hist, Go
<1>1. CASE Begin(p) \/ Walk(p)
  BY <1>0, <1>1 DEF Begin, Walk
<1>2. CASE ReadPrevious(p) \/ Load(p)
  BY <1>0, <1>2 DEF ReadPrevious, Load, ReadStore
<1>3. CASE EndPrevious(p) \/ RebuildServed(p)
  BY <1>0, <1>3 DEF EndPrevious, RebuildServed, StartPlan, Unstage, Forget
<1>4. CASE StatOld(p)
  BY <1>0, <1>4 DEF StatOld
<1>5. CASE StatNew(p) \/ ReadFile(p)
  BY <1>0, <1>5 DEF StatNew, ReadFile
<1>6. CASE EndPlan(p)
  BY <1>0, <1>6 DEF EndPlan, Unstage, Forget
<1>7. CASE LockExclusive(p) \/ LockShared(p)
  BY <1>0, <1>7 DEF LockExclusive, LockShared, Forget
<1>8. CASE Rename(p)
  BY <1>0, <1>8 DEF Rename, Unstage, Forget
<1>9. CASE EndLoad(p) \/ Lose(p)
  BY <1>0, <1>9 DEF EndLoad, Lose, Forget, Unstage
<1> QED BY <1>1, <1>2, <1>3, <1>4, <1>5, <1>6, <1>7, <1>8, <1>9 DEF OwnStep

LEMMA ControlStep == ASSUME Types, Control, Next PROVE Control'
<1>1. ASSUME NEW f \in Files, Edit(f) PROVE Control'
  <2>1. /\ pc' = pc /\ holders' = holders /\ step' = step /\ next' = next /\ got' = got
        /\ \A p \in Procs : plan'[p].files = plan[p].files /\ plan'[p].time = plan[p].time
    <3>1. \A p \in Procs : plan[p] \in Manifest
      BY DEF Types
    <3>2. \A p \in Procs : PutLate(plan[p], f).files = plan[p].files /\ PutLate(plan[p], f).time = plan[p].time
      BY <3>1, PutManifest
    <3> QED BY <1>1, <3>2 DEF Edit, PutLate, hist, reading
  <2> QED BY <2>1 DEF Control, ControlOf
<1>2. ASSUME NEW p \in Procs, OwnStep(p) PROVE Control'
  <2>0. /\ holders \in [Procs -> {"free", "shared", "exclusive"}]
        /\ pc \in [Procs -> {"idle", "walk", "previous", "plan", "read", "publish", "rename", "open", "load", "served"}]
        /\ next \in [Procs -> 1..(FileCount + 1)] /\ step \in [Procs -> 0..5]
        /\ got \in [Procs -> Stock] /\ man \in [Procs -> Manifest]
        /\ stage \in [Procs -> Stock] /\ plan \in [Procs -> Manifest]
        /\ tree \in Trees
    BY DEF Types, StoreCount
  <2>1. ControlOf(p)
    BY DEF Control, ControlOf
  <2>2. Keep(p)
    BY <1>2, OthersKeep
  <2>3. ControlOf(p)'
    <3> USE DEF disks, reading, building, blames, hist, Go, StoreCount, ControlOf
    <3>1. CASE Begin(p) \/ Walk(p)
      BY <2>0, <2>1, <3>1 DEF Begin, Walk
    <3>2. CASE ReadPrevious(p) \/ Load(p)
      BY <2>0, <2>1, <3>2 DEF ReadPrevious, Load, ReadStore
    <3>3. CASE EndPrevious(p) \/ RebuildServed(p)
      BY <2>0, <2>1, <3>3, NoIndex DEF EndPrevious, RebuildServed, StartPlan, Unstage, Forget
    <3>4. CASE StatOld(p)
      <4>1. plan' = plan \/ plan' = [plan EXCEPT ![p] = PutTold(plan[p], next[p], man[p].files[next[p]])]
        BY <3>4 DEF StatOld, PutTold
      <4>2. next[p] \in Files /\ plan[p] \in Manifest /\ man[p] \in Manifest
        BY <2>0, <3>4 DEF StatOld
      <4>3. plan'[p].time = 0
        BY <2>0, <2>1, <3>4, <4>1, <4>2, PutManifest DEF StatOld
      <4> QED BY <2>0, <2>1, <3>4, <4>3 DEF StatOld
    <3>5. CASE StatNew(p)
      <4>1. plan' = [plan EXCEPT ![p] = PutTold(plan[p], next[p], tree[next[p]])]
        BY <3>5 DEF StatNew, PutTold
      <4>2. next[p] \in Files /\ plan[p] \in Manifest /\ tree[next[p]] \in Told
        BY <2>0, <3>5 DEF StatNew, Trees
      <4>3. plan'[p].time = 0 /\ plan'[p].files[next[p]] = tree[next[p]]
        <5>1. plan'[p] = PutTold(plan[p], next[p], tree[next[p]]) /\ pc[p] = "plan"
          BY <2>0, <3>5, <4>1 DEF StatNew
        <5>2. /\ PutTold(plan[p], next[p], tree[next[p]]).time = plan[p].time
              /\ PutTold(plan[p], next[p], tree[next[p]]).files[next[p]] = tree[next[p]]
          BY <4>2, PutManifest
        <5> QED BY <2>1, <5>1, <5>2
      <4>4. tree[next[p]] # Missing /\ pc[p] = "plan" /\ pc'[p] = "read"
            /\ next' = next /\ holders' = holders /\ step' = step /\ got' = got
        BY <2>0, <3>5 DEF StatNew
      <4> QED BY <2>1, <4>2, <4>3, <4>4
    <3>6. CASE ReadFile(p)
      <4>1. plan'[p].time = plan[p].time
        BY <2>0, <3>6 DEF ReadFile, Manifest
      <4> QED BY <2>0, <2>1, <3>6, <4>1 DEF ReadFile
    <3>7. CASE EndPlan(p)
      BY <2>0, <2>1, <3>7, NoIndex DEF EndPlan, Unstage, Forget
    <3>8. CASE LockExclusive(p) \/ LockShared(p)
      BY <2>0, <2>1, <3>8 DEF LockExclusive, LockShared, Forget
    <3>9. CASE Rename(p)
      <4>1. step[p] \in 0..4
        BY <2>0, <2>1, <3>9 DEF Rename
      <4>2. CASE step[p] = 4
        BY <2>0, <2>1, <3>9, <4>2, NoIndex, Orders DEF Rename, Unstage, Forget
      <4>3. CASE step[p] # 4
        <5>1. PublishOrder[step[p] + 1] # "meta"
          BY <4>1, <4>3 DEF PublishOrder
        <5> QED BY <2>0, <2>1, <3>9, <4>1, <4>3, <5>1 DEF Rename
      <4> QED BY <4>2, <4>3
    <3>10. CASE EndLoad(p)
      BY <2>0, <2>1, <3>10, NoIndex DEF EndLoad, Forget
    <3>11. CASE Lose(p)
      <4>1. pc[p] \in {"rename", "load"}
        BY <2>0, <2>1, <3>11 DEF Lose
      <4> QED BY <2>0, <2>1, <3>11, <4>1, NoIndex DEF Lose, Forget, Unstage
    <3> QED BY <1>2, <3>1, <3>2, <3>3, <3>4, <3>5, <3>6, <3>7, <3>8, <3>9, <3>10, <3>11 DEF OwnStep
  <2>4. \A q \in Procs \ {p} : ControlOf(q)'
    BY <2>2 DEF Control, Keep, ControlOf
  <2>5. ASSUME NEW r \in Procs, pc'[r] = "rename", NEW q \in Procs \ {r} PROVE holders'[q] = "free"
    <3>1. CASE r # p /\ q # p
      BY <2>2, <2>5, <3>1 DEF Control, ControlOf, Keep
    <3>2. CASE r # p /\ q = p
      <4>1. pc[r] = "rename" /\ holders[r] = "exclusive" /\ holders[p] = "free"
        BY <2>2, <2>5, <3>2 DEF Control, ControlOf, Keep
      <4>2. ~LockExclusive(p) /\ ~LockShared(p)
        BY <4>1 DEF LockExclusive, LockShared
      <4>3. holders' = holders \/ holders' = [holders EXCEPT ![p] = "free"]
        BY <1>2, <4>2 DEF OwnStep, Begin, Walk, ReadPrevious, EndPrevious, StatOld, StatNew, ReadFile, EndPlan,
              Rename, Load, EndLoad, RebuildServed, Lose
      <4> QED BY <2>0, <3>2, <4>1, <4>3
    <3>3. CASE r = p
      <4>1. holders'[q] = holders[q]
        BY <2>2, <2>5, <3>3 DEF Keep
      <4>2. pc[p] = "rename" \/ LockExclusive(p)
        BY <1>2, <2>0, <2>5, <3>3 DEF OwnStep, Begin, Walk, ReadPrevious, EndPrevious, StatOld, StatNew, ReadFile, EndPlan,
              Rename, Load, EndLoad, RebuildServed, Lose, Go, StartPlan, LockShared
      <4> QED BY <2>5, <3>3, <4>1, <4>2 DEF Control, ControlOf, LockExclusive
    <3> QED BY <3>1, <3>2, <3>3
  <2>6. \A q \in Procs : ControlOf(q)'
    BY <2>3, <2>4
  <2> QED BY <2>5, <2>6 DEF Control, ControlOf
<1> QED BY <1>1, <1>2 DEF Next, OwnStep

-----------------------------------------------------------------------------
(* What the steps of a build do, store by store and file by file. *)

LEMMA StatOldDoes ==
  ASSUME Types, NEW p \in Procs, StatOld(p), NEW f, f = next[p]
  PROVE  /\ f \in Files /\ pc[p] = "plan" /\ next'[p] = f + 1
         /\ UNCHANGED <<tree, clock, disks, holders, pc, step, reading, hist>>
         /\ tree[f].ver = man[p].files[f].ver \/ tree[f] = Missing
         /\ plan'[p].time = plan[p].time /\ plan'[p].late = plan[p].late
         /\ \A g \in Files : plan'[p].files[g] = IF g = f /\ tree[f] # Missing THEN man[p].files[f] ELSE plan[p].files[g]
         /\ \A s \in Stores, g \in Files :
              stage'[p][s][g] = IF g = f /\ tree[f] # Missing THEN Reused(p, s, f) ELSE stage[p][s][g]
<1>0. /\ f \in Files /\ pc[p] = "plan" /\ next'[p] = f + 1
      /\ UNCHANGED <<tree, clock, disks, holders, pc, step, reading, hist>>
      /\ tree[f].ver = man[p].files[f].ver \/ tree[f] = Missing
  BY DEF StatOld, Types
<1>1. /\ got[p] \in Stock /\ man[p] \in Manifest /\ stage[p] \in Stock /\ plan[p] \in Manifest
      /\ stage \in [Procs -> Stock] /\ plan \in [Procs -> Manifest]
  BY DEF Types
<1>2. CASE tree[f] = Missing
  BY <1>0, <1>2 DEF StatOld
<1>3. CASE tree[f] # Missing
  <2> DEFINE R == [s \in Stores |-> Reused(p, s, f)]
  <2>1. \A s \in Stores : R[s] \in Content
    <3>1. ASSUME NEW s \in Stores PROVE got[p][s][f] \in Content
      BY <1>0, <1>1 DEF Store, Stock
    <3>2. man[p].files[f] \in Told
      BY <1>0, <1>1, PutManifest
    <3> QED BY <3>1, <3>2, Empty DEF Reused, Content
  <2>2. /\ stage' = [stage EXCEPT ![p] = PutRows(stage[p], f, R)]
        /\ plan' = [plan EXCEPT ![p] = PutTold(plan[p], f, man[p].files[f])]
    BY <1>3 DEF StatOld, PutRows, PutTold
  <2>3. \A s \in Stores : R[s] = Reused(p, s, f)
    OBVIOUS
  <2> HIDE DEF R
  <2>4. stage'[p] = PutRows(stage[p], f, R) /\ plan'[p] = PutTold(plan[p], f, man[p].files[f])
    BY <1>1, <2>2
  <2>5. \A s \in Stores, g \in Files : stage'[p][s][g] = IF g = f THEN R[s] ELSE stage[p][s][g]
    BY <1>0, <1>1, <2>1, <2>4, PutFile
  <2>6. man[p].files[f] \in Told
    BY <1>0, <1>1, PutManifest
  <2>7. /\ plan'[p].time = plan[p].time /\ plan'[p].late = plan[p].late
        /\ \A g \in Files : plan'[p].files[g] = IF g = f THEN man[p].files[f] ELSE plan[p].files[g]
    BY <1>0, <1>1, <2>4, <2>6, PutToldIs
  <2> QED BY <1>0, <1>3, <2>3, <2>5, <2>7
<1> QED BY <1>2, <1>3

LEMMA StatNewDoes ==
  ASSUME Types, NEW p \in Procs, StatNew(p), NEW f, f = next[p]
  PROVE  /\ f \in Files /\ pc[p] = "plan" /\ pc'[p] = "read"
         /\ UNCHANGED <<tree, clock, disks, holders, next, step, reading, stage, hist>>
         /\ tree[f] # Missing
         /\ plan'[p].time = plan[p].time /\ plan'[p].late = plan[p].late
         /\ \A g \in Files : plan'[p].files[g] = IF g = f THEN tree[f] ELSE plan[p].files[g]
<1>0. /\ f \in Files /\ pc[p] = "plan" /\ pc'[p] = "read" /\ tree[f] # Missing
      /\ UNCHANGED <<tree, clock, disks, holders, next, step, reading, stage, hist>>
  BY DEF StatNew, Types, Go
<1>1. tree[f] \in Told /\ plan[p] \in Manifest
  BY <1>0 DEF Types, Trees
<1>2. plan'[p] = PutTold(plan[p], f, tree[f])
  BY DEF StatNew, Types, PutTold
<1>3. /\ PutTold(plan[p], f, tree[f]).time = plan[p].time /\ PutTold(plan[p], f, tree[f]).late = plan[p].late
      /\ \A g \in Files : PutTold(plan[p], f, tree[f]).files[g] = IF g = f THEN tree[f] ELSE plan[p].files[g]
  BY <1>0, <1>1, PutToldIs
<1> QED BY <1>0, <1>2, <1>3

LEMMA ReadFileDoes ==
  ASSUME Types, Control, NEW p \in Procs, ReadFile(p), NEW f, f = next[p]
  PROVE  /\ f \in Files /\ pc[p] = "read" /\ pc'[p] = "plan" /\ next'[p] = f + 1
         /\ UNCHANGED <<tree, clock, disks, holders, step, reading, hist>>
         /\ plan'[p].time = plan[p].time /\ plan'[p].late = plan[p].late
         /\ \A g \in Files : g # f => plan'[p].files[g] = plan[p].files[g]
         /\ tree[f] = Missing => plan'[p].files[f] = Missing
         /\ tree[f] # Missing => plan'[p].files[f] = [ver |-> plan[p].files[f].ver, size |-> tree[f].size]
         /\ \A s \in Stores, g \in Files : stage'[p][s][g] = IF g = f /\ tree[f] # Missing THEN tree[f] ELSE stage[p][s][g]
<1>0. /\ f \in Files /\ pc[p] = "read" /\ pc'[p] = "plan" /\ next'[p] = f + 1
      /\ UNCHANGED <<tree, clock, disks, holders, step, reading, hist>>
  BY DEF ReadFile, Types, Go, Control, ControlOf
<1>1. /\ stage[p] \in Stock /\ plan[p] \in Manifest /\ tree[f] \in Told
      /\ plan[p].files[f] \in Told /\ plan[p].files[f] # Missing
  BY <1>0, PutManifest DEF Types, Trees, Control, ControlOf
<1>2. CASE tree[f] = Missing
  <2>1. plan'[p] = PutTold(plan[p], f, Missing) /\ stage' = stage
    BY <1>2 DEF ReadFile, Types, PutTold
  <2>2. /\ PutTold(plan[p], f, Missing).time = plan[p].time /\ PutTold(plan[p], f, Missing).late = plan[p].late
        /\ \A g \in Files : PutTold(plan[p], f, Missing).files[g] = IF g = f THEN Missing ELSE plan[p].files[g]
    BY <1>0, <1>1, Empty, PutToldIs
  <2> QED BY <1>0, <1>2, <2>1, <2>2
<1>3. CASE tree[f] # Missing
  <2> DEFINE R == [s \in Stores |-> tree[f]]
             x == [plan[p].files[f] EXCEPT !.size = tree[f].size]
  <2>0. tree[f] # Missing
    BY <1>3
  <2>1. x \in Told /\ x = [ver |-> plan[p].files[f].ver, size |-> tree[f].size]
    BY <1>1, <2>0 DEF Told
  <2>2. plan'[p] = PutTold(plan[p], f, x) /\ stage'[p] = PutRows(stage[p], f, R)
    BY <1>3 DEF ReadFile, Types, PutTold, PutRows
  <2>3. \A s \in Stores : R[s] = tree[f] /\ R[s] \in Content
    BY <1>1, Empty
  <2> HIDE DEF R, x
  <2>4. \A s \in Stores, g \in Files : stage'[p][s][g] = IF g = f THEN tree[f] ELSE stage[p][s][g]
    BY <1>0, <1>1, <2>2, <2>3, PutFile
  <2>5. /\ PutTold(plan[p], f, x).time = plan[p].time /\ PutTold(plan[p], f, x).late = plan[p].late
        /\ \A g \in Files : PutTold(plan[p], f, x).files[g] = IF g = f THEN x ELSE plan[p].files[g]
    BY <1>0, <1>1, <2>1, PutToldIs
  <2>6. /\ plan'[p].time = plan[p].time /\ plan'[p].late = plan[p].late
        /\ \A g \in Files : g # f => plan'[p].files[g] = plan[p].files[g]
        /\ plan'[p].files[f] = x
    BY <1>0, <2>2, <2>5
  <2>7. plan'[p].files[f] = [ver |-> plan[p].files[f].ver, size |-> tree[f].size]
    BY <2>1, <2>6
  <2> QED BY <1>0, <2>0, <2>4, <2>6, <2>7
<1> QED BY <1>2, <1>3

\* An index with a row is stamped; without one the build ends with nothing.
LEMMA EndPlanDoes ==
  ASSUME Types, NEW p \in Procs, EndPlan(p)
  PROVE  /\ pc[p] = "plan" /\ next[p] \notin Files /\ next'[p] = 1
         /\ UNCHANGED <<tree, clock, disks, holders, step, mixed, hist>>
         /\ \/ /\ pc'[p] = "idle" /\ stage'[p] = NoStores /\ plan'[p] = NoManifest
               /\ got'[p] = NoStores /\ man'[p] = NoManifest
            \/ /\ pc'[p] = "publish" /\ stage' = stage /\ got' = got /\ man' = man
               /\ plan'[p].files = plan[p].files /\ plan'[p].late = plan[p].late /\ plan'[p].time = clock
<1>1. plan[p] \in Manifest /\ clock \in Nat
  BY DEF Types
<1>2. /\ PutTime(plan[p], clock).files = plan[p].files /\ PutTime(plan[p], clock).late = plan[p].late
      /\ PutTime(plan[p], clock).time = clock
  BY <1>1, StampManifest
<1>3. CASE Present(plan[p].files) = {}
  BY <1>3 DEF EndPlan, Types, Go, Unstage, Forget
<1>4. CASE Present(plan[p].files) # {}
  <2>1. plan'[p] = PutTime(plan[p], clock)
    BY <1>4 DEF EndPlan, Types, PutTime
  <2> QED BY <1>2, <1>4, <2>1 DEF EndPlan, Types, Go
<1> QED BY <1>3, <1>4

LEMMA ReadStoreDoes ==
  ASSUME Types, NEW p \in Procs, NEW order, ReadStore(p, order), NEW s, s = order[step[p] + 1]
  PROVE  /\ step[p] \in 0..4 /\ step'[p] = step[p] + 1
         /\ s = "meta" => man'[p] = meta /\ got' = got
         /\ s # "meta" => man' = man
         /\ s \in Stores => /\ s # "meta"
                            /\ \A t \in Stores : got'[p][t] = IF t = s THEN disk[s] ELSE got[p][t]
<1>1. step[p] \in 0..4 /\ step'[p] = step[p] + 1
  BY DEF ReadStore, Types, StoreCount
<1>2. /\ s = "meta" => man'[p] = meta /\ got' = got
      /\ s # "meta" => man' = man
  BY DEF ReadStore, Types
<1>3. ASSUME s \in Stores PROVE s # "meta" /\ \A t \in Stores : got'[p][t] = IF t = s THEN disk[s] ELSE got[p][t]
  <2>1. s # "meta" /\ got[p] \in Stock
    BY <1>3, Orders DEF Types
  <2>2. got' = [got EXCEPT ![p] = [got[p] EXCEPT ![s] = disk[s]]]
    BY <2>1 DEF ReadStore
  <2>3. got'[p] = [got[p] EXCEPT ![s] = disk[s]]
    BY <2>2 DEF Types
  <2> QED BY <1>3, <2>1, <2>3 DEF Stock
<1> QED BY <1>1, <1>2, <1>3

LEMMA RenameDoes ==
  ASSUME Types, Control, NEW p \in Procs, Rename(p)
  PROVE  /\ pc[p] = "rename" /\ UNCHANGED <<tree, clock, mixed, next, hist>>
         /\ \/ /\ step[p] = 4 /\ meta' = plan[p] /\ torn' = FALSE /\ disk' = disk
               /\ \A f \in Files : newest'[f] = IF newest[f] < plan[p].files[f].ver THEN plan[p].files[f].ver ELSE newest[f]
               /\ holders'[p] = "free" /\ step'[p] = 0 /\ pc'[p] = "open"
               /\ stage'[p] = NoStores /\ plan'[p] = NoManifest /\ got'[p] = NoStores /\ man'[p] = NoManifest
            \/ /\ step[p] \in 0..3 /\ step'[p] = step[p] + 1 /\ PublishOrder[step[p] + 1] \in Stores
               /\ \A t \in Stores : disk'[t] = IF t = PublishOrder[step[p] + 1] THEN stage[p][t] ELSE disk[t]
               /\ UNCHANGED <<meta, torn, newest, holders, pc, stage, plan, got, man>>
<1>0. step[p] \in 0..4 /\ pc[p] = "rename" /\ UNCHANGED <<tree, clock, mixed, next, hist>>
  BY DEF Rename, Control, ControlOf, Types, StoreCount
<1>1. CASE step[p] = 4
  <2>1. PublishOrder[step[p] + 1] = "meta"
    BY <1>1, Orders
  <2> QED BY <1>0, <1>1, <2>1 DEF Rename, Types, Go, Unstage, Forget
<1>2. CASE step[p] \in 0..3
  <2> DEFINE s == PublishOrder[step[p] + 1]
  <2>1. s \in Stores /\ s # "meta"
    BY <1>2 DEF PublishOrder, Stores
  <2>2. disk' = [disk EXCEPT ![s] = stage[p][s]] /\ disk \in Stock
    BY <2>1 DEF Rename, Types
  <2>3. step'[p] = step[p] + 1 /\ UNCHANGED <<meta, torn, newest, holders, pc, stage, plan, got, man>>
    BY <2>1 DEF Rename, Types
  <2>4. \A t \in Stores : disk'[t] = IF t = s THEN stage[p][t] ELSE disk[t]
    <3> HIDE DEF s
    <3> QED BY <2>1, <2>2 DEF Stock
  <2> QED BY <1>0, <1>2, <2>1, <2>3, <2>4
<1>3. step[p] = 4 \/ step[p] \in 0..3
  BY <1>0
<1> QED BY <1>1, <1>2, <1>3

\* The last rename, and the others.
LEMMA LastRename ==
  ASSUME Types, Control, NEW p \in Procs, Rename(p), step[p] = 4
  PROVE  /\ meta' = plan[p] /\ disk' = disk /\ pc'[p] = "open"
         /\ \A f \in Files : newest'[f] = IF newest[f] < plan[p].files[f].ver THEN plan[p].files[f].ver ELSE newest[f]
<1>1. ~(4 \in 0..3)
  OBVIOUS
<1>2. ~(step[p] \in 0..3)
  BY <1>1
<1> QED BY <1>2, RenameDoes

LEMMA StoreRename ==
  ASSUME Types, Control, NEW p \in Procs, Rename(p), step[p] # 4
  PROVE  /\ step[p] \in 0..3 /\ step'[p] = step[p] + 1
         /\ UNCHANGED <<meta, torn, newest, holders, pc, stage, plan, got, man>>
         /\ \A t \in Stores : disk'[t] = IF t = PublishOrder[step[p] + 1] THEN stage[p][t] ELSE disk[t]
  BY RenameDoes

LEMMA EditDoes ==
  ASSUME Types, NEW f \in Files, Edit(f)
  PROVE  /\ clock' = clock + 1 /\ UNCHANGED <<disks, holders, pc, step, reading, next, stage, hist>>
         /\ \A g \in Files \ {f} : tree'[g] = tree[g]
         /\ tree'[f] = Missing \/ (tree'[f] # Missing /\ tree'[f].ver = clock + 1)
         /\ \A p \in Procs : /\ plan'[p].files = plan[p].files /\ plan'[p].time = plan[p].time
                             /\ plan'[p].late = IF Overtakes(p, f) THEN plan[p].late \cup {f} ELSE plan[p].late
<1>1. /\ clock' = clock + 1 /\ UNCHANGED <<disks, holders, pc, step, reading, next, stage, hist>>
      /\ \A g \in Files \ {f} : tree'[g] = tree[g]
  BY DEF Edit, Types, Trees
<1>2. tree'[f] = Missing \/ (tree'[f] # Missing /\ tree'[f].ver = clock + 1)
  <2>1. PICK size \in 0..MaxSize :
          tree' = [tree EXCEPT ![f] = IF size = 0 THEN Missing ELSE [ver |-> clock + 1, size |-> size]]
    BY DEF Edit
  <2>2. tree'[f] = IF size = 0 THEN Missing ELSE [ver |-> clock + 1, size |-> size]
    BY <2>1 DEF Types, Trees
  <2>3. clock \in Nat /\ size \in Nat
    BY BoundsAssumption DEF Types
  <2> QED BY <2>2, <2>3 DEF Missing
<1>3. ASSUME NEW p \in Procs
      PROVE  /\ plan'[p].files = plan[p].files /\ plan'[p].time = plan[p].time
             /\ plan'[p].late = IF Overtakes(p, f) THEN plan[p].late \cup {f} ELSE plan[p].late
  <2>1. plan'[p] = IF Overtakes(p, f) THEN PutLate(plan[p], f) ELSE plan[p]
    BY DEF Edit, PutLate
  <2>2. plan[p] \in Manifest
    BY DEF Types
  <2>3. /\ PutLate(plan[p], f).files = plan[p].files /\ PutLate(plan[p], f).time = plan[p].time
        /\ PutLate(plan[p], f).late = plan[p].late \cup {f}
    BY <2>2, PutManifest
  <2> QED BY <2>1, <2>3
<1> QED BY <1>1, <1>2, <1>3

\* What is recorded of a file is copied from elsewhere, or is of no content of the file at all.
Copied(p) ==
  /\ UNCHANGED <<tree, clock>>
  /\ man'[p] \in {man[p], meta, NoManifest} /\ meta' \in {meta, plan[p]}
  /\ \A s \in Stores, f \in Files :
       /\ got'[p][s][f] \in {got[p][s][f], disk[s][f], Missing}
       /\ \/ stage'[p][s][f] \in {stage[p][s][f], tree[f], got[p][s][f], Missing}
          \/ stage'[p][s][f].ver = 0
       /\ disk'[s][f] \in {disk[s][f], stage[p][s][f]}
  /\ \A f \in Files :
       /\ \/ plan'[p].files[f] \in {plan[p].files[f], man[p].files[f], tree[f], Missing}
          \/ plan'[p].files[f] = [ver |-> plan[p].files[f].ver, size |-> tree[f].size]
       /\ newest'[f] \in {newest[f], plan[p].files[f].ver}

LEMMA Copies == ASSUME Types, Control, NEW p \in Procs, OwnStep(p) PROVE Copied(p)
<1> USE DEF Copied
<1>0. /\ holders = [q \in Procs |-> holders[q]] /\ pc = [q \in Procs |-> pc[q]]
      /\ got = [q \in Procs |-> got[q]] /\ man = [q \in Procs |-> man[q]]
      /\ stage = [q \in Procs |-> stage[q]] /\ plan = [q \in Procs |-> plan[q]]
  BY DEF Types
<1>1. CASE Begin(p) \/ Walk(p)
  BY <1>0, <1>1, NoIndex DEF Begin, Walk, disks, building, reading
<1>2. CASE ReadPrevious(p) \/ Load(p)
  <2>1. PICK order \in {PreviousOrder, LoadOrder} : ReadStore(p, order)
    BY <1>2 DEF ReadPrevious, Load
  <2> DEFINE s == order[step[p] + 1]
  <2>2. s = "meta" \/ s \in Stores
    BY <2>1 DEF Types, PreviousOrder, LoadOrder, Stores, ReadStore, StoreCount
  <2>3. UNCHANGED <<tree, clock, disk, meta, newest, stage, plan>>
    BY <1>2 DEF ReadPrevious, Load, disks, building
  <2>4. /\ s = "meta" => man'[p] = meta /\ got' = got
        /\ s # "meta" => man' = man
        /\ s \in Stores => \A t \in Stores : got'[p][t] = IF t = s THEN disk[s] ELSE got[p][t]
    BY <2>1, ReadStoreDoes
  <2> HIDE DEF s
  <2>5. \A t \in Stores, f \in Files : got'[p][t][f] \in {got[p][t][f], disk[t][f], Missing}
    BY <2>2, <2>4
  <2>6. man'[p] \in {man[p], meta, NoManifest}
    BY <2>4
  <2> QED BY <2>3, <2>5, <2>6
<1>3. CASE EndPrevious(p) \/ RebuildServed(p)
  <2>1. UNCHANGED <<tree, clock, disk, meta, newest>>
    BY <1>3 DEF EndPrevious, RebuildServed, disks
  <2>2. stage'[p] = NoStores /\ plan'[p] = NoManifest
    BY <1>0, <1>3 DEF EndPrevious, RebuildServed, StartPlan, Unstage
  <2>3. (got'[p] = got[p] \/ got'[p] = NoStores) /\ (man'[p] = man[p] \/ man'[p] = NoManifest)
    BY <1>0, <1>3 DEF EndPrevious, RebuildServed, Forget, reading
  <2> QED BY <2>1, <2>2, <2>3, NoIndex
<1>4. CASE StatOld(p)
  <2> DEFINE f == next[p]
  <2>1. /\ UNCHANGED <<tree, clock, disks, reading>>
        /\ \A g \in Files : plan'[p].files[g] = IF g = f /\ tree[f] # Missing THEN man[p].files[f] ELSE plan[p].files[g]
        /\ \A s \in Stores, g \in Files :
             stage'[p][s][g] = IF g = f /\ tree[f] # Missing THEN Reused(p, s, f) ELSE stage[p][s][g]
    BY <1>4, StatOldDoes
  <2>2. \A s \in Stores : Reused(p, s, f) = got[p][s][f] \/ Reused(p, s, f).ver = 0
    BY DEF Reused
  <2> HIDE DEF f
  <2> QED BY <2>1, <2>2 DEF disks, reading
<1>5. CASE StatNew(p)
  <2>1. /\ UNCHANGED <<tree, clock, disks, reading, stage>>
        /\ \A g \in Files : plan'[p].files[g] = IF g = next[p] THEN tree[next[p]] ELSE plan[p].files[g]
    BY <1>5, StatNewDoes
  <2> QED BY <2>1 DEF disks, reading
<1>6. CASE ReadFile(p)
  <2> DEFINE f == next[p]
  <2>1. /\ UNCHANGED <<tree, clock, disks, reading>>
        /\ \A g \in Files : g # f => plan'[p].files[g] = plan[p].files[g]
        /\ tree[f] = Missing => plan'[p].files[f] = Missing
        /\ tree[f] # Missing => plan'[p].files[f] = [ver |-> plan[p].files[f].ver, size |-> tree[f].size]
        /\ \A s \in Stores, g \in Files : stage'[p][s][g] = IF g = f /\ tree[f] # Missing THEN tree[f] ELSE stage[p][s][g]
    BY <1>6, ReadFileDoes
  <2> HIDE DEF f
  <2> QED BY <2>1 DEF disks, reading
<1>7. CASE EndPlan(p)
  <2>1. /\ UNCHANGED <<tree, clock, disks>>
        /\ \/ /\ stage'[p] = NoStores /\ plan'[p] = NoManifest
              /\ got'[p] = NoStores /\ man'[p] = NoManifest
           \/ /\ stage' = stage /\ got' = got /\ man' = man
              /\ plan'[p].files = plan[p].files
    BY <1>7, EndPlanDoes
  <2> QED BY <2>1, NoIndex DEF disks
<1>8. CASE LockExclusive(p) \/ LockShared(p) \/ EndLoad(p)
  <2>1. UNCHANGED <<tree, clock, disk, meta, newest, stage, plan>>
    BY <1>8 DEF LockExclusive, LockShared, EndLoad, disks, building
  <2>2. (got'[p] = got[p] \/ got'[p] = NoStores) /\ (man'[p] = man[p] \/ man'[p] = NoManifest)
    BY <1>0, <1>8 DEF LockExclusive, LockShared, EndLoad, Forget, reading
  <2> QED BY <2>1, <2>2, NoIndex
<1>9. CASE Rename(p)
  <2>1. CASE /\ meta' = plan[p] /\ disk' = disk
             /\ \A f \in Files : newest'[f] = IF newest[f] < plan[p].files[f].ver THEN plan[p].files[f].ver ELSE newest[f]
             /\ stage'[p] = NoStores /\ plan'[p] = NoManifest /\ got'[p] = NoStores /\ man'[p] = NoManifest
    <3>1. tree' = tree /\ clock' = clock
      BY <1>9, RenameDoes
    <3>2. \A f \in Files : newest'[f] \in {newest[f], plan[p].files[f].ver}
      BY <2>1
    <3>3. /\ \A s \in Stores, f \in Files : stage'[p][s][f] = Missing /\ got'[p][s][f] = Missing
          /\ \A f \in Files : plan'[p].files[f] = Missing /\ man'[p].files[f] = Missing
      BY <2>1, NoIndex
    <3>4. meta' = plan[p] /\ man'[p] = NoManifest /\ disk' = disk
      BY <2>1
    <3> QED BY <3>1, <3>2, <3>3, <3>4
  <2>2. CASE /\ \A t \in Stores : disk'[t] = IF t = PublishOrder[step[p] + 1] THEN stage[p][t] ELSE disk[t]
             /\ UNCHANGED <<meta, newest, stage, plan, got, man>>
    BY <1>9, <2>2, RenameDoes
  <2> QED BY <1>9, <2>1, <2>2, RenameDoes
<1>10. CASE Lose(p)
  <2>1. UNCHANGED <<tree, clock, disk, meta, newest>>
    BY <1>10 DEF Lose
  <2>2. stage'[p] = NoStores /\ plan'[p] = NoManifest /\ got'[p] = NoStores /\ man'[p] = NoManifest
    BY <1>0, <1>10 DEF Lose, Forget, Unstage
  <2>3. /\ \A s \in Stores, f \in Files : stage'[p][s][f] = Missing /\ got'[p][s][f] = Missing
        /\ \A f \in Files : plan'[p].files[f] = Missing
    BY <2>2, NoIndex
  <2> QED BY <2>1, <2>2, <2>3
<1> QED BY <1>1, <1>2, <1>3, <1>4, <1>5, <1>6, <1>7, <1>8, <1>9, <1>10 DEF OwnStep

-----------------------------------------------------------------------------
(* What is recorded is sound. *)

LEMMA RecordedStep == ASSUME Types, Control, Recorded, Next PROVE Recorded'
<1>0. clock \in Nat /\ \A f \in Files : tree[f] \in Told /\ tree[f].ver \in Nat /\ (tree[f] # Missing => tree[f].ver # 0)
  <2>1. \A f \in Files : tree[f] \in Told
    BY DEF Types, Trees
  <2> QED BY <2>1, Empty DEF Types, Content
<1>1. ASSUME NEW e \in Files, Edit(e) PROVE Recorded'
  <2>1. /\ clock' = clock + 1 /\ UNCHANGED <<disk, meta, newest, got, man, stage>>
        /\ \A g \in Files \ {e} : tree'[g] = tree[g]
        /\ tree'[e] = Missing \/ (tree'[e] # Missing /\ tree'[e].ver = clock + 1)
        /\ \A p \in Procs : plan'[p].files = plan[p].files
    BY <1>1, EditDoes DEF disks, reading
  <2>2. ASSUME NEW x, NEW f \in Files, x.ver \in Nat, Sound(x, tree[f], clock) PROVE Sound(x, tree'[f], clock')
    BY <1>0, <2>1, <2>2 DEF Sound
  <2>3. \A f \in Files : /\ tree'[f].ver <= clock'
                         /\ newest[f] <= clock' /\ (tree'[f] # Missing => newest[f] <= tree'[f].ver)
    <3>1. ASSUME NEW f \in Files PROVE tree'[f].ver <= clock' /\ newest[f] <= clock' /\ (tree'[f] # Missing => newest[f] <= tree'[f].ver)
      <4>1. newest[f] \in Nat /\ newest[f] <= clock /\ (tree[f] # Missing => newest[f] <= tree[f].ver) /\ tree[f].ver <= clock
        BY DEF Types, Recorded
      <4>2. CASE f = e
        BY <1>0, <2>1, <4>1, <4>2, Empty
      <4>3. CASE f # e
        BY <1>0, <2>1, <4>1, <4>3
      <4> QED BY <4>2, <4>3
    <3> QED BY <3>1
  <2>4. ASSUME NEW S \in Stock, NEW s \in Stores, NEW f \in Files PROVE S[s][f].ver \in Nat
    BY DEF Stock, Store, Content
  <2>5. ASSUME NEW M \in Manifest, NEW f \in Files PROVE M.files[f].ver \in Nat
    BY PutManifest
  <2>6. /\ disk \in Stock /\ meta \in Manifest
        /\ \A p \in Procs : got[p] \in Stock /\ man[p] \in Manifest /\ stage[p] \in Stock /\ plan[p] \in Manifest
    BY DEF Types
  <2>7. \A s \in Stores, f \in Files : Sound(disk[s][f], tree'[f], clock')
    BY <2>2, <2>4, <2>6 DEF Recorded
  <2>8. \A f \in Files : Sound(meta.files[f], tree'[f], clock')
    BY <2>2, <2>5, <2>6 DEF Recorded
  <2>9. \A p \in Procs, s \in Stores, f \in Files :
          Sound(got[p][s][f], tree'[f], clock') /\ Sound(stage[p][s][f], tree'[f], clock')
    BY <2>2, <2>4, <2>6 DEF Recorded
  <2>10. \A p \in Procs, f \in Files :
           Sound(man[p].files[f], tree'[f], clock') /\ Sound(plan[p].files[f], tree'[f], clock')
    BY <2>2, <2>5, <2>6 DEF Recorded
  <2> QED BY <2>1, <2>3, <2>7, <2>8, <2>9, <2>10 DEF Recorded
<1>2. ASSUME NEW p \in Procs, OwnStep(p) PROVE Recorded'
  <2>1. Copied(p) /\ Keep(p)
    BY <1>2, Copies, OthersKeep
  <2>2. tree' = tree /\ clock' = clock
    BY <2>1 DEF Copied
  <2>3. \A f \in Files : Sound(Missing, tree[f], clock) /\ Sound(tree[f], tree[f], clock)
    BY <1>0, Empty DEF Sound, Recorded
  <2>4. ASSUME NEW f \in Files, NEW x, x.ver = 0 PROVE Sound(x, tree[f], clock)
    BY <1>0, <2>4 DEF Sound
  <2>5. \A s \in Stores, f \in Files : Sound(got'[p][s][f], tree[f], clock)
    BY <2>1, <2>3 DEF Copied, Recorded
  <2>6. \A s \in Stores, f \in Files : Sound(stage'[p][s][f], tree[f], clock)
    BY <2>1, <2>3, <2>4 DEF Copied, Recorded
  <2>7. \A s \in Stores, f \in Files : Sound(disk'[s][f], tree[f], clock)
    BY <2>1 DEF Copied, Recorded
  <2>8. \A f \in Files : Sound(man'[p].files[f], tree[f], clock) /\ Sound(meta'.files[f], tree[f], clock)
    BY <2>1, <2>3, NoIndex DEF Copied, Recorded
  <2>9. ASSUME NEW f \in Files PROVE Sound(plan'[p].files[f], tree[f], clock)
    <3>1. Sound(plan[p].files[f], tree[f], clock) /\ Sound(man[p].files[f], tree[f], clock)
      BY DEF Recorded
    <3>2. CASE plan'[p].files[f] = [ver |-> plan[p].files[f].ver, size |-> tree[f].size]
      <4>1. tree[f] # Missing => tree[f] = [ver |-> tree[f].ver, size |-> tree[f].size]
        BY <1>0 DEF Told
      <4> QED BY <3>1, <3>2, <4>1 DEF Sound
    <3> QED BY <2>1, <2>3, <3>1, <3>2 DEF Copied
  <2>10. ASSUME NEW f \in Files PROVE newest'[f] <= clock /\ (tree[f] # Missing => newest'[f] <= tree[f].ver)
    <3>1. Sound(plan[p].files[f], tree[f], clock) /\ newest[f] <= clock /\ (tree[f] # Missing => newest[f] <= tree[f].ver)
      BY DEF Recorded
    <3>2. plan[p].files[f].ver \in Nat
      BY PutManifest DEF Types
    <3>3. plan[p].files[f].ver <= clock /\ (tree[f] # Missing => plan[p].files[f].ver <= tree[f].ver)
      BY <1>0, <3>1, <3>2 DEF Sound
    <3> QED BY <2>1, <3>1, <3>3 DEF Copied
  <2>11. ASSUME NEW q \in Procs, NEW f \in Files
         PROVE  /\ Sound(man'[q].files[f], tree[f], clock) /\ Sound(plan'[q].files[f], tree[f], clock)
                /\ \A s \in Stores : Sound(got'[q][s][f], tree[f], clock) /\ Sound(stage'[q][s][f], tree[f], clock)
    <3>1. CASE q = p
      BY <2>5, <2>6, <2>8, <2>9, <3>1
    <3>2. CASE q # p
      <4>1. got'[q] = got[q] /\ man'[q] = man[q] /\ stage'[q] = stage[q] /\ plan'[q] = plan[q]
        BY <2>1, <3>2 DEF Keep
      <4> QED BY <4>1 DEF Recorded
    <3> QED BY <3>1, <3>2
  <2>12. \A f \in Files : tree[f].ver <= clock
    BY DEF Recorded
  <2> QED BY <2>2, <2>7, <2>8, <2>10, <2>11, <2>12 DEF Recorded
<1> QED BY <1>1, <1>2 DEF Next, OwnStep

-----------------------------------------------------------------------------
(* What a build has planned and staged. *)


\* Nothing is planned or staged, so nothing is missing of it.
LEMMA NothingBuilt ==
  ASSUME NEW p \in Procs, stage'[p] = NoStores, plan'[p] = NoManifest, pc'[p] \in {"plan", "idle", "open"} , next'[p] = 1
  PROVE  \A f \in Files : BuiltAt(p, f)'
<1>1. \A f \in Files : ~(f < 1)
  BY Bounds
<1>2. \A f \in Files : plan'[p].files[f] = Missing /\ \A s \in Stores : stage'[p][s][f] = Missing
  BY NoIndex
<1> QED BY <1>1, <1>2, TheStores DEF BuiltAt, Planned

\* A step that leaves alone what p builds.
LEMMA StillBuilt ==
  ASSUME Built, NEW p \in Procs, UNCHANGED <<next, stage, plan>>,
         pc'[p] \in {"plan", "read"} => pc'[p] = pc[p],
         pc'[p] \in {"publish", "rename"} => pc[p] \in {"publish", "rename"}
  PROVE  \A f \in Files : BuiltAt(p, f)'
  BY DEF Built, BuiltAt, Planned, Agrees

LEMMA BuiltStep == ASSUME Types, Control, Built, Next PROVE Built'
<1>0. \A f \in Files : f \in Nat
  BY Bounds
<1>1. ASSUME NEW e \in Files, Edit(e) PROVE Built'
  <2>1. pc' = pc /\ next' = next /\ stage' = stage /\ \A p \in Procs : plan'[p].files = plan[p].files
    BY <1>1, EditDoes
  <2> QED BY <2>1 DEF Built, BuiltAt, Planned, Agrees
<1>2. ASSUME NEW p \in Procs, OwnStep(p) PROVE Built'
  <2>0. /\ pc = [q \in Procs |-> pc[q]] /\ next = [q \in Procs |-> next[q]]
        /\ stage = [q \in Procs |-> stage[q]] /\ plan = [q \in Procs |-> plan[q]]
        /\ next[p] \in Nat /\ ControlOf(p)
        /\ \A f \in Files : BuiltAt(p, f)
    BY Bounds DEF Types, Control, ControlOf, Built, BuiltAt
  <2>1. ASSUME NEW f \in Files PROVE BuiltAt(p, f)'
    <3>1. CASE Begin(p) \/ Walk(p)
      <4>1. UNCHANGED <<next, stage, plan>> /\ pc'[p] \in {"walk", "previous", "open"}
        BY <2>0, <3>1 DEF Begin, Walk, building, Go
      <4> QED BY <4>1, StillBuilt
    <3>2. CASE ReadPrevious(p) \/ Load(p)
      <4>1. UNCHANGED <<next, stage, plan, pc>>
        BY <3>2 DEF ReadPrevious, Load, building
      <4> QED BY <4>1, StillBuilt
    <3>3. CASE EndPrevious(p) \/ RebuildServed(p)
      <4>1. stage'[p] = NoStores /\ plan'[p] = NoManifest /\ pc'[p] = "plan" /\ next'[p] = 1
        BY <2>0, <3>3 DEF EndPrevious, RebuildServed, StartPlan, Unstage, Go, ControlOf
      <4> QED BY <4>1, NothingBuilt
    <3>4. CASE StatOld(p)
      <4> DEFINE e == next[p]
      <4>1. /\ e \in Files /\ pc[p] = "plan" /\ next'[p] = e + 1 /\ pc' = pc /\ tree[e] \in Told /\ tree[e].ver \in Nat
            /\ tree[e].ver = man[p].files[e].ver \/ tree[e] = Missing
            /\ \A g \in Files : plan'[p].files[g] = IF g = e /\ tree[e] # Missing THEN man[p].files[e] ELSE plan[p].files[g]
            /\ \A s \in Stores, g \in Files :
                 stage'[p][s][g] = IF g = e /\ tree[e] # Missing THEN Reused(p, s, e) ELSE stage[p][s][g]
        BY <3>4, StatOldDoes, Empty DEF Types, Trees, Content
      <4>2. \A s \in Stores : Reused(p, s, e).size = man[p].files[e].size
        BY DEF Reused
      <4> HIDE DEF e
      <4>3. CASE f = e /\ tree[e] # Missing
        <5>1. man[p].files[e] # Missing
          BY <4>1, <4>3, Empty
        <5> QED BY <1>0, <2>0, <4>1, <4>2, <4>3, <5>1, TheStores DEF BuiltAt, Planned, Agrees
      <4>4. CASE f = e /\ tree[e] = Missing
        <5>1. next[p] = e
          BY DEF e
        <5>2. plan'[p].files[f] = Missing /\ \A s \in Stores : stage'[p][s][f] = Missing
          BY <1>0, <2>0, <4>1, <4>4, <5>1 DEF BuiltAt, Planned
        <5>3. ~(f >= next'[p])
          BY <1>0, <4>1, <4>4
        <5> QED BY <4>1, <4>4, <5>2, <5>3, TheStores DEF BuiltAt, Planned, Agrees
      <4>5. CASE f # e
        <5>1. next[p] = e
          BY DEF e
        <5>2. plan'[p].files[f] = plan[p].files[f] /\ \A s \in Stores : stage'[p][s][f] = stage[p][s][f]
          BY <4>1, <4>5
        <5>3. (f >= next'[p] => f >= next[p]) /\ (f < next'[p] <=> f < next[p])
          BY <1>0, <4>1, <4>5, <5>1
        <5> QED BY <2>0, <4>1, <5>2, <5>3, TheStores DEF BuiltAt, Planned, Agrees
      <4> QED BY <4>3, <4>4, <4>5
    <3>5. CASE StatNew(p)
      <4> DEFINE e == next[p]
      <4>1. /\ e \in Files /\ pc[p] = "plan" /\ pc'[p] = "read" /\ next' = next /\ stage' = stage /\ tree[e] # Missing
            /\ \A g \in Files : plan'[p].files[g] = IF g = e THEN tree[e] ELSE plan[p].files[g]
        BY <3>5, StatNewDoes
      <4> QED BY <1>0, <2>0, <4>1, TheStores DEF BuiltAt, Planned, Agrees
    <3>6. CASE ReadFile(p)
      <4> DEFINE e == next[p]
      <4>1. /\ e \in Files /\ pc[p] = "read" /\ pc'[p] = "plan" /\ next'[p] = e + 1
            /\ \A g \in Files : g # e => plan'[p].files[g] = plan[p].files[g]
            /\ tree[e] = Missing => plan'[p].files[e] = Missing
            /\ tree[e] # Missing => plan'[p].files[e] = [ver |-> plan[p].files[e].ver, size |-> tree[e].size]
            /\ \A s \in Stores, g \in Files : stage'[p][s][g] = IF g = e /\ tree[e] # Missing THEN tree[e] ELSE stage[p][s][g]
        BY <3>6, ReadFileDoes
      <4>2. next[p] = e
        OBVIOUS
      <4>3. tree[e] \in Told
        BY <4>1 DEF Types, Trees
      <4> HIDE DEF e
      <4>4. CASE f = e /\ tree[e] # Missing
        <5>1. tree[e].size # 0
          BY <4>3, <4>4, Empty
        <5>2. plan'[p].files[f].size = tree[e].size /\ plan'[p].files[f] # Missing /\ \A s \in Stores : stage'[p][s][f] = tree[e]
          BY <4>1, <4>4, <5>1, Empty
        <5>3. ~(f >= next'[p]) /\ f < next'[p]
          BY <1>0, <4>1, <4>4
        <5> QED BY <4>1, <5>2, <5>3, TheStores DEF BuiltAt, Planned, Agrees
      <4>5. CASE f = e /\ tree[e] = Missing
        <5>1. \A s \in Stores : stage[p][s][f] = Missing
          BY <1>0, <2>0, <4>1, <4>2, <4>5 DEF BuiltAt
        <5>2. plan'[p].files[f] = Missing /\ \A s \in Stores : stage'[p][s][f] = Missing
          BY <4>1, <4>5, <5>1
        <5>3. ~(f >= next'[p]) /\ f < next'[p]
          BY <1>0, <4>1, <4>5
        <5> QED BY <4>1, <5>2, <5>3, TheStores DEF BuiltAt, Planned, Agrees
      <4>6. CASE f # e
        <5>1. plan'[p].files[f] = plan[p].files[f] /\ \A s \in Stores : stage'[p][s][f] = stage[p][s][f]
          BY <4>1, <4>6
        <5>2. (f >= next'[p] => f >= next[p]) /\ (f < next'[p] <=> f < next[p]) /\ (f <= next[p] => f < next'[p])
          BY <1>0, <4>1, <4>2, <4>6
        <5> QED BY <2>0, <4>1, <5>1, <5>2, TheStores DEF BuiltAt, Planned, Agrees
      <4> QED BY <4>4, <4>5, <4>6
    <3>7. CASE EndPlan(p)
      <4>1. /\ pc[p] = "plan" /\ next[p] \notin Files /\ next'[p] = 1
            /\ \/ pc'[p] = "idle" /\ stage'[p] = NoStores /\ plan'[p] = NoManifest
               \/ pc'[p] = "publish" /\ stage' = stage /\ plan'[p].files = plan[p].files
        BY <3>7, EndPlanDoes
      <4>2. f < next[p]
        BY <4>1, Bounds DEF Types
      <4>3. CASE pc'[p] = "idle" /\ stage'[p] = NoStores /\ plan'[p] = NoManifest
        BY <4>1, <4>3, NothingBuilt
      <4>4. CASE pc'[p] = "publish" /\ stage' = stage /\ plan'[p].files = plan[p].files
        BY <2>0, <4>1, <4>2, <4>4 DEF BuiltAt, Planned, Agrees
      <4> QED BY <4>1, <4>3, <4>4
    <3>8. CASE LockExclusive(p) \/ LockShared(p) \/ EndLoad(p)
      <4>1. /\ UNCHANGED <<next, stage, plan>> /\ pc'[p] \in {"rename", "load", "served", "idle"}
            /\ pc'[p] = "rename" => pc[p] = "publish"
        BY <2>0, <3>8 DEF LockExclusive, LockShared, EndLoad, building, Go
      <4> QED BY <4>1, StillBuilt
    <3>9. CASE Rename(p)
      <4>1. \/ pc'[p] = "open" /\ stage'[p] = NoStores /\ plan'[p] = NoManifest
            \/ UNCHANGED <<pc, stage, plan>>
        BY <3>9, RenameDoes
      <4>2. next' = next /\ next[p] = 1
        BY <2>0, <3>9 DEF Rename, ControlOf
      <4> QED BY <4>1, <4>2, NothingBuilt, StillBuilt
    <3>10. CASE Lose(p)
      <4>1. stage'[p] = NoStores /\ plan'[p] = NoManifest /\ pc'[p] = "idle" /\ next' = next
        BY <2>0, <3>10 DEF Lose, Unstage, Go
      <4>2. next[p] = 1
        BY <2>0, <3>10 DEF ControlOf, Lose, Types
      <4> QED BY <4>1, <4>2, NothingBuilt
    <3> QED BY <1>2, <3>1, <3>2, <3>3, <3>4, <3>5, <3>6, <3>7, <3>8, <3>9, <3>10 DEF OwnStep
  <2>2. ASSUME NEW q \in Procs \ {p}, NEW f \in Files PROVE BuiltAt(q, f)'
    <3>1. pc'[q] = pc[q] /\ next'[q] = next[q] /\ stage'[q] = stage[q] /\ plan'[q] = plan[q]
      BY <1>2, OthersKeep DEF Keep
    <3> QED BY <3>1 DEF Built, BuiltAt, Planned, Agrees
  <2>3. \A q \in Procs, f \in Files : BuiltAt(q, f)'
    BY <2>1, <2>2
  <2> QED BY <2>3 DEF Built, BuiltAt
<1> QED BY <1>1, <1>2 DEF Next, OwnStep

-----------------------------------------------------------------------------
(* What a manifest's stamp says. *)


LEMMA NeverStamped ==
  ASSUME NEW M, M.time = 0, NEW files \in Trees, NEW now \in Nat
  PROVE  Stamped(M, files, now)
<1>1. \A f \in Files : files[f] \in Told
  BY DEF Trees
<1>2. \A f \in Files : files[f] # Missing => files[f].ver \in Nat \ {0}
  BY <1>1, Empty DEF Content
<1> QED BY <1>2 DEF Stamped

LEMMA StampsStep == ASSUME Types, Control, Recorded, Stamps, Built, Next PROVE Stamps'
<1>0. /\ tree \in Trees /\ clock \in Nat /\ \A f \in Files : tree[f] \in Told /\ tree[f].ver \in Nat /\ f \in Nat
      /\ NoManifest.time = 0
  <2>1. tree \in Trees /\ \A f \in Files : tree[f] \in Told
    BY DEF Types, Trees
  <2> QED BY <2>1, Empty, NoIndex, Bounds DEF Types, Content
<1>1. ASSUME NEW e \in Files, Edit(e) PROVE Stamps'
  <2>1. /\ clock' = clock + 1 /\ UNCHANGED <<meta, pc, man, next>>
        /\ \A g \in Files \ {e} : tree'[g] = tree[g]
        /\ tree'[e] = Missing \/ (tree'[e] # Missing /\ tree'[e].ver = clock + 1)
        /\ \A p \in Procs : /\ plan'[p].files = plan[p].files /\ plan'[p].time = plan[p].time
                            /\ plan'[p].late = IF Overtakes(p, e) THEN plan[p].late \cup {e} ELSE plan[p].late
    BY <1>1, EditDoes DEF disks, reading
  <2>2. ASSUME NEW M \in Manifest, NEW N, N.files = M.files, N.time = M.time, M.late \subseteq N.late, Stamped(M, tree, clock)
        PROVE  Stamped(N, tree', clock')
    <3>1. M.time \in Nat /\ M.time <= clock
      BY <2>2 DEF Stamped, Manifest
    <3>2. ASSUME NEW f \in Files, tree'[f] # Missing, tree'[f].ver <= N.time PROVE N.files[f].ver = tree'[f].ver \/ f \in N.late
      <4>1. f # e
        BY <1>0, <2>1, <2>2, <3>1, <3>2
      <4> QED BY <2>1, <2>2, <3>2, <4>1 DEF Stamped
    <3> QED BY <1>0, <2>1, <2>2, <3>1, <3>2 DEF Stamped
  <2>3. Stamped(meta, tree', clock')
    BY <2>2 DEF Stamps, PlannedAt, Types
  <2>4. \A p \in Procs : Stamped(man[p], tree', clock')
    BY <2>2 DEF Stamps, PlannedAt, Types
  <2>5. \A p \in Procs : Stamped(plan'[p], tree', clock')
    BY <2>1, <2>2 DEF Stamps, PlannedAt, Types
  <2>6. ASSUME NEW p \in Procs, pc[p] \in {"plan", "read"}, NEW f \in Files, Planned(p, f)
        PROVE  plan'[p].files[f].ver = tree'[f].ver \/ f \in plan'[p].late
    <3>1. plan[p].files[f].ver = tree[f].ver \/ f \in plan[p].late
      BY <2>6 DEF Stamps, PlannedAt
    <3>2. CASE f # e
      BY <2>1, <3>1, <3>2
    <3>3. CASE f = e
      <4>1. Overtakes(p, e)
        BY <1>0, <2>6, <3>3 DEF Overtakes, Planned, Types
      <4> QED BY <2>1, <3>3, <4>1
    <3> QED BY <3>2, <3>3
  <2> QED BY <2>1, <2>3, <2>4, <2>5, <2>6 DEF Stamps, PlannedAt, Planned
<1>2. ASSUME NEW p \in Procs, OwnStep(p) PROVE Stamps'
  <2>0. /\ pc = [q \in Procs |-> pc[q]] /\ next = [q \in Procs |-> next[q]] /\ plan = [q \in Procs |-> plan[q]]
        /\ next[p] \in Nat /\ ControlOf(p) /\ PlannedAt(p) /\ Stamped(plan[p], tree, clock)
        /\ \A f \in Files : BuiltAt(p, f)
    BY Bounds DEF Types, Control, ControlOf, Built, BuiltAt, Stamps, PlannedAt
  <2>1. Copied(p) /\ Keep(p) /\ tree' = tree /\ clock' = clock
    BY <1>2, Copies, OthersKeep DEF Copied
  <2>2. Stamped(man'[p], tree, clock) /\ Stamped(meta', tree, clock)
    BY <1>0, <2>1, NeverStamped DEF Copied, Stamps, PlannedAt
  <2>3. PlannedAt(p)' /\ Stamped(plan'[p], tree, clock)
    <3>1. CASE UNCHANGED <<next, plan>> /\ (pc'[p] \in {"plan", "read"} => pc'[p] = pc[p])
      BY <2>0, <2>1, <3>1 DEF PlannedAt, Planned
    <3>2. CASE Begin(p) \/ Walk(p)
      <4>1. UNCHANGED <<next, plan>> /\ pc'[p] \in {"walk", "previous", "open"}
        BY <2>0, <3>2 DEF Begin, Walk, building, Go
      <4> QED BY <3>1, <4>1
    <3>3. CASE ReadPrevious(p) \/ Load(p)
      <4>1. UNCHANGED <<next, plan, pc>>
        BY <3>3 DEF ReadPrevious, Load, building
      <4> QED BY <3>1, <4>1
    <3>4. CASE EndPrevious(p) \/ RebuildServed(p) \/ Lose(p)
      <4>1. plan'[p] = NoManifest /\ next'[p] = 1
        BY <2>0, <3>4 DEF EndPrevious, RebuildServed, StartPlan, Unstage, ControlOf, Lose, Types
      <4>2. pc'[p] \in {"plan", "idle"}
        BY <2>0, <3>4 DEF EndPrevious, RebuildServed, StartPlan, Go, Lose
      <4>3. \A f \in Files : ~(f < next'[p])
        BY <4>1, Bounds
      <4> QED BY <1>0, <4>1, <4>2, <4>3, NeverStamped DEF PlannedAt, Planned
    <3>5. CASE StatOld(p)
      <4> DEFINE e == next[p]
      <4>1. /\ e \in Files /\ pc[p] = "plan" /\ next'[p] = e + 1 /\ pc' = pc
            /\ tree[e].ver = man[p].files[e].ver \/ tree[e] = Missing
            /\ plan'[p].time = plan[p].time /\ plan'[p].late = plan[p].late
            /\ \A g \in Files : plan'[p].files[g] = IF g = e /\ tree[e] # Missing THEN man[p].files[e] ELSE plan[p].files[g]
        BY <3>5, StatOldDoes
      <4>2. ASSUME NEW f \in Files, f < next'[p] PROVE plan'[p].files[f].ver = tree[f].ver \/ f \in plan'[p].late
        <5>1. CASE f = e
          <6>1. plan[p].files[e] = Missing
            BY <1>0, <2>0, <4>1 DEF BuiltAt, Planned
          <6> QED BY <4>1, <5>1, <6>1
        <5>2. CASE f # e
          <6>1. Planned(p, f)
            BY <1>0, <2>0, <4>1, <4>2, <5>2 DEF Planned
          <6> QED BY <2>0, <4>1, <5>2, <6>1 DEF PlannedAt
        <5> QED BY <5>1, <5>2
      <4>3. plan'[p].time = 0
        BY <2>0, <4>1 DEF ControlOf
      <4> QED BY <1>0, <2>1, <4>1, <4>2, <4>3, NeverStamped DEF PlannedAt, Planned
    <3>6. CASE StatNew(p)
      <4> DEFINE e == next[p]
      <4>1. /\ e \in Files /\ pc[p] = "plan" /\ pc'[p] = "read" /\ next' = next
            /\ plan'[p].time = plan[p].time /\ plan'[p].late = plan[p].late
            /\ \A g \in Files : plan'[p].files[g] = IF g = e THEN tree[e] ELSE plan[p].files[g]
        BY <3>6, StatNewDoes
      <4>2. ASSUME NEW f \in Files, f <= next'[p] PROVE plan'[p].files[f].ver = tree[f].ver \/ f \in plan'[p].late
        <5>1. CASE f = e
          BY <4>1, <5>1
        <5>2. CASE f # e
          <6>1. Planned(p, f)
            BY <1>0, <2>0, <4>1, <4>2, <5>2 DEF Planned
          <6> QED BY <2>0, <4>1, <5>2, <6>1 DEF PlannedAt
        <5> QED BY <5>1, <5>2
      <4>3. plan'[p].time = 0
        BY <2>0, <4>1 DEF ControlOf
      <4> QED BY <1>0, <2>1, <4>1, <4>2, <4>3, NeverStamped DEF PlannedAt, Planned
    <3>7. CASE ReadFile(p)
      <4> DEFINE e == next[p]
      <4>1. /\ e \in Files /\ pc[p] = "read" /\ pc'[p] = "plan" /\ next'[p] = e + 1
            /\ plan'[p].time = plan[p].time /\ plan'[p].late = plan[p].late
            /\ \A g \in Files : g # e => plan'[p].files[g] = plan[p].files[g]
            /\ tree[e] = Missing => plan'[p].files[e] = Missing
            /\ tree[e] # Missing => plan'[p].files[e] = [ver |-> plan[p].files[e].ver, size |-> tree[e].size]
        BY <3>7, ReadFileDoes
      <4>2. ASSUME NEW f \in Files, f < next'[p] PROVE plan'[p].files[f].ver = tree[f].ver \/ f \in plan'[p].late
        <5>1. Planned(p, f)
          BY <1>0, <2>0, <4>1, <4>2 DEF Planned
        <5>2. plan[p].files[f].ver = tree[f].ver \/ f \in plan[p].late
          BY <2>0, <4>1, <5>1 DEF PlannedAt
        <5>3. plan'[p].files[f].ver = plan[p].files[f].ver \/ (tree[f] = Missing /\ plan'[p].files[f] = Missing)
          BY <4>1
        <5> QED BY <4>1, <5>2, <5>3
      <4>3. plan'[p].time = 0
        BY <2>0, <4>1 DEF ControlOf
      <4> QED BY <1>0, <2>1, <4>1, <4>2, <4>3, NeverStamped DEF PlannedAt, Planned
    <3>8. CASE EndPlan(p)
      <4>1. /\ pc[p] = "plan" /\ next[p] \notin Files
            /\ \/ pc'[p] = "idle" /\ plan'[p] = NoManifest
               \/ /\ pc'[p] = "publish"
                  /\ plan'[p].files = plan[p].files /\ plan'[p].late = plan[p].late /\ plan'[p].time = clock
        BY <3>8, EndPlanDoes
      <4>2. \A f \in Files : Planned(p, f)
        BY <4>1, Bounds DEF Types, Planned
      <4>3. CASE pc'[p] = "idle" /\ plan'[p] = NoManifest
        BY <1>0, <4>3, NeverStamped DEF PlannedAt
      <4>4. CASE /\ pc'[p] = "publish"
                 /\ plan'[p].files = plan[p].files /\ plan'[p].late = plan[p].late /\ plan'[p].time = clock
        BY <1>0, <2>0, <4>1, <4>2, <4>4 DEF PlannedAt, Stamped
      <4> QED BY <4>1, <4>3, <4>4
    <3>9. CASE LockExclusive(p) \/ LockShared(p) \/ EndLoad(p)
      <4>1. /\ UNCHANGED <<next, plan>> /\ pc'[p] \in {"rename", "load", "served", "idle"}
        BY <2>0, <3>9 DEF LockExclusive, LockShared, EndLoad, building, Go
      <4> QED BY <3>1, <4>1
    <3>10. CASE Rename(p)
      <4>1. next' = next /\ (UNCHANGED <<plan, pc>> \/ (plan'[p] = NoManifest /\ pc'[p] = "open"))
        BY <3>10, RenameDoes
      <4>2. CASE UNCHANGED <<plan, pc>>
        BY <3>1, <4>1, <4>2
      <4>3. CASE plan'[p] = NoManifest /\ pc'[p] = "open"
        BY <1>0, <4>3, NeverStamped DEF PlannedAt
      <4> QED BY <4>1, <4>2, <4>3
    <3> QED BY <1>2, <3>2, <3>3, <3>4, <3>5, <3>6, <3>7, <3>8, <3>9, <3>10 DEF OwnStep
  <2>4. ASSUME NEW q \in Procs \ {p} PROVE PlannedAt(q)' /\ Stamped(plan'[q], tree, clock) /\ Stamped(man'[q], tree, clock)
    <3>1. pc'[q] = pc[q] /\ next'[q] = next[q] /\ man'[q] = man[q] /\ plan'[q] = plan[q]
      BY <2>1 DEF Keep
    <3> QED BY <2>1, <3>1 DEF Stamps, PlannedAt, Planned
  <2>5. \A q \in Procs : PlannedAt(q)'
    BY <2>3, <2>4
  <2>6. \A q \in Procs : Stamped(plan'[q], tree, clock) /\ Stamped(man'[q], tree, clock)
    BY <2>2, <2>3, <2>4
  <2> QED BY <2>1, <2>2, <2>5, <2>6 DEF Stamps, PlannedAt
<1> QED BY <1>1, <1>2 DEF Next, OwnStep

-----------------------------------------------------------------------------
(* While nothing is tainted. *)

\* Blame stays.
LEMMA BlameStays == ASSUME Types, Next, Untainted' PROVE Untainted
<1>1. ASSUME NEW f \in Files, Edit(f) PROVE Untainted
  BY <1>1 DEF Edit, hist, blames, Untainted
<1>2. ASSUME NEW p \in Procs, OwnStep(p) PROVE Untainted
  <2> USE DEF Untainted
  <2>0. UNCHANGED hist \/ UNCHANGED blames => Untainted
    BY DEF hist, blames
  <2>1. CASE Begin(p) \/ Walk(p) \/ ReadPrevious(p) \/ Load(p)
    BY <2>0, <2>1 DEF Begin, Walk, ReadPrevious, Load
  <2>2. CASE EndPrevious(p)
    <3>1. UNCHANGED <<passedOn, regressed>> /\ (blurred => blurred')
      BY <2>2 DEF EndPrevious
    <3> QED BY <3>1
  <2>6. CASE RebuildServed(p)
    <3>1. UNCHANGED <<regressed, blurred>> /\ (passedOn => passedOn')
      BY <2>6 DEF RebuildServed
    <3> QED BY <3>1
  <2>3. CASE StatOld(p) \/ StatNew(p) \/ ReadFile(p) \/ EndPlan(p)
    <3>1. UNCHANGED hist
      BY <2>3 DEF StatOld, StatNew, ReadFile, EndPlan
    <3> QED BY <2>0, <3>1
  <2>4. CASE LockExclusive(p)
    <3>1. (regressed => regressed') /\ UNCHANGED <<passedOn, blurred>>
      BY <2>4 DEF LockExclusive
    <3> QED BY <3>1
  <2>5. CASE LockShared(p) \/ EndLoad(p) \/ Rename(p) \/ Lose(p)
    BY <2>0, <2>5 DEF LockShared, EndLoad, Rename, Lose
  <2> QED BY <1>2, <2>1, <2>2, <2>3, <2>4, <2>5, <2>6 DEF OwnStep
<1> QED BY <1>1, <1>2 DEF Next, OwnStep

\* Only who renames changes what is published.
LEMMA OnlyRenames ==
  ASSUME Types, Control, NEW p \in Procs, OwnStep(p)
  PROVE  /\ ~Rename(p) => UNCHANGED <<disk, meta, newest>>
         /\ pc[p] # "rename" => (torn' => torn)
         /\ ~Rename(p) /\ ~Lose(p) => torn' = torn /\ pc[p] # "rename"
<1> USE DEF disks, OwnStep
<1>1. CASE Begin(p) \/ Walk(p) \/ ReadPrevious(p) \/ EndPrevious(p) \/ Load(p)
  BY <1>1 DEF Begin, Walk, ReadPrevious, EndPrevious, Load
<1>2. CASE StatOld(p) \/ StatNew(p) \/ ReadFile(p) \/ EndPlan(p)
  BY <1>2 DEF StatOld, StatNew, ReadFile, EndPlan
<1>6. CASE RebuildServed(p)
  BY <1>6 DEF RebuildServed
<1>3. CASE LockExclusive(p) \/ LockShared(p) \/ EndLoad(p)
  BY <1>3 DEF LockExclusive, LockShared, EndLoad
<1>4. CASE Rename(p)
  BY <1>4 DEF Rename
<1>5. CASE Lose(p)
  BY <1>5 DEF Lose, Control, ControlOf
<1> QED BY <1>1, <1>2, <1>3, <1>4, <1>5, <1>6

\* While p has the lock, no one else changes what is published.
LEMMA LockedOut ==
  ASSUME Types, Control, NEW p \in Procs, NEW q \in Procs \ {p}, OwnStep(q), holders[p] # "free"
  PROVE  UNCHANGED <<disk, meta, newest>> /\ (torn' => torn)
<1>1. pc[q] # "rename"
  BY DEF Control
<1> QED BY <1>1, OnlyRenames DEF Rename

\* A plan that is not out of date has a file the newest manifest and the tree agree on as
\* the tree has it, or not at all.
LEMMA PlanIsCurrent ==
  ASSUME Types, Recorded, NEW p \in Procs, NEW f \in Files,
         plan[p].files[f].ver = tree[f].ver \/ plan[p].files[f].ver >= tree[f].ver, tree[f] # Missing
  PROVE  plan[p].files[f].ver = tree[f].ver
<1>1. Sound(plan[p].files[f], tree[f], clock) /\ tree[f].ver \in Nat /\ plan[p].files[f].ver \in Nat
  BY PutManifest, Empty DEF Recorded, Types, Trees, Content
<1> QED BY <1>1 DEF Sound

LEMMA FolderStep ==
  ASSUME Types, Control, Recorded, Built, Folder, Staged, Publishing, Next
  PROVE  Folder'
<1>0. \A f \in Files : newest[f] \in Nat /\ tree[f] \in Told /\ tree[f].ver \in Nat /\ clock \in Nat
  BY Empty DEF Types, Trees, Content
<1>1. ASSUME NEW e \in Files, Edit(e) PROVE Folder'
  <2>1. /\ clock' = clock + 1 /\ UNCHANGED <<disk, meta, newest, man>>
        /\ \A g \in Files \ {e} : tree'[g] = tree[g]
        /\ tree'[e] = Missing \/ (tree'[e] # Missing /\ tree'[e].ver = clock + 1)
    BY <1>1, EditDoes DEF disks, reading
  <2>2. newest[e] <= clock
    BY DEF Recorded
  <2>3. \A f \in Files, s \in Checked :
          tree'[f] # Missing /\ newest[f] = tree'[f].ver => disk[s][f] = tree'[f] \/ disk[s][f].size = 0
    BY <1>0, <2>1, <2>2 DEF Folder
  <2> QED BY <2>1, <2>3 DEF Folder
<1>2. ASSUME NEW p \in Procs, OwnStep(p) PROVE Folder'
  <2>1. Copied(p) /\ Keep(p) /\ tree' = tree
    BY <1>2, Copies, OthersKeep DEF Copied
  <2>2. \A f \in Files : /\ newest'[f] \in Nat /\ newest[f] <= newest'[f] /\ meta'.files[f].ver <= newest'[f]
    <3>1. CASE ~Rename(p)
      BY <1>0, <1>2, <3>1, OnlyRenames DEF Folder
    <3>2. CASE Rename(p)
      <4>1. ASSUME NEW f \in Files PROVE newest'[f] \in Nat /\ newest[f] <= newest'[f] /\ meta'.files[f].ver <= newest'[f]
        <5>1. plan[p].files[f].ver \in Nat
          BY PutManifest DEF Types
        <5>2. CASE step[p] = 4
          BY <1>0, <3>2, <5>1, <5>2, LastRename
        <5>3. CASE step[p] # 4
          BY <1>0, <3>2, <5>3, StoreRename DEF Folder
        <5> QED BY <5>2, <5>3
      <4> QED BY <4>1
    <3> QED BY <3>1, <3>2
  <2>3. ASSUME NEW q \in Procs, NEW f \in Files PROVE man'[q].files[f].ver <= newest'[f]
    <3>1. man'[q] \in {man[q], meta, NoManifest}
      BY <2>1 DEF Copied, Keep
    <3>2. /\ man[q].files[f].ver <= newest[f] /\ meta.files[f].ver <= newest[f] /\ NoManifest.files[f].ver = 0
          /\ man[q].files[f].ver \in Nat /\ meta.files[f].ver \in Nat
      BY NoIndex, Empty, PutManifest DEF Folder, Types
    <3> QED BY <1>0, <2>2, <3>1, <3>2
  <2>4. ASSUME NEW f \in Files, NEW s \in Checked, tree[f] # Missing, newest'[f] = tree[f].ver
        PROVE  disk'[s][f] = tree[f] \/ disk'[s][f].size = 0
    <3>1. CASE ~Rename(p)
      BY <1>2, <2>4, <3>1, OnlyRenames DEF Folder
    <3>2. CASE Rename(p)
      <4>0. pc[p] = "rename" /\ s \in Stores /\ s \in {"bm25", "chunks", "vectors"}
        BY <3>2, TheStores DEF Rename
      <4>1. /\ stage[p][s][f] = stage[p]["chunks"][f]
            /\ plan[p].files[f].ver = tree[f].ver => stage[p]["chunks"][f] = tree[f]
        BY <4>0 DEF Staged, StagedAt
      <4>2. plan[p].files[f].ver = 0 => stage[p][s][f].size = 0
        BY Empty, PutManifest DEF Types, Built, BuiltAt
      <4>3. CASE step[p] = 4
        <5>1. disk' = disk /\ newest'[f] = IF newest[f] < plan[p].files[f].ver THEN plan[p].files[f].ver ELSE newest[f]
          BY <3>2, <4>3, LastRename
        <5>2. disk[s] = stage[p][s]
          BY <4>0, <4>3 DEF Publishing, PublishingOf
        <5>3. CASE newest[f] = tree[f].ver
          BY <2>4, <5>1, <5>3 DEF Folder
        <5>4. CASE newest[f] # tree[f].ver
          BY <2>4, <4>1, <5>1, <5>2, <5>4
        <5> QED BY <5>3, <5>4
      <4>4. CASE step[p] # 4
        <5>1. /\ newest' = newest
              /\ \A t \in Stores : disk'[t] = IF t = PublishOrder[step[p] + 1] THEN stage[p][t] ELSE disk[t]
          BY <3>2, <4>4, StoreRename
        <5>2. CASE s = PublishOrder[step[p] + 1]
          <6>1. disk'[s] = stage[p][s]
            BY <4>0, <5>1, <5>2
          <6>2. plan[p].files[f].ver = 0 \/ plan[p].files[f].ver >= tree[f].ver
            BY <2>4, <4>0, <5>1 DEF Publishing, PublishingOf
          <6>3. CASE plan[p].files[f].ver = 0
            BY <4>2, <6>1, <6>3
          <6>4. CASE plan[p].files[f].ver >= tree[f].ver
            <7>1. plan[p].files[f].ver = tree[f].ver
              BY <2>4, <6>4, PlanIsCurrent
            <7> QED BY <4>1, <6>1, <7>1
          <6> QED BY <6>2, <6>3, <6>4
        <5>3. CASE s # PublishOrder[step[p] + 1]
          BY <2>4, <4>0, <5>1, <5>3 DEF Folder
        <5> QED BY <5>2, <5>3
      <4> QED BY <4>3, <4>4
    <3> QED BY <3>1, <3>2
  <2> QED BY <2>1, <2>2, <2>3, <2>4 DEF Folder
<1> QED BY <1>1, <1>2 DEF Next, OwnStep

\* A generation that is staged whole is one generation.
LEMMA StagedIsWhole ==
  ASSUME Types, Control, Built, Staged, NEW p \in Procs, pc[p] = "rename"
  PROVE  Sized(stage[p], plan[p]) /\ Alike(stage[p])
<1>1. \A f \in Files, s \in Checked : stage[p][s][f].size = plan[p].files[f].size
  BY DEF Built, BuiltAt, Agrees
<1>2. \A f \in Files, s \in Checked : stage[p][s][f] = stage[p]["chunks"][f]
  BY DEF Staged, StagedAt
<1> QED BY <1>1, <1>2 DEF Sized, Alike, Sizes

LEMMA SameFolder ==
  ASSUME NEW S, NEW T, NEW M, \A s \in Checked : S[s] = T[s], Sized(S, M) /\ Alike(S)
  PROVE  Sized(T, M) /\ Alike(T)
  BY TheStores DEF Sized, Alike

LEMMA WholeStep ==
  ASSUME Types, Control, Built, Whole, Staged, Publishing, Next
  PROVE  Whole'
<1>1. ASSUME NEW e \in Files, Edit(e) PROVE Whole'
  <2>1. UNCHANGED <<disk, meta, torn, pc, step>>
    BY <1>1 DEF Edit, disks
  <2> QED BY <2>1 DEF Whole, Renaming, Sized, Alike
<1>2. ASSUME NEW p \in Procs, OwnStep(p) PROVE Whole'
  <2>1. Keep(p)
    BY <1>2, OthersKeep
  <2>2. ASSUME NEW q \in Procs \ {p}, pc[q] = "rename" /\ step[q] # 0 PROVE Renaming'
    BY <2>1, <2>2 DEF Keep, Renaming
  <2>3. CASE ~Rename(p) /\ ~Lose(p)
    <3>1. UNCHANGED <<disk, meta, torn>> /\ pc[p] # "rename"
      BY <1>2, <2>3, OnlyRenames
    <3>2. Renaming => Renaming'
      BY <2>2, <3>1 DEF Renaming
    <3> QED BY <3>1, <3>2 DEF Whole, Sized, Alike
  <2>4. CASE Lose(p)
    <3>1. UNCHANGED <<disk, meta>> /\ (torn => torn') /\ (pc[p] = "rename" /\ step[p] # 0 => torn')
      BY <2>4 DEF Lose
    <3>2. Renaming => Renaming' \/ torn'
      BY <2>2, <3>1 DEF Renaming
    <3> QED BY <3>1, <3>2 DEF Whole, Sized, Alike
  <2>5. CASE Rename(p)
    <3>0. pc[p] = "rename"
      BY <2>5 DEF Rename
    <3>1. CASE step[p] = 4
      <4>1. meta' = plan[p] /\ disk' = disk
        BY <2>5, <3>1, LastRename
      <4>2. \A s \in Checked : stage[p][s] = disk[s]
        BY <3>0, <3>1, TheStores DEF Publishing, PublishingOf
      <4>3. Sized(disk, plan[p]) /\ Alike(disk)
        BY <3>0, <4>2, StagedIsWhole, SameFolder
      <4> QED BY <4>1, <4>3 DEF Whole, Sized, Alike
    <3>2. CASE step[p] # 4
      <4>1. pc' = pc /\ step'[p] = step[p] + 1 /\ step[p] \in 0..3
        BY <2>5, <3>2, StoreRename
      <4>2. step'[p] # 0
        BY <4>1
      <4> QED BY <3>0, <4>1, <4>2 DEF Whole, Renaming
    <3> QED BY <3>1, <3>2
  <2> QED BY <2>3, <2>4, <2>5
<1> QED BY <1>1, <1>2 DEF Next, OwnStep

-----------------------------------------------------------------------------
(* What is read. *)

\* No manifest knows what an edit writes, so to a reader nothing becomes current by it.
LEMMA EditIsNews ==
  ASSUME Types, Recorded, NEW e \in Files, Edit(e), NEW p \in Procs, NEW f \in Files, Current(man[p].files[f], tree'[f])
  PROVE  tree'[f] = tree[f] /\ Current(man[p].files[f], tree[f])
<1>1. /\ clock' = clock + 1 /\ clock \in Nat
      /\ \A g \in Files \ {e} : tree'[g] = tree[g]
      /\ tree'[e] = Missing \/ (tree'[e] # Missing /\ tree'[e].ver = clock + 1)
  BY EditDoes DEF Types
<1>2. man[p].files[f].ver <= clock
  BY DEF Recorded, Sound
<1>3. f # e
  BY <1>1, <1>2 DEF Current
<1> QED BY <1>1, <1>3

LEMMA NothingReusable == ASSUME NEW files \in Trees PROVE Reusable(NoStores, NoManifest, files)
<1>1. \A f \in Files : files[f] \in Told
  BY DEF Trees
<1>2. \A f \in Files : ~Current(NoManifest.files[f], files[f])
  BY <1>1, NoIndex, Empty DEF Current
<1>3. \A s \in Checked : Sizes(NoStores[s]) = Sizes(NoManifest.files)
  BY NoIndex, TheStores
<1> QED BY <1>2, <1>3 DEF Reusable, Sized

\* A file a reader knows as the tree has it: no published manifest has it otherwise, and
\* the folder has it as it is, or not.
LEMMA KnownIsPublished ==
  ASSUME Types, Recorded, Folder, NEW told \in Told, NEW f \in Files, told.ver <= newest[f], Current(told, tree[f])
  PROVE  /\ told.size # 0
         /\ \A s \in Checked : disk[s][f] = tree[f] \/ disk[s][f].size = 0
<1>1. newest[f] <= tree[f].ver /\ tree[f] # Missing /\ told.ver = tree[f].ver
  BY DEF Recorded, Current
<1>2. tree[f] \in Told /\ tree[f].ver \in Nat /\ newest[f] \in Nat
  BY Empty DEF Types, Trees, Content
<1>3. newest[f] = tree[f].ver
  BY <1>1, <1>2
<1>4. told # Missing
  BY <1>1, <1>2, Empty
<1> QED BY <1>1, <1>3, <1>4, Empty DEF Folder

\* What previous holds, if all its stores are as long as the manifest says, can be reused.
LEMMA LongEnough ==
  ASSUME Types, NEW S, NEW M \in Manifest, Sized(S, M),
         \A f \in Files, s \in Checked : Current(M.files[f], tree[f]) => S[s][f] = tree[f] \/ S[s][f].size = 0
  PROVE  Reusable(S, M, tree)
<1>1. ASSUME NEW f \in Files, NEW s \in Checked, Current(M.files[f], tree[f]) PROVE S[s][f] = tree[f]
  <2>1. S[s][f].size = M.files[f].size
    BY DEF Sized, Sizes
  <2>2. M.files[f] \in Told /\ tree[f] \in Told
    BY PutManifest DEF Types, Trees
  <2>3. M.files[f].size # 0
    BY <1>1, <2>2, Empty DEF Current
  <2> QED BY <1>1, <2>1, <2>3
<1> QED BY <1>1 DEF Reusable

\* A whole folder, read under the lock.
LEMMA FolderIsReusable ==
  ASSUME Types, Recorded, Folder, Whole, ~torn, ~Renaming
  PROVE  Reusable(disk, meta, tree) /\ Alike(disk)
<1>1. Sized(disk, meta) /\ Alike(disk)
  BY DEF Whole
<1>2. ASSUME NEW f \in Files, NEW s \in Checked, Current(meta.files[f], tree[f])
      PROVE  disk[s][f] = tree[f] \/ disk[s][f].size = 0
  <2>1. meta.files[f] \in Told /\ meta.files[f].ver <= newest[f]
    BY PutManifest DEF Types, Folder
  <2> QED BY <1>2, <2>1, KnownIsPublished
<1>3. meta \in Manifest
  BY DEF Types
<1> QED BY <1>1, <1>2, <1>3, LongEnough

LEMMA SameStores ==
  ASSUME NEW S, NEW T, NEW M, NEW files, \A s \in Checked : S[s] = T[s], Reusable(S, M, files), Alike(S)
  PROVE  Reusable(T, M, files) /\ Alike(T)
  BY TheStores DEF Reusable, Sized, Alike

LEMMA ReadingEdit ==
  ASSUME Types, Recorded, Reading, NEW e \in Files, Edit(e)
  PROVE  Reading'
<1>1. UNCHANGED <<disk, meta, torn, pc, step, got, man, mixed>>
  BY DEF Edit, disks, reading
<1>2. \A p \in Procs, f \in Files : Current(man[p].files[f], tree'[f]) => tree'[f] = tree[f] /\ Current(man[p].files[f], tree[f])
  BY EditIsNews
<1>3. ASSUME NEW p \in Procs, Reusable(got[p], man[p], tree) PROVE Reusable(got[p], man[p], tree')
  BY <1>2, <1>3 DEF Reusable
<1>4. ASSUME NEW p \in Procs PROVE ReadingOf(p)'
  <2>1. ReadingOf(p)
    BY DEF Reading
  <2>2. pc[p] = "previous" => \A f \in Files, s \in Checked :
          Current(man[p].files[f], tree'[f]) => got[p][s][f] = tree'[f] \/ got[p][s][f].size = 0
    BY <1>2, <2>1 DEF ReadingOf
  <2> QED BY <1>1, <1>3, <2>1, <2>2 DEF ReadingOf
<1> QED BY <1>4 DEF Reading

\* While p reads, another process takes a step.
LEMMA ReadingBeside ==
  ASSUME Types, Control, Reading, NEW p \in Procs, NEW q \in Procs \ {p}, OwnStep(q)
  PROVE  ReadingOf(p)'
<1>1. /\ pc'[p] = pc[p] /\ step'[p] = step[p] /\ got'[p] = got[p] /\ man'[p] = man[p] /\ mixed'[p] = mixed[p]
  BY OthersKeep DEF Keep
<1>2. tree' = tree
  BY Copies DEF Copied
<1>3. pc[p] = "load" => UNCHANGED <<disk, meta>> /\ (torn' => torn)
  <2>1. pc[p] = "load" => holders[p] # "free"
    BY DEF Control, ControlOf
  <2> QED BY <2>1, LockedOut
<1>4. ReadingOf(p)
  BY DEF Reading
<1> QED BY <1>1, <1>2, <1>3, <1>4 DEF ReadingOf

\* Neither reading nor about to reuse anything.
LEMMA NotReading ==
  ASSUME NEW p \in Procs, pc'[p] \notin {"previous", "plan", "read", "load", "served"}
  PROVE  ReadingOf(p)'
  BY DEF ReadingOf

LEMMA StillReusable ==
  ASSUME NEW p \in Procs, pc'[p] \in {"plan", "read"}, Reusable(got'[p], man'[p], tree')
  PROVE  ReadingOf(p)'
  BY DEF ReadingOf

LEMMA ReadingStep ==
  ASSUME Types, Control, Recorded, Folder, Whole, Reading, Untainted', NEW p \in Procs, OwnStep(p)
  PROVE  ReadingOf(p)'
<1>0. /\ holders = [q \in Procs |-> holders[q]] /\ pc = [q \in Procs |-> pc[q]] /\ step = [q \in Procs |-> step[q]]
      /\ got = [q \in Procs |-> got[q]] /\ man = [q \in Procs |-> man[q]] /\ mixed = [q \in Procs |-> mixed[q]]
      /\ ControlOf(p) /\ ReadingOf(p) /\ tree' = tree /\ tree \in Trees /\ man[p] \in Manifest
  BY Copies DEF Types, Control, Reading, Copied
<1>1. CASE Begin(p) \/ Walk(p)
  <2>1. CASE pc'[p] = "previous"
    <3>1. got'[p] = NoStores
      BY <1>0, <1>1, <2>1 DEF Begin, Walk, ControlOf, reading, Go
    <3>2. \A f \in Files, s \in Checked : NoStores[s][f].size = 0
      BY NoIndex, TheStores, Empty
    <3> QED BY <2>1, <3>1, <3>2 DEF ReadingOf
  <2>2. pc'[p] \in {"walk", "previous", "open"}
    BY <1>0, <1>1 DEF Begin, Walk, Go
  <2> QED BY <2>1, <2>2, NotReading
<1>2. CASE ReadPrevious(p)
  <2> DEFINE s == PreviousOrder[step[p] + 1]
  <2>1. /\ pc[p] = "previous" /\ pc' = pc /\ step[p] \in 0..4 /\ step'[p] = step[p] + 1
        /\ s = "meta" => man'[p] = meta /\ got' = got
        /\ s # "meta" => man' = man
        /\ s \in Stores => s # "meta" /\ \A t \in Stores : got'[p][t] = IF t = s THEN disk[s] ELSE got[p][t]
    BY <1>2, ReadStoreDoes DEF ReadPrevious
  <2>2. step[p] = 0 \/ s \in Stores
    BY <2>1, Orders
  <2>3. step[p] = 0 => s = "meta"
    BY Orders
  <2> HIDE DEF s
  <2>4. CASE step[p] = 0
    <3>1. got'[p] = NoStores
      BY <1>0, <2>1, <2>3, <2>4 DEF ReadingOf
    <3>2. \A f \in Files, t \in Checked : NoStores[t][f].size = 0
      BY NoIndex, TheStores, Empty
    <3> QED BY <2>1, <2>4, <3>1, <3>2 DEF ReadingOf
  <2>5. CASE step[p] # 0
    <3>1. ASSUME NEW f \in Files, NEW t \in Checked, Current(man[p].files[f], tree[f])
          PROVE  got'[p][t][f] = tree[f] \/ got'[p][t][f].size = 0
      <4>1. man[p].files[f] \in Told /\ man[p].files[f].ver <= newest[f]
        BY <1>0, PutManifest DEF Folder
      <4>2. disk[t][f] = tree[f] \/ disk[t][f].size = 0
        BY <3>1, <4>1, KnownIsPublished
      <4>3. got[p][t][f] = tree[f] \/ got[p][t][f].size = 0
        BY <1>0, <2>1, <3>1 DEF ReadingOf
      <4> QED BY <2>1, <2>2, <2>5, <4>2, <4>3, TheStores
    <3>2. man' = man /\ step'[p] # 0
      BY <2>1, <2>2, <2>5
    <3> QED BY <1>0, <2>1, <3>1, <3>2 DEF ReadingOf
  <2> QED BY <2>4, <2>5
<1>3. CASE EndPrevious(p)
  <2>1. pc[p] = "previous" /\ pc'[p] = "plan"
    BY <1>0, <1>3 DEF EndPrevious, StartPlan, Go
  <2>2. CASE Consistent(p)
    <3>1. got' = got /\ man' = man
      BY <1>3, <2>2 DEF EndPrevious
    <3>2. Sizes(got[p]["vectors"]) = Sizes(man[p].files)
      BY <1>3, <2>2 DEF EndPrevious, Untainted
    <3>3. Sized(got[p], man[p])
      BY <2>2, <3>2, TheStores DEF Consistent, Sized
    <3>4. Reusable(got[p], man[p], tree)
      BY <1>0, <2>1, <3>3, LongEnough DEF ReadingOf
    <3> QED BY <1>0, <2>1, <3>1, <3>4, StillReusable
  <2>3. CASE ~Consistent(p)
    <3>1. got'[p] = NoStores /\ man'[p] = NoManifest
      BY <1>0, <1>3, <2>3 DEF EndPrevious, Forget
    <3> QED BY <1>0, <2>1, <3>1, StillReusable, NothingReusable
  <2> QED BY <2>2, <2>3
<1>4. CASE StatOld(p) \/ StatNew(p) \/ ReadFile(p)
  <2>1. pc[p] \in {"plan", "read"} /\ pc'[p] \in {"plan", "read"} /\ UNCHANGED <<got, man>>
    BY <1>0, <1>4 DEF StatOld, StatNew, ReadFile, Go, reading
  <2> QED BY <1>0, <2>1, StillReusable DEF ReadingOf
<1>5. CASE EndPlan(p)
  BY <1>5, EndPlanDoes, NotReading
<1>6. CASE LockExclusive(p)
  BY <1>0, <1>6, NotReading DEF LockExclusive, Go
<1>7. CASE Rename(p)
  <2>1. pc'[p] \in {"rename", "open"}
    BY <1>7, RenameDoes
  <2> QED BY <2>1, NotReading
<1>8. CASE LockShared(p)
  <2>1. pc'[p] = "load" /\ step'[p] = 0 /\ torn' = torn /\ mixed'[p] = torn
    BY <1>0, <1>8 DEF LockShared, Go, disks, ControlOf
  <2> QED BY <2>1 DEF ReadingOf
<1>9. CASE Load(p)
  <2> DEFINE s == LoadOrder[step[p] + 1]
  <2>1. /\ pc[p] = "load" /\ pc' = pc /\ step[p] \in 0..4 /\ step'[p] = step[p] + 1 /\ UNCHANGED <<disk, meta, torn, mixed>>
        /\ s = "meta" => man'[p] = meta /\ got' = got
        /\ s # "meta" => man' = man
        /\ s \in Stores => s # "meta" /\ \A t \in Stores : got'[p][t] = IF t = s THEN disk[s] ELSE got[p][t]
    BY <1>9, ReadStoreDoes DEF Load, disks
  <2>2. /\ step[p] = 0 => s = "meta"
        /\ step[p] = 1 => s = "bm25"
        /\ step[p] = 2 => s = "vectors"
        /\ step[p] = 3 => s = "chunks"
        /\ step[p] = 4 => s = "symbols"
    BY Orders
  <2> HIDE DEF s
  <2>3. ASSUME ~mixed[p]
        PROVE  /\ step'[p] >= 1 => man'[p] = meta
               /\ step'[p] >= 2 => got'[p]["bm25"] = disk["bm25"]
               /\ step'[p] >= 3 => got'[p]["vectors"] = disk["vectors"]
               /\ step'[p] >= 4 => got'[p]["chunks"] = disk["chunks"]
               /\ ~torn
    <3>1. /\ ~torn
          /\ step[p] >= 1 => man[p] = meta
          /\ step[p] >= 2 => got[p]["bm25"] = disk["bm25"]
          /\ step[p] >= 3 => got[p]["vectors"] = disk["vectors"]
          /\ step[p] >= 4 => got[p]["chunks"] = disk["chunks"]
      BY <1>0, <2>1, <2>3 DEF ReadingOf
    <3>2. CASE step[p] = 0
      BY <2>1, <2>2, <3>1, <3>2
    <3>3. CASE step[p] = 1
      BY <2>1, <2>2, <3>1, <3>3, TheStores
    <3>4. CASE step[p] = 2
      BY <2>1, <2>2, <3>1, <3>4, TheStores
    <3>5. CASE step[p] = 3
      BY <2>1, <2>2, <3>1, <3>5, TheStores
    <3>6. CASE step[p] = 4
      BY <2>1, <2>2, <3>1, <3>6, TheStores
    <3> QED BY <2>1, <3>2, <3>3, <3>4, <3>5, <3>6
  <2> QED BY <2>1, <2>3 DEF ReadingOf
<1>10. CASE EndLoad(p)
  <2>1. pc[p] = "load" /\ step[p] = 5 /\ mixed' = mixed
    BY <1>10 DEF EndLoad, StoreCount
  <2>2. CASE pc'[p] = "served"
    <3>1. got' = got /\ man' = man
      BY <1>0, <1>10, <2>2 DEF EndLoad, Go
    <3>2. ASSUME ~mixed[p] PROVE Reusable(got[p], man[p], tree) /\ Alike(got[p])
      <4>1. ~torn /\ man[p] = meta /\ \A s \in Checked : disk[s] = got[p][s]
        BY <1>0, <2>1, <3>2, TheStores DEF ReadingOf
      <4>2. ~Renaming
        <5>1. holders[p] # "free"
          BY <1>0, <2>1 DEF ControlOf
        <5> QED BY <2>1, <5>1 DEF Renaming, Control
      <4> QED BY <4>1, <4>2, FolderIsReusable, SameStores
    <3> QED BY <1>0, <2>1, <2>2, <3>1, <3>2 DEF ReadingOf
  <2>3. pc'[p] \in {"served", "idle"}
    BY <1>0, <1>10 DEF EndLoad, Go
  <2> QED BY <2>2, <2>3, NotReading
<1>11. CASE RebuildServed(p)
  <2>1. pc[p] = "served" /\ pc'[p] = "plan" /\ UNCHANGED <<got, man>> /\ ~mixed[p]
    BY <1>0, <1>11 DEF RebuildServed, StartPlan, Go, reading, Untainted
  <2> QED BY <1>0, <2>1, StillReusable DEF ReadingOf
<1>12. CASE Lose(p)
  BY <1>0, <1>12, NotReading DEF Lose, Go
<1> QED BY <1>1, <1>2, <1>3, <1>4, <1>5, <1>6, <1>7, <1>8, <1>9, <1>10, <1>11, <1>12 DEF OwnStep

-----------------------------------------------------------------------------
(* What is staged, and published. *)

\* What a reader whose stores are as long as its manifest says reuses of a file is what it has of it.
LEMMA ReusedIsWhatIsThere ==
  ASSUME NEW p \in Procs, NEW f \in Files, NEW s \in Checked, Sized(got[p], man[p])
  PROVE  Reused(p, s, f) = got[p][s][f]
<1>1. Sizes(got[p][s]) = Sizes(man[p].files)
  BY DEF Sized
<1>2. got[p][s][f].size = man[p].files[f].size
  BY <1>1 DEF Sizes
<1>3. Start(got[p][s], f) = Start(man[p].files, f)
  BY <1>1 DEF Start
<1> QED BY <1>2, <1>3 DEF Reused

LEMMA StagedEdit ==
  ASSUME Types, Recorded, Built, Staged, NEW e \in Files, Edit(e)
  PROVE  Staged'
<1>1. /\ clock' = clock + 1 /\ clock \in Nat /\ UNCHANGED <<pc, next, stage>>
      /\ \A g \in Files \ {e} : tree'[g] = tree[g]
      /\ tree'[e] = Missing \/ (tree'[e] # Missing /\ tree'[e].ver = clock + 1)
      /\ \A p \in Procs : plan'[p].files = plan[p].files
  BY EditDoes DEF Types
<1>2. ASSUME NEW p \in Procs, plan[p].files[e].ver = tree'[e].ver
      PROVE  stage[p]["chunks"][e] = tree'[e]
  <2>1. plan[p].files[e] \in Told /\ plan[p].files[e].ver <= clock
    BY PutManifest DEF Types, Recorded, Sound
  <2>2. tree'[e] = Missing
    BY <1>1, <1>2, <2>1
  <2>3. plan[p].files[e] = Missing
    BY <1>2, <2>1, <2>2, Empty
  <2> QED BY <2>2, <2>3, TheStores DEF Built, BuiltAt
<1>3. ASSUME NEW p \in Procs, NEW f \in Files PROVE StagedAt(p, f)'
  BY <1>1, <1>2 DEF Staged, StagedAt
<1> QED BY <1>3 DEF Staged

\* A step that leaves alone what p builds.
LEMMA StillStaged ==
  ASSUME Staged, NEW p \in Procs, NEW f \in Files, tree' = tree, UNCHANGED <<next, stage, plan>>,
         pc'[p] \in {"plan", "read"} => pc'[p] = pc[p],
         pc'[p] \in {"publish", "rename"} => pc[p] \in {"publish", "rename"}
  PROVE  StagedAt(p, f)'
  BY DEF Staged, StagedAt

LEMMA NothingStaged ==
  ASSUME NEW p \in Procs, NEW f \in Files,
         pc'[p] \notin {"publish", "rename"}, pc'[p] \in {"plan", "read"} => next'[p] = 1
  PROVE  StagedAt(p, f)'
<1>1. ~(f < 1)
  BY Bounds
<1> QED BY <1>1 DEF StagedAt

LEMMA StagedStep ==
  ASSUME Types, Control, Built, Reading, Staged, NEW p \in Procs, OwnStep(p), NEW f \in Files
  PROVE  StagedAt(p, f)'
<1>0. /\ pc = [q \in Procs |-> pc[q]] /\ next[p] \in Nat /\ f \in Nat
      /\ ControlOf(p) /\ ReadingOf(p) /\ StagedAt(p, f) /\ BuiltAt(p, f) /\ tree' = tree /\ tree[f] \in Told
  BY Copies, Bounds DEF Types, Trees, Control, Reading, Staged, Built, Copied
<1>1. CASE Begin(p) \/ Walk(p)
  <2>1. pc'[p] \in {"walk", "previous", "open"}
    BY <1>0, <1>1 DEF Begin, Walk, Go
  <2> QED BY <2>1, NothingStaged
<1>2. CASE ReadPrevious(p) \/ Load(p)
  <2>1. pc' = pc /\ pc[p] \in {"previous", "load"}
    BY <1>2 DEF ReadPrevious, Load
  <2> QED BY <2>1, NothingStaged
<1>3. CASE EndPrevious(p) \/ RebuildServed(p)
  <2>1. pc'[p] = "plan" /\ next'[p] = 1
    BY <1>0, <1>3 DEF EndPrevious, RebuildServed, StartPlan, Go, ControlOf
  <2> QED BY <2>1, NothingStaged
<1>4. CASE StatOld(p)
  <2> DEFINE e == next[p]
  <2>1. /\ e \in Files /\ pc[p] = "plan" /\ pc' = pc /\ next'[p] = e + 1
        /\ tree[e].ver = man[p].files[e].ver \/ tree[e] = Missing
        /\ \A g \in Files : plan'[p].files[g] = IF g = e /\ tree[e] # Missing THEN man[p].files[e] ELSE plan[p].files[g]
        /\ \A s \in Stores, g \in Files :
             stage'[p][s][g] = IF g = e /\ tree[e] # Missing THEN Reused(p, s, e) ELSE stage[p][s][g]
    BY <1>4, StatOldDoes
  <2>2. Reusable(got[p], man[p], tree)
    BY <1>0, <2>1 DEF ReadingOf
  <2>3. next[p] = e
    OBVIOUS
  <2> HIDE DEF e
  <2>4. CASE f = e /\ tree[e] # Missing
    <3>1. \A s \in Checked : got[p][s][e] = tree[e]
      BY <2>1, <2>2, <2>4 DEF Reusable, Current
    <3>2. \A s \in Checked : Reused(p, s, e) = got[p][s][e]
      BY <2>1, <2>2, ReusedIsWhatIsThere DEF Reusable
    <3>3. \A s \in Checked : stage'[p][s][f] = tree[f]
      BY <2>1, <2>4, <3>1, <3>2, TheStores
    <3> QED BY <1>0, <3>3, TheStores DEF StagedAt
  <2>5. CASE f = e /\ tree[e] = Missing
    <3>1. \A s \in Stores : stage'[p][s][f] = Missing
      BY <1>0, <2>1, <2>3, <2>5 DEF BuiltAt
    <3> QED BY <1>0, <2>5, <3>1, TheStores DEF StagedAt
  <2>6. CASE f # e
    <3>1. plan'[p].files[f] = plan[p].files[f] /\ \A s \in Stores : stage'[p][s][f] = stage[p][s][f]
      BY <2>1, <2>6
    <3>2. f < next'[p] => f < next[p]
      BY <1>0, <2>1, <2>3, <2>6
    <3> QED BY <1>0, <2>1, <3>1, <3>2, TheStores DEF StagedAt
  <2> QED BY <2>4, <2>5, <2>6
<1>5. CASE StatNew(p)
  <2> DEFINE e == next[p]
  <2>1. /\ e \in Files /\ pc[p] = "plan" /\ pc'[p] = "read" /\ next' = next /\ stage' = stage
        /\ \A g \in Files : plan'[p].files[g] = IF g = e THEN tree[e] ELSE plan[p].files[g]
    BY <1>5, StatNewDoes
  <2>2. CASE f < next[p]
    <3>1. plan'[p].files[f] = plan[p].files[f]
      BY <1>0, <2>1, <2>2
    <3> QED BY <1>0, <2>1, <2>2, <3>1 DEF StagedAt
  <2>3. CASE ~(f < next[p])
    BY <2>1, <2>3 DEF StagedAt
  <2> QED BY <2>2, <2>3
<1>6. CASE ReadFile(p)
  <2> DEFINE e == next[p]
  <2>1. /\ e \in Files /\ pc[p] = "read" /\ pc'[p] = "plan" /\ next'[p] = e + 1
        /\ \A g \in Files : g # e => plan'[p].files[g] = plan[p].files[g]
        /\ tree[e] = Missing => plan'[p].files[e] = Missing
        /\ tree[e] # Missing => plan'[p].files[e] = [ver |-> plan[p].files[e].ver, size |-> tree[e].size]
        /\ \A s \in Stores, g \in Files : stage'[p][s][g] = IF g = e /\ tree[e] # Missing THEN tree[e] ELSE stage[p][s][g]
    BY <1>6, ReadFileDoes
  <2>2. next[p] = e
    OBVIOUS
  <2> HIDE DEF e
  <2>3. CASE f = e
    <3>1. \A s \in Stores : stage'[p][s][f] = tree[f]
      BY <1>0, <2>1, <2>2, <2>3 DEF BuiltAt
    <3> QED BY <1>0, <3>1, TheStores DEF StagedAt
  <2>4. CASE f # e
    <3>1. plan'[p].files[f] = plan[p].files[f] /\ \A s \in Stores : stage'[p][s][f] = stage[p][s][f]
      BY <2>1, <2>4
    <3>2. f < next'[p] => f < next[p]
      BY <1>0, <2>1, <2>2, <2>4
    <3> QED BY <1>0, <2>1, <3>1, <3>2, TheStores DEF StagedAt
  <2> QED BY <2>3, <2>4
<1>7. CASE EndPlan(p)
  <2>1. /\ pc[p] = "plan" /\ next[p] \notin Files
        /\ pc'[p] = "idle" \/ (pc'[p] = "publish" /\ stage' = stage /\ plan'[p].files = plan[p].files)
    BY <1>7, EndPlanDoes
  <2>2. f < next[p]
    BY <2>1, Bounds DEF Types
  <2>3. CASE pc'[p] = "idle"
    BY <2>3, NothingStaged
  <2>4. CASE pc'[p] = "publish" /\ stage' = stage /\ plan'[p].files = plan[p].files
    BY <1>0, <2>1, <2>2, <2>4 DEF StagedAt
  <2> QED BY <2>1, <2>3, <2>4
<1>8. CASE LockExclusive(p)
  <2>1. UNCHANGED <<next, stage, plan>> /\ pc[p] = "publish" /\ pc'[p] = "rename"
    BY <1>0, <1>8 DEF LockExclusive, building, Go
  <2> QED BY <1>0, <2>1, StillStaged
<1>9. CASE LockShared(p) \/ EndLoad(p) \/ Lose(p)
  <2>1. pc'[p] \in {"load", "served", "idle"}
    BY <1>0, <1>9 DEF LockShared, EndLoad, Lose, Go
  <2> QED BY <2>1, NothingStaged
<1>10. CASE Rename(p)
  <2>1. next' = next /\ (UNCHANGED <<stage, plan, pc>> \/ pc'[p] = "open")
    BY <1>10, RenameDoes
  <2> QED BY <1>0, <2>1, StillStaged, NothingStaged
<1> QED BY <1>1, <1>2, <1>3, <1>4, <1>5, <1>6, <1>7, <1>8, <1>9, <1>10 DEF OwnStep

LEMMA PublishingStep ==
  ASSUME Types, Control, Publishing, Untainted', NEW p \in Procs, OwnStep(p)
  PROVE  PublishingOf(p)'
<1>0. /\ pc = [q \in Procs |-> pc[q]] /\ ControlOf(p) /\ PublishingOf(p)
  BY DEF Types, Control, Publishing
<1>1. CASE ~LockExclusive(p) /\ ~Rename(p)
  <2>1. pc'[p] # "rename"
    <3>1. CASE Begin(p) \/ Walk(p) \/ ReadPrevious(p) \/ EndPrevious(p) \/ Load(p)
      BY <1>0, <3>1 DEF Begin, Walk, ReadPrevious, EndPrevious, Load, StartPlan, Go
    <3>2. CASE StatOld(p) \/ StatNew(p) \/ ReadFile(p) \/ RebuildServed(p)
      BY <1>0, <3>2 DEF StatOld, StatNew, ReadFile, RebuildServed, StartPlan, Go
    <3>3. CASE EndPlan(p)
      BY <3>3, EndPlanDoes
    <3>4. CASE LockShared(p) \/ EndLoad(p) \/ Lose(p)
      BY <1>0, <3>4 DEF LockShared, EndLoad, Lose, Go
    <3> QED BY <1>1, <3>1, <3>2, <3>3, <3>4 DEF OwnStep
  <2> QED BY <2>1 DEF PublishingOf
<1>2. CASE LockExclusive(p)
  <2>1. step'[p] = 0 /\ UNCHANGED <<plan, newest, disk>>
    BY <1>0, <1>2 DEF LockExclusive, ControlOf, building, disks
  <2>2. ASSUME NEW f \in Files PROVE plan[p].files[f].ver = 0 \/ plan[p].files[f].ver >= newest[f]
    <3>1. ~(plan[p].files[f].ver \in 1..(newest[f] - 1))
      BY <1>2 DEF LockExclusive, Untainted
    <3>2. plan[p].files[f].ver \in Nat /\ newest[f] \in Nat
      BY PutManifest DEF Types
    <3> QED BY <3>1, <3>2
  <2> QED BY <2>1, <2>2 DEF PublishingOf
<1>3. CASE Rename(p)
  <2>1. CASE step[p] = 4
    <3>1. pc'[p] = "open"
      BY <1>3, <2>1, LastRename
    <3> QED BY <3>1 DEF PublishingOf
  <2>2. CASE step[p] # 4
    <3>0. pc[p] = "rename"
      BY <1>3 DEF Rename
    <3>1. /\ step[p] \in 0..3 /\ step'[p] = step[p] + 1
          /\ UNCHANGED <<newest, stage, plan>>
          /\ \A t \in Stores : disk'[t] = IF t = PublishOrder[step[p] + 1] THEN stage[p][t] ELSE disk[t]
      BY <1>3, <2>2, StoreRename
    <3>2. /\ step[p] >= 1 => disk["bm25"] = stage[p]["bm25"]
          /\ step[p] >= 2 => disk["chunks"] = stage[p]["chunks"]
          /\ step[p] >= 3 => disk["vectors"] = stage[p]["vectors"]
          /\ \A f \in Files : plan[p].files[f].ver = 0 \/ plan[p].files[f].ver >= newest[f]
      BY <1>0, <3>0 DEF PublishingOf
    <3>3. /\ disk'["bm25"] = stage[p]["bm25"]
          /\ step[p] >= 1 => disk'["chunks"] = stage[p]["chunks"]
          /\ step[p] >= 2 => disk'["vectors"] = stage[p]["vectors"]
      <4>1. CASE step[p] = 0
        BY <3>1, <4>1, Orders, TheStores
      <4>2. CASE step[p] = 1
        BY <3>1, <3>2, <4>2, Orders, TheStores
      <4>3. CASE step[p] = 2
        BY <3>1, <3>2, <4>3, Orders, TheStores
      <4>4. CASE step[p] = 3
        BY <3>1, <3>2, <4>4, Orders, TheStores
      <4> QED BY <3>1, <4>1, <4>2, <4>3, <4>4
    <3> QED BY <3>1, <3>2, <3>3 DEF PublishingOf
  <2> QED BY <2>1, <2>2
<1> QED BY <1>1, <1>2, <1>3

\* While p publishes, no one else does.
LEMMA PublishingBeside ==
  ASSUME Types, Control, Publishing, NEW p \in Procs, NEW q \in Procs \ {p}, OwnStep(q)
  PROVE  PublishingOf(p)'
<1>1. /\ pc'[p] = pc[p] /\ step'[p] = step[p] /\ stage'[p] = stage[p] /\ plan'[p] = plan[p]
  BY OthersKeep DEF Keep
<1>2. pc[p] = "rename" => UNCHANGED <<disk, newest>>
  <2>1. pc[p] = "rename" => holders[p] # "free"
    BY DEF Control, ControlOf
  <2> QED BY <2>1, LockedOut
<1>3. PublishingOf(p)
  BY DEF Publishing
<1> QED BY <1>1, <1>2, <1>3 DEF PublishingOf

-----------------------------------------------------------------------------
(* The theorems. *)

LEMMA InitInv == Init => Inv
<1> SUFFICES ASSUME Init PROVE Inv
  OBVIOUS
<1>0. /\ clock = 1 /\ next = [p \in Procs |-> 1] /\ step = [p \in Procs |-> 0]
      /\ holders = [p \in Procs |-> "free"] /\ pc = [p \in Procs |-> "idle"]
      /\ got = [p \in Procs |-> NoStores] /\ man = [p \in Procs |-> NoManifest]
      /\ stage = [p \in Procs |-> NoStores] /\ plan = [p \in Procs |-> NoManifest]
      /\ torn = FALSE /\ mixed = [p \in Procs |-> FALSE]
      /\ newest = [f \in Files |-> meta.files[f].ver]
  BY DEF Init
<1>1. tree \in Trees /\ \A f \in Files : tree[f] \in Told /\ tree[f].ver <= 1 /\ tree[f].ver \in Nat /\ (tree[f] # Missing => tree[f].ver = 1)
  <2>1. tree = [f \in Files |-> IF f < FileCount THEN [ver |-> 1, size |-> MaxSize] ELSE Missing]
    BY DEF Init
  <2>2. [ver |-> 1, size |-> MaxSize] \in Told
    BY BoundsAssumption DEF Told
  <2>3. \A f \in Files : tree[f] \in {Missing, [ver |-> 1, size |-> MaxSize]}
    BY <2>1
  <2> QED BY <2>1, <2>2, <2>3, Empty DEF Trees
<1>2. \/ disk = NoStores /\ meta = NoManifest
      \/ disk = [s \in Stores |-> tree] /\ meta = [files |-> tree, time |-> 1, late |-> {}]
  BY DEF Init
<1>3. /\ disk \in Stock /\ meta \in Manifest
      /\ \A f \in Files : /\ meta.files[f].ver = 0 \/ meta.files[f] = tree[f]
                          /\ \A s \in Stores : disk[s][f] = Missing \/ disk[s][f] = tree[f]
      /\ \A s \in Stores : Sizes(disk[s]) = Sizes(meta.files)
      /\ \A f \in Files, s \in Checked : disk[s][f] = disk["chunks"][f]
      /\ Stamped(meta, tree, clock)
  <2>1. CASE disk = NoStores /\ meta = NoManifest
    <3>1. Stamped(meta, tree, clock)
      BY <1>0, <1>1, <2>1, NoIndex, NeverStamped
    <3> QED BY <2>1, <3>1, NoIndex, Empty, TheStores
  <2>2. CASE disk = [s \in Stores |-> tree] /\ meta = [files |-> tree, time |-> 1, late |-> {}]
    <3>1. tree \in Store
      BY <1>1, Empty DEF Trees, Store
    <3>2. disk \in Stock /\ meta \in Manifest
      BY <1>1, <2>2, <3>1 DEF Stock, Manifest
    <3>3. Stamped(meta, tree, clock)
      BY <1>0, <2>2 DEF Stamped
    <3> QED BY <2>2, <3>2, <3>3, TheStores
  <2> QED BY <1>2, <2>1, <2>2
<1>4. Types
  <2>1. newest \in [Files -> Nat]
    BY <1>0, <1>3, PutManifest
  <2> QED BY <1>0, <1>1, <1>3, <2>1, NoIndexTypes, Bounds DEF Types, StoreCount
<1>5. Control
  BY <1>0, NoIndex DEF Control, ControlOf
<1>6. Recorded
  <2>1. \A f \in Files : Sound(Missing, tree[f], clock) /\ Sound(tree[f], tree[f], clock)
    BY <1>0, <1>1, Empty DEF Sound
  <2>2. \A f \in Files : meta.files[f] = Missing \/ meta.files[f] = tree[f]
    BY <1>3, Empty, PutManifest
  <2>3. \A f \in Files : newest[f] = 0 \/ newest[f] = tree[f].ver
    BY <1>0, <1>3
  <2> QED BY <1>0, <1>1, <1>3, <2>1, <2>2, <2>3, NoIndex DEF Recorded
<1>7. Stamps
  <2>1. \A p \in Procs : Stamped(man[p], tree, clock) /\ Stamped(plan[p], tree, clock)
    BY <1>0, <1>1, NoIndex, NeverStamped
  <2> QED BY <1>0, <1>3, <2>1 DEF Stamps, PlannedAt
<1>8. Built
  BY <1>0, NoIndex, TheStores DEF Built, BuiltAt
<1>9. Folder
  <2>1. \A f \in Files : meta.files[f].ver <= newest[f]
    BY <1>0, <1>3, PutManifest
  <2>2. \A p \in Procs, f \in Files : man[p].files[f].ver <= newest[f]
    BY <1>0, <1>4, NoIndex, Empty DEF Types
  <2>3. \A f \in Files, s \in Checked : disk[s][f] = tree[f] \/ disk[s][f].size = 0
    BY <1>3, Empty, TheStores
  <2> QED BY <2>1, <2>2, <2>3 DEF Folder
<1>10. Whole
  BY <1>3, TheStores DEF Whole, Sized, Alike
<1>11. Reading /\ Staged /\ Publishing
  BY <1>0 DEF Reading, ReadingOf, Staged, StagedAt, Publishing, PublishingOf
<1> QED BY <1>4, <1>5, <1>6, <1>7, <1>8, <1>9, <1>10, <1>11 DEF Inv

LEMMA StepInv == Inv /\ [Next]_vars => Inv'
<1> SUFFICES ASSUME Inv, [Next]_vars PROVE Inv'
  OBVIOUS
<1>1. CASE Next
  <2>1. Types' /\ Control' /\ Recorded' /\ Stamps' /\ Built'
    BY <1>1, TypesStep, ControlStep, RecordedStep, StampsStep, BuiltStep DEF Inv
  <2>2. ASSUME Untainted' PROVE Folder' /\ Whole' /\ Reading' /\ Staged' /\ Publishing'
    <3>1. Folder /\ Whole /\ Reading /\ Staged /\ Publishing
      BY <1>1, <2>2, BlameStays DEF Inv
    <3>2. Folder' /\ Whole'
      BY <1>1, <3>1, FolderStep, WholeStep DEF Inv
    <3>3. ASSUME NEW e \in Files, Edit(e) PROVE Reading' /\ Staged' /\ Publishing'
      <4>1. UNCHANGED <<disk, newest, pc, step, stage>> /\ \A p \in Procs : plan'[p].files = plan[p].files
        BY <3>3, EditDoes DEF Inv, disks
      <4>2. Publishing'
        BY <3>1, <4>1 DEF Publishing, PublishingOf
      <4> QED BY <3>1, <3>3, <4>2, ReadingEdit, StagedEdit DEF Inv
    <3>4. ASSUME NEW q \in Procs, OwnStep(q) PROVE Reading' /\ Staged' /\ Publishing'
      <4>1. ASSUME NEW p \in Procs PROVE ReadingOf(p)' /\ PublishingOf(p)'
        <5>1. CASE p = q
          BY <2>2, <3>1, <3>4, <5>1, ReadingStep, PublishingStep DEF Inv
        <5>2. CASE p # q
          BY <3>1, <3>4, <5>2, ReadingBeside, PublishingBeside DEF Inv
        <5> QED BY <5>1, <5>2
      <4>2. ASSUME NEW p \in Procs, NEW f \in Files PROVE StagedAt(p, f)'
        <5>1. CASE p = q
          BY <3>1, <3>4, <5>1, StagedStep DEF Inv
        <5>2. CASE p # q
          <6>1. pc'[p] = pc[p] /\ next'[p] = next[p] /\ stage'[p] = stage[p] /\ plan'[p] = plan[p] /\ tree' = tree
            BY <3>4, <5>2, OthersKeep, Copies DEF Inv, Keep, Copied
          <6> QED BY <3>1, <6>1 DEF Staged, StagedAt
        <5> QED BY <5>1, <5>2
      <4> QED BY <4>1, <4>2 DEF Reading, Staged, Publishing
    <3> QED BY <1>1, <3>2, <3>3, <3>4 DEF Next, OwnStep
  <2> QED BY <2>1, <2>2 DEF Inv
<1>2. CASE UNCHANGED vars
  <2>1. UNCHANGED <<tree, clock, disk, meta, torn, newest, holders, pc, step, got, man, mixed, next, stage, plan, passedOn, regressed, blurred>>
    BY <1>2 DEF vars, disks, reading, building, hist, blames
  <2> QED BY <2>1 DEF Inv, Types, Control, ControlOf, Recorded, Stamps, PlannedAt, Planned, Built, BuiltAt,
                      Untainted, Folder, Whole, Renaming, Reading, ReadingOf, Staged, StagedAt, Publishing, PublishingOf
<1> QED BY <1>1, <1>2

\* The invariant holds of every run of the specification.
THEOREM Invariance == Spec => []Inv
  BY InitInv, StepInv, PTL DEF Spec

\* A load under the shared lock serves one generation, file by file, and its manifest: the
\* lock and the order of the renames leave a torn folder, a daemon that rebuilt from one,
\* or rows that were already wrong when published as the only ways to serve anything else
\* (generation.py:54 and 62, index.py load_from_disk).
THEOREM LoadsAreWhole == Spec => []OnlyTornMixes
<1>1. Inv => OnlyTornMixes
  <2> SUFFICES ASSUME Inv, NEW p \in Procs, pc[p] = "served", ~mixed[p], Untainted, NEW f \in Files, NEW s \in Checked
               PROVE  /\ got[p][s][f].size = man[p].files[f].size
                      /\ got[p][s][f].ver = got[p]["chunks"][f].ver
    BY DEF OnlyTornMixes
  <2>1. Reusable(got[p], man[p], tree) /\ Alike(got[p])
    BY DEF Inv, Reading, ReadingOf
  <2> QED BY <2>1 DEF Reusable, Sized, Sizes, Alike
<1> QED BY <1>1, Invariance, PTL

\* What a build is about to publish: one content of every file in every store, and of a
\* file that is still what the manifest says, that content (cache.py
\* load_previous_for_incremental, index.py write_planned).
THEOREM PublishedIsOneContent == Spec => []OnlyOldPlansMislead
<1>1. Inv => OnlyOldPlansMislead
  BY DEF Inv, Staged, StagedAt, OnlyOldPlansMislead
<1> QED BY <1>1, Invariance, PTL

\* Validation: an index that is found good has of every file what the tree has, or an edit
\* overtook the build that planned it (cache.py get_validated_cache).
THEOREM ValidatedIsCurrent == Spec => OnlyLateEditsHide
<1> DEFINE Hides == \A p \in Procs : pc[p] = "walk" /\ pc'[p] = "open" =>
                      \A f \in Files : man[p].files[f].ver = tree[f].ver \/ f \in man[p].late
<1>1. Inv /\ [Next]_vars => [Hides]_vars
  <2> SUFFICES ASSUME Inv, Next, NEW p \in Procs, pc[p] = "walk", pc'[p] = "open", NEW f \in Files
               PROVE  man[p].files[f].ver = tree[f].ver \/ f \in man[p].late
    OBVIOUS
  <2>0. /\ pc = [q \in Procs |-> pc[q]] /\ Stamped(man[p], tree, clock)
        /\ man[p].files[f] \in Told /\ tree[f] \in Told
    BY PutManifest DEF Inv, Types, Stamps, Trees
  <2>1. Walk(p)
    <3>1. ~(\E e \in Files : Edit(e))
      BY DEF Edit
    <3>2. PICK q \in Procs : OwnStep(q)
      BY <3>1 DEF Next, OwnStep
    <3>3. q = p
      BY <3>2, OthersKeep DEF Inv, Keep
    <3>4. ~Begin(p) /\ ~EndPrevious(p) /\ ~StatOld(p) /\ ~StatNew(p) /\ ~ReadFile(p) /\ ~EndPlan(p)
      BY DEF Begin, EndPrevious, StatOld, StatNew, ReadFile, EndPlan
    <3>5. ~ReadPrevious(p) /\ ~LockExclusive(p) /\ ~Rename(p) /\ ~LockShared(p) /\ ~Load(p) /\ ~EndLoad(p) /\ ~RebuildServed(p)
      BY DEF ReadPrevious, LockExclusive, Rename, LockShared, Load, EndLoad, RebuildServed
    <3>6. ~Lose(p)
      BY <2>0 DEF Lose, Go
    <3> QED BY <3>2, <3>3, <3>4, <3>5, <3>6 DEF OwnStep
  <2>2. Validated(p)
    BY <2>0, <2>1 DEF Walk, Go
  <2>3. tree[f].ver <= man[p].time /\ (tree[f].size > 0 <=> man[p].files[f].size > 0)
    BY <2>2 DEF Validated, Present
  <2>4. CASE tree[f] = Missing
    <3>1. man[p].files[f] = Missing
      <4>1. man[p].files[f].size \in Nat
        BY <2>0, Empty DEF Content
      <4> QED BY <2>0, <2>3, <2>4, <4>1, Empty
    <3> QED BY <2>4, <3>1
  <2>5. CASE tree[f] # Missing
    BY <2>0, <2>3, <2>5 DEF Stamped
  <2> QED BY <2>4, <2>5
<1> QED BY <1>1, Invariance, PTL DEF Spec, OnlyLateEditsHide
=============================================================================
