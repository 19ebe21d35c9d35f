---------------------------- MODULE RebuildProofs ----------------------------
(* That only a shared rescan loses a named edit (Rebuild's OnlySharingLoses), *)
(* and that only a rescan named files follow loses one of the symbol graph      *)
(* (OnlyNamesLoseGraph), for any roots, lanes, files, caps, edits, refreshes    *)
(* and troubles.                                                                *)
EXTENDS Rebuild, TLAPS

\* A change set, however many files it names.
Sets == {c \in [kind : {"none", "some", "all"}, files : SUBSET Files] : c.kind = "none" => c = Nothing}

Watches == [watcher : {"off", "registering", "ready"}, seen : SUBSET Files,
            st : {"none", "waiting", "asked", "told"}, told : Results, pend : Sets, recent : BOOLEAN]
Tasks == [pc : {"none", "new", "lock", "building", "graph", "graphing"}, cur : Sets,
          changes : Sets, mark : BOOLEAN, graph : BOOLEAN, res : Results]

Types ==
  /\ resident \in [Roots -> {"no", "loading", "served"}]
  /\ watch \in [Roots -> Watches] /\ task \in [Roots -> Tasks]
  /\ dirty \in [Roots -> SUBSET Items] /\ loads \in [Roots -> SUBSET Items]
  /\ built \in [Roots -> SUBSET Items]
  /\ named \in [Roots -> SUBSET Items] /\ shared \in [Roots -> SUBSET Items]
  /\ stored \in [Roots -> SUBSET Items]

\* c asks for item i.
Holds(k, c, i) == c # Nothing /\ i \in Covered(k, c)

\* What the watch task asked for and the rebuild task t has yet to read, or to fail at:
\* a pass that is put off while it is new takes its own change set back only, and a pass
\* that is deferred is retried only when nothing narrower follows it.
InTask(k, i, t, b) ==
  \/ t.pc = "new" /\ Holds(k, t.cur, i) /\ (t.changes.kind # "some" \/ i \in Covered(k, t.changes))
  \/ t.pc = "lock" /\ Holds(k, t.cur, i) /\ t.changes.kind # "some"
  \/ t.pc = "building" /\ i \notin b /\ t.changes.kind # "some"
  \/ t.pc \in {"lock", "building", "graph", "graphing"} /\ Holds(k, t.changes, i)
  \/ t.pc \in {"graph", "graphing"} /\ t.res = "deferred" /\ t.changes = Nothing

\* The watcher, or the watch task itself, has i.
InWatch(k, i, w) ==
  \/ i \in w.seen
  \/ Holds(k, w.pend, i)
  \/ w.st = "told" /\ w.told \in {"deferred", "failed"}

Due(k, i, w, t, b) == InWatch(k, i, w) \/ (w.st = "asked" /\ InTask(k, i, t, b))

Lacks(r, d, l) == IF r = "served" THEN d ELSE l

\* How residency r, watch w, task t and named items n of one root go together.
RootShape(r, w, t, n) ==
  /\ r = "no" => w = NoWatch /\ n = {}
  /\ w.st \in {"asked", "told"} => r = "served"
  /\ w.st = "none" => w.pend = Nothing
  /\ w.watcher # "ready" => n \subseteq {BaseItem}
  /\ t.pc = "new" /\ w.st # "asked" => t.cur = All

\* Every named item that was not left to a pass that ran is due, or is there.
RootDue(k, r, w, t, d, l, b, n, s) ==
  \A i \in n \ s : Due(k, i, w, t, b) \/ (i \notin Lacks(r, d, l) /\ i \notin b)

Shape(k) == RootShape(resident[k], watch[k], task[k], named[k])
DueOf(k) == RootDue(k, resident[k], watch[k], task[k], dirty[k], loads[k], built[k], named[k], shared[k])
Root(k) == Shape(k) /\ DueOf(k)

IInv == Types /\ \A k \in Roots : Root(k)

-----------------------------------------------------------------------------
(* Change sets. *)

LEMMA SetsFacts ==
  /\ Nothing \in Sets /\ All \in Sets /\ All # Nothing
  /\ \A F \in SUBSET Files : Named(F) \in Sets /\ Named(F) # Nothing
  /\ \A k : Covered(k, All) = Items
  /\ \A k : \A c \in Sets : Covered(k, c) \subseteq Items
  /\ NoWatch \in Watches /\ NoTask \in Tasks
<1>1. \A k : \A c \in Sets : Covered(k, c) \subseteq Items
  BY DEF Sets, Covered, Items
<1>2. NoWatch \in Watches /\ NoTask \in Tasks
  BY DEF Sets, Nothing, NoWatch, NoTask, Watches, Tasks, Results
<1>3. /\ Nothing \in Sets /\ All \in Sets /\ All # Nothing
      /\ \A F \in SUBSET Files : Named(F) \in Sets /\ Named(F) # Nothing
      /\ \A k : Covered(k, All) = Items
  BY DEF Sets, Nothing, All, Named, Covered
<1> QED BY <1>1, <1>2, <1>3

LEMMA MergeFacts ==
  ASSUME NEW old \in Sets, NEW new \in Sets
  PROVE  /\ Merge(old, new) \in Sets
         /\ Merge(old, new) = Nothing <=> old = Nothing /\ new = Nothing
         /\ \A k, i : Holds(k, old, i) \/ Holds(k, new, i) => Holds(k, Merge(old, new), i)
         /\ new = All => Merge(old, new) = All
<1> DEFINE both == old.files \cup new.files
<1>1. CASE new.kind = "none"
  <2>1. new = Nothing
    BY <1>1 DEF Sets
  <2>2. Merge(old, new) = old
    BY <1>1 DEF Merge
  <2> QED BY <2>1, <2>2, SetsFacts DEF Holds
<1>2. CASE new.kind # "none" /\ Merge(old, new) = All
  <2>1. new # Nothing
    BY <1>2 DEF Nothing
  <2>2. \A k, i : Holds(k, old, i) \/ Holds(k, new, i) => i \in Items
    BY SetsFacts DEF Holds
  <2> QED BY <1>2, <2>1, <2>2, SetsFacts DEF Holds
<1>3. CASE new.kind # "none" /\ Merge(old, new) = Named(both) /\ old.kind # "all" /\ new.kind # "all"
  <2>1. both \in SUBSET Files
    BY DEF Sets
  <2>2. \A k, i : Holds(k, old, i) \/ Holds(k, new, i) => i \in Covered(k, Named(both))
    BY <1>3 DEF Holds, Covered, Named
  <2> HIDE DEF both
  <2> QED BY <1>3, <2>1, <2>2, SetsFacts DEF Holds, All, Nothing
<1>4. CASE new.kind # "none" /\ old.kind # "all" /\ new.kind # "all"
  BY <1>2, <1>3, <1>4 DEF Merge
<1>5. CASE "all" \in {old.kind, new.kind}
  BY <1>1, <1>2, <1>5 DEF Merge
<1> QED BY <1>1, <1>4, <1>5

-----------------------------------------------------------------------------
(* The helpers, each with what it leaves to do of an item i. *)

\* What every helper that ends or continues a pass of k's task does to the rest.
Kept(k, w) ==
  /\ watch' \in [Roots -> Watches] /\ task' \in [Roots -> Tasks]
  /\ \A x \in Roots \ {k} : watch'[x] = w[x] /\ task'[x] = task[x]
  /\ watch'[k].seen = w[k].seen /\ watch'[k].watcher = w[k].watcher
  /\ w[k].st = "none" => watch'[k] = w[k]
  /\ w[k].st # "none" => watch'[k].st # "none"
  /\ watch'[k].st = "asked" => w[k].st = "asked"
  /\ watch'[k].st \in {"asked", "told"} => w[k].st \in {"asked", "told"}
  /\ task'[k].pc # "new"

LEMMA TaskOverKeeps ==
  ASSUME Types, NEW k \in Roots, NEW w \in [Roots -> Watches], NEW r \in Results, TaskOver(k, w, r)
  PROVE  /\ Kept(k, w)
         /\ \A i : InWatch(k, i, w[k]) => InWatch(k, i, watch'[k])
         /\ w[k].st = "asked" /\ r \in {"deferred", "failed"} => \A i : InWatch(k, i, watch'[k])
<1>1. w[k] \in Watches
  OBVIOUS
<1>2. task' = [task EXCEPT ![k] = NoTask]
  BY DEF TaskOver
<1>3. task' \in [Roots -> Tasks] /\ task'[k].pc # "new"
  BY <1>2, SetsFacts DEF Types, NoTask
<1>4. CASE w[k].st = "asked"
  <2>1. watch' = [w EXCEPT ![k] = [w[k] EXCEPT !.st = "told", !.told = r]]
    BY <1>4 DEF TaskOver
  <2>2. watch'[k] = [w[k] EXCEPT !.st = "told", !.told = r]
    BY <2>1
  <2>3. watch'[k] \in Watches
    BY <1>1, <2>2 DEF Watches
  <2>4. /\ watch'[k].seen = w[k].seen /\ watch'[k].watcher = w[k].watcher /\ watch'[k].pend = w[k].pend
        /\ watch'[k].st = "told" /\ watch'[k].told = r
    BY <1>1, <2>2 DEF Watches
  <2> QED BY <1>2, <1>3, <1>4, <2>1, <2>3, <2>4 DEF Kept, InWatch, Types
<1>5. CASE w[k].st # "asked"
  <2>1. watch' = w
    BY <1>5 DEF TaskOver
  <2> QED BY <1>2, <1>3, <1>5, <2>1 DEF Kept, Types
<1> QED BY <1>4, <1>5

LEMMA BeginPassKeeps ==
  ASSUME Types, NEW k \in Roots, NEW w \in [Roots -> Watches], NEW t \in Tasks, BeginPass(k, t, w)
  PROVE  /\ Kept(k, w)
         /\ \A i, b : InWatch(k, i, w[k]) => Due(k, i, watch'[k], task'[k], b)
         /\ \A i, b : w[k].st = "asked" /\ Holds(k, t.cur, i) /\ (t.changes.kind # "some" \/ i \in Covered(k, t.changes))
                        => Due(k, i, watch'[k], task'[k], b)
<1>1. w[k] \in Watches /\ t.cur \in Sets /\ w[k].pend \in Sets
  BY DEF Watches, Tasks
<1>2. CASE w[k].st # "none" /\ w[k].recent
  <2> DEFINE put == [w[k] EXCEPT !.pend = Merge(@, t.cur)]
             v == [w EXCEPT ![k] = put]
  <2>1. TaskOver(k, v, "changing")
    BY <1>2 DEF BeginPass
  <2>2. put \in Watches
    BY <1>1, MergeFacts DEF Watches
  <2>3. v \in [Roots -> Watches] /\ v[k] = put /\ \A x \in Roots \ {k} : v[x] = w[x]
    BY <2>2
  <2>4. /\ put.seen = w[k].seen /\ put.watcher = w[k].watcher /\ put.st = w[k].st /\ put.told = w[k].told
        /\ put.pend = Merge(w[k].pend, t.cur)
    BY <1>1 DEF Watches
  <2>5. "changing" \in Results
    BY DEF Results
  <2> HIDE DEF put, v
  <2>6. /\ Kept(k, v)
        /\ \A i : InWatch(k, i, v[k]) => InWatch(k, i, watch'[k])
    BY <2>1, <2>3, <2>5, TaskOverKeeps
  <2>7. \A i : InWatch(k, i, w[k]) \/ Holds(k, t.cur, i) => InWatch(k, i, v[k])
    BY <1>1, <2>3, <2>4, MergeFacts DEF InWatch
  <2>8. Kept(k, w)
    BY <1>2, <2>3, <2>4, <2>6 DEF Kept
  <2> QED BY <2>6, <2>7, <2>8 DEF Due
<1>3. CASE ~(w[k].st # "none" /\ w[k].recent)
  <2>1. watch' = w /\ task' = [task EXCEPT ![k] = [t EXCEPT !.pc = "lock", !.graph = t.graph \/ t.mark]]
    BY <1>3 DEF BeginPass
  <2>2. task'[k] = [t EXCEPT !.pc = "lock", !.graph = t.graph \/ t.mark]
    BY <2>1 DEF Types
  <2>3. task'[k] \in Tasks
    BY <2>2 DEF Tasks
  <2>4. task'[k].pc = "lock" /\ task'[k].cur = t.cur /\ task'[k].changes = t.changes
    BY <2>2 DEF Tasks
  <2>5. Kept(k, w)
    BY <2>1, <2>3, <2>4 DEF Kept, Types
  <2>6. \A i, b : w[k].st = "asked" /\ Holds(k, t.cur, i) /\ (t.changes.kind # "some" \/ i \in Covered(k, t.changes))
                    => InTask(k, i, task'[k], b)
    BY <2>4 DEF InTask, Holds, Nothing
  <2> QED BY <2>1, <2>5, <2>6 DEF Due
<1> QED BY <1>2, <1>3

LEMMA FollowUpKeeps ==
  ASSUME Types, NEW k \in Roots, NEW w \in [Roots -> Watches], NEW t \in Tasks, FollowUp(k, t, w)
  PROVE  /\ Kept(k, w)
         /\ \A i, b : InWatch(k, i, w[k]) => Due(k, i, watch'[k], task'[k], b)
         /\ \A i, b : w[k].st = "asked" /\ (Holds(k, t.changes, i) \/ (t.changes = Nothing /\ t.res = "deferred"))
                        => Due(k, i, watch'[k], task'[k], b)
<1>1. CASE t.changes # Nothing
  <2> DEFINE u == [t EXCEPT !.cur = t.changes, !.changes = Nothing, !.graph = TRUE]
  <2>1. u \in Tasks /\ u.cur = t.changes /\ u.changes = Nothing
    BY SetsFacts DEF Tasks
  <2>2. BeginPass(k, u, w)
    BY <1>1 DEF FollowUp
  <2> HIDE DEF u
  <2>3. u.changes.kind # "some"
    BY <2>1 DEF Nothing
  <2> QED BY <1>1, <2>1, <2>2, <2>3, BeginPassKeeps
<1>2. CASE t.changes = Nothing /\ t.mark
  <2>1. watch' = w /\ task' = [task EXCEPT ![k] = [t EXCEPT !.pc = "graph", !.cur = All, !.mark = FALSE, !.graph = TRUE]]
    BY <1>2 DEF FollowUp
  <2>2. task'[k] = [t EXCEPT !.pc = "graph", !.cur = All, !.mark = FALSE, !.graph = TRUE]
    BY <2>1 DEF Types
  <2>3. task'[k] \in Tasks /\ task'[k].pc = "graph" /\ task'[k].changes = Nothing /\ task'[k].res = t.res
    BY <1>2, <2>2, SetsFacts DEF Tasks
  <2>4. Kept(k, w)
    BY <2>1, <2>3 DEF Kept, Types
  <2> QED BY <1>2, <2>1, <2>3, <2>4 DEF Due, InTask, Holds
<1>3. CASE t.changes = Nothing /\ ~t.mark
  <2>1. TaskOver(k, w, t.res) /\ t.res \in Results
    BY <1>3 DEF FollowUp, Tasks
  <2> QED BY <1>3, <2>1, TaskOverKeeps DEF Due, Holds
<1> QED BY <1>1, <1>2, <1>3 DEF Tasks

LEMMA AfterIndexKeeps ==
  ASSUME Types, NEW k \in Roots, NEW w \in [Roots -> Watches], NEW r \in Results, AfterIndex(k, w, r)
  PROVE  /\ Kept(k, w)
         /\ \A i, b : InWatch(k, i, w[k]) => Due(k, i, watch'[k], task'[k], b)
         /\ \A i, b : w[k].st = "asked" /\ (Holds(k, task[k].changes, i) \/ (task[k].changes = Nothing /\ r = "deferred"))
                        => Due(k, i, watch'[k], task'[k], b)
<1> DEFINE t == [task[k] EXCEPT !.res = r]
<1>0. task[k] \in Tasks
  BY DEF Types
<1>1. t \in Tasks /\ t.changes = task[k].changes /\ t.res = r
  BY <1>0 DEF Tasks
<1>2. CASE t.graph \/ t.mark
  <2>1. watch' = w /\ task' = [task EXCEPT ![k] = [t EXCEPT !.pc = "graph", !.mark = FALSE]]
    BY <1>2 DEF AfterIndex
  <2>2. task'[k] = [t EXCEPT !.pc = "graph", !.mark = FALSE]
    BY <2>1 DEF Types
  <2> HIDE DEF t
  <2>3. task'[k] \in Tasks /\ task'[k].pc = "graph" /\ task'[k].changes = t.changes /\ task'[k].res = r
    BY <1>1, <2>2 DEF Tasks
  <2>4. Kept(k, w)
    BY <2>1, <2>3 DEF Kept, Types
  <2> QED BY <1>1, <2>1, <2>3, <2>4 DEF Due, InTask
<1>3. CASE ~(t.graph \/ t.mark)
  <2>1. FollowUp(k, t, w)
    BY <1>3 DEF AfterIndex
  <2> HIDE DEF t
  <2> QED BY <1>1, <2>1, FollowUpKeeps
<1> QED BY <1>2, <1>3

\* A root with no part in a step.
LEMMA Undisturbed ==
  ASSUME NEW x \in Roots, Root(x),
         resident'[x] = resident[x], watch'[x] = watch[x], task'[x] = task[x], dirty'[x] = dirty[x],
         loads'[x] = loads[x], built'[x] = built[x], named'[x] = named[x], shared'[x] = shared[x]
  PROVE  Root(x)'
  BY DEF Root, Shape, DueOf, RootShape, RootDue, Due, InWatch, InTask, Holds, Covered, Lacks

\* The shape after a helper, for an index that stays, or is served now, and fewer names.
LEMMA KeptShape ==
  ASSUME NEW k \in Roots, NEW w, Kept(k, w), RootShape(resident[k], w[k], task[k], named[k]),
         named'[k] \subseteq named[k],
         resident'[k] = resident[k] \/ (resident[k] # "no" /\ resident'[k] = "served")
  PROVE  Shape(k)'
  BY DEF Kept, RootShape, Shape, NoWatch

\* What is due in the next state, spelled out.
LEMMA DueNow ==
  ASSUME NEW k \in Roots,
         \A i \in named'[k] \ shared'[k] :
            \/ Due(k, i, watch'[k], task'[k], built'[k])
            \/ i \notin Lacks(resident'[k], dirty'[k], loads'[k]) /\ i \notin built'[k]
  PROVE  DueOf(k)'
  BY DEF DueOf, RootDue, Due, InWatch, InTask, Holds, Covered, Lacks

LEMMA NotedFacts ==
  ASSUME NEW w \in Watches, NEW c \in Sets
  PROVE  /\ Noted(w, c) \in Watches
         /\ Noted(w, c).pend = Merge(w.pend, c)
         /\ Noted(w, c).seen = w.seen /\ Noted(w, c).watcher = w.watcher /\ Noted(w, c).told = w.told
         /\ Noted(w, c).st = IF w.st = "none" THEN "waiting" ELSE w.st
<1>1. w.pend \in Sets
  BY DEF Watches
<1>2. Merge(w.pend, c) \in Sets
  BY <1>1, MergeFacts
<1> QED BY <1>2 DEF Noted, Watches

\* Everything is due to a watch task that has noted a full rescan.
LEMMA AllIsDue ==
  ASSUME NEW x \in Roots, Types', watch'[x].pend = All
  PROVE  DueOf(x)'
<1>1. \A i \in Items : Holds(x, watch'[x].pend, i)
  BY SetsFacts DEF Holds
<1> QED BY <1>1 DEF DueOf, RootDue, Due, InWatch, Types, Holds, Covered

-----------------------------------------------------------------------------
(* Residency. *)

LEMMA InitHolds == Init => IInv
<1> SUFFICES ASSUME Init PROVE IInv
  OBVIOUS
<1>1. Types
  BY SetsFacts DEF Init, Types
<1>2. \A k \in Roots : Root(k)
  BY DEF Init, Root, Shape, DueOf, RootShape, RootDue, NoWatch, NoTask
<1> QED BY <1>1, <1>2 DEF IInv

LEMMA LoadStep == ASSUME IInv, NEW k \in Roots, Load(k) PROVE IInv'
<1> USE DEF IInv
<1>1. watch'[k] = [NoWatch EXCEPT !.watcher = "registering"] /\ named[k] = {}
  BY DEF Load, Types, Root, Shape, RootShape
<1>2. watch'[k] \in Watches /\ watch'[k].st = "none" /\ watch'[k].pend = Nothing /\ watch'[k].watcher = "registering"
  BY <1>1, SetsFacts DEF NoWatch, Watches
<1>3. Types'
  BY <1>2 DEF Load, Types
<1>4. Root(k)'
  BY <1>1, <1>2 DEF Load, Types, Root, Shape, DueOf, RootShape, RootDue
<1>5. \A x \in Roots \ {k} : Root(x)'
  BY Undisturbed DEF Load, Types
<1> QED BY <1>3, <1>4, <1>5

LEMMA LoadedStep == ASSUME IInv, NEW k \in Roots, Loaded(k) PROVE IInv'
<1> USE DEF IInv
<1>1. Types'
  BY DEF Loaded, Types
<1>2. Shape(k)'
  BY DEF Loaded, Types, Root, Shape, RootShape
<1>3. Lacks(resident'[k], dirty'[k], loads'[k]) = Lacks(resident[k], dirty[k], loads[k])
  BY DEF Loaded, Types, Lacks
<1>4. DueOf(k)'
  BY <1>3 DEF Loaded, Root, DueOf, RootDue, Due, InWatch, InTask, Holds, Covered
<1>5. \A x \in Roots \ {k} : Root(x)'
  BY Undisturbed DEF Loaded, Types
<1> QED BY <1>1, <1>2, <1>4, <1>5 DEF Root

LEMMA EvictStep == ASSUME IInv, NEW k \in Roots, Evict(k) PROVE IInv'
<1> USE DEF IInv
<1> DEFINE E == {k} \cup LanesOf(k)
<1>1. Types'
  BY SetsFacts DEF Evict, Types
<1>2. \A x \in Roots : x \in E => Root(x)'
  BY DEF Evict, Types, Root, Shape, DueOf, RootShape, RootDue, NoWatch, NoTask
<1>3. \A x \in Roots : x \notin E => Root(x)'
  BY Undisturbed DEF Evict, Types
<1> QED BY <1>1, <1>2, <1>3

-----------------------------------------------------------------------------
(* The watcher. *)

LEMMA EditStep == ASSUME IInv, NEW k \in Roots, NEW f \in Files, Edit(k, f) PROVE IInv'
<1> USE DEF IInv
<1>1. /\ watch'[k] \in Watches
      /\ watch'[k].watcher = watch[k].watcher /\ watch'[k].st = watch[k].st /\ watch'[k].told = watch[k].told
      /\ watch'[k].pend = watch[k].pend
      /\ watch'[k].seen = IF watch[k].watcher = "ready" THEN watch[k].seen \cup {f} ELSE watch[k].seen
      /\ watch[k].watcher # "ready" => watch'[k] = watch[k]
      /\ \A x \in Roots \ {k} : watch'[x] = watch[x]
  BY DEF Edit, Types, Watches
<1>2. Types'
  BY <1>1 DEF Edit, Types, Items
<1>3. /\ resident'[k] = resident[k] /\ task'[k] = task[k] /\ shared'[k] = shared[k]
      /\ named'[k] = IF watch[k].watcher = "ready" THEN named[k] \cup {f} ELSE named[k]
      /\ built'[k] \subseteq built[k] \cup {f}
      /\ Lacks(resident'[k], dirty'[k], loads'[k]) \subseteq Lacks(resident[k], dirty[k], loads[k]) \cup {f}
  BY DEF Edit, Types, Lacks
<1>4. Shape(k)'
  <2>1. CASE watch[k].watcher = "ready"
    <3>1. resident[k] # "no"
      BY <2>1 DEF Root, Shape, RootShape, NoWatch
    <3> QED BY <1>1, <1>3, <2>1, <3>1 DEF Root, Shape, RootShape
  <2>2. CASE watch[k].watcher # "ready"
    BY <1>1, <1>3, <2>2 DEF Root, Shape, RootShape
  <2> QED BY <2>1, <2>2
<1>5. \A i : InWatch(k, i, watch[k]) => InWatch(k, i, watch'[k])
  BY <1>1 DEF InWatch
<1>6. \A i : i # f /\ InTask(k, i, task[k], built[k]) => InTask(k, i, task'[k], built'[k])
  BY <1>3 DEF InTask
<1>7. ASSUME NEW i \in named'[k] \ shared'[k]
      PROVE  \/ Due(k, i, watch'[k], task'[k], built'[k])
             \/ i \notin Lacks(resident'[k], dirty'[k], loads'[k]) /\ i \notin built'[k]
  <2>1. CASE i = f
    <3>1. watch[k].watcher = "ready"
      BY <1>3, <1>7, <2>1, RootsAssumption DEF Root, Shape, RootShape
    <3> QED BY <1>1, <2>1, <3>1 DEF Due, InWatch
  <2>2. CASE i # f
    BY <1>1, <1>3, <1>5, <1>6, <1>7, <2>2 DEF Root, DueOf, RootDue, Due
  <2> QED BY <2>1, <2>2
<1>8. DueOf(k)'
  BY <1>7, DueNow
<1>9. \A x \in Roots \ {k} : Root(x)'
  BY <1>1, Undisturbed DEF Edit, Types
<1> QED BY <1>2, <1>4, <1>8, <1>9 DEF Root

LEMMA WatchReadyStep == ASSUME IInv, NEW k \in Roots, WatchReady(k) PROVE IInv'
<1> USE DEF IInv
<1> DEFINE n == Noted(watch[k], All)
<1>1. /\ n \in Watches /\ n.pend = All /\ n.seen = watch[k].seen /\ n.told = watch[k].told
      /\ n.st = IF watch[k].st = "none" THEN "waiting" ELSE watch[k].st
  BY NotedFacts, MergeFacts, SetsFacts DEF Types, Watches
<1>2. watch' = [watch EXCEPT ![k] = [n EXCEPT !.watcher = "ready"]]
  BY DEF WatchReady, Types
<1> HIDE DEF n
<1>3. /\ watch'[k] \in Watches /\ watch'[k].pend = All /\ watch'[k].watcher = "ready"
      /\ watch'[k].st = IF watch[k].st = "none" THEN "waiting" ELSE watch[k].st
      /\ \A x \in Roots \ {k} : watch'[x] = watch[x]
  BY <1>1, <1>2 DEF Types, Watches
<1>4. Types'
  BY <1>2, <1>3 DEF WatchReady, Types, dataVars, indexVars
<1>5. Shape(k)'
  BY <1>3 DEF WatchReady, dataVars, indexVars, Root, Shape, RootShape, NoWatch
<1>6. DueOf(k)'
  BY <1>3, <1>4, AllIsDue
<1>7. \A x \in Roots \ {k} : Root(x)'
  BY <1>3, Undisturbed DEF WatchReady, dataVars, indexVars
<1> QED BY <1>4, <1>5, <1>6, <1>7 DEF Root

LEMMA DeliverStep == ASSUME IInv, NEW k \in Roots, Deliver(k) PROVE IInv'
<1> USE DEF IInv
<1> DEFINE c == Named(watch[k].seen)
           n == Noted(watch[k], c)
<1>1. watch[k].seen \in SUBSET Files /\ watch[k].pend \in Sets /\ c \in Sets /\ c # Nothing
  BY SetsFacts DEF Types, Watches
<1>2. /\ n \in Watches /\ n.pend = Merge(watch[k].pend, c) /\ n.told = watch[k].told /\ n.watcher = watch[k].watcher
      /\ n.st = IF watch[k].st = "none" THEN "waiting" ELSE watch[k].st
  BY <1>1, NotedFacts DEF Types
<1>3. watch' = [watch EXCEPT ![k] = [n EXCEPT !.seen = {}]]
  BY DEF Deliver, Types
<1>4. \A i \in watch[k].seen : Holds(k, c, i)
  BY <1>1 DEF Holds, Covered, Named, Items
<1> HIDE DEF n, c
<1>5. /\ watch'[k] \in Watches /\ watch'[k].pend = Merge(watch[k].pend, c)
      /\ watch'[k].watcher = watch[k].watcher /\ watch'[k].told = watch[k].told
      /\ watch'[k].st = IF watch[k].st = "none" THEN "waiting" ELSE watch[k].st
      /\ \A x \in Roots \ {k} : watch'[x] = watch[x]
  BY <1>2, <1>3 DEF Types, Watches
<1>6. Types'
  BY <1>3, <1>5 DEF Deliver, Types, dataVars, indexVars
<1>7. Shape(k)'
  BY <1>5 DEF Deliver, dataVars, indexVars, Root, Shape, RootShape, NoWatch
<1>8. \A i : InWatch(k, i, watch[k]) => InWatch(k, i, watch'[k])
  BY <1>1, <1>4, <1>5, MergeFacts DEF InWatch
<1>9. DueOf(k)'
  <2>1. ASSUME NEW i \in named[k] \ shared[k]
        PROVE  \/ Due(k, i, watch'[k], task[k], built[k])
               \/ i \notin Lacks(resident[k], dirty[k], loads[k]) /\ i \notin built[k]
    BY <1>5, <1>8, <2>1 DEF Root, DueOf, RootDue, Due
  <2> QED BY <2>1, DueNow DEF Deliver, dataVars, indexVars
<1>10. \A x \in Roots \ {k} : Root(x)'
  BY <1>5, Undisturbed DEF Deliver, dataVars, indexVars
<1> QED BY <1>6, <1>7, <1>9, <1>10 DEF Root

LEMMA QuietStep == ASSUME IInv, NEW k \in Roots, Quiet(k) PROVE IInv'
<1> USE DEF IInv
<1>1. /\ watch'[k] \in Watches
      /\ watch'[k].watcher = watch[k].watcher /\ watch'[k].st = watch[k].st /\ watch'[k].told = watch[k].told
      /\ watch'[k].pend = watch[k].pend /\ watch'[k].seen = watch[k].seen
      /\ \A x \in Roots \ {k} : watch'[x] = watch[x]
  BY DEF Quiet, Types, Watches
<1>2. Types'
  BY <1>1 DEF Quiet, Types, dataVars, indexVars
<1>3. Shape(k)'
  BY <1>1 DEF Quiet, dataVars, indexVars, Root, Shape, RootShape, NoWatch
<1>4. DueOf(k)'
  BY <1>1 DEF Quiet, dataVars, indexVars, Root, DueOf, RootDue, Due, InWatch, InTask, Holds, Covered, Lacks
<1>5. \A x \in Roots \ {k} : Root(x)'
  BY <1>1, Undisturbed DEF Quiet, dataVars, indexVars
<1> QED BY <1>2, <1>3, <1>4, <1>5 DEF Root

\* What a rebuild of c leaves to do: c, unless it is a rescan left to a pass that runs.
LEMMA RebuildFacts ==
  ASSUME Types, NEW k \in Roots, Root(k), NEW c \in Sets, NEW java \in BOOLEAN, Rebuild(k, c, java)
  PROVE  /\ task' \in [Roots -> Tasks] /\ \A x \in Roots \ {k} : task'[x] = task[x]
         /\ \/ task[k].pc = "none" /\ task'[k].pc = "new" /\ task'[k].cur = c /\ task'[k].changes = Nothing
            \/ /\ task[k].pc # "none" /\ Shares(k, c)
               /\ task'[k].pc = task[k].pc /\ task'[k].cur = task[k].cur /\ task'[k].res = task[k].res
               /\ task'[k].changes = task[k].changes
            \/ /\ task[k].pc # "none" /\ task'[k].pc = task[k].pc /\ task'[k].cur = task[k].cur
               /\ ~Shares(k, c)
               /\ task'[k].changes = Merge(task[k].changes, c)
<1> DEFINE t == [task[k] EXCEPT !.mark = @ \/ java]
<1>0. task[k] \in Tasks /\ task[k].changes \in Sets
  BY DEF Types, Tasks
<1>1. /\ t \in Tasks /\ t.pc = task[k].pc /\ t.cur = task[k].cur /\ t.res = task[k].res /\ t.changes = task[k].changes
  BY <1>0 DEF Tasks
<1>2. task' = [task EXCEPT ![k] = CASE t.pc = "none" -> [NoTask EXCEPT !.pc = "new", !.cur = c, !.graph = java, !.mark = java]
                                    [] Shares(k, c) -> t
                                    [] OTHER -> [t EXCEPT !.changes = Merge(@, c)]]
  BY DEF Rebuild
<1> HIDE DEF t
<1>3. CASE task[k].pc = "none"
  <2>1. ~Shares(k, c)
    BY <1>3 DEF Shares
  <2>2. task'[k] = [NoTask EXCEPT !.pc = "new", !.cur = c, !.graph = java, !.mark = java]
    BY <1>1, <1>2, <1>3, <2>1 DEF Types
  <2>3. task'[k] \in Tasks /\ task'[k].pc = "new" /\ task'[k].cur = c /\ task'[k].changes = Nothing
    BY <2>2, SetsFacts DEF Tasks, NoTask
  <2> QED BY <1>2, <1>3, <2>3 DEF Types
<1>4. CASE task[k].pc # "none" /\ Shares(k, c)
  <2>1. task'[k] = t
    BY <1>1, <1>2, <1>4 DEF Types
  <2> QED BY <1>1, <1>2, <1>4, <2>1 DEF Types
<1>5. CASE task[k].pc # "none" /\ ~Shares(k, c)
  <2>1. task'[k] = [t EXCEPT !.changes = Merge(@, c)]
    BY <1>1, <1>2, <1>5 DEF Types
  <2>2. Merge(t.changes, c) \in Sets
    BY <1>0, <1>1, MergeFacts
  <2>3. task'[k] \in Tasks /\ task'[k].pc = t.pc /\ task'[k].cur = t.cur /\ task'[k].changes = Merge(t.changes, c)
    BY <1>1, <2>1, <2>2 DEF Tasks
  <2> QED BY <1>1, <1>2, <1>5, <2>3 DEF Types
<1> QED BY <1>3, <1>4, <1>5

LEMMA WatchAsksStep == ASSUME IInv, NEW k \in Roots, WatchAsks(k) PROVE IInv'
<1> USE DEF IInv
<1> DEFINE c == watch[k].pend
<1>1. /\ watch'[k] \in Watches /\ watch'[k].pend = Nothing /\ watch'[k].st = "asked"
      /\ watch'[k].watcher = watch[k].watcher /\ watch'[k].seen = watch[k].seen
      /\ \A x \in Roots \ {k} : watch'[x] = watch[x]
  BY SetsFacts DEF WatchAsks, Types, Watches
<1>2. c \in Sets /\ task[k].changes \in Sets /\ TouchesGraph(c) \in BOOLEAN /\ Rebuild(k, c, TouchesGraph(c))
  BY DEF WatchAsks, Types, Watches, Tasks, TouchesGraph
<1>3. /\ resident' = resident /\ dirty' = dirty /\ loads' = loads /\ built' = built /\ named' = named
      /\ stored' = stored /\ resident[k] = "served" /\ watch[k].st = "waiting"
      /\ \A x \in Roots \ {k} : shared'[x] = shared[x]
      /\ shared'[k] = IF Shares(k, c) THEN shared[k] \cup (named[k] \ watch[k].seen) ELSE shared[k]
      /\ shared' \in [Roots -> SUBSET Items]
  BY DEF WatchAsks, Types
<1> HIDE DEF c
<1>4. /\ task' \in [Roots -> Tasks] /\ \A x \in Roots \ {k} : task'[x] = task[x]
      /\ \/ task[k].pc = "none" /\ task'[k].pc = "new" /\ task'[k].cur = c /\ task'[k].changes = Nothing
         \/ Shares(k, c) /\ task'[k].pc = task[k].pc /\ task'[k].cur = task[k].cur
         \/ /\ task[k].pc # "none" /\ task'[k].pc = task[k].pc /\ task'[k].cur = task[k].cur
            /\ ~Shares(k, c) /\ task'[k].changes = Merge(task[k].changes, c)
  BY <1>2, RebuildFacts
<1>5. Types'
  BY <1>1, <1>3, <1>4 DEF WatchAsks, Types
<1>6. Shape(k)'
  BY <1>1, <1>3, <1>4 DEF Root, Shape, RootShape
<1>7. ASSUME NEW i \in named[k] \ shared'[k]
      PROVE  \/ Due(k, i, watch'[k], task'[k], built[k])
             \/ i \notin Lacks(resident[k], dirty[k], loads[k]) /\ i \notin built[k]
  <2>1. CASE i \in watch[k].seen
    BY <1>1, <2>1 DEF Due, InWatch
  <2>2. CASE i \notin watch[k].seen /\ i \notin shared[k] /\ ~Due(k, i, watch[k], task[k], built[k])
    BY <1>7, <2>2 DEF Root, DueOf, RootDue
  <2>3. CASE i \notin watch[k].seen /\ Due(k, i, watch[k], task[k], built[k])
    <3>1. Holds(k, c, i)
      BY <1>3, <2>3 DEF Due, InWatch, c
    <3>2. CASE task'[k].cur = c /\ task'[k].pc = "new" /\ task'[k].changes = Nothing
      BY <1>1, <3>1, <3>2 DEF Due, InTask, Nothing
    <3>3. CASE Shares(k, c)
      BY <1>3, <1>7, <2>3, <3>3
    <3>4. CASE /\ task[k].pc # "none" /\ task'[k].pc = task[k].pc /\ task'[k].cur = task[k].cur
               /\ task'[k].changes = Merge(task[k].changes, c)
      <4>1. Holds(k, task'[k].changes, i)
        BY <1>2, <3>1, <3>4, MergeFacts
      <4>2. task[k].pc = "new" => task[k].cur = All
        BY <1>3 DEF Root, Shape, RootShape
      <4>3. i \in Items
        BY <1>7 DEF Types
      <4>4. Holds(k, All, i)
        BY <4>3, SetsFacts DEF Holds
      <4>5. task[k].pc \in {"new", "lock", "building", "graph", "graphing"}
        BY <3>4 DEF Types, Tasks
      <4> QED BY <1>1, <3>4, <4>1, <4>2, <4>4, <4>5 DEF Due, InTask, Holds
    <3> QED BY <1>4, <3>2, <3>3, <3>4
  <2>4. shared[k] \subseteq shared'[k]
    BY <1>3
  <2> QED BY <1>7, <2>1, <2>2, <2>3, <2>4
<1>8. DueOf(k)'
  BY <1>3, <1>7, DueNow
<1>9. \A x \in Roots \ {k} : Root(x)'
  BY <1>1, <1>3, <1>4, Undisturbed
<1> QED BY <1>5, <1>6, <1>8, <1>9 DEF Root

LEMMA WatchToldStep == ASSUME IInv, NEW k \in Roots, WatchTold(k) PROVE IInv'
<1> USE DEF IInv
<1>0. watch[k] \in Watches /\ watch[k].st = "told" /\ resident[k] = "served"
  BY DEF WatchTold, Types, Root, Shape, RootShape
<1>1. /\ resident' = resident /\ task' = task /\ dirty' = dirty /\ loads' = loads /\ built' = built
      /\ named' = named /\ shared' = shared /\ stored' = stored
  BY DEF WatchTold, dataVars, indexVars
<1>2. /\ watch'[k] \in Watches
      /\ watch'[k].watcher = watch[k].watcher /\ watch'[k].seen = watch[k].seen
      /\ \/ watch[k].told \in {"deferred", "failed"} /\ watch'[k].st = "waiting" /\ watch'[k].pend = All
         \/ /\ watch[k].told \notin {"deferred", "failed"} /\ watch[k].pend # Nothing
            /\ watch'[k].st = "waiting" /\ watch'[k].pend = watch[k].pend
         \/ /\ watch[k].told \notin {"deferred", "failed"} /\ watch[k].pend = Nothing
            /\ watch'[k].st = "none" /\ watch'[k].pend = Nothing
      /\ \A x \in Roots \ {k} : watch'[x] = watch[x]
  <2> DEFINE w == [watch[k] EXCEPT !.told = "none"]
  <2>1. /\ w \in Watches /\ w.watcher = watch[k].watcher /\ w.seen = watch[k].seen /\ w.pend = watch[k].pend
        /\ w.told = "none" /\ w.st = watch[k].st
    BY <1>0 DEF Watches, Results
  <2>2. watch' = [watch EXCEPT ![k] =
           CASE watch[k].told \in {"deferred", "failed"} -> [w EXCEPT !.st = "waiting", !.pend = All, !.recent = TRUE]
             [] watch[k].told \notin {"deferred", "failed"} /\ w.pend # Nothing -> [w EXCEPT !.st = "waiting"]
             [] OTHER -> [w EXCEPT !.st = "none", !.recent = FALSE]]
    BY DEF WatchTold
  <2> HIDE DEF w
  <2>3. \A x \in Roots \ {k} : watch'[x] = watch[x]
    BY <2>2 DEF Types
  <2>4. CASE watch[k].told \in {"deferred", "failed"}
    <3>1. watch'[k] = [w EXCEPT !.st = "waiting", !.pend = All, !.recent = TRUE]
      BY <2>2, <2>4 DEF Types
    <3> QED BY <2>1, <2>3, <2>4, <3>1, SetsFacts DEF Watches
  <2>5. CASE watch[k].told \notin {"deferred", "failed"} /\ w.pend # Nothing
    <3>1. watch'[k] = [w EXCEPT !.st = "waiting"]
      BY <2>2, <2>5 DEF Types
    <3> QED BY <2>1, <2>3, <2>5, <3>1 DEF Watches
  <2>6. CASE watch[k].told \notin {"deferred", "failed"} /\ w.pend = Nothing
    <3>1. watch'[k] = [w EXCEPT !.st = "none", !.recent = FALSE]
      BY <2>2, <2>6 DEF Types
    <3> QED BY <2>1, <2>3, <2>6, <3>1 DEF Watches
  <2> QED BY <2>4, <2>5, <2>6
<1>3. Types'
  BY <1>1, <1>2 DEF WatchTold, Types
<1>4. Shape(k)'
  BY <1>0, <1>1, <1>2 DEF Root, Shape, RootShape
<1>5. DueOf(k)'
  <2>1. CASE watch'[k].pend = All
    BY <1>3, <2>1, AllIsDue
  <2>2. CASE watch[k].told \notin {"deferred", "failed"} /\ watch'[k].pend = watch[k].pend
    <3>1. \A i : Due(k, i, watch[k], task[k], built[k]) => Due(k, i, watch'[k], task[k], built[k])
      BY <1>0, <1>2, <2>2 DEF Due, InWatch
    <3> QED BY <1>1, <3>1, DueNow DEF Root, DueOf, RootDue
  <2> QED BY <1>2, <2>1, <2>2
<1>6. \A x \in Roots \ {k} : Root(x)'
  BY <1>1, <1>2, Undisturbed
<1> QED BY <1>3, <1>4, <1>5, <1>6 DEF Root

-----------------------------------------------------------------------------
(* refresh. *)

LEMMA RefreshStep == ASSUME IInv, NEW c \in Clients, Refresh(c) PROVE IInv'
<1> USE DEF IInv
<1> DEFINE k == RootOf[c]
<1>0. k \in Roots
  BY RootsAssumption
<1>1. /\ resident' = resident /\ watch' = watch /\ dirty' = dirty /\ loads' = loads /\ built' = built
      /\ named' = named /\ shared' = shared /\ stored' = stored
      /\ Rebuild(k, All, FALSE)
  BY DEF Refresh, indexVars
<1> HIDE DEF k
<1>2. /\ task' \in [Roots -> Tasks] /\ \A x \in Roots \ {k} : task'[x] = task[x]
      /\ \/ task[k].pc = "none" /\ task'[k].pc = "new" /\ task'[k].cur = All /\ task'[k].changes = Nothing
         \/ /\ task[k].pc # "none" /\ Shares(k, All)
            /\ task'[k].pc = task[k].pc /\ task'[k].cur = task[k].cur /\ task'[k].res = task[k].res
            /\ task'[k].changes = task[k].changes
         \/ /\ task[k].pc # "none" /\ task'[k].pc = task[k].pc /\ task'[k].cur = task[k].cur
            /\ task'[k].changes = Merge(task[k].changes, All)
  BY <1>0, <1>1, RebuildFacts, SetsFacts
<1>3. task[k].changes \in Sets /\ Merge(task[k].changes, All) = All
  BY <1>0, MergeFacts, SetsFacts DEF Types, Tasks
<1>4. Types'
  BY <1>1, <1>2 DEF Types
<1>5. Shape(k)'
  BY <1>0, <1>1, <1>2 DEF Root, Shape, RootShape
<1>6. ASSUME NEW i \in Items, InTask(k, i, task[k], built[k])
      PROVE  InTask(k, i, task'[k], built[k])
  <2>1. Holds(k, All, i) /\ All.kind # "some" /\ i \in Covered(k, All)
    BY SetsFacts DEF Holds, All
  <2>2. CASE task[k].pc = "none"
    BY <1>6, <2>2 DEF InTask
  <2>3. CASE task'[k].pc = task[k].pc /\ task'[k].changes = task[k].changes /\ task'[k].cur = task[k].cur
             /\ task'[k].res = task[k].res
    BY <1>6, <2>3 DEF InTask
  <2>4. CASE task'[k].pc = task[k].pc /\ task'[k].changes = All /\ task'[k].cur = task[k].cur
    BY <1>6, <2>1, <2>4 DEF InTask
  <2> QED BY <1>2, <1>3, <2>2, <2>3, <2>4
<1>7. \A i \in named[k] : i \in Items
  BY <1>0 DEF Types
<1>8. DueOf(k)'
  BY <1>0, <1>1, <1>6, <1>7, DueNow DEF Root, DueOf, RootDue, Due
<1>9. \A x \in Roots \ {k} : Root(x)'
  BY <1>1, <1>2, Undisturbed
<1> QED BY <1>4, <1>5, <1>8, <1>9 DEF Root

-----------------------------------------------------------------------------
(* The rebuild task. *)

LEMMA RunStep == ASSUME IInv, NEW k \in Roots, Run(k) PROVE IInv'
<1> USE DEF IInv
<1>1. /\ resident' = resident /\ dirty' = dirty /\ loads' = loads /\ built' = built
      /\ named' = named /\ shared' = shared /\ stored' = stored
      /\ task[k].pc = "new" /\ task[k] \in Tasks /\ watch \in [Roots -> Watches]
      /\ BeginPass(k, task[k], watch)
  BY DEF Run, dataVars, indexVars, Types
<1>2. /\ Kept(k, watch)
      /\ \A i, b : InWatch(k, i, watch[k]) => Due(k, i, watch'[k], task'[k], b)
      /\ \A i, b : watch[k].st = "asked" /\ Holds(k, task[k].cur, i)
                     /\ (task[k].changes.kind # "some" \/ i \in Covered(k, task[k].changes))
                     => Due(k, i, watch'[k], task'[k], b)
  BY <1>1, BeginPassKeeps
<1>3. Types'
  BY <1>1, <1>2 DEF Types, Kept
<1>4. Shape(k)'
  BY <1>1, <1>2, KeptShape DEF Root, Shape
<1>5. \A i : Due(k, i, watch[k], task[k], built[k]) => Due(k, i, watch'[k], task'[k], built[k])
  BY <1>1, <1>2 DEF Due, InTask
<1>6. DueOf(k)'
  BY <1>1, <1>5, DueNow DEF Root, DueOf, RootDue
<1>7. \A x \in Roots \ {k} : Root(x)'
  BY <1>1, <1>2, Undisturbed DEF Kept
<1> QED BY <1>3, <1>4, <1>6, <1>7 DEF Root

LEMMA SkipStep == ASSUME IInv, NEW k \in Roots, Skip(k) PROVE IInv'
<1> USE DEF IInv
<1>1. /\ resident' = resident /\ dirty' = dirty /\ loads' = loads /\ built' = built
      /\ named' = named /\ shared' = shared /\ stored' = stored
      /\ resident[k] # "served" /\ watch \in [Roots -> Watches]
      /\ AfterIndex(k, watch, "skipped") /\ "skipped" \in Results
  BY DEF Skip, dataVars, indexVars, Types, Results
<1>2. /\ Kept(k, watch)
      /\ \A i, b : InWatch(k, i, watch[k]) => Due(k, i, watch'[k], task'[k], b)
  BY <1>1, AfterIndexKeeps
<1>3. Types'
  BY <1>1, <1>2 DEF Types, Kept
<1>4. Shape(k)'
  BY <1>1, <1>2, KeptShape DEF Root, Shape
<1>5. watch[k].st # "asked"
  BY <1>1 DEF Root, Shape, RootShape
<1>6. DueOf(k)'
  BY <1>1, <1>2, <1>5, DueNow DEF Root, DueOf, RootDue, Due
<1>7. \A x \in Roots \ {k} : Root(x)'
  BY <1>1, <1>2, Undisturbed DEF Kept
<1> QED BY <1>3, <1>4, <1>6, <1>7 DEF Root

LEMMA RefuseStep == ASSUME IInv, NEW k \in Roots, Refuse(k) PROVE IInv'
<1> USE DEF IInv
<1>1. /\ resident' = resident /\ dirty' = dirty /\ loads' = loads /\ built' = built
      /\ shared' = shared /\ stored' = stored
      /\ task[k].pc = "lock" /\ watch \in [Roots -> Watches]
      /\ AfterIndex(k, watch, "refused") /\ "refused" \in Results
  BY DEF Refuse, Types, Results
<1>2. named'[k] = named[k] \ Covered(k, task[k].cur) /\ \A x \in Roots \ {k} : named'[x] = named[x]
  BY DEF Refuse, Types
<1>3. /\ Kept(k, watch)
      /\ \A i, b : InWatch(k, i, watch[k]) => Due(k, i, watch'[k], task'[k], b)
      /\ \A i, b : watch[k].st = "asked" /\ Holds(k, task[k].changes, i) => Due(k, i, watch'[k], task'[k], b)
  BY <1>1, AfterIndexKeeps
<1>4. named' \in [Roots -> SUBSET Items]
  BY DEF Refuse, Types
<1>5. Types'
  BY <1>1, <1>3, <1>4 DEF Types, Kept
<1>6. Shape(k)'
  BY <1>1, <1>2, <1>3, KeptShape DEF Root, Shape
<1>7. \A i : i \notin Covered(k, task[k].cur) /\ Due(k, i, watch[k], task[k], built[k])
               => Due(k, i, watch'[k], task'[k], built[k])
  <2>1. \A i : InTask(k, i, task[k], built[k]) /\ i \notin Covered(k, task[k].cur) => Holds(k, task[k].changes, i)
    BY <1>1 DEF InTask, Holds
  <2> QED BY <1>3, <2>1 DEF Due
<1>8. DueOf(k)'
  BY <1>1, <1>2, <1>7, DueNow DEF Root, DueOf, RootDue
<1>9. \A x \in Roots \ {k} : Root(x)'
  BY <1>1, <1>2, <1>3, Undisturbed DEF Kept
<1> QED BY <1>5, <1>6, <1>8, <1>9 DEF Root

LEMMA DeferStep == ASSUME IInv, NEW k \in Roots, Defer(k) PROVE IInv'
<1> USE DEF IInv
<1>1. /\ resident' = resident /\ dirty' = dirty /\ loads' = loads /\ built' = built
      /\ named' = named /\ shared' = shared /\ stored' = stored
      /\ task[k].pc = "lock" /\ task[k].changes \in Sets /\ watch \in [Roots -> Watches]
      /\ AfterIndex(k, watch, "deferred") /\ "deferred" \in Results
  BY DEF Defer, dataVars, indexVars, Types, Results, Tasks
<1>2. /\ Kept(k, watch)
      /\ \A i, b : InWatch(k, i, watch[k]) => Due(k, i, watch'[k], task'[k], b)
      /\ \A i, b : watch[k].st = "asked" /\ (Holds(k, task[k].changes, i) \/ task[k].changes = Nothing)
                     => Due(k, i, watch'[k], task'[k], b)
  BY <1>1, AfterIndexKeeps
<1>3. Types'
  BY <1>1, <1>2 DEF Types, Kept
<1>4. Shape(k)'
  BY <1>1, <1>2, KeptShape DEF Root, Shape
<1>5. \A i \in Items : Due(k, i, watch[k], task[k], built[k]) => Due(k, i, watch'[k], task'[k], built[k])
  <2>1. \A i \in Items : task[k].changes.kind # "some" => Holds(k, task[k].changes, i) \/ task[k].changes = Nothing
    BY <1>1 DEF Sets, Holds, Covered
  <2> QED BY <1>1, <1>2, <2>1 DEF Due, InTask
<1>6. \A i \in named[k] : i \in Items
  BY DEF Types
<1>7. DueOf(k)'
  BY <1>1, <1>5, <1>6, DueNow DEF Root, DueOf, RootDue
<1>8. \A x \in Roots \ {k} : Root(x)'
  BY <1>1, <1>2, Undisturbed DEF Kept
<1> QED BY <1>3, <1>4, <1>7, <1>8 DEF Root

LEMMA ScanStep == ASSUME IInv, NEW k \in Roots, Scan(k) PROVE IInv'
<1> USE DEF IInv
<1>1. /\ resident' = resident /\ watch' = watch /\ dirty' = dirty /\ loads' = loads
      /\ named' = named /\ shared' = shared /\ stored' = stored
      /\ task[k].pc = "lock" /\ resident[k] = "served"
      /\ built'[k] = dirty[k] \ Covered(k, task[k].cur)
      /\ \A x \in Roots \ {k} : built'[x] = built[x]
      /\ built' \in [Roots -> SUBSET Items]
  BY DEF Scan, Types
<1>2. /\ task'[k] \in Tasks /\ task'[k].pc = "building" /\ task'[k].changes = task[k].changes
      /\ \A x \in Roots \ {k} : task'[x] = task[x]
      /\ task' \in [Roots -> Tasks]
  BY DEF Scan, Types, Tasks
<1>3. Types'
  BY <1>1, <1>2 DEF Types
<1>4. Shape(k)'
  BY <1>1, <1>2 DEF Root, Shape, RootShape
<1>5. ASSUME NEW i \in named[k] \ shared[k]
      PROVE  \/ Due(k, i, watch[k], task'[k], built'[k])
             \/ i \notin Lacks(resident[k], dirty[k], loads[k]) /\ i \notin built'[k]
  <2>1. Due(k, i, watch[k], task[k], built[k]) => Due(k, i, watch[k], task'[k], built'[k])
    BY <1>1, <1>2 DEF Due, InTask, Holds
  <2>2. i \notin Lacks(resident[k], dirty[k], loads[k]) => i \notin built'[k]
    BY <1>1 DEF Lacks
  <2> QED BY <1>5, <2>1, <2>2 DEF Root, DueOf, RootDue
<1>6. DueOf(k)'
  BY <1>1, <1>5, DueNow
<1>7. \A x \in Roots \ {k} : Root(x)'
  BY <1>1, <1>2, Undisturbed
<1> QED BY <1>3, <1>4, <1>6, <1>7 DEF Root

LEMMA SwapStep == ASSUME IInv, NEW k \in Roots, Swap(k) PROVE IInv'
<1> USE DEF IInv
<1> DEFINE lanes == {l \in LanesOf(k) : resident[l] # "no"}
           w == [x \in Roots |-> IF x \in lanes THEN Noted(watch[x], All) ELSE watch[x]]
<1>1. k \notin LanesOf(k) /\ LanesOf(k) \subseteq Roots
  BY RootsAssumption DEF LanesOf
<1>2. \A x \in Roots : watch[x] \in Watches
  BY DEF Types
<1>3. \A x \in Roots : /\ Noted(watch[x], All) \in Watches /\ Noted(watch[x], All).pend = All
                       /\ Noted(watch[x], All).watcher = watch[x].watcher
                       /\ Noted(watch[x], All).st = IF watch[x].st = "none" THEN "waiting" ELSE watch[x].st
  BY <1>2, NotedFacts, MergeFacts, SetsFacts DEF Watches
<1>4. w \in [Roots -> Watches] /\ w[k] = watch[k]
  BY <1>1, <1>2, <1>3
<1>5. task[k].pc = "building" /\ resident[k] # "no" /\ AfterIndex(k, w, "ok") /\ "ok" \in Results
  BY DEF Swap, Results
<1>6. /\ Kept(k, w)
      /\ \A i, b : InWatch(k, i, w[k]) => Due(k, i, watch'[k], task'[k], b)
      /\ \A i, b : w[k].st = "asked" /\ Holds(k, task[k].changes, i) => Due(k, i, watch'[k], task'[k], b)
  <2> HIDE DEF w
  <2> QED BY <1>4, <1>5, AfterIndexKeeps
<1>7. /\ resident'[k] = "served" /\ \A x \in Roots \ {k} : resident'[x] = resident[x]
      /\ built'[k] = {} /\ dirty'[k] = built[k] /\ named'[k] = named[k] \cap built[k]
      /\ shared'[k] = shared[k] \cap built[k] /\ \A x \in Roots \ {k} : shared'[x] = shared[x]
  BY DEF Swap, Types
<1>8. Types'
  <2>1. /\ resident' \in [Roots -> {"no", "loading", "served"}]
        /\ stored' \in [Roots -> SUBSET Items] /\ shared' \in [Roots -> SUBSET Items]
    BY DEF Swap, Types
  <2>2. dirty' \in [Roots -> SUBSET Items] /\ built' \in [Roots -> SUBSET Items]
    BY DEF Swap, Types, Items
  <2>3. loads' \in [Roots -> SUBSET Items] /\ named' \in [Roots -> SUBSET Items]
    BY DEF Swap, Types, Items
  <2> QED BY <1>6, <2>1, <2>2, <2>3 DEF Types, Kept
<1>9. Root(k)'
  <2>1. Shape(k)'
    BY <1>4, <1>5, <1>6, <1>7, KeptShape DEF Root, Shape
  <2>2. ASSUME NEW i \in named'[k] \ shared'[k]
        PROVE  Due(k, i, watch'[k], task'[k], built'[k])
    <3>1. i \in named[k] \ shared[k] /\ i \in built[k]
      BY <1>7, <2>2
    <3>2. Due(k, i, watch[k], task[k], built[k])
      BY <3>1 DEF Root, DueOf, RootDue
    <3>3. InTask(k, i, task[k], built[k]) => Holds(k, task[k].changes, i)
      BY <1>5, <3>1 DEF InTask
    <3> QED BY <1>4, <1>6, <3>2, <3>3 DEF Due
  <2>3. DueOf(k)'
    BY <2>2, DueNow
  <2> QED BY <2>1, <2>3 DEF Root
<1>10. ASSUME NEW x \in Roots \ {k} PROVE Root(x)'
  <2>1. watch'[x] = w[x] /\ task'[x] = task[x] /\ resident'[x] = resident[x] /\ shared'[x] = shared[x]
    BY <1>6, <1>7 DEF Kept
  <2>2. CASE x \in lanes
    <3>1. w[x] = Noted(watch[x], All) /\ named'[x] \subseteq named[x] \cup {BaseItem} /\ resident[x] # "no"
      BY <1>1, <2>2 DEF Swap, Types
    <3>2. Shape(x)'
      BY <1>3, <2>1, <3>1 DEF Root, Shape, RootShape
    <3>3. DueOf(x)'
      BY <1>3, <1>8, <2>1, <3>1, AllIsDue
    <3> QED BY <3>2, <3>3 DEF Root
  <2>3. CASE x \in LanesOf(k) /\ resident[x] = "no"
    <3>1. w[x] = watch[x] /\ named'[x] = named[x] /\ named[x] = {}
      BY <1>1, <2>3 DEF Swap, Types, Root, Shape, RootShape
    <3>2. Shape(x)'
      BY <2>1, <3>1 DEF Root, Shape, RootShape
    <3>3. DueOf(x)'
      BY <3>1 DEF DueOf, RootDue
    <3> QED BY <3>2, <3>3 DEF Root
  <2>4. CASE x \notin LanesOf(k)
    <3>1. /\ w[x] = watch[x] /\ named'[x] = named[x] /\ dirty'[x] = dirty[x]
          /\ loads'[x] = loads[x] /\ built'[x] = built[x]
      BY <2>4 DEF Swap, Types
    <3> QED BY <2>1, <3>1, Undisturbed
  <2> QED BY <2>2, <2>3, <2>4
<1> QED BY <1>8, <1>9, <1>10

LEMMA SwapNothingStep == ASSUME IInv, NEW k \in Roots, SwapNothing(k) PROVE IInv'
<1> USE DEF IInv
<1>1. /\ resident' = resident /\ dirty' = dirty /\ loads' = loads /\ named' = named /\ shared' = shared
      /\ resident[k] = "no" /\ watch \in [Roots -> Watches]
      /\ AfterIndex(k, watch, "skipped") /\ "skipped" \in Results
      /\ \A x \in Roots \ {k} : built'[x] = built[x]
      /\ built' \in [Roots -> SUBSET Items] /\ stored' \in [Roots -> SUBSET Items]
  BY DEF SwapNothing, Types, Results
<1>2. Kept(k, watch)
  BY <1>1, AfterIndexKeeps
<1>3. Types'
  BY <1>1, <1>2 DEF Types, Kept
<1>4. Shape(k)'
  BY <1>1, <1>2, KeptShape DEF Root, Shape
<1>5. named'[k] = {}
  BY <1>1 DEF Root, Shape, RootShape
<1>6. DueOf(k)'
  BY <1>5 DEF DueOf, RootDue
<1>7. \A x \in Roots \ {k} : Root(x)'
  BY <1>1, <1>2, Undisturbed DEF Kept
<1> QED BY <1>3, <1>4, <1>6, <1>7 DEF Root

LEMMA FailStep ==
  ASSUME IInv, NEW k \in Roots, NEW r \in {"failed", "deferred"}, Fail(k, r) PROVE IInv'
<1> USE DEF IInv
<1>1. /\ resident' = resident /\ dirty' = dirty /\ loads' = loads /\ named' = named /\ shared' = shared
      /\ stored' = stored /\ built'[k] = {} /\ task[k].pc = "building" /\ watch \in [Roots -> Watches]
      /\ TaskOver(k, watch, r) /\ r \in Results
      /\ \A x \in Roots \ {k} : built'[x] = built[x]
      /\ built' \in [Roots -> SUBSET Items]
  BY DEF Fail, Types, Results
<1>2. /\ Kept(k, watch)
      /\ \A i : InWatch(k, i, watch[k]) => InWatch(k, i, watch'[k])
      /\ watch[k].st = "asked" => \A i : InWatch(k, i, watch'[k])
  BY <1>1, TaskOverKeeps
<1>3. Types'
  BY <1>1, <1>2 DEF Types, Kept
<1>4. Shape(k)'
  BY <1>1, <1>2, KeptShape DEF Root, Shape
<1>5. DueOf(k)'
  BY <1>1, <1>2, DueNow DEF Root, DueOf, RootDue, Due
<1>6. \A x \in Roots \ {k} : Root(x)'
  BY <1>1, <1>2, Undisturbed DEF Kept
<1> QED BY <1>3, <1>4, <1>5, <1>6 DEF Root

LEMMA StartGraphStep == ASSUME IInv, NEW k \in Roots, StartGraph(k) PROVE IInv'
<1> USE DEF IInv
<1>1. /\ resident' = resident /\ watch' = watch /\ dirty' = dirty /\ loads' = loads /\ built' = built
      /\ named' = named /\ shared' = shared /\ stored' = stored /\ task[k].pc = "graph"
  BY DEF StartGraph, indexVars
<1>2. /\ task' \in [Roots -> Tasks] /\ task'[k].pc = "graphing"
      /\ task'[k].changes = task[k].changes /\ task'[k].res = task[k].res
      /\ \A x \in Roots \ {k} : task'[x] = task[x]
  BY DEF StartGraph, Types, Tasks
<1>3. Types'
  BY <1>1, <1>2 DEF Types
<1>4. Shape(k)'
  BY <1>1, <1>2 DEF Root, Shape, RootShape
<1>5. \A i : InTask(k, i, task[k], built[k]) => InTask(k, i, task'[k], built[k])
  BY <1>1, <1>2 DEF InTask
<1>6. DueOf(k)'
  BY <1>1, <1>5, DueNow DEF Root, DueOf, RootDue, Due
<1>7. \A x \in Roots \ {k} : Root(x)'
  BY <1>1, <1>2, Undisturbed
<1> QED BY <1>3, <1>4, <1>6, <1>7 DEF Root

LEMMA EndGraphStep == ASSUME IInv, NEW k \in Roots, EndGraph(k) PROVE IInv'
<1> USE DEF IInv
<1>1. /\ resident' = resident /\ dirty' = dirty /\ loads' = loads /\ built' = built
      /\ named' = named /\ shared' = shared /\ stored' = stored
      /\ task[k].pc = "graphing" /\ task[k] \in Tasks /\ watch \in [Roots -> Watches]
      /\ FollowUp(k, task[k], watch)
  BY DEF EndGraph, indexVars, Types
<1>2. /\ Kept(k, watch)
      /\ \A i, b : InWatch(k, i, watch[k]) => Due(k, i, watch'[k], task'[k], b)
      /\ \A i, b : watch[k].st = "asked"
                     /\ (Holds(k, task[k].changes, i) \/ (task[k].changes = Nothing /\ task[k].res = "deferred"))
                     => Due(k, i, watch'[k], task'[k], b)
  BY <1>1, FollowUpKeeps
<1>3. Types'
  BY <1>1, <1>2 DEF Types, Kept
<1>4. Shape(k)'
  BY <1>1, <1>2, KeptShape DEF Root, Shape
<1>5. \A i : Due(k, i, watch[k], task[k], built[k]) => Due(k, i, watch'[k], task'[k], built[k])
  BY <1>1, <1>2 DEF Due, InTask
<1>6. DueOf(k)'
  BY <1>1, <1>5, DueNow DEF Root, DueOf, RootDue
<1>7. \A x \in Roots \ {k} : Root(x)'
  BY <1>1, <1>2, Undisturbed DEF Kept
<1> QED BY <1>3, <1>4, <1>6, <1>7 DEF Root

-----------------------------------------------------------------------------
(* The invariant, and what it gives. *)

\* What Answer, and a step of nobody, leave alone.
LEMMA OthersLeave ==
  ASSUME IInv, UNCHANGED <<resident, watch, task, indexVars>>
  PROVE  IInv'
<1> USE DEF IInv
<1>1. Types'
  BY DEF Types, indexVars
<1>2. \A x \in Roots : Root(x)'
  BY Undisturbed DEF indexVars
<1> QED BY <1>1, <1>2

LEMMA Inductive == IInv /\ [Next]_vars => IInv'
<1> SUFFICES ASSUME IInv, [Next]_vars PROVE IInv'
  OBVIOUS
<1>1. ASSUME NEW k \in Roots, Load(k) \/ Loaded(k) \/ Evict(k) PROVE IInv'
  BY <1>1, LoadStep, LoadedStep, EvictStep
<1>2. ASSUME NEW k \in Roots, Watching(k) PROVE IInv'
  BY <1>2, WatchReadyStep, DeliverStep, QuietStep, WatchAsksStep, WatchToldStep DEF Watching
<1>3. ASSUME NEW k \in Roots, Pass(k) PROVE IInv'
  BY <1>3, RunStep, SkipStep, ScanStep, SwapStep, SwapNothingStep, StartGraphStep, EndGraphStep DEF Pass
<1>4. ASSUME NEW k \in Roots, Refuse(k) \/ Defer(k) \/ Fail(k, "failed") \/ Fail(k, "deferred") PROVE IInv'
  BY <1>4, RefuseStep, DeferStep, FailStep
<1>5. ASSUME NEW k \in Roots, NEW f \in Files, Edit(k, f) PROVE IInv'
  BY <1>5, EditStep
<1>6. ASSUME NEW c \in Clients, Refresh(c) PROVE IInv'
  BY <1>6, RefreshStep
<1>7. ASSUME NEW c \in Clients, Answer(c) PROVE IInv'
  BY <1>7, OthersLeave DEF Answer
<1>8. CASE UNCHANGED vars
  BY <1>8, OthersLeave DEF vars, dataVars, indexVars
<1> QED BY <1>1, <1>2, <1>3, <1>4, <1>5, <1>6, <1>7, <1>8 DEF Next

LEMMA IInvGives == IInv => OnlySharingLoses
<1> SUFFICES ASSUME IInv, NEW k \in Roots, AtRest(k), NEW i \in named[k] \cap dirty[k], i \notin shared[k]
             PROVE  FALSE
  BY DEF OnlySharingLoses
<1>1. resident[k] = "served" /\ watch[k].seen = {} /\ watch[k].st = "none" /\ watch[k].pend = Nothing
  BY DEF AtRest, IInv, Root, Shape, RootShape
<1>2. ~Due(k, i, watch[k], task[k], built[k])
  BY <1>1 DEF Due, InWatch, Holds
<1> QED BY <1>1, <1>2 DEF IInv, Root, DueOf, RootDue, Lacks

\* Once a root is at rest its index has every edit its watcher saw, and a lane's its
\* base's generation, whatever was joined, put off, deferred, failed or evicted on the
\* way, but for edits a refusal told of and those in a rescan left to a running pass.
THEOREM NothingElseLosesAnEdit == Spec => []OnlySharingLoses
<1>1. Init => IInv
  BY InitHolds
<1>2. IInv /\ [Next]_vars => IInv'
  BY Inductive
<1>3. IInv => OnlySharingLoses
  BY IInvGives
<1> QED BY <1>1, <1>2, <1>3, PTL DEF Spec

-----------------------------------------------------------------------------
(* The symbol graph: that only a rescan named files follow loses an edit of it *)
(* (OnlyNamesLoseGraph).  Where a Java file the watcher saw change is, until   *)
(* the graph has it or it is left: with the watcher or the watch task, or in   *)
(* what the watch task asked for.                                              *)

GraphTypes ==
  /\ graphOwes \in [Roots -> SUBSET Java] /\ graphLeft \in [Roots -> SUBSET Java]
  /\ graphReads \in [Roots -> SUBSET Java]

Covers(c, g) == c.kind = "all" \/ g \in c.files

\* The rebuild task t, whose graph refresh reads R, will have the graph read g: its pass
\* ends with a graph step over what it covers, a later pass always does, and a graph step
\* asked for since is made by itself only when no named files follow.
GraphTask(g, t, R) ==
  \/ t.pc = "new" /\ t.mark /\ Covers(t.cur, g)
  \/ t.pc \in {"lock", "building"} /\ (t.graph \/ t.mark) /\ Covers(t.cur, g)
  \/ t.pc \in {"lock", "building", "graph", "graphing"} /\ Covers(t.changes, g)
  \/ t.pc = "graph" /\ Covers(t.cur, g)
  \/ t.pc = "graphing" /\ g \in R
  \/ t.pc = "graphing" /\ t.mark /\ t.changes.kind # "some"

GraphWatch(g, w) ==
  \/ g \in w.seen
  \/ Covers(w.pend, g)
  \/ w.st = "told" /\ w.told \in {"deferred", "failed"}

GraphDue(g, w, t, R) == GraphWatch(g, w) \/ (w.st = "asked" /\ GraphTask(g, t, R))

GraphRoot(k) ==
  /\ watch[k].watcher # "ready" => graphOwes[k] = {}
  /\ \A g \in graphOwes[k] \ graphLeft[k] : GraphDue(g, watch[k], task[k], graphReads[k])

GraphKept == GraphTypes /\ \A k \in Roots : GraphRoot(k)

GraphInv == IInv /\ GraphKept

(* The helpers, each with what it leaves to do of a Java file g. *)

LEMMA CoversFacts ==
  /\ \A g : Covers(All, g) /\ ~Covers(Nothing, g)
  /\ \A F, g : g \in F => Covers(Named(F), g)
  /\ \A c \in Sets : \A g : Covers(c, g) /\ c.kind # "some" => c = All \/ c.kind = "all"
  BY DEF Covers, All, Nothing, Named, Sets

LEMMA MergeCovers ==
  ASSUME NEW old \in Sets, NEW new \in Sets, NEW g, Covers(old, g) \/ Covers(new, g)
  PROVE  Covers(Merge(old, new), g)
<1> DEFINE both == old.files \cup new.files
<1>1. CASE new.kind = "none"
  <2>1. new = Nothing
    BY <1>1 DEF Sets
  <2>2. ~Covers(new, g) /\ Merge(old, new) = old
    BY <1>1, <2>1, CoversFacts DEF Merge
  <2> QED BY <2>2
<1>2. CASE Merge(old, new) = All
  BY <1>2, CoversFacts
<1>3. CASE old.kind # "all" /\ new.kind # "all" /\ Merge(old, new) = Named(both)
  <2>1. g \in both
    BY <1>3 DEF Covers
  <2> QED BY <1>3, <2>1, CoversFacts
<1>4. CASE new.kind # "none" /\ old.kind # "all" /\ new.kind # "all"
  BY <1>2, <1>3, <1>4 DEF Merge
<1>5. CASE new.kind # "none" /\ "all" \in {old.kind, new.kind}
  BY <1>2, <1>5 DEF Merge
<1> QED BY <1>1, <1>4, <1>5

LEMMA TaskOverGraph ==
  ASSUME NEW k \in Roots, NEW w \in [Roots -> Watches], NEW r \in Results, TaskOver(k, w, r)
  PROVE  /\ \A g : GraphWatch(g, w[k]) => GraphWatch(g, watch'[k])
         /\ w[k].st = "asked" /\ r \in {"deferred", "failed"} => \A g : GraphWatch(g, watch'[k])
<1>1. CASE w[k].st = "asked"
  <2>1. w[k] \in Watches /\ watch'[k] = [w[k] EXCEPT !.st = "told", !.told = r]
    BY <1>1 DEF TaskOver
  <2>2. /\ watch'[k].seen = w[k].seen /\ watch'[k].pend = w[k].pend
        /\ watch'[k].st = "told" /\ watch'[k].told = r
    BY <2>1 DEF Watches
  <2> QED BY <1>1, <2>2 DEF GraphWatch
<1>2. CASE w[k].st # "asked"
  <2>1. watch' = w
    BY <1>2 DEF TaskOver
  <2> QED BY <1>2, <2>1
<1> QED BY <1>1, <1>2

LEMMA BeginPassGraph ==
  ASSUME Types, NEW k \in Roots, NEW w \in [Roots -> Watches], NEW t \in Tasks, BeginPass(k, t, w)
  PROVE  \A g, R : \/ GraphWatch(g, w[k])
                   \/ w[k].st = "asked" /\ Covers(t.cur, g) /\ (t.graph \/ t.mark)
                   => GraphDue(g, watch'[k], task'[k], R)
<1>1. w[k] \in Watches /\ t.cur \in Sets /\ w[k].pend \in Sets
  BY DEF Watches, Tasks
<1>2. CASE w[k].st # "none" /\ w[k].recent
  <2> DEFINE put == [w[k] EXCEPT !.pend = Merge(@, t.cur)]
             v == [w EXCEPT ![k] = put]
  <2>1. TaskOver(k, v, "changing") /\ "changing" \in Results
    BY <1>2 DEF BeginPass, Results
  <2>2. put \in Watches
    BY <1>1, MergeFacts DEF Watches
  <2>3. v \in [Roots -> Watches] /\ v[k] = put
    BY <2>2
  <2>4. put.seen = w[k].seen /\ put.st = w[k].st /\ put.told = w[k].told /\ put.pend = Merge(w[k].pend, t.cur)
    BY <1>1 DEF Watches
  <2> HIDE DEF put, v
  <2>5. \A g : GraphWatch(g, v[k]) => GraphWatch(g, watch'[k])
    BY <2>1, <2>3, TaskOverGraph
  <2>6. \A g : GraphWatch(g, w[k]) \/ Covers(t.cur, g) => GraphWatch(g, v[k])
    BY <1>1, <2>3, <2>4, MergeCovers DEF GraphWatch
  <2> QED BY <2>5, <2>6 DEF GraphDue
<1>3. CASE ~(w[k].st # "none" /\ w[k].recent)
  <2>1. watch' = w /\ task'[k] = [t EXCEPT !.pc = "lock", !.graph = t.graph \/ t.mark]
    BY <1>3 DEF BeginPass, Types
  <2>2. task'[k].pc = "lock" /\ task'[k].cur = t.cur /\ task'[k].graph = (t.graph \/ t.mark)
    BY <2>1 DEF Tasks
  <2> QED BY <2>1, <2>2 DEF GraphDue, GraphTask
<1> QED BY <1>2, <1>3

LEMMA FollowUpGraph ==
  ASSUME Types, NEW k \in Roots, NEW w \in [Roots -> Watches], NEW t \in Tasks, FollowUp(k, t, w)
  PROVE  \A g, R : \/ GraphWatch(g, w[k])
                   \/ w[k].st = "asked" /\ Covers(t.changes, g)
                   \/ w[k].st = "asked" /\ t.mark /\ t.changes.kind # "some"
                   => GraphDue(g, watch'[k], task'[k], R)
<1>1. CASE t.changes # Nothing
  <2> DEFINE u == [t EXCEPT !.cur = t.changes, !.changes = Nothing, !.graph = TRUE]
  <2>1. u \in Tasks /\ u.cur = t.changes /\ u.graph = TRUE
    BY SetsFacts DEF Tasks
  <2>2. BeginPass(k, u, w)
    BY <1>1 DEF FollowUp
  <2> HIDE DEF u
  <2>3. \A g, R : GraphWatch(g, w[k]) \/ (w[k].st = "asked" /\ Covers(t.changes, g))
                    => GraphDue(g, watch'[k], task'[k], R)
    BY <2>1, <2>2, BeginPassGraph
  <2>4. t.changes.kind # "some" => \A g : Covers(t.changes, g)
    BY <1>1 DEF Covers, Tasks, Sets
  <2> QED BY <2>3, <2>4
<1>2. CASE t.changes = Nothing /\ t.mark
  <2>1. /\ watch' = w
        /\ task'[k] = [t EXCEPT !.pc = "graph", !.cur = All, !.mark = FALSE, !.graph = TRUE]
    BY <1>2 DEF FollowUp, Types
  <2>2. task'[k].pc = "graph" /\ task'[k].cur = All
    BY <2>1 DEF Tasks
  <2> QED BY <2>1, <2>2, CoversFacts DEF GraphDue, GraphTask
<1>3. CASE t.changes = Nothing /\ ~t.mark
  <2>1. TaskOver(k, w, t.res) /\ t.res \in Results
    BY <1>3 DEF FollowUp, Tasks
  <2> QED BY <1>3, <2>1, TaskOverGraph, CoversFacts DEF GraphDue
<1> QED BY <1>1, <1>2, <1>3 DEF Tasks

LEMMA AfterIndexGraph ==
  ASSUME Types, NEW k \in Roots, NEW w \in [Roots -> Watches], NEW r \in Results, AfterIndex(k, w, r)
  PROVE  \A g, R : \/ GraphWatch(g, w[k])
                   \/ w[k].st = "asked" /\ Covers(task[k].changes, g)
                   \/ w[k].st = "asked" /\ Covers(task[k].cur, g) /\ (task[k].graph \/ task[k].mark)
                   => GraphDue(g, watch'[k], task'[k], R)
<1> DEFINE t == [task[k] EXCEPT !.res = r]
<1>0. task[k] \in Tasks
  BY DEF Types
<1>1. /\ t \in Tasks /\ t.changes = task[k].changes /\ t.cur = task[k].cur
      /\ t.graph = task[k].graph /\ t.mark = task[k].mark
  BY <1>0 DEF Tasks
<1>2. CASE t.graph \/ t.mark
  <2>1. watch' = w /\ task'[k] = [t EXCEPT !.pc = "graph", !.mark = FALSE]
    BY <1>2 DEF AfterIndex, Types
  <2> HIDE DEF t
  <2>2. task'[k].pc = "graph" /\ task'[k].changes = t.changes /\ task'[k].cur = t.cur
    BY <1>1, <2>1 DEF Tasks
  <2> QED BY <1>1, <2>1, <2>2 DEF GraphDue, GraphTask
<1>3. CASE ~(t.graph \/ t.mark)
  <2>1. FollowUp(k, t, w)
    BY <1>3 DEF AfterIndex
  <2>2. ~(task[k].graph \/ task[k].mark)
    BY <1>1, <1>3
  <2> HIDE DEF t
  <2>3. \A g, R : GraphWatch(g, w[k]) \/ (w[k].st = "asked" /\ Covers(t.changes, g))
                    => GraphDue(g, watch'[k], task'[k], R)
    BY <1>1, <2>1, FollowUpGraph
  <2> QED BY <1>1, <2>2, <2>3
<1> QED BY <1>2, <1>3

\* A rebuild of c marks the task it makes or finds, and leaves the rest of it.
LEMMA RebuildMarks ==
  ASSUME Types, NEW k \in Roots, NEW c \in Sets, NEW java \in BOOLEAN, Rebuild(k, c, java)
  PROVE  \/ task[k].pc = "none" /\ task'[k].pc = "new" /\ task'[k].cur = c /\ (task'[k].mark <=> java)
         \/ /\ task[k].pc # "none" /\ task'[k].pc = task[k].pc /\ task'[k].cur = task[k].cur
            /\ (task'[k].graph <=> task[k].graph) /\ (task'[k].mark <=> (task[k].mark \/ java))
            /\ task'[k].changes = IF Shares(k, c) THEN task[k].changes ELSE Merge(task[k].changes, c)
<1> DEFINE t == [task[k] EXCEPT !.mark = @ \/ java]
<1>0. task[k] \in Tasks
  BY DEF Types
<1>1. /\ t.pc = task[k].pc /\ t.cur = task[k].cur /\ t.changes = task[k].changes
      /\ t.graph = task[k].graph /\ t.mark = (task[k].mark \/ java)
      /\ DOMAIN t = DOMAIN task[k]
  BY <1>0 DEF Tasks
<1>2. task' = [task EXCEPT ![k] = CASE t.pc = "none" -> [NoTask EXCEPT !.pc = "new", !.cur = c, !.graph = java, !.mark = java]
                                    [] Shares(k, c) -> t
                                    [] OTHER -> [t EXCEPT !.changes = Merge(@, c)]]
  BY DEF Rebuild
<1>3. t \in Tasks
  BY <1>0 DEF Tasks
<1> HIDE DEF t
<1>4. CASE task[k].pc = "none"
  <2>1. ~Shares(k, c)
    BY <1>4 DEF Shares
  <2>2. task'[k] = [NoTask EXCEPT !.pc = "new", !.cur = c, !.graph = java, !.mark = java]
    BY <1>1, <1>2, <1>4, <2>1 DEF Types
  <2> QED BY <1>4, <2>2 DEF NoTask
<1>5. CASE task[k].pc # "none" /\ Shares(k, c)
  <2>1. task'[k] = t
    BY <1>1, <1>2, <1>5 DEF Types
  <2> QED BY <1>1, <1>5, <2>1
<1>6. CASE task[k].pc # "none" /\ ~Shares(k, c)
  <2>1. task'[k] = [t EXCEPT !.changes = Merge(@, c)]
    BY <1>1, <1>2, <1>6 DEF Types
  <2>2. /\ task'[k].pc = t.pc /\ task'[k].cur = t.cur /\ task'[k].changes = Merge(t.changes, c)
        /\ task'[k].graph = t.graph /\ task'[k].mark = t.mark
    BY <1>3, <2>1 DEF Tasks
  <2> QED BY <1>1, <1>6, <2>2
<1> QED BY <1>4, <1>5, <1>6

(* The steps. *)

LEMMA InitGraph == Init => GraphKept
  BY DEF Init, GraphKept, GraphTypes, GraphRoot

\* A step that leaves the graph alone, and what is due of it due.
LEMMA GraphFrame ==
  ASSUME GraphKept, UNCHANGED graphVars,
         \A x \in Roots : watch'[x].watcher # "ready" => watch[x].watcher # "ready",
         \A x \in Roots : \A g : GraphDue(g, watch[x], task[x], graphReads[x]) => GraphDue(g, watch'[x], task'[x], graphReads[x])
  PROVE  GraphKept'
<1>1. graphOwes' = graphOwes /\ graphLeft' = graphLeft /\ graphReads' = graphReads
  BY DEF graphVars
<1>2. GraphTypes'
  BY <1>1 DEF GraphKept, GraphTypes
<1>3. ASSUME NEW x \in Roots PROVE GraphRoot(x)'
  <2>1. GraphRoot(x)
    BY DEF GraphKept
  <2>2. watch'[x].watcher # "ready" => graphOwes'[x] = {}
    BY <1>1, <2>1 DEF GraphRoot
  <2>3. \A g \in graphOwes'[x] \ graphLeft'[x] : GraphDue(g, watch'[x], task'[x], graphReads'[x])
    BY <1>1, <2>1 DEF GraphRoot
  <2> QED BY <2>2, <2>3 DEF GraphRoot, GraphDue, GraphWatch, GraphTask, Covers
<1> QED BY <1>2, <1>3 DEF GraphKept

\* The same for one root: the others are left alone by the step.
LEMMA GraphFrameOne ==
  ASSUME GraphKept, UNCHANGED graphVars, NEW k \in Roots,
         \A x \in Roots \ {k} : watch'[x] = watch[x] /\ task'[x] = task[x],
         watch'[k].watcher # "ready" => watch[k].watcher # "ready",
         \A g : GraphDue(g, watch[k], task[k], graphReads[k]) => GraphDue(g, watch'[k], task'[k], graphReads[k])
  PROVE  GraphKept'
  BY GraphFrame

LEMMA ResidencyGraph ==
  ASSUME GraphInv, NEW k \in Roots, Load(k) \/ Loaded(k) \/ Evict(k) PROVE GraphKept'
<1> USE DEF GraphInv, IInv
<1>1. CASE Load(k)
  <2>1. watch[k] = NoWatch /\ watch[k] \in Watches
    BY <1>1 DEF Load, Types, Root, Shape, RootShape
  <2>2. watch[k].watcher # "ready"
    BY <2>1 DEF NoWatch
  <2>3. /\ watch'[k].seen = watch[k].seen /\ watch'[k].pend = watch[k].pend
        /\ watch'[k].st = watch[k].st /\ watch'[k].told = watch[k].told /\ task' = task
        /\ \A x \in Roots \ {k} : watch'[x] = watch[x]
    BY <1>1, <2>1 DEF Load, Types, Watches
  <2> QED BY <1>1, <2>2, <2>3, GraphFrameOne DEF Load, GraphDue, GraphWatch
<1>2. CASE Loaded(k)
  BY <1>2, GraphFrame DEF Loaded
<1>3. CASE Evict(k)
  <2> DEFINE E == {k} \cup LanesOf(k)
  <2>1. /\ graphReads' = graphReads
        /\ graphOwes' = [x \in Roots |-> IF x \in E THEN {} ELSE graphOwes[x]]
        /\ graphLeft' = [x \in Roots |-> IF x \in E THEN {} ELSE graphLeft[x]]
        /\ watch' = [x \in Roots |-> IF x \in E THEN NoWatch ELSE watch[x]]
        /\ \A x \in Roots \ E : task'[x] = task[x]
    BY <1>3 DEF Evict, Types
  <2> HIDE DEF E
  <2>2. GraphTypes'
    BY <2>1 DEF GraphKept, GraphTypes
  <2>3. ASSUME NEW x \in Roots PROVE GraphRoot(x)'
    <3>1. CASE x \in E
      BY <2>1, <3>1 DEF GraphRoot
    <3>2. CASE x \notin E
      BY <2>1, <3>2 DEF GraphKept, GraphRoot, GraphDue, GraphWatch, GraphTask, Covers
    <3> QED BY <3>1, <3>2
  <2> QED BY <2>2, <2>3 DEF GraphKept
<1> QED BY <1>1, <1>2, <1>3

LEMMA EditGraph == ASSUME GraphInv, NEW k \in Roots, NEW f \in Files, Edit(k, f) PROVE GraphKept'
<1> USE DEF GraphInv, IInv
<1>1. /\ watch[k] \in Watches /\ watch'[k].watcher = watch[k].watcher /\ watch'[k].st = watch[k].st
      /\ watch'[k].told = watch[k].told /\ watch'[k].pend = watch[k].pend
      /\ watch'[k].seen = IF watch[k].watcher = "ready" THEN watch[k].seen \cup {f} ELSE watch[k].seen
      /\ \A x \in Roots \ {k} : watch'[x] = watch[x]
  BY DEF Edit, Types, Watches
<1>2. /\ graphLeft' = graphLeft /\ task' = task
      /\ graphOwes'[k] = IF watch[k].watcher = "ready" THEN graphOwes[k] \cup ({f} \cap Java) ELSE graphOwes[k]
      /\ graphReads'[k] = graphReads[k] \ {f}
      /\ \A x \in Roots \ {k} : graphOwes'[x] = graphOwes[x] /\ graphReads'[x] = graphReads[x]
  BY DEF Edit, GraphKept, GraphTypes
<1>3. GraphTypes'
  BY <1>2 DEF Edit, GraphKept, GraphTypes
<1>4. GraphRoot(k)
  BY DEF GraphKept
<1>5. ASSUME NEW g \in graphOwes'[k] \ graphLeft'[k] PROVE GraphDue(g, watch'[k], task'[k], graphReads'[k])
  <2>1. watch[k].watcher = "ready"
    BY <1>2, <1>4, <1>5 DEF GraphRoot
  <2>2. CASE g = f
    BY <1>1, <2>1, <2>2 DEF GraphDue, GraphWatch
  <2>3. CASE g # f
    <3>1. GraphDue(g, watch[k], task[k], graphReads[k])
      BY <1>2, <1>4, <1>5, <2>3 DEF GraphRoot
    <3> QED BY <1>1, <1>2, <2>3, <3>1 DEF GraphDue, GraphWatch, GraphTask
  <2> QED BY <2>2, <2>3
<1>6. GraphRoot(k)'
  BY <1>1, <1>2, <1>4, <1>5 DEF GraphRoot, GraphDue, GraphWatch, GraphTask, Covers
<1>7. ASSUME NEW x \in Roots \ {k} PROVE GraphRoot(x)'
  BY <1>1, <1>2 DEF GraphKept, GraphRoot, GraphDue, GraphWatch, GraphTask, Covers
<1> QED BY <1>3, <1>6, <1>7 DEF GraphKept

LEMMA WatchGraph ==
  ASSUME GraphInv, NEW k \in Roots, WatchReady(k) \/ Deliver(k) \/ Quiet(k) PROVE GraphKept'
<1> USE DEF GraphInv, IInv
<1>0. watch[k] \in Watches /\ watch[k].pend \in Sets /\ watch[k].seen \in SUBSET Files
  BY DEF Types, Watches
<1>1. CASE WatchReady(k)
  <2> DEFINE n == Noted(watch[k], All)
  <2>1. n \in Watches /\ n.pend = All
    BY <1>0, NotedFacts, MergeFacts, SetsFacts
  <2>2. watch' = [watch EXCEPT ![k] = [n EXCEPT !.watcher = "ready"]] /\ task' = task
    BY <1>1 DEF WatchReady, Types
  <2> HIDE DEF n
  <2>3. watch'[k].pend = All /\ watch'[k].watcher = "ready" /\ \A x \in Roots \ {k} : watch'[x] = watch[x]
    BY <2>1, <2>2 DEF Types, Watches
  <2>4. UNCHANGED graphVars
    BY <1>1 DEF WatchReady, dataVars
  <2> QED BY <2>2, <2>3, <2>4, CoversFacts, GraphFrameOne DEF GraphDue, GraphWatch
<1>2. CASE Deliver(k)
  <2> DEFINE c == Named(watch[k].seen)
             n == Noted(watch[k], c)
  <2>1. c \in Sets /\ \A g \in watch[k].seen : Covers(c, g)
    BY <1>0, SetsFacts, CoversFacts
  <2>2. /\ n \in Watches /\ n.pend = Merge(watch[k].pend, c) /\ n.told = watch[k].told /\ n.watcher = watch[k].watcher
        /\ n.st = IF watch[k].st = "none" THEN "waiting" ELSE watch[k].st
    BY <1>0, <2>1, NotedFacts
  <2>3. watch' = [watch EXCEPT ![k] = [n EXCEPT !.seen = {}]] /\ task' = task
    BY <1>2 DEF Deliver, Types
  <2> HIDE DEF n, c
  <2>4. /\ watch'[k].pend = Merge(watch[k].pend, c) /\ watch'[k].watcher = watch[k].watcher
        /\ watch'[k].told = watch[k].told
        /\ watch'[k].st = IF watch[k].st = "none" THEN "waiting" ELSE watch[k].st
        /\ \A x \in Roots \ {k} : watch'[x] = watch[x]
    BY <2>2, <2>3 DEF Types, Watches
  <2>5. \A g : GraphWatch(g, watch[k]) => GraphWatch(g, watch'[k])
    BY <1>0, <2>1, <2>4, MergeCovers DEF GraphWatch
  <2>6. UNCHANGED graphVars
    BY <1>2 DEF Deliver, dataVars
  <2> QED BY <2>3, <2>4, <2>5, <2>6, GraphFrameOne DEF GraphDue
<1>3. CASE Quiet(k)
  <2>1. /\ watch'[k].watcher = watch[k].watcher /\ watch'[k].st = watch[k].st /\ watch'[k].told = watch[k].told
        /\ watch'[k].pend = watch[k].pend /\ watch'[k].seen = watch[k].seen
        /\ \A x \in Roots \ {k} : watch'[x] = watch[x]
    BY <1>0, <1>3 DEF Quiet, Types, Watches
  <2>2. UNCHANGED graphVars /\ task' = task
    BY <1>3 DEF Quiet, dataVars
  <2> QED BY <2>1, <2>2, GraphFrameOne DEF GraphDue, GraphWatch
<1> QED BY <1>1, <1>2, <1>3

LEMMA WatchAsksGraph == ASSUME GraphInv, NEW k \in Roots, WatchAsks(k) PROVE GraphKept'
<1> USE DEF GraphInv, IInv
<1> DEFINE c == watch[k].pend
<1>0. Types /\ Root(k) /\ watch[k].st = "waiting" /\ watch[k] \in Watches /\ task[k] \in Tasks
  BY DEF WatchAsks, Types
<1>1. /\ c \in Sets /\ task[k].changes \in Sets /\ TouchesGraph(c) \in BOOLEAN
      /\ Rebuild(k, c, TouchesGraph(c))
  BY <1>0 DEF WatchAsks, Watches, Tasks, TouchesGraph
<1>2. /\ watch'[k].pend = Nothing /\ watch'[k].st = "asked" /\ watch'[k].seen = watch[k].seen
      /\ watch'[k].watcher = watch[k].watcher
      /\ \A x \in Roots \ {k} : watch'[x] = watch[x] /\ task'[x] = task[x]
  BY <1>0, <1>1, RebuildFacts DEF WatchAsks, Types, Watches
<1>3. /\ graphOwes' = graphOwes /\ graphReads' = graphReads
      /\ graphLeft'[k] = IF Shares(k, c) /\ task[k].changes.kind = "some"
                           THEN graphLeft[k] \cup (graphOwes[k] \ watch[k].seen) ELSE graphLeft[k]
      /\ \A x \in Roots \ {k} : graphLeft'[x] = graphLeft[x]
      /\ graphLeft' \in [Roots -> SUBSET Java]
  BY DEF WatchAsks, GraphKept, GraphTypes
<1>4. GraphRoot(k)
  BY DEF GraphKept
<1>5. ASSUME NEW g \in graphOwes[k] \ graphLeft'[k] PROVE GraphDue(g, watch'[k], task'[k], graphReads[k])
  <2>1. g \in Java /\ g \notin graphLeft[k]
    BY <1>3, <1>5 DEF GraphKept, GraphTypes
  <2>2. CASE g \in watch[k].seen
    BY <1>2, <2>2 DEF GraphDue, GraphWatch
  <2>3. CASE g \notin watch[k].seen
    <3>1. Covers(c, g)
      BY <1>0, <1>4, <1>5, <2>1, <2>3 DEF GraphRoot, GraphDue, GraphWatch
    <3>2. TouchesGraph(c)
      BY <2>1, <3>1 DEF TouchesGraph, Covers
    <3>3. ~(Shares(k, c) /\ task[k].changes.kind = "some")
      BY <1>3, <1>5, <2>3
    <3>4. task[k].pc = "new" => task[k].cur = All
      BY <1>0 DEF Root, Shape, RootShape
    <3> HIDE DEF c
    <3>5. GraphTask(g, task'[k], graphReads[k])
      <4>1. CASE task[k].pc = "none" /\ task'[k].pc = "new" /\ task'[k].cur = c /\ task'[k].mark
        BY <3>1, <4>1 DEF GraphTask
      <4>2. CASE /\ task[k].pc # "none" /\ task'[k].pc = task[k].pc /\ task'[k].cur = task[k].cur
                 /\ task'[k].mark /\ Shares(k, c) /\ task'[k].changes = task[k].changes
        <5>1. task[k].pc \in {"lock", "building", "graph", "graphing"} /\ Covers(task[k].cur, g)
          BY <1>0, <4>2 DEF Shares, Covers, Tasks
        <5> QED BY <3>3, <4>2, <5>1 DEF GraphTask
      <4>3. CASE /\ task[k].pc # "none" /\ task'[k].pc = task[k].pc /\ task'[k].cur = task[k].cur
                 /\ task'[k].mark /\ task'[k].changes = Merge(task[k].changes, c)
        <5>1. Covers(task'[k].changes, g) /\ task[k].pc \in {"new", "lock", "building", "graph", "graphing"}
          BY <1>0, <1>1, <3>1, <4>3, MergeCovers DEF Tasks
        <5> QED BY <3>4, <4>3, <5>1, CoversFacts DEF GraphTask
      <4> QED BY <1>0, <1>1, <3>2, <4>1, <4>2, <4>3, RebuildMarks
    <3> QED BY <1>2, <3>5 DEF GraphDue
  <2> QED BY <2>2, <2>3
<1>6. GraphRoot(k)'
  BY <1>2, <1>3, <1>4, <1>5 DEF GraphRoot, GraphDue, GraphWatch, GraphTask, Covers
<1>7. ASSUME NEW x \in Roots \ {k} PROVE GraphRoot(x)'
  BY <1>2, <1>3 DEF GraphKept, GraphRoot, GraphDue, GraphWatch, GraphTask, Covers
<1> QED BY <1>3, <1>6, <1>7 DEF GraphKept, GraphTypes

LEMMA WatchToldGraph == ASSUME GraphInv, NEW k \in Roots, WatchTold(k) PROVE GraphKept'
<1> USE DEF GraphInv, IInv
<1> DEFINE w == [watch[k] EXCEPT !.told = "none"]
<1>0. watch[k] \in Watches /\ watch[k].st = "told" /\ task' = task /\ UNCHANGED graphVars
  BY DEF WatchTold, Types, dataVars
<1>1. w \in Watches /\ w.watcher = watch[k].watcher /\ w.seen = watch[k].seen /\ w.pend = watch[k].pend
  BY <1>0 DEF Watches, Results
<1>2. watch' = [watch EXCEPT ![k] =
         CASE watch[k].told \in {"deferred", "failed"} -> [w EXCEPT !.st = "waiting", !.pend = All, !.recent = TRUE]
           [] watch[k].told \notin {"deferred", "failed"} /\ w.pend # Nothing -> [w EXCEPT !.st = "waiting"]
           [] OTHER -> [w EXCEPT !.st = "none", !.recent = FALSE]]
  BY DEF WatchTold
<1> HIDE DEF w
<1>3. \A x \in Roots \ {k} : watch'[x] = watch[x]
  BY <1>2 DEF Types
<1>4. CASE watch[k].told \in {"deferred", "failed"}
  <2>1. watch'[k] = [w EXCEPT !.st = "waiting", !.pend = All, !.recent = TRUE]
    BY <1>2, <1>4 DEF Types
  <2>2. watch'[k].pend = All /\ watch'[k].watcher = watch[k].watcher
    BY <1>1, <2>1 DEF Watches
  <2> QED BY <1>0, <1>3, <2>2, CoversFacts, GraphFrameOne DEF GraphDue, GraphWatch
<1>5. CASE watch[k].told \notin {"deferred", "failed"}
  <2>1. watch'[k].pend = w.pend /\ watch'[k].seen = w.seen /\ watch'[k].watcher = w.watcher
    <3>1. CASE w.pend # Nothing
      <4>1. watch'[k] = [w EXCEPT !.st = "waiting"]
        BY <1>2, <1>5, <3>1 DEF Types
      <4> QED BY <1>1, <4>1 DEF Watches
    <3>2. CASE w.pend = Nothing
      <4>1. watch'[k] = [w EXCEPT !.st = "none", !.recent = FALSE]
        BY <1>2, <1>5, <3>2 DEF Types
      <4> QED BY <1>1, <4>1 DEF Watches
    <3> QED BY <3>1, <3>2
  <2> QED BY <1>0, <1>1, <1>3, <1>5, <2>1, GraphFrameOne DEF GraphDue, GraphWatch
<1> QED BY <1>4, <1>5

LEMMA RefreshGraph == ASSUME GraphInv, NEW c \in Clients, Refresh(c) PROVE GraphKept'
<1> USE DEF GraphInv, IInv
<1> DEFINE k == RootOf[c]
<1>0. k \in Roots
  BY RootsAssumption
<1>1. watch' = watch /\ UNCHANGED graphVars /\ Rebuild(k, All, FALSE)
  BY DEF Refresh
<1> HIDE DEF k
<1>2. \A x \in Roots \ {k} : task'[x] = task[x]
  BY <1>0, <1>1, RebuildFacts, SetsFacts
<1>3. task[k] \in Tasks /\ task[k].changes \in Sets /\ Merge(task[k].changes, All) = All
  BY <1>0, MergeFacts, SetsFacts DEF Types, Tasks
<1>4. ASSUME NEW g, GraphTask(g, task[k], graphReads[k])
      PROVE  GraphTask(g, task'[k], graphReads[k])
  <2>1. /\ task[k].pc # "none" /\ task'[k].pc = task[k].pc /\ task'[k].cur = task[k].cur
        /\ (task'[k].graph <=> task[k].graph) /\ (task'[k].mark <=> task[k].mark)
        /\ task'[k].changes \in {task[k].changes, All}
    BY <1>0, <1>1, <1>3, <1>4, RebuildMarks, SetsFacts DEF GraphTask
  <2>2. CASE task'[k].changes = task[k].changes
    BY <1>4, <2>1, <2>2 DEF GraphTask
  <2>3. CASE task'[k].changes = All
    BY <1>4, <2>1, <2>3, CoversFacts DEF GraphTask
  <2> QED BY <2>1, <2>2, <2>3
<1> QED BY <1>0, <1>1, <1>2, <1>4, GraphFrameOne DEF GraphDue

\* The ends of an index pass: what follows has what the pass, or the watch task, owed the graph.
LEMMA IndexPassGraph ==
  ASSUME GraphInv, NEW k \in Roots, NEW w \in [Roots -> Watches], NEW r \in Results,
         task[k].pc \in {"lock", "building"}, w[k] = watch[k], AfterIndex(k, w, r), UNCHANGED graphVars,
         \A x \in Roots \ {k} : \A g : GraphWatch(g, watch[x]) => GraphWatch(g, w[x]),
         \A x \in Roots \ {k} : w[x].watcher = watch[x].watcher /\ (watch[x].st = "asked" => w[x].st = "asked")
  PROVE  GraphKept'
<1> USE DEF GraphInv, IInv
<1>1. Kept(k, w)
  BY AfterIndexKeeps
<1>2. \A g : GraphDue(g, watch[k], task[k], graphReads[k]) => GraphDue(g, watch'[k], task'[k], graphReads[k])
  BY AfterIndexGraph DEF GraphDue, GraphTask
<1>3. \A x \in Roots \ {k} : \A g : GraphDue(g, watch[x], task[x], graphReads[x])
                                  => GraphDue(g, watch'[x], task'[x], graphReads[x])
  BY <1>1 DEF Kept, GraphDue
<1> QED BY <1>1, <1>2, <1>3, GraphFrame DEF Kept

LEMMA PassGraph ==
  ASSUME GraphInv, NEW k \in Roots, Run(k) \/ Skip(k) \/ Scan(k) \/ Swap(k) \/ SwapNothing(k)
  PROVE  GraphKept'
<1> USE DEF GraphInv, IInv
<1>0. watch \in [Roots -> Watches] /\ task[k] \in Tasks
  BY DEF Types
<1>1. CASE Run(k)
  <2>1. task[k].pc = "new" /\ BeginPass(k, task[k], watch) /\ UNCHANGED graphVars
    BY <1>1 DEF Run, dataVars
  <2>2. Kept(k, watch)
    BY <1>0, <2>1, BeginPassKeeps
  <2>3. \A g : GraphDue(g, watch[k], task[k], graphReads[k]) => GraphDue(g, watch'[k], task'[k], graphReads[k])
    BY <1>0, <2>1, BeginPassGraph DEF GraphDue, GraphTask
  <2> QED BY <2>1, <2>2, <2>3, GraphFrameOne DEF Kept
<1>2. CASE Skip(k)
  BY <1>0, <1>2, IndexPassGraph DEF Skip, dataVars, Results
<1>3. CASE Scan(k)
  <2>1. /\ task[k].pc = "lock" /\ task'[k].pc = "building" /\ task'[k].cur = task[k].cur
        /\ task'[k].changes = task[k].changes /\ task'[k].mark = task[k].mark /\ task'[k].graph = task[k].graph
        /\ watch' = watch /\ UNCHANGED graphVars /\ \A x \in Roots \ {k} : task'[x] = task[x]
    BY <1>0, <1>3 DEF Scan, Types, Tasks
  <2>2. \A g : GraphTask(g, task[k], graphReads[k]) => GraphTask(g, task'[k], graphReads[k])
    BY <2>1 DEF GraphTask
  <2> QED BY <2>1, <2>2, GraphFrameOne DEF GraphDue
<1>4. CASE Swap(k)
  <2> DEFINE lanes == {l \in LanesOf(k) : resident[l] # "no"}
             w == [x \in Roots |-> IF x \in lanes THEN Noted(watch[x], All) ELSE watch[x]]
  <2>1. k \notin LanesOf(k)
    BY RootsAssumption DEF LanesOf
  <2>2. \A x \in Roots : watch[x] \in Watches
    BY <1>0
  <2>3. \A x \in Roots : /\ Noted(watch[x], All) \in Watches /\ Noted(watch[x], All).pend = All
                         /\ Noted(watch[x], All).watcher = watch[x].watcher
                         /\ Noted(watch[x], All).st = IF watch[x].st = "none" THEN "waiting" ELSE watch[x].st
    BY <2>2, NotedFacts, MergeFacts, SetsFacts DEF Watches
  <2>4. w \in [Roots -> Watches] /\ w[k] = watch[k]
    BY <2>1, <2>2, <2>3
  <2>5. \A x \in Roots \ {k} : /\ w[x].watcher = watch[x].watcher /\ (watch[x].st = "asked" => w[x].st = "asked")
                               /\ \A g : GraphWatch(g, watch[x]) => GraphWatch(g, w[x])
    BY <2>3, CoversFacts DEF GraphWatch
  <2>6. task[k].pc = "building" /\ AfterIndex(k, w, "ok") /\ "ok" \in Results /\ UNCHANGED graphVars
    BY <1>4 DEF Swap, Results
  <2> HIDE DEF w
  <2> QED BY <2>4, <2>5, <2>6, IndexPassGraph
<1>5. CASE SwapNothing(k)
  BY <1>0, <1>5, IndexPassGraph DEF SwapNothing, Results
<1> QED BY <1>1, <1>2, <1>3, <1>4, <1>5

LEMMA TroubleGraph ==
  ASSUME GraphInv, NEW k \in Roots, Refuse(k) \/ Defer(k) \/ Fail(k, "failed") \/ Fail(k, "deferred")
  PROVE  GraphKept'
<1> USE DEF GraphInv, IInv
<1>0. watch \in [Roots -> Watches]
  BY DEF Types
<1>1. CASE Refuse(k)
  BY <1>0, <1>1, IndexPassGraph DEF Refuse, Results
<1>2. CASE Defer(k)
  BY <1>0, <1>2, IndexPassGraph DEF Defer, dataVars, Results
<1>3. ASSUME NEW r \in {"failed", "deferred"}, Fail(k, r) PROVE GraphKept'
  <2>1. TaskOver(k, watch, r) /\ r \in Results /\ UNCHANGED graphVars
    BY <1>3 DEF Fail, Results
  <2>2. Kept(k, watch)
    BY <1>0, <2>1, TaskOverKeeps
  <2>3. \A g : GraphDue(g, watch[k], task[k], graphReads[k]) => GraphDue(g, watch'[k], task'[k], graphReads[k])
    BY <1>0, <1>3, <2>1, TaskOverGraph DEF GraphDue
  <2> QED BY <2>1, <2>2, <2>3, GraphFrameOne DEF Kept
<1> QED BY <1>1, <1>2, <1>3

LEMMA StartGraphGraph == ASSUME GraphInv, NEW k \in Roots, StartGraph(k) PROVE GraphKept'
<1> USE DEF GraphInv, IInv
<1>1. /\ watch' = watch /\ graphOwes' = graphOwes /\ graphLeft' = graphLeft /\ task[k].pc = "graph"
      /\ graphReads'[k] = IF task[k].cur.kind = "all" THEN graphOwes[k] ELSE graphOwes[k] \cap task[k].cur.files
      /\ \A x \in Roots \ {k} : graphReads'[x] = graphReads[x]
      /\ graphReads' \in [Roots -> SUBSET Java]
  BY DEF StartGraph, GraphKept, GraphTypes
<1>2. /\ task'[k].pc = "graphing" /\ task'[k].changes = task[k].changes
      /\ \A x \in Roots \ {k} : task'[x] = task[x]
  BY DEF StartGraph, Types, Tasks
<1>3. ASSUME NEW g \in graphOwes[k] \ graphLeft[k] PROVE GraphDue(g, watch[k], task'[k], graphReads'[k])
  <2>1. GraphDue(g, watch[k], task[k], graphReads[k])
    BY <1>3 DEF GraphKept, GraphRoot
  <2>2. Covers(task[k].cur, g) => g \in graphReads'[k]
    BY <1>1, <1>3 DEF Covers
  <2> QED BY <1>1, <1>2, <2>1, <2>2 DEF GraphDue, GraphTask
<1>4. GraphRoot(k)'
  BY <1>1, <1>3 DEF GraphKept, GraphRoot, GraphDue, GraphWatch, GraphTask, Covers
<1>5. ASSUME NEW x \in Roots \ {k} PROVE GraphRoot(x)'
  BY <1>1, <1>2 DEF GraphKept, GraphRoot, GraphDue, GraphWatch, GraphTask, Covers
<1> QED BY <1>1, <1>4, <1>5 DEF GraphKept, GraphTypes

LEMMA EndGraphGraph == ASSUME GraphInv, NEW k \in Roots, EndGraph(k) PROVE GraphKept'
<1> USE DEF GraphInv, IInv
<1>1. /\ task[k].pc = "graphing" /\ FollowUp(k, task[k], watch) /\ watch \in [Roots -> Watches] /\ task[k] \in Tasks
      /\ graphOwes'[k] = graphOwes[k] \ graphReads[k] /\ graphLeft'[k] = graphLeft[k] \ graphReads[k]
      /\ \A x \in Roots \ {k} : /\ graphOwes'[x] = graphOwes[x] /\ graphLeft'[x] = graphLeft[x]
                                /\ graphReads'[x] = graphReads[x]
  BY DEF EndGraph, Types, GraphKept, GraphTypes
<1>2. GraphTypes'
  BY DEF EndGraph, GraphKept, GraphTypes
<1>3. Kept(k, watch)
  BY <1>1, FollowUpKeeps
<1>4. ASSUME NEW g \in graphOwes'[k] \ graphLeft'[k] PROVE GraphDue(g, watch'[k], task'[k], graphReads'[k])
  <2>1. GraphDue(g, watch[k], task[k], graphReads[k]) /\ g \notin graphReads[k]
    BY <1>1, <1>4 DEF GraphKept, GraphRoot
  <2>2. \/ GraphWatch(g, watch[k])
        \/ watch[k].st = "asked" /\ Covers(task[k].changes, g)
        \/ watch[k].st = "asked" /\ task[k].mark /\ task[k].changes.kind # "some"
    BY <1>1, <2>1 DEF GraphDue, GraphTask
  <2> QED BY <1>1, <2>2, FollowUpGraph
<1>5. GraphRoot(k)'
  BY <1>1, <1>3, <1>4 DEF Kept, GraphKept, GraphRoot, GraphDue, GraphWatch, GraphTask, Covers
<1>6. ASSUME NEW x \in Roots \ {k} PROVE GraphRoot(x)'
  BY <1>1, <1>3 DEF Kept, GraphKept, GraphRoot, GraphDue, GraphWatch, GraphTask, Covers
<1> QED BY <1>2, <1>5, <1>6 DEF GraphKept

LEMMA GraphInductive == GraphInv /\ [Next]_vars => GraphInv'
<1> SUFFICES ASSUME GraphInv, [Next]_vars PROVE GraphKept'
  BY Inductive DEF GraphInv
<1>1. ASSUME NEW k \in Roots, Load(k) \/ Loaded(k) \/ Evict(k) PROVE GraphKept'
  BY <1>1, ResidencyGraph
<1>2. ASSUME NEW k \in Roots, Watching(k) PROVE GraphKept'
  BY <1>2, WatchGraph, WatchAsksGraph, WatchToldGraph DEF Watching
<1>3. ASSUME NEW k \in Roots, Pass(k) PROVE GraphKept'
  BY <1>3, PassGraph, StartGraphGraph, EndGraphGraph DEF Pass
<1>4. ASSUME NEW k \in Roots, Refuse(k) \/ Defer(k) \/ Fail(k, "failed") \/ Fail(k, "deferred") PROVE GraphKept'
  BY <1>4, TroubleGraph
<1>5. ASSUME NEW k \in Roots, NEW f \in Files, Edit(k, f) PROVE GraphKept'
  BY <1>5, EditGraph
<1>6. ASSUME NEW c \in Clients, Refresh(c) PROVE GraphKept'
  BY <1>6, RefreshGraph
<1>7. ASSUME NEW c \in Clients, Answer(c) PROVE GraphKept'
  BY <1>7, GraphFrame DEF Answer, GraphInv
<1>8. CASE UNCHANGED vars
  BY <1>8, GraphFrame DEF vars, dataVars, GraphInv
<1> QED BY <1>1, <1>2, <1>3, <1>4, <1>5, <1>6, <1>7, <1>8 DEF Next

LEMMA GraphInvGives == GraphInv => OnlyNamesLoseGraph
<1> SUFFICES ASSUME GraphInv, NEW k \in Roots, AtRest(k), NEW g \in graphOwes[k], g \notin graphLeft[k]
             PROVE  FALSE
  BY DEF OnlyNamesLoseGraph
<1>1. watch[k].seen = {} /\ watch[k].st = "none" /\ watch[k].pend = Nothing
  BY DEF AtRest, GraphInv, IInv, Root, Shape, RootShape
<1>2. ~GraphDue(g, watch[k], task[k], graphReads[k])
  BY <1>1, CoversFacts DEF GraphDue, GraphWatch
<1> QED BY <1>2 DEF GraphInv, GraphKept, GraphRoot

\* Once a root is at rest its symbol graph has every Java edit its watcher saw, but for
\* those in a rescan left to a running pass that named files follow: a graph refresh
\* asked for after a pass took its graph step is not dropped, nor is one of a pass that
\* is put off, deferred or fails.
THEOREM NothingElseLosesGraph == Spec => []OnlyNamesLoseGraph
<1>1. Init => GraphInv
  BY InitHolds, InitGraph DEF GraphInv
<1>2. GraphInv /\ [Next]_vars => GraphInv'
  BY GraphInductive
<1>3. GraphInv => OnlyNamesLoseGraph
  BY GraphInvGives
<1> QED BY <1>1, <1>2, <1>3, PTL DEF Spec
=============================================================================
