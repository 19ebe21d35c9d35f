--------------------------- MODULE IndexCacheProofs ---------------------------
(***************************************************************************)
(* The three invariants of IndexCache, for any number of requests,         *)
(* workspaces, lanes, slots, edits, builds and faults.                     *)
(*                                                                         *)
(* What all of them rest on: a build something refers to is not replaced   *)
(* by another of its number (Referred), so an entry that is what a request *)
(* took for it earlier has been that all the time.                         *)
(***************************************************************************)
EXTENDS IndexCache, TLAPS, FiniteSetTheorems, WellFoundedInduction

Builds == [key : Keys \cup {None}, own : BOOLEAN, base : Ids \cup {None},
           st : {"free", "new", "running", "done", "failed"}, seen : Nat, stamp : Nat,
           loads : BOOLEAN, deserted : BOOLEAN]
Places == {"idle", "exact", "check", "checked", "wait", "overlay"}
Stores == [there : BOOLEAN, seen : Nat, stamp : Nat]
Requested == [at : Places, key : Keys \cup {None}, lane : Lanes \cup {None}, job : Ids \cup {None},
              cached : Ids \cup {None}, valid : BOOLEAN, since : Nat, fresh : BOOLEAN]

Tables == [entry : [Keys -> Ids \cup {None}], older : [Keys -> SUBSET Keys],
           bases : [Lanes -> Bases \cup {None}], cool : SUBSET Keys]
Excuses == [elsewhere : SUBSET Keys, late : SUBSET Keys, asked : Nat, faults : Nat,
            outlived : BOOLEAN, adopted : BOOLEAN]

\* The parts of the invariant speak of builds J, a table E, edits v, stores D, requests Q
\* and excuses X, so that a step can be taken apart into changes of one of them.
Types(J, E, v, D, Q, X) ==
  /\ J \in [Ids -> Builds] /\ E \in Tables
  /\ v \in [Keys -> Nat] /\ D \in [Keys -> Stores]
  /\ Q \in [Requests -> Requested] /\ X \in Excuses

\* What a build is: an index of its own, or an overlay of an index that is done.
BuildAt(J, j) ==
  /\ J[j].st = "free" => J[j].base = None
  /\ J[j].st # "free" =>
       /\ J[j].key \in Keys
       /\ J[j].own <=> J[j].base = None
       /\ ~J[j].own => LET b == J[j].base IN
            J[j].key \in Lanes /\ J[b].st = "done" /\ J[b].own /\ J[b].key = BaseOf[J[j].key]

\* What an entry and a request refer to is there, and of their key.
EntryAt(J, E, k) == E.entry[k] # None =>
  /\ J[E.entry[k]].st # "free" /\ J[E.entry[k]].key = k
  /\ ~J[E.entry[k]].own => E.bases[k] = BaseOf[k]
RequestAt(J, v, q) ==
  /\ q.at = "idle" => q = Idle
  /\ q.at # "idle" => q.key \in Keys
  /\ q.lane # None => q.key = BaseOf[q.lane] /\ q.at \notin {"idle", "overlay"}
  /\ q.at \in {"check", "checked"} <=> q.cached # None
  /\ q.cached # None => J[q.cached].st = "done" /\ J[q.cached].own /\ J[q.cached].key = q.key
  /\ q.at \in {"wait", "overlay"} <=> q.job # None
  /\ q.job # None => J[q.job].st # "free" /\ J[q.job].key = q.key
  /\ q.at \notin {"idle", "overlay"} => q.since <= v[q.key]
Refers(J, E, v, Q) ==
  /\ \A j \in Ids : BuildAt(J, j)
  /\ \A k \in Keys : EntryAt(J, E, k)
  /\ \A r \in Requests : RequestAt(J, v, Q[r])

\* The order of the entries is one, and lanes with a base are in it.
Order(E) ==
  /\ \A k \in Keys : E.older[k] \subseteq InTable(E) /\ k \notin E.older[k]
  /\ \A k, m, n \in Keys : k \in E.older[m] /\ m \in E.older[n] => k \in E.older[n]
  /\ \A l \in Lanes : E.bases[l] # None => E.bases[l] = BaseOf[l] /\ E.entry[l] # None

\* Unless one of the two happened, an overlay's base is resident, and the indexes of their own fit.
Overlaid(J, E) == \A l \in Lanes : E.bases[l] # None =>
  ~J[E.entry[l]].own /\ J[E.entry[l]].base = E.entry[BaseOf[l]]
Fits(J, E) == Overlaid(J, E) /\ Cardinality(FullKeys(E)) <= Slots
Excepted(X) == X.outlived \/ X.adopted

\* Somebody awaits a resident build that is not done, or gave up on it.
Awaits(J, E, Q) == \A k \in Keys : E.entry[k] # None /\ J[E.entry[k]].st # "done" =>
  J[E.entry[k]].deserted \/ \E r \in Requests : Q[r].job = E.entry[k]

\* The stored index has no stamp later than what the resident one has seen, or was brought
\* up to date by another.
Overtaken(X, k) == k \in X.late \cup X.elsewhere
StoreAt(J, E, D, X, k) == E.entry[k] # None /\ J[E.entry[k]].own /\ ~Overtaken(X, k) =>
  LET b == J[E.entry[k]] IN
  /\ b.st = "done" /\ D[k].there => D[k].stamp <= b.seen
  /\ b.st = "running" /\ b.loads => D[k].seen = b.seen /\ D[k].stamp = b.stamp
\* A verdict on an entry that is still there, and what a request has its answer from.
VerdictAt(J, E, X, q) ==
  q.at = "checked" /\ q.valid /\ E.entry[q.key] = q.cached => J[q.cached].seen >= q.since \/ Overtaken(X, q.key)
FreshAt(J, X, q) == q.at = "wait" /\ q.fresh =>
  LET b == J[q.job] IN
  /\ b.own
  /\ b.st = "running" => (IF b.loads THEN b.stamp ELSE b.seen) >= q.since
  /\ b.st = "done" => b.seen >= q.since \/ Overtaken(X, q.key)
Judges(J, E, D, Q, X) ==
  /\ \A k \in Keys : StoreAt(J, E, D, X, k)
  /\ \A r \in Requests : VerdictAt(J, E, X, Q[r]) /\ FreshAt(J, X, Q[r])

Sound(J, E, v, D, Q, X) ==
  /\ Types(J, E, v, D, Q, X)
  /\ Refers(J, E, v, Q)
  /\ Order(E)
  /\ Excepted(X) \/ Fits(J, E)
  /\ Awaits(J, E, Q)
  /\ Judges(J, E, D, Q, X)

Inv == Sound(jobs, Table, version, disk, req, excuse)

-----------------------------------------------------------------------------
(* The table. *)

LEMMA KeyFacts ==
  /\ Lanes \subseteq Keys /\ Bases \subseteq Keys /\ None \notin Lanes /\ None \notin Bases /\ None \notin Ids
  /\ \A l \in Lanes : BaseOf[l] \in Bases /\ l \notin Bases
  /\ Slots \in Nat /\ Slots >= 1 /\ None = 0 /\ Ids \subseteq Nat
  BY CacheAssumption DEF Keys, Ids, None

LEMMA SetTableIs == ASSUME NEW E \in Tables, SetTable(E) PROVE Table' = E
  BY DEF SetTable, Table, Tables

\* What goes leaves the rest as it is.
LEMMA EvictedDoes ==
  ASSUME NEW E \in Tables, NEW gone \in SUBSET Keys, Order(E)
  PROVE  LET F == Evicted(E, gone) IN
         /\ F \in Tables /\ Order(F)
         /\ \A k \in Keys : F.entry[k] = E.entry[k] \/ F.entry[k] = None
         /\ \A k \in gone : F.entry[k] = None
         /\ \A k \in Keys : F.entry[k] # None => F.older[k] \subseteq E.older[k]
         /\ \A l \in Lanes : F.entry[l] # None => F.bases[l] = E.bases[l]
         /\ \A l \in Lanes : F.bases[l] # None => F.bases[l] = E.bases[l] /\ F.entry[l] = E.entry[l]
         /\ \A l \in Lanes : F.bases[l] # None => F.entry[BaseOf[l]] = E.entry[BaseOf[l]]
         /\ FullKeys(F) \subseteq FullKeys(E) \ gone
<1> DEFINE all == gone \cup {l \in Lanes : E.bases[l] \in gone}
           F == Evicted(E, gone)
<1> USE KeyFacts
<1>1. F = [entry |-> [x \in Keys |-> IF x \in all THEN None ELSE E.entry[x]],
           older |-> [x \in Keys |-> IF x \in all THEN {} ELSE E.older[x] \ all],
           bases |-> [l \in Lanes |-> IF l \in all THEN None ELSE E.bases[l]],
           cool |-> E.cool \ all]
  BY DEF Evicted, Without
<1>2. F \in Tables /\ all \subseteq Keys
  BY <1>1 DEF Tables
<1>3. \A k \in Keys : /\ F.entry[k] = IF k \in all THEN None ELSE E.entry[k]
                      /\ F.older[k] = IF k \in all THEN {} ELSE E.older[k] \ all
  BY <1>1
<1>4. \A l \in Lanes : F.bases[l] = IF l \in all THEN None ELSE E.bases[l]
  BY <1>1
<1>5. InTable(F) = InTable(E) \ all
  BY <1>3 DEF InTable
<1>6. Order(F)
  <2>1. ASSUME NEW k \in Keys PROVE F.older[k] \subseteq InTable(F) /\ k \notin F.older[k]
    <3>1. E.older[k] \subseteq InTable(E) /\ k \notin E.older[k]
      BY DEF Order
    <3>2. F.older[k] = IF k \in all THEN {} ELSE E.older[k] \ all
      BY <1>3
    <3>3. F.older[k] \subseteq InTable(E) \ all /\ k \notin F.older[k]
      <4> HIDE DEF F, all
      <4> QED BY <3>1, <3>2
    <3> QED BY <3>3, <1>5
  <2>2. ASSUME NEW k \in Keys, NEW m \in Keys, NEW n \in Keys, k \in F.older[m], m \in F.older[n]
        PROVE  k \in F.older[n]
    <3>1. k \in E.older[m] /\ m \in E.older[n] => k \in E.older[n]
      BY DEF Order
    <3> HIDE DEF F, all
    <3> QED BY <1>3, <2>2, <3>1
  <2>3. \A l \in Lanes : F.bases[l] # None => F.bases[l] = BaseOf[l] /\ F.entry[l] # None
    BY <1>3, <1>4 DEF Order
  <2> QED BY <2>1, <2>2, <2>3 DEF Order
<1>7. FullKeys(F) \subseteq FullKeys(E) \ gone
  BY <1>4, <1>5, <1>2 DEF FullKeys, InTable
<1>8. \A l \in Lanes : F.bases[l] # None => BaseOf[l] \notin all
  BY <1>4 DEF Order
<1> HIDE DEF F, all
<1>9. /\ \A k \in Keys : F.entry[k] = E.entry[k] \/ F.entry[k] = None
      /\ \A k \in Keys : F.entry[k] # None => F.older[k] \subseteq E.older[k]
      /\ \A l \in Lanes : F.entry[l] # None => F.bases[l] = E.bases[l]
      /\ \A l \in Lanes : F.bases[l] # None => F.bases[l] = E.bases[l] /\ F.entry[l] = E.entry[l]
      /\ \A l \in Lanes : F.bases[l] # None => F.entry[BaseOf[l]] = E.entry[BaseOf[l]]
  BY <1>3, <1>4, <1>8
<1>10. \A k \in gone : F.entry[k] = None
  BY <1>3 DEF all
<1> QED BY <1>2, <1>6, <1>7, <1>9, <1>10 DEF F

\* If no more than fit are in the table, one goes when there is no room.
LEMMA RoomForDoes ==
  ASSUME NEW E \in Tables, Order(E), Cardinality(FullKeys(E)) <= Slots
  PROVE  Cardinality(FullKeys(RoomFor(E))) < Slots
<1> DEFINE full == FullKeys(E)
           gone == {k \in full : Cardinality(E.older[k] \cap full) + Slots <= Cardinality(full)}
<1> USE KeyFacts
<1>1. full \subseteq Keys /\ IsFiniteSet(full) /\ Cardinality(full) \in Nat
  BY FS_Subset, FS_CardinalityType, CacheAssumption DEF FullKeys, InTable
<1>2. RoomFor(E) = Evicted(E, gone) /\ gone \subseteq full
  BY DEF RoomFor
<1>3. FullKeys(RoomFor(E)) \subseteq full \ gone
  <2>1. gone \in SUBSET Keys
    BY <1>1, <1>2
  <2> HIDE DEF gone, full
  <2>2. FullKeys(Evicted(E, gone)) \subseteq FullKeys(E) \ gone
    BY <2>1, EvictedDoes
  <2> QED BY <2>2, <1>2 DEF full
<1>4. CASE Cardinality(full) < Slots
  <2>1. Cardinality(FullKeys(RoomFor(E))) <= Cardinality(full) /\ Cardinality(FullKeys(RoomFor(E))) \in Nat
    BY <1>1, <1>3, FS_Subset, FS_CardinalityType
  <2> QED BY <2>1, <1>4, <1>1
<1>5. CASE Cardinality(full) = Slots
  <2> DEFINE Below(k) == E.older[k] \cap full
             sets == {Below(k) : k \in full}
  <2>1. full # {}
    BY <1>5, FS_EmptySet
  <2>2. sets \subseteq FiniteSubsetsOf(full) /\ sets # {}
    <3>1. ASSUME NEW k \in full PROVE Below(k) \in SUBSET full /\ IsFiniteSet(Below(k))
      <4>1. Below(k) \in SUBSET full
        OBVIOUS
      <4> HIDE DEF Below
      <4> QED BY <4>1, <1>1, FS_Subset
    <3> HIDE DEF Below
    <3> QED BY <2>1, <3>1 DEF FiniteSubsetsOf
  <2>3. PICK T \in sets : \A U \in sets : ~(<<U, T>> \in StrictSubsetOrdering(full))
    BY <2>2, WFMin, FS_StrictSubsetOrderingWellFounded
  <2>4. PICK k \in full : T = Below(k)
    BY <2>3
  <2>5. Below(k) = {}
    <3> SUFFICES ASSUME NEW m \in Below(k) PROVE FALSE
      OBVIOUS
    <3>1. m \in full /\ m \in E.older[k] /\ m \in Keys /\ k \in Keys
      BY <1>1
    <3>2. Below(m) \subseteq Below(k) /\ m \notin Below(m)
      BY <3>1, <1>1 DEF Order, Tables
    <3>3. Below(m) \in sets
      BY <3>1
    <3> QED BY <3>2, <3>3, <2>3, <2>4 DEF StrictSubsetOrdering
  <2>6. k \in gone
    BY <2>5, <1>5, FS_EmptySet
  <2>7. Cardinality(FullKeys(RoomFor(E))) <= Cardinality(full \ {k}) /\ Cardinality(full \ {k}) = Cardinality(full) - 1
    BY <2>6, <1>1, <1>3, FS_RemoveElement, FS_Subset
  <2>8. Cardinality(FullKeys(RoomFor(E))) \in Nat
    BY <1>1, <1>3, FS_Subset, FS_CardinalityType
  <2> QED BY <2>7, <2>8, <1>5, <1>1
<1> QED BY <1>4, <1>5, <1>1

\* Use changes the order only.
LEMMA TouchedDoes ==
  ASSUME NEW E \in Tables, Order(E), NEW k \in InTable(E)
  PROVE  LET F == Touched(E, k) IN
         /\ F \in Tables /\ Order(F)
         /\ F.entry = E.entry /\ F.bases = E.bases /\ FullKeys(F) = FullKeys(E)
<1> DEFINE F == Touched(E, k)
<1>0. InTable(E) \subseteq Keys
  BY DEF InTable
<1>1. /\ F.entry = E.entry /\ F.bases = E.bases /\ F.cool = E.cool
      /\ F.older = [x \in Keys |-> (IF x = k THEN InTable(E) ELSE E.older[x]) \ {k}]
      /\ F \in Tables
  BY <1>0 DEF Touched, Tables
<1>2. InTable(F) = InTable(E) /\ FullKeys(F) = FullKeys(E)
  BY <1>1 DEF InTable, FullKeys
<1> HIDE DEF F
<1>3. \A x \in Keys : F.older[x] = (IF x = k THEN InTable(E) ELSE E.older[x]) \ {k}
  BY <1>1
<1>4. ASSUME NEW x \in Keys PROVE F.older[x] \subseteq InTable(F) /\ x \notin F.older[x]
  <2>1. E.older[x] \subseteq InTable(E) /\ x \notin E.older[x]
    BY DEF Order
  <2> QED BY <2>1, <1>2, <1>3
<1>5. ASSUME NEW x \in Keys, NEW y \in Keys, NEW z \in Keys, x \in F.older[y], y \in F.older[z]
      PROVE  x \in F.older[z]
  <2>1. E.older[y] \subseteq InTable(E) /\ (x \in E.older[y] /\ y \in E.older[z] => x \in E.older[z])
    BY DEF Order
  <2> QED BY <2>1, <1>3, <1>5
<1>6. Order(F)
  BY <1>1, <1>4, <1>5 DEF Order
<1> QED BY <1>1, <1>2, <1>6 DEF F

\* A new build of k's own.
LEMMA EnteredDoes ==
  ASSUME NEW E \in Tables, Order(E), NEW k \in Keys, NEW id \in Ids
  PROVE  LET F == [E EXCEPT !.entry[k] = id] IN
         /\ F \in Tables /\ Order(F) /\ k \in InTable(F)
         /\ F.entry = [E.entry EXCEPT ![k] = id] /\ F.bases = E.bases
         /\ FullKeys(F) \subseteq FullKeys(E) \cup {k}
<1> DEFINE F == [E EXCEPT !.entry[k] = id]
<1> USE KeyFacts
<1>1. /\ F.entry = [E.entry EXCEPT ![k] = id] /\ F.bases = E.bases /\ F.cool = E.cool /\ F.older = E.older
      /\ F \in Tables
  BY DEF Tables
<1>2. InTable(F) = InTable(E) \cup {k} /\ FullKeys(F) \subseteq FullKeys(E) \cup {k}
  BY <1>1 DEF InTable, FullKeys, Tables
<1> HIDE DEF F
<1>3. \A l \in Lanes : E.bases[l] # None => F.entry[l] # None /\ E.bases[l] = BaseOf[l]
  BY <1>1 DEF Order, Tables
<1>4. Order(F)
  BY <1>1, <1>2, <1>3 DEF Order
<1> QED BY <1>1, <1>2, <1>4 DEF F

\* A lane is put on its base.
Laid(E, l, id) == [E EXCEPT !.entry[l] = id, !.bases[l] = BaseOf[l]]

LEMMA LaidDoes ==
  ASSUME NEW E \in Tables, Order(E), NEW l \in Lanes, NEW id \in Ids
  PROVE  LET F == Laid(E, l, id) IN
         /\ F \in Tables /\ Order(F) /\ l \in InTable(F)
         /\ F.entry = [E.entry EXCEPT ![l] = id] /\ F.bases = [E.bases EXCEPT ![l] = BaseOf[l]]
         /\ FullKeys(F) \subseteq FullKeys(E)
<1> DEFINE F == Laid(E, l, id)
<1> USE KeyFacts
<1>1. /\ F.entry = [E.entry EXCEPT ![l] = id] /\ F.bases = [E.bases EXCEPT ![l] = BaseOf[l]]
      /\ F.cool = E.cool /\ F.older = E.older /\ F \in Tables
  BY DEF Tables, Laid
<1> HIDE DEF F
<1>2. InTable(F) = InTable(E) \cup {l} /\ FullKeys(F) \subseteq FullKeys(E)
  BY <1>1 DEF InTable, FullKeys, Tables
<1>3. \A m \in Lanes : F.bases[m] # None => F.bases[m] = BaseOf[m] /\ F.entry[m] # None
  BY <1>1 DEF Order, Tables
<1>4. Order(F)
  BY <1>1, <1>2, <1>3 DEF Order
<1> QED BY <1>1, <1>2, <1>4 DEF F

-----------------------------------------------------------------------------
(* The builds. *)

\* What an entry or a request refers to, and what runs, is kept; what is kept but not
\* referred to is the base of what is.
LEMMA KeptDoes ==
  ASSUME NEW js \in [Ids -> Builds], NEW J, J = Kept(js),
         entry' \in [Keys -> Ids \cup {None}], req' \in [Requests -> Requested]
  PROVE  /\ J \in [Ids -> Builds]
         /\ \A j \in Ids : J[j] = js[j] \/ J[j] = NoJob
         /\ \A j \in Ids : j \in {entry'[k] : k \in Keys} => J[j] = js[j]
         /\ \A r \in Requests : req'[r].job # None => J[req'[r].job] = js[req'[r].job]
         /\ \A r \in Requests : req'[r].cached # None => J[req'[r].cached] = js[req'[r].cached]
         /\ \A j \in Ids : js[j].st \in {"new", "running"} => J[j] = js[j]
         /\ \A j \in Ids : J[j].st # "free" =>
              \/ js[j].base # None => J[js[j].base] = js[js[j].base]
              \/ \E i \in Ids : js[i].base = j
<1> DEFINE near == {entry'[k] : k \in Keys} \cup {req'[r].job : r \in Requests} \cup {req'[r].cached : r \in Requests}
                   \cup {j \in Ids : js[j].st \in {"new", "running"}}
           kept == near \cup {js[j].base : j \in near \ {None}}
<1> USE KeyFacts
<1>1. J = [j \in Ids |-> IF j \in kept THEN js[j] ELSE NoJob]
  BY DEF Kept
<1>2. NoJob \in Builds /\ NoJob.st = "free"
  BY DEF NoJob, Job, Builds
<1>3. near \subseteq Ids \cup {None}
  BY DEF Requested
<1>4. \A j \in Ids : js[j].base \in Ids \cup {None}
  BY DEF Builds
<1>5. \A j \in Ids : J[j] = IF j \in kept THEN js[j] ELSE NoJob
  BY <1>1
<1>6. \A j \in near \ {None} : J[j] = js[j] /\ (js[j].base # None => J[js[j].base] = js[js[j].base])
  <2>1. \A j \in near \ {None} : j \in kept /\ js[j].base \in kept
    OBVIOUS
  <2> HIDE DEF near, kept
  <2> QED BY <2>1, <1>3, <1>4, <1>5
<1>7. \A k \in Keys : entry'[k] \in near
  OBVIOUS
<1>8. \A r \in Requests : req'[r].job \in near /\ req'[r].cached \in near
  OBVIOUS
<1>9. \A j \in Ids : js[j].st \in {"new", "running"} => j \in near
  OBVIOUS
<1>10. ASSUME NEW j \in Ids, J[j].st # "free"
       PROVE  (js[j].base # None => J[js[j].base] = js[js[j].base]) \/ \E i \in Ids : js[i].base = j
  <2>1. j \in kept
    BY <1>10, <1>5, <1>2
  <2>2. CASE j \in near
    BY <2>2, <1>6
  <2>3. CASE j \notin near
    <3> HIDE DEF near
    <3> QED BY <2>1, <2>3, <1>3
  <2> QED BY <2>2, <2>3
<1>11. J \in [Ids -> Builds]
  BY <1>1, <1>2
<1> HIDE DEF kept
<1>12. \A j \in Ids : J[j] = js[j] \/ J[j] = NoJob
  BY <1>5
<1>13. \A j \in Ids : j \in {entry'[k] : k \in Keys} => J[j] = js[j]
  BY <1>6
<1>14. \A r \in Requests : /\ req'[r].job # None => J[req'[r].job] = js[req'[r].job]
                           /\ req'[r].cached # None => J[req'[r].cached] = js[req'[r].cached]
  BY <1>6, <1>8
<1>15. \A j \in Ids : js[j].st \in {"new", "running"} => J[j] = js[j]
  BY <1>6, <1>9
<1> QED BY <1>10, <1>11, <1>12, <1>13, <1>14, <1>15

-----------------------------------------------------------------------------
(* What the parts of a step keep. *)

\* The table loses entries.
LEMMA EvictedSound ==
  ASSUME NEW J, NEW E, NEW v, NEW D, NEW Q, NEW X, Sound(J, E, v, D, Q, X), NEW gone \in SUBSET Keys
  PROVE  Sound(J, Evicted(E, gone), v, D, Q, X)
<1> DEFINE F == Evicted(E, gone)
<1> USE KeyFacts
<1>0. Types(J, E, v, D, Q, X) /\ Refers(J, E, v, Q) /\ Order(E) /\ E \in Tables /\ Q \in [Requests -> Requested]
  BY DEF Sound, Types
<1>1. /\ F \in Tables /\ Order(F)
      /\ \A k \in Keys : F.entry[k] = E.entry[k] \/ F.entry[k] = None
      /\ \A l \in Lanes : F.entry[l] # None => F.bases[l] = E.bases[l]
      /\ \A l \in Lanes : F.bases[l] # None => F.bases[l] = E.bases[l] /\ F.entry[l] = E.entry[l]
      /\ \A l \in Lanes : F.bases[l] # None => F.entry[BaseOf[l]] = E.entry[BaseOf[l]]
      /\ FullKeys(F) \subseteq FullKeys(E)
  BY <1>0, EvictedDoes
<1> HIDE DEF F
<1>2. Types(J, F, v, D, Q, X)
  BY <1>0, <1>1 DEF Types
<1>3. Refers(J, F, v, Q)
  <2>1. ASSUME NEW k \in Keys PROVE EntryAt(J, F, k)
    <3>1. EntryAt(J, E, k) /\ (F.entry[k] # None => F.entry[k] = E.entry[k])
      BY <1>0, <1>1 DEF Refers
    <3>2. F.entry[k] # None /\ ~J[F.entry[k]].own => F.bases[k] = E.bases[k]
      <4>1. ASSUME F.entry[k] # None, ~J[F.entry[k]].own PROVE k \in Lanes
        <5>1. E.entry[k] \in Ids /\ J[E.entry[k]].st # "free" /\ J[E.entry[k]].key = k /\ ~J[E.entry[k]].own
          BY <3>1, <4>1, <1>0 DEF EntryAt, Tables
        <5>2. BuildAt(J, E.entry[k])
          BY <5>1, <1>0 DEF Refers
        <5> QED BY <5>1, <5>2 DEF BuildAt
      <4> QED BY <4>1, <1>1
    <3> QED BY <3>1, <3>2 DEF EntryAt
  <2> QED BY <2>1, <1>0 DEF Refers
<1>4. Excepted(X) \/ Fits(J, F)
  <2>1. CASE Excepted(X)
    BY <2>1
  <2>2. CASE Fits(J, E)
    <3>1. Overlaid(J, F)
      BY <2>2, <1>1 DEF Fits, Overlaid
    <3>2. IsFiniteSet(FullKeys(E)) /\ Cardinality(FullKeys(E)) \in Nat
      BY FS_Subset, FS_CardinalityType, CacheAssumption DEF FullKeys, InTable
    <3>3. Cardinality(FullKeys(F)) <= Cardinality(FullKeys(E)) /\ Cardinality(FullKeys(F)) \in Nat
      BY <3>2, <1>1, FS_Subset, FS_CardinalityType
    <3> QED BY <2>2, <3>1, <3>2, <3>3 DEF Fits
  <2> QED BY <2>1, <2>2 DEF Sound
<1>5. Awaits(J, F, Q)
  BY <1>1 DEF Awaits, Sound
<1>6. Judges(J, F, D, Q, X)
  <2>1. ASSUME NEW k \in Keys PROVE StoreAt(J, F, D, X, k)
    <3>1. StoreAt(J, E, D, X, k)
      BY DEF Sound, Judges
    <3> QED BY <3>1, <1>1 DEF StoreAt
  <2>2. ASSUME NEW r \in Requests PROVE VerdictAt(J, F, X, Q[r]) /\ FreshAt(J, X, Q[r])
    <3>1. VerdictAt(J, E, X, Q[r]) /\ FreshAt(J, X, Q[r]) /\ RequestAt(J, v, Q[r])
      BY <1>0 DEF Sound, Judges, Refers
    <3>2. Q[r].at = "checked" => Q[r].key \in Keys /\ Q[r].cached # None
      BY <3>1 DEF RequestAt
    <3> QED BY <3>1, <3>2, <1>1 DEF VerdictAt
  <2> QED BY <2>1, <2>2 DEF Judges
<1> QED BY <1>1, <1>2, <1>3, <1>4, <1>5, <1>6 DEF Sound, F

\* A key is used, or cools.
LEMMA OrderedSound ==
  ASSUME NEW J, NEW E, NEW v, NEW D, NEW Q, NEW X, Sound(J, E, v, D, Q, X),
         NEW F \in Tables, F.entry = E.entry, F.bases = E.bases, Order(F)
  PROVE  Sound(J, F, v, D, Q, X)
<1>1. FullKeys(F) = FullKeys(E)
  BY DEF FullKeys, InTable
<1>2. Types(J, F, v, D, Q, X) /\ Awaits(J, F, Q)
  BY DEF Sound, Types, Awaits
<1>3. Refers(J, F, v, Q)
  BY DEF Sound, Refers, EntryAt
<1>4. Excepted(X) \/ Fits(J, F)
  BY <1>1 DEF Sound, Fits, Overlaid
<1>5. Judges(J, F, D, Q, X)
  BY DEF Sound, Judges, StoreAt, VerdictAt
<1> QED BY <1>2, <1>3, <1>4, <1>5 DEF Sound

LEMMA TouchedSound ==
  ASSUME NEW J, NEW E, NEW v, NEW D, NEW Q, NEW X, Sound(J, E, v, D, Q, X), NEW k \in InTable(E)
  PROVE  Sound(J, Touched(E, k), v, D, Q, X)
<1>1. E \in Tables /\ Order(E)
  BY DEF Sound, Types
<1>2. LET F == Touched(E, k) IN F \in Tables /\ Order(F) /\ F.entry = E.entry /\ F.bases = E.bases
  BY <1>1, TouchedDoes
<1> QED BY <1>2, OrderedSound

\* A request is over whose build nobody need hear of any more.
LEMMA IdleSound ==
  ASSUME NEW J, NEW E, NEW v, NEW D, NEW Q, NEW X, Sound(J, E, v, D, Q, X), NEW r \in Requests,
         \A k \in Keys : E.entry[k] # None /\ E.entry[k] = Q[r].job => J[E.entry[k]].st = "done" \/ J[E.entry[k]].deserted
  PROVE  Sound(J, E, v, D, [Q EXCEPT ![r] = Idle], X)
<1> DEFINE P == [Q EXCEPT ![r] = Idle]
<1> USE KeyFacts
<1>0. Q \in [Requests -> Requested] /\ Idle \in Requested
  BY DEF Sound, Types, Idle, Requested, Places
<1>1. P \in [Requests -> Requested] /\ P[r] = Idle /\ \A s \in Requests \ {r} : P[s] = Q[s]
  BY <1>0
<1> HIDE DEF P
<1>2. Types(J, E, v, D, P, X)
  BY <1>1 DEF Sound, Types
<1>3. Refers(J, E, v, P)
  <2>1. RequestAt(J, v, Idle)
    BY DEF RequestAt, Idle
  <2> QED BY <1>1, <2>1 DEF Sound, Refers
<1>4. Awaits(J, E, P)
  BY <1>1 DEF Sound, Awaits
<1>5. Judges(J, E, D, P, X)
  <2>1. VerdictAt(J, E, X, Idle) /\ FreshAt(J, X, Idle)
    BY DEF VerdictAt, FreshAt, Idle
  <2> QED BY <1>1, <2>1 DEF Sound, Judges
<1> QED BY <1>2, <1>3, <1>4, <1>5 DEF Sound, P

\* Request r goes to the build j.
Goes(Q, P, r, at, j) ==
  /\ P \in [Requests -> Requested] /\ \A s \in Requests \ {r} : P[s] = Q[s]
  /\ P[r].at = at /\ P[r].job = j /\ P[r].cached = None

\* A request joins the build of its entry.
LEMMA JoinedSound ==
  ASSUME NEW J, NEW E, NEW v, NEW D, NEW Q, NEW X, Sound(J, E, v, D, Q, X), NEW r \in Requests,
         Q[r].at \in {"exact", "checked"}, E.entry[Q[r].key] # None,
         Q[r].at = "checked" /\ E.entry[Q[r].key] = Q[r].cached => Q[r].valid,
         NEW P, Goes(Q, P, r, "wait", E.entry[Q[r].key]),
         P[r].key = Q[r].key, P[r].lane = Q[r].lane, P[r].since = Q[r].since,
         P[r].fresh => E.entry[Q[r].key] = Q[r].cached
  PROVE  Sound(J, E, v, D, P, X)
<1> DEFINE k == Q[r].key
<1> USE KeyFacts DEF Goes
<1>0. RequestAt(J, v, Q[r]) /\ k \in Keys /\ EntryAt(J, E, k) /\ VerdictAt(J, E, X, Q[r])
  BY DEF Sound, Refers, RequestAt, Judges
<1>1. Types(J, E, v, D, P, X)
  BY DEF Sound, Types
<1>2. Refers(J, E, v, P)
  <2>1. RequestAt(J, v, P[r])
    BY <1>0 DEF RequestAt, EntryAt
  <2> QED BY <2>1 DEF Sound, Refers
<1>3. Awaits(J, E, P)
  <2>1. Q[r].job = None
    BY <1>0 DEF RequestAt
  <2> QED BY <2>1 DEF Sound, Awaits
<1>4. Judges(J, E, D, P, X)
  <2>1. FreshAt(J, X, P[r])
    <3> SUFFICES ASSUME P[r].fresh PROVE FreshAt(J, X, P[r])
      BY DEF FreshAt
    <3>1. Q[r].cached = P[r].job /\ Q[r].cached # None /\ Q[r].at = "checked" /\ Q[r].valid
      BY <1>0 DEF RequestAt
    <3>2. J[P[r].job].st = "done" /\ J[P[r].job].own
      BY <1>0, <3>1 DEF RequestAt
    <3>3. J[P[r].job].seen >= P[r].since \/ Overtaken(X, P[r].key)
      BY <1>0, <3>1 DEF VerdictAt
    <3> QED BY <3>2, <3>3 DEF FreshAt
  <2>2. VerdictAt(J, E, X, P[r])
    BY DEF VerdictAt
  <2> QED BY <2>1, <2>2 DEF Sound, Judges
<1> QED BY <1>1, <1>2, <1>3, <1>4 DEF Sound

\* A free number is referred to by nothing.
LEMMA FreeIsUnreferred ==
  ASSUME NEW J, NEW E, NEW v, NEW D, NEW Q, NEW X, Sound(J, E, v, D, Q, X), NEW id \in Ids, J[id].st = "free"
  PROVE  /\ \A k \in Keys : E.entry[k] # id
         /\ \A s \in Requests : Q[s].job # id /\ Q[s].cached # id
         /\ \A j \in Ids : J[j].st # "free" => J[j].base # id
<1> USE KeyFacts
<1>1. \A k \in Keys : E.entry[k] # id
  BY DEF Sound, Refers, EntryAt
<1>2. \A s \in Requests : Q[s].job # id /\ Q[s].cached # id
  BY DEF Sound, Refers, RequestAt
<1>3. ASSUME NEW j \in Ids, J[j].st # "free" PROVE J[j].base # id
  <2>1. BuildAt(J, j)
    BY DEF Sound, Refers
  <2> QED BY <2>1, <1>3 DEF BuildAt
<1> QED BY <1>1, <1>2, <1>3

\* A new build b takes a free number.
LEMMA NewBuild ==
  ASSUME NEW J, NEW E, NEW v, NEW D, NEW Q, NEW X, Sound(J, E, v, D, Q, X), NEW id \in Ids, J[id].st = "free",
         NEW b \in Builds, b.st = "new", b.key \in Keys, b.own <=> b.base = None,
         ~b.own => b.key \in Lanes /\ J[b.base].st = "done" /\ J[b.base].own /\ J[b.base].key = BaseOf[b.key]
  PROVE  Sound([J EXCEPT ![id] = b], E, v, D, Q, X)
<1> DEFINE N == [J EXCEPT ![id] = b]
<1> USE KeyFacts
<1>0. Types(J, E, v, D, Q, X) /\ J \in [Ids -> Builds]
  BY DEF Sound, Types
<1>1. N \in [Ids -> Builds] /\ N[id] = b /\ \A j \in Ids \ {id} : N[j] = J[j]
  BY <1>0
<1> HIDE DEF N
<1>2. /\ \A k \in Keys : E.entry[k] \in (Ids \ {id}) \cup {None}
      /\ \A s \in Requests : Q[s].job \in (Ids \ {id}) \cup {None} /\ Q[s].cached \in (Ids \ {id}) \cup {None}
      /\ \A j \in Ids : J[j].st # "free" => J[j].base \in (Ids \ {id}) \cup {None}
  BY <1>0, FreeIsUnreferred DEF Types, Tables, Requested, Builds
<1>3. /\ \A k \in Keys : E.entry[k] # None => N[E.entry[k]] = J[E.entry[k]]
      /\ \A s \in Requests : /\ Q[s].job # None => N[Q[s].job] = J[Q[s].job]
                             /\ Q[s].cached # None => N[Q[s].cached] = J[Q[s].cached]
  BY <1>1, <1>2
<1>4. Types(N, E, v, D, Q, X)
  BY <1>0, <1>1 DEF Types
<1>5. Refers(N, E, v, Q)
  <2>1. ASSUME NEW j \in Ids PROVE BuildAt(N, j)
    <3>1. BuildAt(J, j)
      BY DEF Sound, Refers
    <3>2. CASE j = id
      <4>1. ~b.own => b.base \in Ids \ {id}
        BY DEF Builds
      <4> QED BY <3>2, <4>1, <1>1 DEF BuildAt
    <3>3. CASE j # id
      <4>1. N[j] = J[j]
        BY <3>3, <1>1
      <4>2. J[j].st # "free" /\ ~J[j].own => J[j].base \in Ids \ {id}
        BY <3>1, <1>2 DEF BuildAt
      <4>3. J[j].st # "free" /\ ~J[j].own => N[J[j].base] = J[J[j].base]
        BY <4>2, <1>1
      <4> QED BY <3>1, <4>1, <4>3 DEF BuildAt
    <3> QED BY <3>2, <3>3
  <2>2. \A k \in Keys : EntryAt(N, E, k)
    BY <1>3 DEF Sound, Refers, EntryAt
  <2>3. \A s \in Requests : RequestAt(N, v, Q[s])
    BY <1>3 DEF Sound, Refers, RequestAt
  <2> QED BY <2>1, <2>2, <2>3 DEF Refers
<1>6. Excepted(X) \/ Fits(N, E)
  <2>1. Order(E) /\ \A l \in Lanes : E.bases[l] # None => N[E.entry[l]] = J[E.entry[l]]
    BY <1>3 DEF Sound, Order
  <2> QED BY <2>1 DEF Sound, Fits, Overlaid
<1>7. Awaits(N, E, Q)
  BY <1>3 DEF Sound, Awaits
<1>8. Judges(N, E, D, Q, X)
  <2>1. \A k \in Keys : StoreAt(N, E, D, X, k)
    BY <1>3 DEF Sound, Judges, StoreAt
  <2>2. ASSUME NEW s \in Requests PROVE VerdictAt(N, E, X, Q[s]) /\ FreshAt(N, X, Q[s])
    <3>1. VerdictAt(J, E, X, Q[s]) /\ FreshAt(J, X, Q[s]) /\ RequestAt(J, v, Q[s])
      BY DEF Sound, Judges, Refers
    <3>2. (Q[s].at = "checked" => Q[s].cached # None) /\ (Q[s].at = "wait" => Q[s].job # None)
      BY <3>1 DEF RequestAt
    <3> QED BY <3>1, <3>2, <1>3 DEF VerdictAt, FreshAt
  <2> QED BY <2>1, <2>2 DEF Judges
<1> QED BY <1>4, <1>5, <1>6, <1>7, <1>8 DEF Sound, N

\* A key gets the entry of a build begun for a request, where there is room.
LEMMA EnteredSound ==
  ASSUME NEW J, NEW E, NEW v, NEW D, NEW Q, NEW X, Sound(J, E, v, D, Q, X), NEW r \in Requests,
         Q[r].at \in {"exact", "checked"}, E.entry[Q[r].key] = None,
         NEW id \in Ids, J[id].st = "new", J[id].own, J[id].key = Q[r].key,
         Excepted(X) \/ Cardinality(FullKeys(E)) < Slots,
         NEW P, Goes(Q, P, r, "wait", id),
         P[r].key = Q[r].key, P[r].lane = Q[r].lane, P[r].since = Q[r].since
  PROVE  LET F == [E EXCEPT !.entry[Q[r].key] = id]
         IN  Sound(J, F, v, D, P, X) /\ Q[r].key \in InTable(F)
<1> DEFINE k == Q[r].key
           F == [E EXCEPT !.entry[k] = id]
<1> USE KeyFacts DEF Goes
<1>0. RequestAt(J, v, Q[r]) /\ k \in Keys /\ Types(J, E, v, D, Q, X) /\ Refers(J, E, v, Q) /\ Order(E)
  BY DEF Sound, Refers, RequestAt
<1>1. /\ F \in Tables /\ Order(F) /\ k \in InTable(F)
      /\ F.entry = [E.entry EXCEPT ![k] = id] /\ F.bases = E.bases
      /\ FullKeys(F) \subseteq FullKeys(E) \cup {k}
  <2>1. E \in Tables /\ Order(E) /\ k \in Keys
    BY <1>0 DEF Types
  <2> HIDE DEF k
  <2> QED BY ONLY <2>1, id \in Ids, EnteredDoes
<1>2. E.entry \in [Keys -> Ids \cup {None}]
  BY <1>0 DEF Types, Tables
<1> HIDE DEF F
<1>3. F.entry[k] = id /\ \A m \in Keys \ {k} : F.entry[m] = E.entry[m]
  BY <1>0, <1>1, <1>2
<1>4. Types(J, F, v, D, P, X)
  BY <1>0, <1>1 DEF Types
<1>5. Refers(J, F, v, P)
  <2>1. \A m \in Keys : EntryAt(J, F, m)
    BY <1>0, <1>1, <1>3 DEF Refers, EntryAt
  <2>2. RequestAt(J, v, P[r])
    BY <1>0 DEF RequestAt
  <2> QED BY <1>0, <2>1, <2>2 DEF Refers
<1>6. Excepted(X) \/ Fits(J, F)
  <2>1. SUFFICES ASSUME ~Excepted(X) PROVE Fits(J, F)
    OBVIOUS
  <2>2. Fits(J, E)
    BY <2>1 DEF Sound
  <2>3. Overlaid(J, F)
    <3>1. ASSUME NEW l \in Lanes, E.bases[l] # None PROVE F.entry[l] = E.entry[l] /\ F.entry[BaseOf[l]] = E.entry[BaseOf[l]]
      <4>1. E.entry[l] # None /\ ~J[E.entry[l]].own /\ J[E.entry[l]].base = E.entry[BaseOf[l]]
        BY <3>1, <2>2, <1>0 DEF Fits, Overlaid, Order
      <4>2. BuildAt(J, E.entry[l]) /\ EntryAt(J, E, l)
        BY <4>1, <1>0, <1>2 DEF Refers
      <4>3. E.entry[BaseOf[l]] # None
        BY <4>1, <4>2 DEF BuildAt, EntryAt
      <4> QED BY <4>1, <4>3, <1>3
    <3> QED BY <3>1, <2>2, <1>1 DEF Overlaid, Fits
  <2>4. IsFiniteSet(FullKeys(E)) /\ Cardinality(FullKeys(E)) \in Nat
    BY FS_Subset, FS_CardinalityType, CacheAssumption DEF FullKeys, InTable
  <2>5. IsFiniteSet(FullKeys(E) \cup {k}) /\ Cardinality(FullKeys(E) \cup {k}) <= Cardinality(FullKeys(E)) + 1
    <3>1. /\ IsFiniteSet(FullKeys(E) \cup {k})
          /\ Cardinality(FullKeys(E) \cup {k}) = IF k \in FullKeys(E) THEN Cardinality(FullKeys(E)) ELSE Cardinality(FullKeys(E)) + 1
      BY <2>4, FS_AddElement
    <3> QED BY <2>4, <3>1
  <2>6. Cardinality(FullKeys(F)) <= Cardinality(FullKeys(E) \cup {k}) /\ Cardinality(FullKeys(F)) \in Nat
        /\ Cardinality(FullKeys(E) \cup {k}) \in Nat
    BY <2>5, <1>1, FS_Subset, FS_CardinalityType
  <2>7. Cardinality(FullKeys(F)) <= Slots
    BY <2>1, <2>4, <2>5, <2>6
  <2> QED BY <2>3, <2>7 DEF Fits
<1>7. Awaits(J, F, P)
  <2>1. Q[r].job = None /\ P[r].job = id
    BY <1>0 DEF RequestAt
  <2> QED BY <2>1, <1>3 DEF Sound, Awaits
<1>8. Judges(J, F, D, P, X)
  <2>1. ASSUME NEW m \in Keys PROVE StoreAt(J, F, D, X, m)
    <3>1. StoreAt(J, E, D, X, m)
      BY DEF Sound, Judges
    <3> QED BY <3>1, <1>3 DEF StoreAt
  <2>2. ASSUME NEW s \in Requests \ {r} PROVE VerdictAt(J, F, X, P[s]) /\ FreshAt(J, X, P[s])
    <3>1. VerdictAt(J, E, X, Q[s]) /\ FreshAt(J, X, Q[s]) /\ RequestAt(J, v, Q[s])
      BY <1>0 DEF Sound, Judges, Refers
    <3>2. Q[s].at = "checked" => Q[s].key \in Keys /\ Q[s].cached # id
      BY <3>1 DEF RequestAt
    <3> QED BY <3>1, <3>2, <1>3 DEF VerdictAt
  <2>3. VerdictAt(J, F, X, P[r]) /\ FreshAt(J, X, P[r])
    BY DEF VerdictAt, FreshAt
  <2> QED BY <2>1, <2>2, <2>3 DEF Judges
<1> QED BY <1>1, <1>4, <1>5, <1>6, <1>7, <1>8 DEF Sound, F

\* A lane's entry is put on the base a request for it was answered with.
LEMMA LaidSound ==
  ASSUME NEW J, NEW E, NEW v, NEW D, NEW Q, NEW X, Sound(J, E, v, D, Q, X), NEW r \in Requests,
         NEW l \in Lanes, Q[r].lane = l, Q[r].at = "wait", J[Q[r].job].st = "done",
         NEW id \in Ids, J[id].key = l, E.entry[l] = id \/ (J[id].st = "new" /\ ~J[id].own),
         NEW Y \in Excuses, Y.late = X.late, Y.elsewhere = X.elsewhere,
         Excepted(Y) \/ (~Excepted(X) /\ ~J[id].own /\ J[id].base = E.entry[BaseOf[l]]),
         NEW P, Goes(Q, P, r, "overlay", id), P[r].key = l, P[r].lane = None
  PROVE  LET F == Laid(E, l, id) IN Sound(J, F, v, D, P, Y) /\ l \in InTable(F)
<1> DEFINE F == Laid(E, l, id)
<1> USE KeyFacts DEF Goes
<1>0. RequestAt(J, v, Q[r]) /\ Types(J, E, v, D, Q, X) /\ Refers(J, E, v, Q) /\ Order(E) /\ EntryAt(J, E, l)
  BY DEF Sound, Refers
<1>1. /\ F \in Tables /\ Order(F) /\ l \in InTable(F)
      /\ F.entry = [E.entry EXCEPT ![l] = id] /\ F.bases = [E.bases EXCEPT ![l] = BaseOf[l]]
      /\ FullKeys(F) \subseteq FullKeys(E)
  <2>1. E \in Tables /\ Order(E)
    BY <1>0 DEF Types
  <2> QED BY ONLY <2>1, l \in Lanes, id \in Ids, LaidDoes
<1> HIDE DEF F
<1>2. E.entry \in [Keys -> Ids \cup {None}] /\ E.bases \in [Lanes -> Bases \cup {None}]
  BY <1>0 DEF Types, Tables
<1>3. /\ F.entry[l] = id /\ \A m \in Keys \ {l} : F.entry[m] = E.entry[m]
      /\ F.bases[l] = BaseOf[l] /\ \A m \in Lanes \ {l} : F.bases[m] = E.bases[m]
  BY <1>1, <1>2
<1>a. J[id].st # "free"
  BY <1>0 DEF EntryAt
<1>4. Types(J, F, v, D, P, Y)
  BY <1>0, <1>1 DEF Types
<1>5. Refers(J, F, v, P)
  <2>1. ASSUME NEW m \in Keys PROVE EntryAt(J, F, m)
    <3>1. EntryAt(J, E, m)
      BY <1>0 DEF Refers
    <3>2. CASE m = l
      BY <3>2, <1>3, <1>a DEF EntryAt
    <3>3. CASE m # l
      <4>1. F.entry[m] = E.entry[m]
        BY <3>3, <1>3
      <4>2. E.entry[m] # None /\ ~J[E.entry[m]].own => m \in Lanes
        <5>1. E.entry[m] # None => BuildAt(J, E.entry[m])
          BY <1>0, <1>2 DEF Refers
        <5> QED BY <5>1, <3>1 DEF BuildAt, EntryAt
      <4> QED BY <3>1, <3>3, <4>1, <4>2, <1>3 DEF EntryAt
    <3> QED BY <3>2, <3>3
  <2>2. RequestAt(J, v, P[r])
    BY <1>a DEF RequestAt
  <2> QED BY <1>0, <2>1, <2>2 DEF Refers
<1>6. Excepted(Y) \/ Fits(J, F)
  <2>1. SUFFICES ASSUME ~Excepted(Y) PROVE Fits(J, F)
    OBVIOUS
  <2>2. Fits(J, E) /\ ~J[id].own /\ J[id].base = E.entry[BaseOf[l]]
    BY <2>1 DEF Sound
  <2>3. Overlaid(J, F)
    BY <2>2, <1>3 DEF Fits, Overlaid
  <2>4. IsFiniteSet(FullKeys(E)) /\ Cardinality(FullKeys(E)) \in Nat
    BY FS_Subset, FS_CardinalityType, CacheAssumption DEF FullKeys, InTable
  <2>5. Cardinality(FullKeys(F)) <= Cardinality(FullKeys(E)) /\ Cardinality(FullKeys(F)) \in Nat
    BY <2>4, <1>1, FS_Subset, FS_CardinalityType
  <2> QED BY <2>2, <2>3, <2>4, <2>5 DEF Fits
<1>7. Awaits(J, F, P)
  BY <1>3 DEF Sound, Awaits
<1>8. Judges(J, F, D, P, Y)
  <2>0. \A k \in Keys : Overtaken(X, k) = Overtaken(Y, k)
    BY DEF Overtaken
  <2>1. ASSUME NEW m \in Keys PROVE StoreAt(J, F, D, Y, m)
    <3>1. StoreAt(J, E, D, X, m)
      BY DEF Sound, Judges
    <3> QED BY <3>1, <2>0, <1>3 DEF StoreAt
  <2>2. ASSUME NEW s \in Requests \ {r} PROVE VerdictAt(J, F, Y, P[s]) /\ FreshAt(J, Y, P[s])
    <3>1. VerdictAt(J, E, X, Q[s]) /\ FreshAt(J, X, Q[s]) /\ RequestAt(J, v, Q[s])
      BY <1>0 DEF Sound, Judges, Refers
    <3>2. Q[s].at \in {"checked", "wait"} => Q[s].key \in Keys
      BY <3>1 DEF RequestAt
    <3>3. Q[s].at = "checked" => J[Q[s].cached].st = "done"
      BY <3>1 DEF RequestAt
    <3> QED BY <3>1, <3>2, <3>3, <2>0, <1>3 DEF VerdictAt, FreshAt
  <2>3. VerdictAt(J, F, Y, P[r]) /\ FreshAt(J, Y, P[r])
    BY DEF VerdictAt, FreshAt
  <2> QED BY <2>1, <2>2, <2>3 DEF Judges
<1> QED BY <1>1, <1>4, <1>5, <1>6, <1>7, <1>8 DEF Sound, F

\* Build j goes on as b, which is the build it was; what becomes of stores and excuses
\* speaks of its own key only.
LEMMA ChangedSound ==
  ASSUME NEW J, NEW E, NEW v, NEW D, NEW Q, NEW X, Sound(J, E, v, D, Q, X), NEW j \in Ids, J[j].st # "free",
         NEW b \in Builds, b.st # "free", b.key = J[j].key, b.own = J[j].own, b.base = J[j].base,
         J[j].st = "done" => b.st = "done" /\ b.seen = J[j].seen, J[j].st = "failed" => b.st = "failed",
         J[j].st = "new" => b.st = "new" \/ (b.st = "running" /\ (b.own =>
           (IF b.loads THEN b.stamp ELSE b.seen) >= v[b.key])),
         J[j].st = "running" => b.loads = J[j].loads /\ b.seen = J[j].seen /\ (b.st = "running" => b.stamp = J[j].stamp),
         b.st = "done" \/ b.deserted \/ (J[j].st # "done" /\ ~J[j].deserted),
         NEW B, B \in [Keys -> Stores], NEW Y \in Excuses,
         Y.outlived = X.outlived, Y.adopted = X.adopted, X.late \subseteq Y.late, X.elsewhere \subseteq Y.elsewhere,
         \A k \in Keys \ {b.key} : B[k] = D[k],
         b.own /\ E.entry[b.key] # j => Overtaken(Y, b.key) \/ B = D,
         ~b.own => B = D,
         E.entry[b.key] = j => StoreAt([J EXCEPT ![j] = b], E, B, Y, b.key),
         b.own /\ b.st = "done" /\ J[j].st = "running" =>
           b.seen >= (IF b.loads THEN J[j].stamp ELSE b.seen) \/ Overtaken(Y, b.key)
  PROVE  Sound([J EXCEPT ![j] = b], E, v, B, Q, Y)
<1> DEFINE N == [J EXCEPT ![j] = b]
<1> USE KeyFacts
<1>0. Types(J, E, v, D, Q, X) /\ J \in [Ids -> Builds] /\ Refers(J, E, v, Q) /\ Order(E) /\ Judges(J, E, D, Q, X)
  BY DEF Sound, Types
<1>1. N \in [Ids -> Builds] /\ N[j] = b /\ \A i \in Ids \ {j} : N[i] = J[i]
  BY <1>0
<1>t. /\ \A k \in Keys : E.entry[k] \in Ids \cup {None}
      /\ \A s \in Requests : Q[s].job \in Ids \cup {None} /\ Q[s].cached \in Ids \cup {None}
      /\ \A i \in Ids : J[i].base \in Ids \cup {None}
      /\ \A s \in Requests : Q[s].since \in Nat
      /\ \A k \in Keys : v[k] \in Nat
  BY <1>0 DEF Types, Tables, Requested, Builds
<1> HIDE DEF N
<1>2. \A i \in Ids : /\ N[i].key = J[i].key /\ N[i].own = J[i].own /\ N[i].base = J[i].base
                     /\ N[i].st # "free" <=> J[i].st # "free"
                     /\ J[i].st = "done" => N[i].st = "done" /\ N[i].seen = J[i].seen
  BY <1>1
<1>3. Types(N, E, v, B, Q, Y)
  BY <1>0, <1>1 DEF Types
<1>4. Refers(N, E, v, Q)
  <2>1. ASSUME NEW i \in Ids PROVE BuildAt(N, i)
    <3>1. BuildAt(J, i)
      BY <1>0 DEF Refers
    <3>2. J[i].base \in Ids \cup {None}
      BY <1>t
    <3> QED BY <3>1, <3>2, <1>2 DEF BuildAt
  <2>2. \A k \in Keys : EntryAt(N, E, k)
    BY <1>0, <1>2, <1>t DEF Refers, EntryAt
  <2>3. ASSUME NEW s \in Requests PROVE RequestAt(N, v, Q[s])
    <3>1. RequestAt(J, v, Q[s])
      BY <1>0 DEF Refers
    <3> QED BY <3>1, <1>2, <1>t DEF RequestAt
  <2> QED BY <2>1, <2>2, <2>3 DEF Refers
<1>5. Excepted(Y) \/ Fits(N, E)
  <2>1. \A l \in Lanes : E.bases[l] # None => E.entry[l] \in Ids
    BY <1>0, <1>t DEF Order
  <2> QED BY <2>1, <1>2 DEF Sound, Excepted, Fits, Overlaid
<1>6. Awaits(N, E, Q)
  <2>1. ASSUME NEW k \in Keys, E.entry[k] # None, N[E.entry[k]].st # "done"
        PROVE  N[E.entry[k]].deserted \/ \E s \in Requests : Q[s].job = E.entry[k]
    <3>1. Awaits(J, E, Q) /\ E.entry[k] \in Ids
      BY <2>1, <1>t DEF Sound
    <3>2. CASE E.entry[k] # j
      BY <3>1, <3>2, <2>1, <1>1 DEF Awaits
    <3>3. CASE E.entry[k] = j
      BY <3>1, <3>3, <2>1, <1>1 DEF Awaits
    <3> QED BY <3>2, <3>3
  <2> QED BY <2>1 DEF Awaits
<1>7. Judges(N, E, B, Q, Y)
  <2>0. \A k : Overtaken(X, k) => Overtaken(Y, k)
    BY DEF Overtaken
  <2>1. ASSUME NEW k \in Keys PROVE StoreAt(N, E, B, Y, k)
    <3>1. StoreAt(J, E, D, X, k) /\ EntryAt(J, E, k)
      BY <1>0 DEF Judges, Refers
    <3>2. CASE E.entry[k] = j
      <4>1. b.key = k
        BY <3>1, <3>2 DEF EntryAt
      <4> QED BY <4>1, <3>2 DEF N
    <3>3. CASE E.entry[k] # j
      <4>1. E.entry[k] # None => N[E.entry[k]] = J[E.entry[k]]
        BY <3>3, <1>1, <1>t
      <4>2. CASE k # b.key
        BY <3>1, <4>1, <4>2, <2>0 DEF StoreAt
      <4>3. CASE k = b.key
        BY <3>1, <3>3, <4>1, <4>3, <2>0 DEF StoreAt
      <4> QED BY <4>2, <4>3
    <3> QED BY <3>2, <3>3
  <2>2. ASSUME NEW s \in Requests PROVE VerdictAt(N, E, Y, Q[s]) /\ FreshAt(N, Y, Q[s])
    <3>1. VerdictAt(J, E, X, Q[s]) /\ FreshAt(J, X, Q[s]) /\ RequestAt(J, v, Q[s])
      BY <1>0 DEF Judges, Refers
    <3>2. VerdictAt(N, E, Y, Q[s])
      <4>1. Q[s].at = "checked" => Q[s].cached \in Ids /\ J[Q[s].cached].st = "done"
        BY <3>1, <1>t DEF RequestAt
      <4> QED BY <3>1, <4>1, <1>2, <2>0 DEF VerdictAt
    <3>3. FreshAt(N, Y, Q[s])
      <4> SUFFICES ASSUME Q[s].at = "wait", Q[s].fresh PROVE FreshAt(N, Y, Q[s])
        BY DEF FreshAt
      <4>1. Q[s].job \in Ids /\ J[Q[s].job].key = Q[s].key /\ Q[s].since <= v[Q[s].key] /\ Q[s].key \in Keys
        BY <3>1, <1>t DEF RequestAt
      <4>2. CASE Q[s].job # j
        BY <3>1, <4>1, <4>2, <1>1, <2>0 DEF FreshAt
      <4>3. CASE Q[s].job = j
        <5>1. N[Q[s].job] = b /\ b.key = Q[s].key /\ b.own
          BY <3>1, <4>1, <4>3, <1>1 DEF FreshAt
        <5>2. J[j].stamp \in Nat /\ b.stamp \in Nat /\ b.seen \in Nat /\ Q[s].since \in Nat /\ v[b.key] \in Nat
          BY <1>0, <1>t, <4>1, <5>1 DEF Builds
        <5>3. CASE J[j].st = "new"
          BY <4>1, <5>1, <5>2, <5>3 DEF FreshAt
        <5>4. CASE J[j].st = "running"
          BY <3>1, <4>1, <4>3, <5>1, <5>2, <5>4, <2>0 DEF FreshAt
        <5>5. CASE J[j].st = "done"
          BY <3>1, <4>1, <4>3, <5>1, <5>2, <5>5, <2>0 DEF FreshAt
        <5>6. CASE J[j].st = "failed"
          BY <5>1, <5>6 DEF FreshAt
        <5> QED BY <5>3, <5>4, <5>5, <5>6, <1>0 DEF Builds
      <4> QED BY <4>2, <4>3
    <3> QED BY <3>2, <3>3
  <2> QED BY <2>1, <2>2 DEF Judges
<1> QED BY <1>0, <1>3, <1>4, <1>5, <1>6, <1>7 DEF Sound, N

\* A request that awaits no build goes on.
LEMMA AskedSound ==
  ASSUME NEW J, NEW E, NEW v, NEW D, NEW Q, NEW X, Sound(J, E, v, D, Q, X), NEW r \in Requests,
         Q[r].job = None, NEW q \in Requested,
         RequestAt(J, v, q), VerdictAt(J, E, X, q), FreshAt(J, X, q)
  PROVE  Sound(J, E, v, D, [Q EXCEPT ![r] = q], X)
<1> DEFINE P == [Q EXCEPT ![r] = q]
<1> USE KeyFacts
<1>0. Q \in [Requests -> Requested]
  BY DEF Sound, Types
<1>1. P \in [Requests -> Requested] /\ P[r] = q /\ \A s \in Requests \ {r} : P[s] = Q[s]
  BY <1>0
<1> HIDE DEF P
<1>2. Types(J, E, v, D, P, X)
  BY <1>1 DEF Sound, Types
<1>3. Refers(J, E, v, P)
  BY <1>1 DEF Sound, Refers
<1>4. Awaits(J, E, P)
  BY <1>1 DEF Sound, Awaits
<1>5. Judges(J, E, D, P, X)
  BY <1>1 DEF Sound, Judges
<1> QED BY <1>2, <1>3, <1>4, <1>5 DEF Sound, P

\* Trees are edited.
LEMMA EditedSound ==
  ASSUME NEW J, NEW E, NEW v, NEW D, NEW Q, NEW X, Sound(J, E, v, D, Q, X),
         NEW w \in [Keys -> Nat], \A k \in Keys : v[k] <= w[k]
  PROVE  Sound(J, E, w, D, Q, X)
<1>1. v \in [Keys -> Nat] /\ Q \in [Requests -> Requested]
  BY DEF Sound, Types
<1>2. Types(J, E, w, D, Q, X)
  BY DEF Sound, Types
<1>3. Refers(J, E, w, Q)
  <2>1. ASSUME NEW s \in Requests PROVE RequestAt(J, w, Q[s])
    <3>1. RequestAt(J, v, Q[s]) /\ Q[s].since \in Nat
      BY <1>1 DEF Sound, Refers, Requested
    <3>2. Q[s].at # "idle" => v[Q[s].key] \in Nat /\ w[Q[s].key] \in Nat /\ v[Q[s].key] <= w[Q[s].key]
      BY <1>1, <3>1 DEF RequestAt
    <3> QED BY <3>1, <3>2 DEF RequestAt
  <2> QED BY <2>1 DEF Sound, Refers
<1> QED BY <1>2, <1>3 DEF Sound

\* More is excused, and the stores of what is may change.
LEMMA ExcusedSound ==
  ASSUME NEW J, NEW E, NEW v, NEW D, NEW Q, NEW X, Sound(J, E, v, D, Q, X),
         NEW Y \in Excuses, Excepted(X) => Excepted(Y), X.late \subseteq Y.late, X.elsewhere \subseteq Y.elsewhere,
         NEW B \in [Keys -> Stores], \A k \in Keys : B[k] = D[k] \/ Overtaken(Y, k)
  PROVE  Sound(J, E, v, B, Q, Y)
<1>1. \A k : Overtaken(X, k) => Overtaken(Y, k)
  BY DEF Overtaken
<1>2. Types(J, E, v, B, Q, Y)
  BY DEF Sound, Types
<1>3. Judges(J, E, B, Q, Y)
  <2>1. ASSUME NEW k \in Keys PROVE StoreAt(J, E, B, Y, k)
    <3>1. StoreAt(J, E, D, X, k)
      BY DEF Sound, Judges
    <3> QED BY <3>1, <1>1 DEF StoreAt
  <2>2. ASSUME NEW s \in Requests PROVE VerdictAt(J, E, Y, Q[s]) /\ FreshAt(J, Y, Q[s])
    <3>1. VerdictAt(J, E, X, Q[s]) /\ FreshAt(J, X, Q[s])
      BY DEF Sound, Judges
    <3> QED BY <3>1, <1>1 DEF VerdictAt, FreshAt
  <2> QED BY <2>1, <2>2 DEF Judges
<1> QED BY <1>2, <1>3 DEF Sound

\* What a step is done with is left to the garbage collector: nothing refers to it.
LEMMA KeptSound ==
  ASSUME NEW js, NEW E, NEW v, NEW D, NEW Q, NEW X, Sound(js, E, v, D, Q, X),
         jobs' = Kept(js), SetTable(E), version' = v, disk' = D, req' = Q, excuse' = X
  PROVE  Inv'
<1> DEFINE J == jobs'
<1> USE KeyFacts
<1>0. /\ Types(js, E, v, D, Q, X) /\ Refers(js, E, v, Q) /\ Order(E) /\ Awaits(js, E, Q) /\ Judges(js, E, D, Q, X)
      /\ js \in [Ids -> Builds] /\ E \in Tables /\ Q \in [Requests -> Requested]
  BY DEF Sound, Types
<1>1. entry' = E.entry /\ entry' \in [Keys -> Ids \cup {None}] /\ req' \in [Requests -> Requested]
  BY <1>0 DEF SetTable, Tables
<1>2. Table' = E
  BY <1>0, SetTableIs
<1>3. /\ J \in [Ids -> Builds]
      /\ \A j \in Ids : J[j] = js[j] \/ J[j] = NoJob
      /\ \A j \in Ids : j \in {entry'[k] : k \in Keys} => J[j] = js[j]
      /\ \A r \in Requests : req'[r].job # None => J[req'[r].job] = js[req'[r].job]
      /\ \A r \in Requests : req'[r].cached # None => J[req'[r].cached] = js[req'[r].cached]
      /\ \A j \in Ids : J[j].st # "free" =>
           \/ js[j].base # None => J[js[j].base] = js[js[j].base]
           \/ \E i \in Ids : js[i].base = j
  BY <1>0, <1>1, KeptDoes
<1> HIDE DEF J
<1>4. \A k \in Keys : E.entry[k] # None => J[E.entry[k]] = js[E.entry[k]]
  BY <1>1, <1>3
<1>5. \A r \in Requests : /\ Q[r].job # None => J[Q[r].job] = js[Q[r].job]
                          /\ Q[r].cached # None => J[Q[r].cached] = js[Q[r].cached]
  BY <1>3
<1>6. Types(J, E, v, D, Q, X)
  BY <1>0, <1>3 DEF Types
<1>7. Refers(J, E, v, Q)
  <2>1. ASSUME NEW j \in Ids PROVE BuildAt(J, j)
    <3>1. NoJob.st = "free" /\ NoJob.base = None
      BY DEF NoJob, Job
    <3>2. CASE J[j] = NoJob
      BY <3>1, <3>2 DEF BuildAt
    <3>3. CASE J[j] # NoJob /\ js[j].st # "free"
      <4>1. J[j] = js[j] /\ BuildAt(js, j)
        BY <3>3, <1>0, <1>3 DEF Refers
      <4>2. CASE js[j].base # None => J[js[j].base] = js[js[j].base]
        BY <4>1, <4>2 DEF BuildAt
      <4>3. ASSUME NEW i \in Ids, js[i].base = j PROVE js[j].own
        <5>1. BuildAt(js, i)
          BY <1>0 DEF Refers
        <5> QED BY <5>1, <4>3 DEF BuildAt
      <4>4. CASE \E i \in Ids : js[i].base = j
        BY <4>1, <4>3, <4>4 DEF BuildAt
      <4> QED BY <3>3, <4>1, <4>2, <4>4, <1>3
    <3>4. CASE J[j] # NoJob /\ js[j].st = "free"
      <4>1. J[j] = js[j] /\ BuildAt(js, j)
        BY <3>4, <1>0, <1>3 DEF Refers
      <4> QED BY <3>4, <4>1 DEF BuildAt
    <3> QED BY <3>2, <3>3, <3>4
  <2>2. \A k \in Keys : EntryAt(J, E, k)
    BY <1>0, <1>4 DEF Refers, EntryAt
  <2>3. \A r \in Requests : RequestAt(J, v, Q[r])
    BY <1>0, <1>5 DEF Refers, RequestAt
  <2> QED BY <2>1, <2>2, <2>3 DEF Refers
<1>8. Excepted(X) \/ Fits(J, E)
  <2>1. \A l \in Lanes : E.bases[l] # None => J[E.entry[l]] = js[E.entry[l]]
    BY <1>0, <1>4 DEF Order
  <2> QED BY <2>1 DEF Sound, Fits, Overlaid
<1>9. Awaits(J, E, Q)
  BY <1>0, <1>4 DEF Awaits
<1>10. Judges(J, E, D, Q, X)
  <2>1. \A k \in Keys : StoreAt(J, E, D, X, k)
    BY <1>0, <1>4 DEF Judges, StoreAt
  <2>2. ASSUME NEW s \in Requests PROVE VerdictAt(J, E, X, Q[s]) /\ FreshAt(J, X, Q[s])
    <3>1. VerdictAt(js, E, X, Q[s]) /\ FreshAt(js, X, Q[s]) /\ RequestAt(js, v, Q[s])
      BY <1>0 DEF Judges, Refers
    <3>2. (Q[s].at = "checked" => Q[s].cached # None) /\ (Q[s].at = "wait" => Q[s].job # None)
      BY <3>1 DEF RequestAt
    <3> QED BY <3>1, <3>2, <1>5 DEF VerdictAt, FreshAt
  <2> QED BY <2>1, <2>2 DEF Judges
<1>11. Sound(J, E, v, D, Q, X)
  BY <1>0, <1>6, <1>7, <1>8, <1>9, <1>10 DEF Sound
<1> QED BY <1>2, <1>11 DEF Inv, J

-----------------------------------------------------------------------------
(* The steps.  Each is a chain of the changes above. *)

LEMMA Now ==
  ASSUME Inv
  PROVE  /\ Types(jobs, Table, version, disk, req, excuse) /\ Refers(jobs, Table, version, req)
         /\ Order(Table) /\ Judges(jobs, Table, disk, req, excuse)
         /\ jobs \in [Ids -> Builds] /\ Table \in Tables /\ version \in [Keys -> Nat] /\ disk \in [Keys -> Stores]
         /\ req \in [Requests -> Requested] /\ excuse \in Excuses
         /\ Table.entry = entry /\ Table.older = older /\ Table.bases = laneBases /\ Table.cool = cooling
         /\ entry \in [Keys -> Ids \cup {None}] /\ laneBases \in [Lanes -> Bases \cup {None}]
  BY DEF Inv, Sound, Types, Table, Tables

LEMMA FreeNumber == ASSUME Room PROVE NewId \in Ids /\ jobs[NewId].st = "free"
<1>1. PICK j \in Ids : jobs[j].st = "free"
  BY DEF Room
<1> DEFINE free == {i \in Ids : jobs[i].st = "free"}
<1>2. NewId = CHOOSE i \in Ids : jobs[i].st = "free"
  BY DEF NewId
<1> QED BY <1>1, <1>2

LEMMA AskStep == ASSUME Inv, NEW r \in Requests, NEW k \in Keys, Ask(r, k) PROVE Inv'
<1> DEFINE viaBase == k \in Lanes /\ Overlayable(BaseOf[k])
           q == [Idle EXCEPT !.at = "exact", !.key = IF viaBase THEN BaseOf[k] ELSE k,
                             !.lane = IF viaBase THEN k ELSE None,
                             !.since = version[IF viaBase THEN BaseOf[k] ELSE k]]
           Y == [excuse EXCEPT !.asked = @ + 1]
<1> USE KeyFacts
<1>1. /\ req' = [req EXCEPT ![r] = q] /\ excuse' = Y /\ req[r].at = "idle"
      /\ UNCHANGED <<version, disk, jobs, entry, older, laneBases, cooling>>
  BY DEF Ask
<1>2. /\ q.at = "exact" /\ q.job = None /\ q.cached = None /\ q.since = version[q.key] /\ q.key \in Keys
      /\ q.lane # None => q.lane \in Lanes /\ q.key = BaseOf[q.lane]
      /\ q \in Requested
  BY Now DEF Idle, Requested, Places
<1> HIDE DEF q
<1>3. RequestAt(jobs, version, q) /\ VerdictAt(jobs, Table, excuse, q) /\ FreshAt(jobs, excuse, q)
  BY <1>2, Now DEF RequestAt, VerdictAt, FreshAt
<1>4. req[r].job = None
  BY <1>1, Now DEF Refers, RequestAt
<1>5. Sound(jobs, Table, version, disk, [req EXCEPT ![r] = q], excuse)
  BY <1>2, <1>3, <1>4, AskedSound DEF Inv
<1>6. Y \in Excuses /\ Y.late = excuse.late /\ Y.elsewhere = excuse.elsewhere /\ (Excepted(excuse) => Excepted(Y))
  BY Now DEF Excuses, Excepted
<1> HIDE DEF Y
<1>7. Sound(jobs, Table, version, disk, [req EXCEPT ![r] = q], Y)
  BY <1>5, <1>6, Now, ExcusedSound
<1>8. Table' = Table
  BY <1>1 DEF Table
<1> QED BY <1>1, <1>7, <1>8 DEF Inv

\* The build of a key is joined, or one is started where there is room.
LEMMA InstallStep ==
  ASSUME Inv, NEW r \in Requests, NEW E, Sound(jobs, E, version, disk, req, excuse),
         req[r].at \in {"exact", "checked"},
         req[r].at = "checked" /\ E.entry[req[r].key] = req[r].cached => req[r].valid,
         Install(r, E), UNCHANGED <<version, disk, excuse>>
  PROVE  Inv'
<1> DEFINE k == req[r].key
<1> USE KeyFacts
<1>1. RequestAt(jobs, version, req[r]) /\ k \in Keys /\ E \in Tables /\ Order(E)
  BY Now DEF Sound, Types, Refers, RequestAt
<1>2. req[r] \in Requested /\ req \in [Requests -> Requested]
  BY Now
<1>3. CASE E.entry[k] # None
  <2> DEFINE id == E.entry[k]
             same == id = req[r].cached
             q == [req[r] EXCEPT !.at = "wait", !.job = id, !.cached = None, !.fresh = same]
             P == [req EXCEPT ![r] = q]
  <2>1. SetTable(Touched(E, k)) /\ req' = P /\ jobs' = Kept(jobs)
    <3>1. req' = [req EXCEPT ![r].at = "wait", ![r].job = id, ![r].cached = None, ![r].fresh = id = req[r].cached]
      BY <1>3 DEF Install
    <3>2. req' = P
      BY <3>1, <1>2
    <3> QED BY <3>2, <1>3 DEF Install
  <2>2. id \in Ids
    BY <1>1, <1>3 DEF Tables
  <2> HIDE DEF id
  <2>3. /\ Goes(req, P, r, "wait", id) /\ P[r].key = k /\ P[r].lane = req[r].lane /\ P[r].since = req[r].since
        /\ P[r].fresh => id = req[r].cached
    <3>1. q \in Requested /\ q.at = "wait" /\ q.job = id /\ q.cached = None /\ q.key = k /\ q.lane = req[r].lane
          /\ q.since = req[r].since /\ q.fresh = same
      <4>1. same \in BOOLEAN
        OBVIOUS
      <4> HIDE DEF same
      <4> QED BY <4>1, <2>2, <1>2 DEF Requested, Places
    <3> HIDE DEF q
    <3> QED BY <3>1, <1>2 DEF Goes
  <2> HIDE DEF P
  <2>4. Sound(jobs, E, version, disk, P, excuse)
    BY <2>3, <1>3, JoinedSound DEF id
  <2>5. Sound(jobs, Touched(E, k), version, disk, P, excuse)
    BY <1>1, <1>3, <2>4, TouchedSound DEF InTable
  <2> QED BY <2>1, <2>5, KeptSound
<1>4. CASE E.entry[k] = None
  <2> DEFINE q == [req[r] EXCEPT !.at = "wait", !.job = NewId, !.cached = None, !.fresh = TRUE]
             P == [req EXCEPT ![r] = q]
             b == Job(k, TRUE, None, "new")
             N == [jobs EXCEPT ![NewId] = b]
             G == RoomFor(E)
             F == [G EXCEPT !.entry[k] = NewId]
  <2>1. Room /\ SetTable(Touched(F, k)) /\ req' = P /\ jobs' = Kept(N)
    <3>1. req' = [req EXCEPT ![r].at = "wait", ![r].job = NewId, ![r].cached = None, ![r].fresh = TRUE]
      BY <1>4 DEF Install
    <3>2. req' = P
      BY <3>1, <1>2
    <3> QED BY <3>2, <1>4 DEF Install
  <2>2. NewId \in Ids /\ jobs[NewId].st = "free"
    BY <2>1, FreeNumber
  <2>3. Sound(jobs, G, version, disk, req, excuse)
    <3> DEFINE full == FullKeys(E)
               gone == {m \in full : Cardinality(E.older[m] \cap full) + Slots <= Cardinality(full)}
    <3>1. G = Evicted(E, gone)
      BY DEF RoomFor
    <3>2. gone \in SUBSET Keys
      BY DEF FullKeys, InTable
    <3> HIDE DEF gone, G
    <3> QED BY <3>1, <3>2, EvictedSound
  <2>4. G.entry[k] = None
    <3> DEFINE full == FullKeys(E)
               gone == {m \in full : Cardinality(E.older[m] \cap full) + Slots <= Cardinality(full)}
    <3>1. G = Evicted(E, gone)
      BY DEF RoomFor
    <3>2. gone \in SUBSET Keys
      BY DEF FullKeys, InTable
    <3>3. ASSUME NEW m \in Keys PROVE Evicted(E, gone).entry[m] = E.entry[m] \/ Evicted(E, gone).entry[m] = None
      <4> HIDE DEF gone
      <4> QED BY <1>1, <3>2, EvictedDoes
    <3> HIDE DEF gone, G
    <3> QED BY <3>1, <3>3, <1>1, <1>4
  <2>5. Excepted(excuse) \/ Cardinality(FullKeys(G)) < Slots
    <3>1. Fits(jobs, E) => Cardinality(FullKeys(E)) <= Slots
      BY DEF Fits
    <3> QED BY <1>1, <3>1, RoomForDoes DEF Sound
  <2>6. b \in Builds /\ b.st = "new" /\ b.key = k /\ b.own /\ b.base = None
    BY <1>1 DEF Job, Builds
  <2>7. N[NewId] = b
    BY <2>2, Now
  <2> HIDE DEF b, G, N
  <2>8. Sound(N, G, version, disk, req, excuse)
    BY <1>1, <2>2, <2>3, <2>6, NewBuild DEF N
  <2>9. Goes(req, P, r, "wait", NewId) /\ P[r].key = k /\ P[r].lane = req[r].lane /\ P[r].since = req[r].since
    <3>1. q \in Requested /\ q.at = "wait" /\ q.job = NewId /\ q.cached = None /\ q.key = k /\ q.lane = req[r].lane
          /\ q.since = req[r].since
      BY <2>2, <1>2 DEF Requested, Places
    <3> HIDE DEF q
    <3> QED BY <3>1, <1>2 DEF Goes
  <2> HIDE DEF P
  <2>10. Sound(N, F, version, disk, P, excuse) /\ k \in InTable(F)
    BY <2>2, <2>4, <2>5, <2>6, <2>7, <2>8, <2>9, EnteredSound
  <2> HIDE DEF F
  <2>11. Sound(N, Touched(F, k), version, disk, P, excuse)
    BY <2>10, TouchedSound
  <2> QED BY <2>1, <2>11, KeptSound
<1> QED BY <1>3, <1>4

LEMMA ExactStep == ASSUME Inv, NEW r \in Requests, Exact(r) PROVE Inv'
<1> DEFINE k == req[r].key
<1> USE KeyFacts
<1>1. req[r].at = "exact" /\ UNCHANGED <<version, disk, excuse>>
  BY DEF Exact
<1>2. RequestAt(jobs, version, req[r]) /\ k \in Keys /\ req[r] \in Requested
  BY <1>1, Now DEF Refers, RequestAt
<1>3. CASE Checks(k)
  <2> DEFINE q == [req[r] EXCEPT !.at = "check", !.cached = entry[k]]
  <2>1. req' = [req EXCEPT ![r] = q] /\ UNCHANGED <<jobs, entry, older, laneBases, cooling>>
    BY <1>3, Now DEF Exact
  <2>2. EntryAt(jobs, Table, k) /\ entry[k] \in Ids /\ jobs[entry[k]].st = "done" /\ BuildAt(jobs, entry[k])
    BY <1>2, <1>3, Now DEF Checks, Ready, Refers
  <2>3. jobs[entry[k]].key = k /\ jobs[entry[k]].own
    BY <1>3, <2>2, Now DEF EntryAt, Checks, BuildAt
  <2>4. /\ q \in Requested /\ q.at = "check" /\ q.cached = entry[k] /\ q.key = k /\ q.lane = req[r].lane
        /\ q.job = req[r].job /\ q.since = req[r].since
    BY <1>2, <2>2 DEF Requested, Places
  <2> HIDE DEF q
  <2>5. RequestAt(jobs, version, q) /\ VerdictAt(jobs, Table, excuse, q) /\ FreshAt(jobs, excuse, q) /\ req[r].job = None
    BY <1>1, <1>2, <2>2, <2>3, <2>4 DEF RequestAt, VerdictAt, FreshAt
  <2>6. Sound(jobs, Table, version, disk, [req EXCEPT ![r] = q], excuse)
    BY <2>4, <2>5, AskedSound DEF Inv
  <2>7. Table' = Table
    BY <2>1 DEF Table
  <2> QED BY <1>1, <2>1, <2>6, <2>7 DEF Inv
<1>4. CASE ~Checks(k)
  <2>1. Install(r, Table)
    BY <1>4 DEF Exact
  <2> QED BY <1>1, <2>1, InstallStep DEF Inv
<1> QED BY <1>3, <1>4

LEMMA ValidateStep == ASSUME Inv, NEW r \in Requests, Validate(r) PROVE Inv'
<1> DEFINE k == req[r].key
           q == [req[r] EXCEPT !.at = "checked", !.valid = Valid(k)]
<1> USE KeyFacts
<1>1. /\ req[r].at = "check" /\ req' = [req EXCEPT ![r] = q]
      /\ UNCHANGED <<version, disk, jobs, entry, older, laneBases, cooling, excuse>>
  BY Now DEF Validate
<1>2. RequestAt(jobs, version, req[r]) /\ k \in Keys /\ req[r] \in Requested
  BY <1>1, Now DEF Refers, RequestAt
<1>3. /\ q \in Requested /\ q.at = "checked" /\ q.cached = req[r].cached /\ q.key = k /\ q.lane = req[r].lane
      /\ q.job = req[r].job /\ q.since = req[r].since /\ q.valid = Valid(k)
  BY <1>2 DEF Requested, Places, Valid
<1> HIDE DEF q
<1>4. RequestAt(jobs, version, q) /\ FreshAt(jobs, excuse, q) /\ req[r].job = None
  BY <1>1, <1>2, <1>3 DEF RequestAt, FreshAt
<1>5. VerdictAt(jobs, Table, excuse, q)
  <2> SUFFICES ASSUME Valid(k), entry[k] = q.cached, ~Overtaken(excuse, k)
               PROVE  jobs[q.cached].seen >= q.since
    BY <1>3, Now DEF VerdictAt
  <2>1. q.cached \in Ids /\ jobs[q.cached].st = "done" /\ jobs[q.cached].own
    BY <1>1, <1>2, <1>3, Now DEF RequestAt, Requested
  <2>2. StoreAt(jobs, Table, disk, excuse, k)
    BY <1>2, Now DEF Judges
  <2>3. disk[k].there /\ version[k] <= disk[k].stamp /\ q.since <= version[k]
    BY <1>1, <1>2, <1>3 DEF Valid, RequestAt
  <2>4. disk[k].stamp <= jobs[q.cached].seen
    BY <2>1, <2>2, <2>3, Now DEF StoreAt
  <2>5. disk[k].stamp \in Nat /\ version[k] \in Nat /\ q.since \in Nat /\ jobs[q.cached].seen \in Nat
    BY <1>2, <1>3, <2>1, Now DEF Stores, Requested, Builds
  <2> QED BY <2>3, <2>4, <2>5
<1>6. Sound(jobs, Table, version, disk, [req EXCEPT ![r] = q], excuse)
  BY <1>3, <1>4, <1>5, AskedSound DEF Inv
<1>7. Table' = Table
  BY <1>1 DEF Table
<1> QED BY <1>1, <1>6, <1>7 DEF Inv

LEMMA ResumeStep == ASSUME Inv, NEW r \in Requests, Resume(r) PROVE Inv'
<1> DEFINE k == req[r].key
<1> USE KeyFacts
<1>1. req[r].at = "checked" /\ UNCHANGED <<version, disk, excuse>> /\ k \in Keys /\ req[r].cached # None
  BY Now DEF Resume, Refers, RequestAt
<1>2. CASE ~req[r].valid /\ entry[k] = req[r].cached
  <2> DEFINE E == Evicted(Table, {k})
  <2>1. Install(r, E)
    BY <1>2 DEF Resume
  <2>2. Sound(jobs, E, version, disk, req, excuse)
    BY <1>1, EvictedSound DEF Inv
  <2>3. E.entry[k] = None
    <3> HIDE DEF k
    <3>1. \A m \in {k} : Evicted(Table, {k}).entry[m] = None
      BY <1>1, Now, EvictedDoes
    <3> QED BY <3>1
  <2> HIDE DEF E
  <2> QED BY <1>1, <2>1, <2>2, <2>3, InstallStep
<1>3. CASE ~(~req[r].valid /\ entry[k] = req[r].cached)
  <2>1. Install(r, Table)
    BY <1>3 DEF Resume
  <2> QED BY <1>1, <1>3, <2>1, Now, InstallStep DEF Inv
<1> QED BY <1>2, <1>3

LEMMA OverlayStep == ASSUME Inv, NEW r \in Requests, Overlay(r) PROVE Inv'
<1> DEFINE l == req[r].lane
           base == req[r].job
           starts == entry[l] = None \/ Replans(l, base)
           job == IF starts THEN NewId ELSE entry[l]
           b == Job(l, FALSE, base, "new")
           N == IF starts THEN [jobs EXCEPT ![job] = b] ELSE jobs
           F == [Table EXCEPT !.entry[l] = job, !.bases[l] = BaseOf[l]]
           q == [req[r] EXCEPT !.at = "overlay", !.key = l, !.job = job, !.lane = None]
           Y == [excuse EXCEPT !.outlived = @ \/ entry[req[r].key] # base,
                               !.adopted = @ \/ (~starts /\ jobs[job].own)]
<1> USE KeyFacts
<1>1. /\ req[r].at = "wait" /\ l # None /\ Ready(base) /\ (starts => Room)
      /\ SetTable(Touched([Table EXCEPT !.entry[l] = job, !.bases[l] = req[r].key], l))
      /\ req' = [req EXCEPT ![r].at = "overlay", ![r].key = l, ![r].job = job, ![r].lane = None]
      /\ jobs' = Kept(N) /\ excuse' = Y /\ UNCHANGED <<version, disk>>
  BY DEF Overlay
<1>2. RequestAt(jobs, version, req[r]) /\ req[r] \in Requested /\ req \in [Requests -> Requested]
  BY Now DEF Refers
<1>3. l \in Lanes /\ req[r].key = BaseOf[l] /\ base \in Ids /\ jobs[base].st = "done" /\ jobs[base].key = BaseOf[l]
  BY <1>1, <1>2 DEF RequestAt, Requested, Ready
<1>4. jobs[base].own
  <2>1. BuildAt(jobs, base)
    BY <1>3, Now DEF Refers
  <2> QED BY <1>3, <2>1 DEF BuildAt
<1>5. job \in Ids /\ (starts => jobs[job].st = "free")
  <2>1. ~starts => entry[l] \in Ids
    BY <1>3, Now
  <2> QED BY <1>1, <2>1, FreeNumber
<1>6. b \in Builds /\ b.st = "new" /\ b.key = l /\ ~b.own /\ b.base = base
  BY <1>3 DEF Job, Builds
<1>7. /\ SetTable(Touched(F, l))
      /\ req' = [req EXCEPT ![r] = q]
  BY <1>1, <1>2, <1>3
<1>8. q \in Requested /\ q.at = "overlay" /\ q.key = l /\ q.job = job /\ q.lane = None /\ q.cached = None
  <2>1. req[r].cached = None
    BY <1>1, <1>2 DEF RequestAt
  <2> HIDE DEF job
  <2> QED BY <1>2, <1>3, <1>5, <2>1 DEF Requested, Places
<1>9. Goes(req, [req EXCEPT ![r] = q], r, "overlay", job)
  <2> HIDE DEF q, job
  <2> QED BY <1>2, <1>8 DEF Goes
<1>10. /\ Y \in Excuses /\ Y.late = excuse.late /\ Y.elsewhere = excuse.elsewhere
       /\ Y.outlived = (excuse.outlived \/ entry[req[r].key] # base)
       /\ Y.adopted = (excuse.adopted \/ (~starts /\ jobs[job].own))
  <2> DEFINE o == excuse.outlived \/ entry[req[r].key] # base
             a == excuse.adopted \/ (~starts /\ jobs[job].own)
  <2>1. o \in BOOLEAN /\ a \in BOOLEAN /\ excuse \in Excuses
    BY Now
  <2>2. Y = [excuse EXCEPT !.outlived = o, !.adopted = a]
    OBVIOUS
  <2> HIDE DEF o, a, Y
  <2>3. Y \in Excuses /\ Y.late = excuse.late /\ Y.elsewhere = excuse.elsewhere /\ Y.outlived = o /\ Y.adopted = a
    BY <2>1, <2>2 DEF Excuses
  <2> QED BY <2>3 DEF o, a
<1>11. Sound(N, Table, version, disk, req, excuse)
  <2>1. CASE starts
    <3> HIDE DEF b, starts, job
    <3>1. Sound([jobs EXCEPT ![job] = b], Table, version, disk, req, excuse)
      BY <2>1, <1>3, <1>4, <1>5, <1>6, NewBuild DEF Inv
    <3> QED BY <2>1, <3>1
  <2>2. CASE ~starts
    BY <2>2 DEF Inv
  <2> QED BY <2>1, <2>2
<1>12. /\ starts => N[job] = b
       /\ ~starts => N[job] = jobs[job] /\ entry[l] = job
       /\ N[base].st = "done"
  <2>1. starts => base # job
    BY <1>3, <1>5
  <2> HIDE DEF b
  <2> QED BY <2>1, <1>3, <1>5, Now
<1> HIDE DEF N, Y, F, q, b
<1>13. N[job].key = l /\ (Table.entry[l] = job \/ (N[job].st = "new" /\ ~N[job].own))
  <2>1. ~starts => EntryAt(jobs, Table, l) /\ entry[l] # None
    BY <1>3, Now DEF Refers
  <2> QED BY <2>1, <1>6, <1>12, Now DEF EntryAt
<1>14. Excepted(Y) \/ (~Excepted(excuse) /\ ~N[job].own /\ N[job].base = Table.entry[BaseOf[l]])
  <2> SUFFICES ASSUME ~Excepted(Y)
               PROVE  ~Excepted(excuse) /\ ~N[job].own /\ N[job].base = Table.entry[BaseOf[l]]
    OBVIOUS
  <2>1. ~Excepted(excuse) /\ entry[BaseOf[l]] = base /\ (starts \/ ~jobs[job].own)
    BY <1>3, <1>10 DEF Excepted
  <2>2. CASE starts
    BY <2>1, <2>2, <1>6, <1>12, Now
  <2>3. CASE ~starts
    <3>1. job = entry[l] /\ entry[l] # None /\ ~jobs[entry[l]].own /\ ~Replans(l, base)
      BY <2>1, <2>3
    <3>2. CASE jobs[entry[l]].base = base
      BY <2>1, <2>3, <3>1, <3>2, <1>12, Now
    <3>3. CASE jobs[entry[l]].base # base
      <4>1. laneBases[l] = BaseOf[l] /\ BaseOf[l] # None
        BY <1>3, <3>1, Now DEF Refers, EntryAt
      <4>2. jobs[entry[l]].base = entry[BaseOf[l]]
        BY <4>1, <2>1, <1>3, Now DEF Inv, Sound, Fits, Overlaid
      <4> QED BY <4>2, <3>3, <2>1
    <3> QED BY <3>2, <3>3
  <2> QED BY <2>2, <2>3
<1>15. [req EXCEPT ![r] = q][r] = q
  BY <1>2
<1> HIDE DEF job, base, starts
<1>16. Sound(N, F, version, disk, [req EXCEPT ![r] = q], Y) /\ l \in InTable(F)
  <2> DEFINE P == [req EXCEPT ![r] = q]
  <2>1. P[r].key = l /\ P[r].lane = None /\ Goes(req, P, r, "overlay", job)
    BY <1>8, <1>9, <1>15
  <2>2. N[req[r].job].st = "done"
    BY <1>12 DEF base
  <2>3. /\ l \in Lanes /\ req[r].lane = l /\ req[r].at = "wait" /\ job \in Ids
        /\ Y \in Excuses /\ Y.late = excuse.late /\ Y.elsewhere = excuse.elsewhere
    BY <1>1, <1>3, <1>5, <1>10
  <2>4. F = Laid(Table, l, job)
    BY DEF F, Laid
  <2> HIDE DEF P, l
  <2>5. Sound(N, F, version, disk, P, Y) /\ l \in InTable(F)
    BY ONLY <1>11, <1>13, <1>14, <2>1, <2>2, <2>3, <2>4, r \in Requests, LaidSound
  <2> QED BY <2>5 DEF P
<1>17. Sound(N, Touched(F, l), version, disk, [req EXCEPT ![r] = q], Y)
  BY <1>16, TouchedSound
<1> QED BY <1>1, <1>7, <1>17, KeptSound

\* A request and an entry that refer to one build are of one key.
LEMMA OneKey ==
  ASSUME Inv, NEW r \in Requests, NEW k \in Keys, req[r].job # None, entry[k] = req[r].job
  PROVE  k = req[r].key
<1>1. EntryAt(jobs, Table, k) /\ RequestAt(jobs, version, req[r])
  BY Now DEF Refers
<1> QED BY <1>1, Now DEF EntryAt, RequestAt

LEMMA AnswerStep == ASSUME Inv, NEW r \in Requests, Answer(r) PROVE Inv'
<1>1. /\ Ready(req[r].job) /\ req' = [req EXCEPT ![r] = Idle] /\ jobs' = Kept(jobs)
      /\ UNCHANGED <<version, disk, entry, older, laneBases, cooling, excuse>>
  BY DEF Answer
<1>2. Sound(jobs, Table, version, disk, [req EXCEPT ![r] = Idle], excuse)
  <2>1. \A k \in Keys : Table.entry[k] # None /\ Table.entry[k] = req[r].job => jobs[Table.entry[k]].st = "done"
    BY <1>1 DEF Ready
  <2> QED BY <2>1, IdleSound DEF Inv
<1>3. SetTable(Table)
  BY <1>1, Now DEF SetTable
<1> QED BY <1>1, <1>2, <1>3, KeptSound

LEMMA RaiseStep == ASSUME Inv, NEW r \in Requests, Raise(r) PROVE Inv'
<1> DEFINE k == req[r].key
           E == IF entry[k] = req[r].job THEN Evicted(Table, {k}) ELSE Table
<1> USE KeyFacts
<1>1. /\ req[r].at \in {"wait", "overlay"} /\ SetTable(E) /\ req' = [req EXCEPT ![r] = Idle] /\ jobs' = Kept(jobs)
      /\ UNCHANGED <<version, disk, excuse>>
  BY DEF Raise
<1>2. k \in Keys /\ req[r].job # None
  BY <1>1, Now DEF Refers, RequestAt
<1>3. Sound(jobs, E, version, disk, req, excuse)
  BY <1>2, EvictedSound DEF Inv
<1>4. \A m \in Keys : E.entry[m] # None => E.entry[m] # req[r].job
  <2>1. CASE entry[k] = req[r].job
    <3> DEFINE F == Evicted(Table, {k})
    <3>1. F.entry[k] = None /\ \A m \in Keys : F.entry[m] = entry[m] \/ F.entry[m] = None
      <4> HIDE DEF k
      <4>1. \A m \in {k} : Evicted(Table, {k}).entry[m] = None
        BY <1>2, Now, EvictedDoes
      <4>2. \A m \in Keys : Evicted(Table, {k}).entry[m] = Table.entry[m] \/ Evicted(Table, {k}).entry[m] = None
        BY <1>2, Now, EvictedDoes
      <4> QED BY <4>1, <4>2, Now
    <3>2. E = F
      BY <2>1
    <3> HIDE DEF F, E, k
    <3>3. \A m \in Keys : entry[m] = req[r].job => m = k
      BY <1>2, OneKey DEF k
    <3> QED BY <3>1, <3>2, <3>3
  <2>2. CASE entry[k] # req[r].job
    <3>1. \A m \in Keys : entry[m] = req[r].job => m = k
      BY <1>2, OneKey
    <3> QED BY <2>2, <3>1, Now
  <2> QED BY <2>1, <2>2
<1> HIDE DEF E
<1>5. Sound(jobs, E, version, disk, [req EXCEPT ![r] = Idle], excuse)
  BY <1>3, <1>4, IdleSound
<1> QED BY <1>1, <1>5, KeptSound

\* What is counted only.
LEMMA FaultSound ==
  ASSUME Inv, Fault
  PROVE  /\ excuse' \in Excuses /\ excuse'.late = excuse.late /\ excuse'.elsewhere = excuse.elsewhere
         /\ excuse'.outlived = excuse.outlived /\ excuse'.adopted = excuse.adopted
  BY Now DEF Fault, Excuses

LEMMA CancelStep == ASSUME Inv, NEW r \in Requests, Cancel(r) PROVE Inv'
<1> DEFINE k == req[r].key
           j == req[r].job
           b == [jobs[j] EXCEPT !.deserted = TRUE]
           N == [jobs EXCEPT ![j] = b]
           E == IF req[r].at = "wait" /\ ~Live(j) THEN Evicted(Table, {k}) ELSE Table
<1> USE KeyFacts
<1>1. /\ req[r].at \in {"wait", "overlay"} /\ Fault /\ req' = [req EXCEPT ![r] = Idle]
      /\ SetTable(E) /\ jobs' = Kept(N) /\ UNCHANGED <<version, disk>>
  <2>1. jobs' = Kept([jobs EXCEPT ![j].deserted = TRUE])
    BY DEF Cancel
  <2>2. [jobs EXCEPT ![j].deserted = TRUE] = N
    OBVIOUS
  <2> QED BY <2>1, <2>2 DEF Cancel
<1>2. k \in Keys /\ j \in Ids /\ jobs[j].st # "free"
  BY <1>1, Now DEF Refers, RequestAt, Requested
<1>3. /\ b \in Builds /\ b.deserted /\ b.key = jobs[j].key /\ b.own = jobs[j].own /\ b.base = jobs[j].base
      /\ b.st = jobs[j].st /\ b.seen = jobs[j].seen /\ b.loads = jobs[j].loads /\ b.stamp = jobs[j].stamp
  <2>1. jobs[j] \in Builds
    BY <1>2, Now
  <2> QED BY <2>1 DEF Builds
<1>4. N[j] = b
  BY <1>2, Now
<1> HIDE DEF b
<1>5. Sound(N, Table, version, disk, req, excuse')
  <2>1. entry[b.key] = j => StoreAt(N, Table, disk, excuse', b.key)
    <3> SUFFICES ASSUME entry[b.key] = j PROVE StoreAt(N, Table, disk, excuse', b.key)
      OBVIOUS
    <3>1. b.key \in Keys
      BY <1>2, <1>3, Now DEF Refers, BuildAt
    <3>2. StoreAt(jobs, Table, disk, excuse, b.key)
      BY <3>1, Now DEF Judges
    <3>3. \A m : Overtaken(excuse', m) = Overtaken(excuse, m)
      BY <1>1, FaultSound DEF Overtaken
    <3>4. Table.entry[b.key] = j
      BY Now
    <3> HIDE DEF j
    <3> QED BY ONLY <3>2, <3>3, <3>4, <1>3, <1>4 DEF StoreAt
  <2>2. b.own /\ b.st = "done" /\ jobs[j].st = "running" => FALSE
    BY <1>3
  <2>3. /\ excuse' \in Excuses /\ excuse'.late = excuse.late /\ excuse'.elsewhere = excuse.elsewhere
        /\ excuse'.outlived = excuse.outlived /\ excuse'.adopted = excuse.adopted
    BY <1>1, FaultSound
  <2>4. Sound(jobs, Table, version, disk, req, excuse) /\ disk \in [Keys -> Stores] /\ Table.entry = entry
    BY Now DEF Inv
  <2>5. b.deserted
    BY <1>3
  <2> HIDE DEF j
  <2>6. jobs[j].st = "new" => b.st = "new"
    BY <1>3
  <2>7. StoreAt(N, Table, disk, excuse', b.key) \/ Table.entry[b.key] # j
    BY <2>1, <2>4
  <2> QED BY ONLY <1>2, <1>3, <2>2, <2>3, <2>4, <2>5, <2>6, <2>7, ChangedSound DEF N
<1>6. Sound(N, E, version, disk, req, excuse')
  BY <1>2, <1>5, EvictedSound
<1>7. Sound(N, E, version, disk, [req EXCEPT ![r] = Idle], excuse')
  <2> HIDE DEF E, N
  <2>1. \A m \in Keys : E.entry[m] # None /\ E.entry[m] = req[r].job => N[E.entry[m]].deserted
    BY <1>3, <1>4
  <2> QED BY <1>6, <2>1, IdleSound
<1> QED BY <1>1, <1>7, KeptSound

LEMMA BeginStep == ASSUME Inv, NEW j \in Ids, Begin(j) PROVE Inv'
<1> DEFINE k == jobs[j].key
           loads == jobs[j].own /\ Valid(k)
           seen == IF ~jobs[j].own THEN 0 ELSE IF loads THEN disk[k].seen ELSE version[k]
           stamp == IF loads THEN disk[k].stamp ELSE 0
           b == [jobs[j] EXCEPT !.st = "running", !.loads = loads, !.seen = seen, !.stamp = stamp]
           N == [jobs EXCEPT ![j] = b]
<1> USE KeyFacts
<1>1. /\ jobs[j].st = "new" /\ jobs' = N
      /\ UNCHANGED <<version, disk, entry, older, laneBases, cooling, req, excuse>>
  <2>1. jobs' = [jobs EXCEPT ![j].st = "running", ![j].loads = loads, ![j].seen = seen, ![j].stamp = stamp]
    BY DEF Begin
  <2>2. jobs' = N
    BY <2>1, Now
  <2> QED BY <2>2 DEF Begin
<1>2. jobs[j] \in Builds /\ BuildAt(jobs, j) /\ k \in Keys
  BY <1>1, Now DEF Refers, BuildAt
<1>3. disk[k].seen \in Nat /\ disk[k].stamp \in Nat /\ version[k] \in Nat
  BY <1>2, Now DEF Stores
<1>4. loads \in BOOLEAN /\ seen \in Nat /\ stamp \in Nat
  <2>1. loads \in BOOLEAN
    BY <1>2 DEF Builds, Valid
  <2> HIDE DEF loads, k
  <2> QED BY <1>3, <2>1
<1>5. /\ loads => disk[k].there /\ version[k] <= disk[k].stamp /\ seen = disk[k].seen /\ stamp = disk[k].stamp
      /\ ~loads /\ jobs[j].own => seen = version[k]
  BY DEF Valid
<1> HIDE DEF loads, seen, stamp
<1>6. /\ b \in Builds /\ b.st = "running" /\ b.loads = loads /\ b.seen = seen /\ b.stamp = stamp
      /\ b.key = k /\ b.own = jobs[j].own /\ b.base = jobs[j].base /\ b.deserted = jobs[j].deserted
  BY <1>2, <1>4 DEF Builds
<1>7. N[j] = b
  BY Now
<1> HIDE DEF b
<1>8. Sound(N, Table, version, disk, req, excuse)
  <2>1. Table.entry[b.key] = j => StoreAt(N, Table, disk, excuse, b.key)
    BY ONLY <1>5, <1>6, <1>7 DEF StoreAt
  <2>2. b.own => (IF b.loads THEN b.stamp ELSE b.seen) >= version[b.key]
    <3> HIDE DEF k
    <3> QED BY <1>3, <1>4, <1>5, <1>6
  <2>3. Sound(jobs, Table, version, disk, req, excuse) /\ disk \in [Keys -> Stores] /\ excuse \in Excuses
    BY Now DEF Inv
  <2>4. b.st = "done" \/ b.deserted \/ (jobs[j].st # "done" /\ ~jobs[j].deserted)
    BY <1>1, <1>2, <1>6 DEF Builds
  <2>5. b \in Builds /\ b.st = "running" /\ b.key = jobs[j].key /\ b.own = jobs[j].own /\ b.base = jobs[j].base
    BY <1>6
  <2>6. jobs[j].st = "new"
    BY <1>1
  <2> QED BY ONLY <2>1, <2>2, <2>3, <2>4, <2>5, <2>6, j \in Ids, ChangedSound DEF N
<1>9. Table' = Table
  BY <1>1 DEF Table
<1> QED BY <1>1, <1>8, <1>9 DEF Inv

LEMMA FailStep == ASSUME Inv, NEW j \in Ids, Fail(j) PROVE Inv'
<1> DEFINE b == [jobs[j] EXCEPT !.st = "failed"]
           N == [jobs EXCEPT ![j] = b]
<1> USE KeyFacts
<1>1. /\ jobs[j].st = "running" /\ ~jobs[j].loads /\ Fault /\ jobs' = Kept(N)
      /\ UNCHANGED <<version, disk, entry, older, laneBases, cooling, req>>
  <2>1. jobs' = Kept([jobs EXCEPT ![j].st = "failed"])
    BY DEF Fail
  <2>2. [jobs EXCEPT ![j].st = "failed"] = N
    OBVIOUS
  <2> QED BY <2>1, <2>2 DEF Fail
<1>2. jobs[j] \in Builds
  BY Now
<1>3. /\ b \in Builds /\ b.st = "failed" /\ b.key = jobs[j].key /\ b.own = jobs[j].own /\ b.base = jobs[j].base
      /\ b.seen = jobs[j].seen /\ b.loads = jobs[j].loads /\ b.stamp = jobs[j].stamp /\ b.deserted = jobs[j].deserted
  BY <1>2 DEF Builds
<1>4. N[j] = b
  BY Now
<1> HIDE DEF b
<1>5. Sound(N, Table, version, disk, req, excuse')
  <2>1. Table.entry[b.key] = j => StoreAt(N, Table, disk, excuse', b.key)
    BY ONLY <1>3, <1>4 DEF StoreAt
  <2>2. Sound(jobs, Table, version, disk, req, excuse) /\ disk \in [Keys -> Stores]
    BY Now DEF Inv
  <2>3. /\ excuse' \in Excuses /\ excuse'.late = excuse.late /\ excuse'.elsewhere = excuse.elsewhere
        /\ excuse'.outlived = excuse.outlived /\ excuse'.adopted = excuse.adopted
    BY <1>1, FaultSound
  <2>4. b.st = "done" \/ b.deserted \/ (jobs[j].st # "done" /\ ~jobs[j].deserted)
    BY <1>1, <1>2, <1>3 DEF Builds
  <2>5. jobs[j].st = "running"
    BY <1>1
  <2> QED BY ONLY <1>3, <2>1, <2>2, <2>3, <2>4, <2>5, j \in Ids, ChangedSound DEF N
<1>6. SetTable(Table)
  BY <1>1, Now DEF SetTable
<1> QED BY <1>1, <1>5, <1>6, KeptSound

LEMMA EndStep == ASSUME Inv, NEW j \in Ids, End(j) PROVE Inv'
<1> DEFINE k == jobs[j].key
           stamp == IF jobs[j].loads THEN jobs[j].stamp ELSE IF jobs[j].own THEN version[k] ELSE 0
           b == [jobs[j] EXCEPT !.st = "done", !.stamp = stamp]
           N == [jobs EXCEPT ![j] = b]
           F == [Table EXCEPT !.cool = @ \cup {k}]
           late == IF jobs[j].seen < stamp THEN excuse.late \cup {k} ELSE excuse.late
           elsewhere == IF entry[k] # j THEN excuse.elsewhere \cup {k} ELSE excuse.elsewhere
<1> USE KeyFacts
<1>1. /\ jobs[j].st = "running" /\ jobs' = Kept(N) /\ cooling' = cooling \cup {k}
      /\ UNCHANGED <<version, entry, older, laneBases, req>>
      /\ excuse' = IF ~jobs[j].own THEN excuse ELSE [excuse EXCEPT !.late = late, !.elsewhere = elsewhere]
      /\ disk' = IF jobs[j].own /\ ~jobs[j].loads
                 THEN [disk EXCEPT ![k] = [there |-> TRUE, seen |-> jobs[j].seen, stamp |-> stamp]] ELSE disk
  <2>1. jobs' = Kept([jobs EXCEPT ![j].st = "done", ![j].stamp = stamp])
    BY DEF End
  <2>2. [jobs EXCEPT ![j].st = "done", ![j].stamp = stamp] = N
    BY Now
  <2> QED BY <2>1, <2>2 DEF End
<1>2. jobs[j] \in Builds /\ BuildAt(jobs, j) /\ k \in Keys /\ version[k] \in Nat
  BY <1>1, Now DEF Refers, BuildAt
<1>3. /\ stamp \in Nat /\ jobs[j].seen \in Nat /\ (jobs[j].loads => stamp = jobs[j].stamp)
      /\ jobs[j].own \in BOOLEAN /\ jobs[j].loads \in BOOLEAN /\ jobs[j].deserted \in BOOLEAN
  BY <1>2 DEF Builds
<1> HIDE DEF stamp
<1>4. /\ b \in Builds /\ b.st = "done" /\ b.stamp = stamp /\ b.key = k /\ b.own = jobs[j].own /\ b.base = jobs[j].base
      /\ b.seen = jobs[j].seen /\ b.loads = jobs[j].loads /\ b.deserted = jobs[j].deserted
  BY <1>2, <1>3 DEF Builds
<1>5. N[j] = b
  BY Now
<1> HIDE DEF b
<1>6. /\ excuse' \in Excuses /\ excuse'.outlived = excuse.outlived /\ excuse'.adopted = excuse.adopted
      /\ excuse.late \subseteq excuse'.late /\ excuse.elsewhere \subseteq excuse'.elsewhere
      /\ jobs[j].own /\ (jobs[j].seen < stamp \/ entry[k] # j) => Overtaken(excuse', k)
  <2>1. late \in SUBSET Keys /\ elsewhere \in SUBSET Keys /\ excuse.late \subseteq late /\ excuse.elsewhere \subseteq elsewhere
        /\ (jobs[j].seen < stamp \/ entry[k] # j => k \in late \cup elsewhere)
    BY <1>2, Now DEF Excuses
  <2> HIDE DEF late, elsewhere, k
  <2>2. CASE ~jobs[j].own
    BY <1>1, <2>2, Now
  <2>3. CASE jobs[j].own
    <3>1. excuse' = [excuse EXCEPT !.late = late, !.elsewhere = elsewhere]
      BY <1>1, <2>3
    <3>2. /\ excuse' \in Excuses /\ excuse'.late = late /\ excuse'.elsewhere = elsewhere
          /\ excuse'.outlived = excuse.outlived /\ excuse'.adopted = excuse.adopted
      BY <2>1, <3>1, Now DEF Excuses
    <3> QED BY <2>1, <3>2 DEF Overtaken
  <2> QED BY <1>3, <2>2, <2>3
<1>7. /\ disk' \in [Keys -> Stores] /\ \A m \in Keys \ {k} : disk'[m] = disk[m]
      /\ jobs[j].own /\ ~jobs[j].loads => disk'[k].stamp = stamp
      /\ ~(jobs[j].own /\ ~jobs[j].loads) => disk' = disk
  <2> HIDE DEF k
  <2>1. [there |-> TRUE, seen |-> jobs[j].seen, stamp |-> stamp] \in Stores
    BY <1>3 DEF Stores
  <2> QED BY <1>1, <1>2, <2>1, Now
<1>8. Sound(N, Table, version, disk', req, excuse')
  <2>1. Table.entry[b.key] = j => StoreAt(N, Table, disk', excuse', b.key)
    <3> SUFFICES ASSUME Table.entry[k] = j, b.own, ~Overtaken(excuse', k), disk'[k].there
                 PROVE  disk'[k].stamp <= b.seen
      BY <1>4, <1>5 DEF StoreAt
    <3>1. jobs[j].seen >= stamp
      BY <1>3, <1>4, <1>6
    <3>2. CASE ~jobs[j].loads
      BY <1>3, <1>4, <1>7, <3>1, <3>2
    <3>3. CASE jobs[j].loads
      <4>1. ~Overtaken(excuse, k)
        BY <1>6 DEF Overtaken
      <4>2. StoreAt(jobs, Table, disk, excuse, k)
        BY <1>2, Now DEF Judges
      <4>3. disk[k].stamp = jobs[j].stamp
        BY <1>1, <1>4, <3>3, <4>1, <4>2 DEF StoreAt
      <4> QED BY <1>3, <1>4, <1>7, <3>1, <3>3, <4>3
    <3> QED BY <3>2, <3>3
  <2>2. b.own => b.seen >= (IF b.loads THEN jobs[j].stamp ELSE b.seen) \/ Overtaken(excuse', b.key)
    BY <1>3, <1>4, <1>6
  <2>3. Sound(jobs, Table, version, disk, req, excuse) /\ Table.entry = entry
    BY Now DEF Inv
  <2>4. /\ b.own /\ Table.entry[b.key] # j => Overtaken(excuse', b.key) \/ disk' = disk
        /\ ~b.own => disk' = disk
    BY <1>4, <1>6, <1>7, <2>3
  <2>5. jobs[j].st = "running" /\ disk' \in [Keys -> Stores] /\ \A m \in Keys \ {b.key} : disk'[m] = disk[m]
    BY <1>1, <1>4, <1>7
  <2>6. /\ b \in Builds /\ b.st = "done" /\ b.key = jobs[j].key /\ b.own = jobs[j].own /\ b.base = jobs[j].base
        /\ b.seen = jobs[j].seen /\ b.loads = jobs[j].loads
    BY <1>4
  <2> HIDE DEF k
  <2> QED BY ONLY <1>6, <2>1, <2>2, <2>3, <2>4, <2>5, <2>6, j \in Ids, ChangedSound DEF N
<1>9. F \in Tables /\ F.entry = Table.entry /\ F.bases = Table.bases /\ F.older = Table.older /\ Order(F)
      /\ F.cool = cooling \cup {k}
  <2>1. F \in Tables /\ F.entry = Table.entry /\ F.bases = Table.bases /\ F.older = Table.older /\ F.cool = cooling \cup {k}
    BY <1>2, Now DEF Tables
  <2> HIDE DEF F
  <2> QED BY <2>1, Now DEF Order, InTable
<1>10. SetTable(F)
  BY <1>1, <1>9, Now DEF SetTable
<1> HIDE DEF F
<1>11. Sound(N, F, version, disk', req, excuse')
  BY <1>8, <1>9, OrderedSound
<1> QED BY <1>1, <1>10, <1>11, KeptSound

LEMMA EditStep == ASSUME Inv, NEW k \in Keys, Edit(k) PROVE Inv'
<1>1. /\ version' = [version EXCEPT ![k] = @ + 1]
      /\ UNCHANGED <<disk, jobs, entry, older, laneBases, cooling, req, excuse>>
  BY DEF Edit
<1>2. version' \in [Keys -> Nat] /\ \A m \in Keys : version[m] <= version'[m]
  BY <1>1, Now
<1>3. Table' = Table
  BY <1>1 DEF Table
<1>4. Sound(jobs, Table, version', disk, req, excuse)
  BY <1>2, EditedSound DEF Inv
<1> QED BY <1>1, <1>3, <1>4 DEF Inv

LEMMA ElsewhereStep == ASSUME Inv, NEW k \in Bases, Elsewhere(k) PROVE Inv'
<1> USE KeyFacts
<1>1. /\ disk' = [disk EXCEPT ![k] = [there |-> TRUE, seen |-> version[k], stamp |-> version[k]]]
      /\ excuse' = [excuse EXCEPT !.elsewhere = @ \cup {k}]
      /\ UNCHANGED <<version, jobs, entry, older, laneBases, cooling, req>>
  BY DEF Elsewhere
<1>2. /\ excuse' \in Excuses /\ excuse'.late = excuse.late /\ excuse'.elsewhere = excuse.elsewhere \cup {k}
      /\ excuse'.outlived = excuse.outlived /\ excuse'.adopted = excuse.adopted
  BY <1>1, Now DEF Excuses
<1>3. disk' \in [Keys -> Stores] /\ \A m \in Keys : disk'[m] = disk[m] \/ Overtaken(excuse', m)
  <2>1. [there |-> TRUE, seen |-> version[k], stamp |-> version[k]] \in Stores
    BY Now DEF Stores
  <2> QED BY <1>1, <1>2, <2>1, Now DEF Overtaken
<1>4. Table' = Table
  BY <1>1 DEF Table
<1>5. Sound(jobs, Table, version, disk', req, excuse')
  BY <1>2, <1>3, ExcusedSound DEF Inv, Excepted
<1> QED BY <1>1, <1>4, <1>5 DEF Inv

LEMMA CoolDownStep == ASSUME Inv, NEW k \in Keys, CoolDown(k) PROVE Inv'
<1> DEFINE F == [Table EXCEPT !.cool = @ \ {k}]
<1>1. cooling' = cooling \ {k} /\ UNCHANGED <<version, disk, jobs, entry, older, laneBases, req, excuse>>
  BY DEF CoolDown
<1>2. F \in Tables /\ F.entry = Table.entry /\ F.bases = Table.bases /\ F.older = Table.older /\ F.cool = cooling \ {k}
  BY Now DEF Tables
<1>3. Table' = F
  BY <1>1 DEF Table
<1> HIDE DEF F
<1>4. Order(F)
  BY <1>2, Now DEF Order, InTable
<1>5. Sound(jobs, F, version, disk, req, excuse)
  BY <1>2, <1>4, OrderedSound DEF Inv
<1> QED BY <1>1, <1>3, <1>5 DEF Inv

-----------------------------------------------------------------------------
(* The invariant, and what follows from it. *)

LEMMA InitInv == ASSUME Init PROVE Inv
<1> USE KeyFacts
<1>1. NoJob \in Builds /\ NoJob.st = "free" /\ NoJob.base = None /\ Idle \in Requested
  BY DEF NoJob, Job, Builds, Idle, Requested, Places
<1>2. jobs = [j \in Ids |-> NoJob] /\ req = [r \in Requests |-> Idle] /\ version = [k \in Keys |-> 0]
  BY DEF Init
<1>3. /\ Table.entry = [k \in Keys |-> None] /\ Table.older = [k \in Keys |-> {}]
      /\ Table.bases = [l \in Lanes |-> None] /\ Table.cool = {} /\ Table \in Tables
  BY DEF Init, Table, Tables
<1>4. disk \in [Keys -> Stores]
  <2>1. NoStore \in Stores /\ [there |-> TRUE, seen |-> 0, stamp |-> 0] \in Stores
    BY DEF NoStore, Stores
  <2> QED BY <2>1 DEF Init
<1>5. excuse \in Excuses
  BY DEF Init, Excuses
<1>6. Types(jobs, Table, version, disk, req, excuse)
  BY <1>1, <1>2, <1>3, <1>4, <1>5 DEF Types
<1>7. Refers(jobs, Table, version, req)
  <2>1. \A j \in Ids : BuildAt(jobs, j)
    BY <1>1, <1>2 DEF BuildAt
  <2>2. \A k \in Keys : EntryAt(jobs, Table, k)
    BY <1>3 DEF EntryAt
  <2>3. RequestAt(jobs, version, Idle)
    BY DEF RequestAt, Idle
  <2> QED BY <1>2, <2>1, <2>2, <2>3 DEF Refers
<1>8. Order(Table)
  BY <1>3 DEF Order
<1>9. Fits(jobs, Table)
  <2>1. FullKeys(Table) = {}
    BY <1>3 DEF FullKeys, InTable
  <2>2. Cardinality(FullKeys(Table)) <= Slots
    BY <2>1, FS_EmptySet
  <2> QED BY <1>3, <2>2 DEF Fits, Overlaid
<1>10. Awaits(jobs, Table, req)
  BY <1>3 DEF Awaits
<1>11. Judges(jobs, Table, disk, req, excuse)
  <2>1. VerdictAt(jobs, Table, excuse, Idle) /\ FreshAt(jobs, excuse, Idle)
    BY DEF VerdictAt, FreshAt, Idle
  <2>2. \A k \in Keys : StoreAt(jobs, Table, disk, excuse, k)
    BY <1>3 DEF StoreAt
  <2> QED BY <1>2, <2>1, <2>2 DEF Judges
<1> QED BY <1>6, <1>7, <1>8, <1>9, <1>10, <1>11 DEF Inv, Sound

LEMMA StepInv == ASSUME Inv, [Next]_vars PROVE Inv'
<1>1. CASE Next
  <2>1. CASE \E r \in Requests : Step(r) \/ Cancel(r) \/ \E k \in Keys : Ask(r, k)
    BY <2>1, ExactStep, ValidateStep, ResumeStep, OverlayStep, AnswerStep, RaiseStep, CancelStep, AskStep DEF Step
  <2>2. CASE \E j \in Ids : Begin(j) \/ End(j) \/ Fail(j)
    BY <2>2, BeginStep, EndStep, FailStep
  <2>3. CASE \E k \in Bases : Elsewhere(k)
    BY <2>3, ElsewhereStep
  <2>4. CASE \E k \in Keys : Edit(k) \/ CoolDown(k)
    BY <2>4, EditStep, CoolDownStep
  <2> QED BY <1>1, <2>1, <2>2, <2>3, <2>4 DEF Next
<1>2. CASE UNCHANGED vars
  <2>1. Table' = Table /\ UNCHANGED <<jobs, version, disk, req, excuse>>
    BY <1>2 DEF vars, Table
  <2> QED BY <2>1 DEF Inv
<1> QED BY <1>1, <1>2

\* What is referred to is there and of its key, builds keep their numbers, and the table,
\* the stores and the verdicts are as the parts of Inv say, whatever the steps' order.
THEOREM Invariance == Spec => []Inv
<1>1. Init => Inv
  BY InitInv
<1>2. Inv /\ [Next]_vars => Inv'
  BY StepInv
<1> QED BY <1>1, <1>2, PTL DEF Spec

\* The images of more than a set's members are not more than its members.
LEMMA ImageFits ==
  ASSUME NEW S, IsFiniteSet(S), NEW f \in [S -> Ids \cup {None}], NEW T, T \subseteq {f[x] : x \in S}
  PROVE  Cardinality(T) <= Cardinality(S) /\ Cardinality(S) \in Nat /\ Cardinality(T) \in Nat
<1> DEFINE im == {f[x] : x \in S}
<1>1. f \in Surjection(S, im)
  BY DEF Surjection
<1>2. IsFiniteSet(im) /\ Cardinality(im) <= Cardinality(S)
  BY <1>1, FS_Surjection
<1>3. IsFiniteSet(T) /\ Cardinality(T) <= Cardinality(im)
  BY <1>2, FS_Subset
<1> QED BY <1>2, <1>3, FS_CardinalityType

\* max_size bounds the indexes held, but for the two ways the code has past it
\* (index_cache.py:199 and 418): no order of requests, builds, failures and evictions is a third.
THEOREM OnlyTheseEverOverfill == Spec => []OnlyTheseOverfill
<1>1. Inv => OnlyTheseOverfill
  <2> SUFFICES ASSUME Inv, ~excuse.outlived, ~excuse.adopted
               PROVE  Cardinality({j \in Resident : jobs[j].own} \cup {jobs[j].base : j \in {i \in Resident : ~jobs[i].own}}) <= Slots
    BY DEF OnlyTheseOverfill
  <2> DEFINE held == {j \in Resident : jobs[j].own} \cup {jobs[j].base : j \in {i \in Resident : ~jobs[i].own}}
             full == FullKeys(Table)
             f == [k \in full |-> entry[k]]
  <2> USE KeyFacts
  <2>1. Overlaid(jobs, Table) /\ Cardinality(full) <= Slots
    BY DEF Inv, Sound, Excepted, Fits
  <2>2. full \subseteq Keys /\ IsFiniteSet(full)
    BY FS_Subset, CacheAssumption DEF FullKeys, InTable
  <2>3. f \in [full -> Ids \cup {None}]
    BY <2>2, Now
  <2>4. ASSUME NEW k \in Keys, entry[k] # None, jobs[entry[k]].own PROVE k \in full
    BY <2>1, <2>4, Now DEF Overlaid, FullKeys, InTable
  <2>5. ASSUME NEW k \in Keys, entry[k] # None, ~jobs[entry[k]].own
        PROVE  \E m \in full : jobs[entry[k]].base = entry[m]
    <3>1. EntryAt(jobs, Table, k) /\ BuildAt(jobs, entry[k]) /\ entry[k] \in Ids
      BY <2>5, Now DEF Refers
    <3>2. k \in Lanes /\ laneBases[k] = BaseOf[k] /\ jobs[entry[k]].base # None
      BY <2>5, <3>1, Now DEF EntryAt, BuildAt
    <3>3. jobs[entry[k]].base = entry[BaseOf[k]]
      BY <2>1, <3>2, Now DEF Overlaid
    <3>4. BaseOf[k] \in full
      BY <3>2, <3>3, Now DEF FullKeys, InTable
    <3> QED BY <3>3, <3>4
  <2>6. held \subseteq {f[k] : k \in full}
    <3> SUFFICES ASSUME NEW j \in held PROVE \E k \in full : j = entry[k]
      BY <2>2
    <3>1. CASE \E k \in Keys : entry[k] # None /\ jobs[entry[k]].own /\ j = entry[k]
      BY <3>1, <2>4
    <3>2. CASE \E k \in Keys : entry[k] # None /\ ~jobs[entry[k]].own /\ j = jobs[entry[k]].base
      BY <3>2, <2>5
    <3> QED BY <3>1, <3>2 DEF Resident
  <2> HIDE DEF f, full, held
  <2>7. Cardinality(held) <= Cardinality(full) /\ Cardinality(full) \in Nat /\ Cardinality(held) \in Nat
    BY <2>2, <2>3, <2>6, ImageFits
  <2> QED BY <2>1, <2>7 DEF held
<1> QED BY <1>1, Invariance, PTL

\* An answer that was checked, or built, for a request has seen what was edited before it
\* asked, but for the ways the code has around it: validation and the eviction on its
\* verdict are two steps, and no other step between them leads to a third.
THEOREM OnlyTheseEverAnswerStale == Spec => []OnlyTheseAnswerStale
<1>1. Inv => OnlyTheseAnswerStale
  <2> SUFFICES ASSUME Inv, NEW r \in Requests, Answers(r)
               PROVE  jobs[req[r].job].seen >= req[r].since \/ Excused(req[r].key)
    BY DEF OnlyTheseAnswerStale
  <2>1. FreshAt(jobs, excuse, req[r])
    BY Now DEF Judges
  <2> QED BY <2>1 DEF FreshAt, Answers, Ready, Excused, Overtaken
<1> QED BY <1>1, Invariance, PTL

\* A failed build is evicted by whoever hears of it first, unless those who waited gave
\* up: none is left for the requests to come (index_cache.py _get_exact, _get_overlay).
THEOREM FailuresAlwaysLeave == Spec => []FailuresLeave
<1>1. Inv => FailuresLeave
  <2> SUFFICES ASSUME Inv, NEW k \in Keys, entry[k] # None, jobs[entry[k]].st = "failed"
               PROVE  jobs[entry[k]].deserted \/ \E r \in Requests : req[r].job = entry[k]
    BY DEF FailuresLeave
  <2> QED BY Now DEF Inv, Sound, Awaits
<1> QED BY <1>1, Invariance, PTL
=============================================================================
