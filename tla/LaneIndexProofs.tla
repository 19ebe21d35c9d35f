---------------------------- MODULE LaneIndexProofs ----------------------------
(***************************************************************************)
(* Proofs about IndexWrite and LaneIndex, for any files, texts, rules and  *)
(* bounds: what a plan writes, and the invariant of a workspace and a lane *)
(* of it while both move.                                                  *)
(*                                                                         *)
(* What holds for every list of files is proved by induction over the      *)
(* numbers of the list, as a fact about a set of naturals (InductionUpTo). *)
(* The recursive functions and folds of the model are met once each, in    *)
(* TotalIs, FlattenIs and WritePlanDoes; from there on a sum is Sums, a    *)
(* join is Joins, and a writer is After.                                   *)
(***************************************************************************)
EXTENDS LaneIndex, SequenceTheorems, FiniteSetTheorems, WellFoundedInduction, TLAPS

-----------------------------------------------------------------------------
(* Sums, joins and induction over the numbers of a list. *)

\* A set of naturals that is not empty has a least member: induction as a fact about sets.
LEMMA LeastNatural ==
  ASSUME NEW T, T \subseteq Nat, T # {}
  PROVE  \E n \in T : \A m \in T : n <= m
<1> DEFINE Less == {ss \in Nat \X Nat : ss[1] < ss[2]}
<1>1. IsWellFoundedOn(Less, Nat)
  BY NatLessThanWellFounded DEF OpToRel
<1>2. PICK n \in T : \A m \in T : <<m, n>> \notin Less
  <2> HIDE DEF Less
  <2> QED BY <1>1, WFMin
<1>3. ASSUME NEW m \in T PROVE n <= m
  <2>1. m \in Nat /\ n \in Nat
    OBVIOUS
  <2>2. ~(m < n)
    BY <1>2, <2>1, Zenon
  <2> QED BY <2>1, <2>2
<1> QED BY <1>3

\* Induction up to n, as a fact about the set S of the numbers it holds for.
LEMMA InductionUpTo ==
  ASSUME NEW n \in Nat, NEW S, 0 \in S, \A i \in 1..n : i - 1 \in S => i \in S
  PROVE  0..n \subseteq S
<1>1. SUFFICES ASSUME NEW k \in 0..n, k \notin S PROVE FALSE
  OBVIOUS
<1> DEFINE T == {i \in 0..n : i \notin S}
<1>2. PICK m \in T : \A i \in T : m <= i
  <2>1. T \subseteq Nat /\ T # {}
    BY <1>1
  <2> HIDE DEF T
  <2> QED BY <2>1, LeastNatural
<1>3. m \in 1..n /\ m - 1 \in 0..n /\ m - 1 \notin T
  BY <1>2
<1> QED BY <1>2, <1>3

\* f is computed from base by the steps 1..n.
Computed(f, n, X, base, step) ==
  f \in [0..n -> X] /\ f[0] = base /\ \A i \in 1..n : f[i] = step[i][f[i - 1]]

\* A recursive function over 0..n exists.
LEMMA RecursionUpTo ==
  ASSUME NEW n \in Nat, NEW X, NEW base \in X, NEW step \in [1..n -> [X -> X]]
  PROVE  \E f : Computed(f, n, X, base, step)
<1> DEFINE Up(f, k) == f[0] = base /\ \A i \in 1..k : f[i] = step[i][f[i - 1]]
           S == {k \in 0..n : \E f \in [0..k -> X] : Up(f, k)}
<1>1. 0 \in S
  <2> DEFINE f == [i \in 0..0 |-> base]
  <2>1. f \in [0..0 -> X] /\ f[0] = base /\ 1..0 = {}
    OBVIOUS
  <2> HIDE DEF f
  <2>2. Up(f, 0)
    BY <2>1
  <2> HIDE DEF Up
  <2> QED BY <2>1, <2>2
<1>2. ASSUME NEW k \in 1..n, k - 1 \in S PROVE k \in S
  <2>1. PICK f \in [0..(k - 1) -> X] : Up(f, k - 1)
    BY <1>2
  <2> DEFINE g == [i \in 0..k |-> IF i = k THEN step[k][f[k - 1]] ELSE f[i]]
  <2>2. k - 1 \in 0..(k - 1) /\ step[k][f[k - 1]] \in X
    OBVIOUS
  <2>3. g \in [0..k -> X]
    BY <2>2
  <2>4. g[0] = base
    BY <2>1
  <2>5. ASSUME NEW i \in 1..k PROVE g[i] = step[i][g[i - 1]]
    <3>1. i - 1 \in 0..k /\ i - 1 # k
      OBVIOUS
    <3>2. CASE i = k
      BY <3>1, <3>2
    <3>3. CASE i # k
      <4>1. i \in 1..(k - 1) /\ g[i] = f[i] /\ g[i - 1] = f[i - 1]
        BY <3>1, <3>3
      <4> QED BY <4>1, <2>1
    <3> QED BY <3>2, <3>3
  <2> HIDE DEF g
  <2> QED BY <2>3, <2>4, <2>5
<1> HIDE DEF S
<1>3. 0..n \subseteq S
  BY <1>1, <1>2, InductionUpTo
<1>4. n \in S
  BY <1>3
<1> QED BY <1>4 DEF S, Computed

-----------------------------------------------------------------------------
(* Sums. *)

\* sum is the running sum of numbers.
Sums(sum, numbers) ==
  /\ sum \in [0..Len(numbers) -> Nat] /\ sum[0] = 0
  /\ \A i \in 1..Len(numbers) : sum[i] = sum[i - 1] + numbers[i]

\* Every list of numbers has its partial sums.
LEMMA SumsExist ==
  ASSUME NEW numbers \in Seq(Nat)
  PROVE  \E sum : Sums(sum, numbers)
<1> DEFINE n == Len(numbers)
           step == [i \in 1..n |-> [x \in Nat |-> x + numbers[i]]]
<1>1. n \in Nat /\ step \in [1..n -> [Nat -> Nat]]
  OBVIOUS
<1>2. \A i \in 1..n : \A x \in Nat : step[i][x] = x + numbers[i]
  OBVIOUS
<1> HIDE DEF step, n
<1>3. PICK f : Computed(f, n, Nat, 0, step)
  BY <1>1, RecursionUpTo
<1> USE DEF Computed
<1>4. ASSUME NEW i \in 1..n PROVE f[i] = f[i - 1] + numbers[i]
  <2>1. i - 1 \in 0..n
    BY <1>1
  <2> QED BY <1>2, <1>3, <2>1
<1> QED BY <1>3, <1>4 DEF Sums, n

\* Total is the last of the running sums.
LEMMA TotalIs ==
  ASSUME NEW numbers \in Seq(Nat), NEW sum, Sums(sum, numbers)
  PROVE  Total(numbers) = sum[Len(numbers)]
<1> DEFINE n == Len(numbers)
           Is(f) == f = [i \in 0..n |-> IF i = 0 THEN 0 ELSE f[i - 1] + numbers[i]]
           f == CHOOSE g : Is(g)
<1>1. Is(sum)
  BY DEF Sums
<1>2. Is(f)
  BY <1>1
<1> HIDE DEF f
<1>3. f[0] = 0 /\ \A i \in 1..n : f[i] = f[i - 1] + numbers[i]
  BY <1>2
<1>4. \A i \in 0..n : f[i] = sum[i]
  <2> DEFINE S == {i \in 0..n : f[i] = sum[i]}
  <2>1. 0 \in S /\ \A i \in 1..n : i - 1 \in S => i \in S
    BY <1>3 DEF Sums
  <2>2. n \in Nat
    OBVIOUS
  <2> HIDE DEF S, n
  <2>3. 0..n \subseteq S
    BY <2>1, <2>2, InductionUpTo
  <2> QED BY <2>3 DEF S
<1>5. Total(numbers) = f[n]
  BY DEF Total, f
<1> QED BY <1>4, <1>5

-----------------------------------------------------------------------------
(* Joined sequences. *)

\* upto holds what the first sequences of seqs are joined to.
Joins(upto, seqs, X) ==
  /\ upto \in [0..Len(seqs) -> Seq(X)] /\ upto[0] = <<>>
  /\ \A i \in 1..Len(seqs) : upto[i] = upto[i - 1] \o seqs[i]

\* Every list of sequences has its partial joins.
LEMMA JoinsExist ==
  ASSUME NEW X, NEW seqs \in Seq(Seq(X))
  PROVE  \E upto : Joins(upto, seqs, X)
<1> DEFINE n == Len(seqs)
           step == [i \in 1..n |-> [x \in Seq(X) |-> x \o seqs[i]]]
<1>1. n \in Nat /\ step \in [1..n -> [Seq(X) -> Seq(X)]] /\ <<>> \in Seq(X)
  <2>1. \A i \in 1..n : seqs[i] \in Seq(X)
    OBVIOUS
  <2>2. \A i \in 1..n : \A x \in Seq(X) : x \o seqs[i] \in Seq(X)
    BY <2>1, ConcatProperties
  <2> QED BY <2>2
<1>2. \A i \in 1..n : \A x \in Seq(X) : step[i][x] = x \o seqs[i]
  OBVIOUS
<1> HIDE DEF step, n
<1>3. PICK f : Computed(f, n, Seq(X), <<>>, step)
  BY <1>1, RecursionUpTo
<1> USE DEF Computed
<1>4. ASSUME NEW i \in 1..n PROVE f[i] = f[i - 1] \o seqs[i]
  <2>1. i - 1 \in 0..n
    BY <1>1
  <2> QED BY <1>2, <1>3, <2>1
<1> QED BY <1>3, <1>4 DEF Joins, n

\* FlattenSeq is the last of them.
LEMMA FlattenIs ==
  ASSUME NEW X, NEW seqs \in Seq(Seq(X)), NEW upto, Joins(upto, seqs, X)
  PROVE  FlattenSeq(seqs) = upto[Len(seqs)]
<1> DEFINE n == Len(seqs)
           Is(f) == f = [i \in 1..n |-> IF i = 1 THEN seqs[i] ELSE f[i - 1] \o seqs[i]]
           f == CHOOSE g : Is(g)
<1>0. n \in Nat
  OBVIOUS
<1>1. CASE n = 0
  BY <1>1 DEF FlattenSeq, Joins
<1>2. CASE n # 0
  <2>1. \A i \in 1..n : i # 1 => i - 1 \in 1..n
    OBVIOUS
  <2>2. upto[1] = seqs[1]
    <3>1. 1 \in 1..n /\ 1 - 1 = 0 /\ seqs[1] \in Seq(X)
      BY <1>0, <1>2
    <3>2. upto[1] = <<>> \o seqs[1]
      BY <3>1 DEF Joins
    <3> QED BY <3>1, <3>2, ConcatEmptySeq
  <2> DEFINE g == [i \in 1..n |-> upto[i]]
  <2>3. \A i \in 1..n : g[i] = IF i = 1 THEN seqs[i] ELSE g[i - 1] \o seqs[i]
    BY <2>1, <2>2 DEF Joins
  <2>4. Is(g)
    BY <2>3
  <2>5. Is(f)
    BY <2>4
  <2> HIDE DEF f, g
  <2>6. f[1] = seqs[1] /\ \A i \in 1..n : i # 1 => f[i] = f[i - 1] \o seqs[i]
    <3>1. 1 \in 1..n
      BY <1>0, <1>2
    <3> HIDE DEF n
    <3>2. \A i \in 1..n : f[i] = IF i = 1 THEN seqs[i] ELSE f[i - 1] \o seqs[i]
      BY <2>5
    <3> QED BY <3>1, <3>2
  <2> DEFINE S == {i \in 0..n : i # 0 => f[i] = upto[i]}
  <2>7. 0 \in S /\ \A i \in 1..n : i - 1 \in S => i \in S
    <3>1. 0 \in S
      OBVIOUS
    <3>2. ASSUME NEW i \in 1..n, i - 1 \in S PROVE f[i] = upto[i]
      <4>1. CASE i = 1
        BY <4>1, <2>2, <2>6
      <4>2. CASE i # 1
        <5>1. i - 1 # 0 /\ f[i - 1] = upto[i - 1]
          BY <4>2, <3>2
        <5>2. upto[i] = upto[i - 1] \o seqs[i]
          BY DEF Joins
        <5> QED BY <4>2, <5>1, <5>2, <2>6
      <4> QED BY <4>1, <4>2
    <3> QED BY <3>1, <3>2
  <2> HIDE DEF S
  <2>8. 0..n \subseteq S
    BY <2>7, <1>0, InductionUpTo
  <2>9. f[n] = upto[n]
    BY <2>8, <1>2 DEF S
  <2> QED BY <2>9, <1>2 DEF FlattenSeq, f
<1> QED BY <1>1, <1>2

\* all is front with part after it.
Joined(all, front, part, X) ==
  /\ all \in Seq(X) /\ front \in Seq(X) /\ part \in Seq(X) /\ all = front \o part
  /\ Len(front) \in Nat /\ Len(part) \in Nat /\ Len(all) = Len(front) + Len(part)
  /\ \A p \in 1..Len(front) + Len(part) : all[p] = IF p <= Len(front) THEN front[p] ELSE part[p - Len(front)]

\* Two sequences joined, element by element.
LEMMA JoinedIs ==
  ASSUME NEW X, NEW front \in Seq(X), NEW part \in Seq(X)
  PROVE  Joined(front \o part, front, part, X)
BY DEF Joined

\* One more sequence is joined.
LEMMA JoinsStep ==
  ASSUME NEW X, NEW seqs \in Seq(Seq(X)), NEW upto, Joins(upto, seqs, X), NEW i \in 1..Len(seqs)
  PROVE  i - 1 \in 0..Len(seqs) /\ i \in 0..Len(seqs) /\ Joined(upto[i], upto[i - 1], seqs[i], X)
<1>1. i - 1 \in 0..Len(seqs) /\ i \in 0..Len(seqs)
  OBVIOUS
<1>2. upto[i - 1] \in Seq(X) /\ upto[i] \in Seq(X) /\ upto[i] = upto[i - 1] \o seqs[i]
  <2> DEFINE n == Len(seqs)
  <2>1. i - 1 \in 0..n /\ i \in 0..n /\ i \in 1..n
    BY <1>1
  <2>2. upto \in [0..n -> Seq(X)] /\ \A k \in 1..n : upto[k] = upto[k - 1] \o seqs[k]
    BY DEF Joins
  <2> HIDE DEF n
  <2> QED BY <2>1, <2>2
<1>3. seqs[i] \in Seq(X)
  BY ElementOfSeq
<1> DEFINE s == upto[i - 1]  t == seqs[i]  u == upto[i]
<1>4. s \in Seq(X) /\ t \in Seq(X) /\ u = s \o t
  BY <1>2, <1>3
<1> HIDE DEF s, t, u
<1>5. Joined(u, s, t, X)
  BY <1>4, JoinedIs
<1> QED BY <1>1, <1>5 DEF s, t, u

\* What is joined so far is a sequence.
LEMMA JoinsType ==
  ASSUME NEW X, NEW seqs \in Seq(Seq(X)), NEW upto, Joins(upto, seqs, X), NEW i \in 0..Len(seqs)
  PROVE  upto[i] \in Seq(X) /\ Len(upto[i]) \in Nat
<1>1. upto[i] \in Seq(X)
  BY DEF Joins
<1> QED BY <1>1, LenProperties

\* What is joined stays where it is.
Begins(s, t) == Len(s) <= Len(t) /\ \A p \in 1..Len(s) : t[p] = s[p]

\* What is joined begins with what was joined before.
LEMMA JoinsGrow ==
  ASSUME NEW X, NEW seqs \in Seq(Seq(X)), NEW upto, Joins(upto, seqs, X),
         NEW j \in 0..Len(seqs), NEW i \in 0..j
  PROVE  Begins(upto[i], upto[j])
<1> DEFINE n == Len(seqs)
           S == {k \in 0..n : k >= i => Begins(upto[i], upto[k])}
<1>0. n \in Nat
  OBVIOUS
<1>1. 0 \in S
  <2>1. CASE 0 >= i
    <3>1. i = 0 /\ upto[0] = <<>>
      BY <2>1 DEF Joins
    <3> QED BY <3>1 DEF Begins
  <2> QED BY <2>1, <1>0
<1>2. ASSUME NEW k \in 1..n, k - 1 \in S PROVE k \in S
  <2>0. i \in 0..n /\ upto[i] \in Seq(X) /\ Len(upto[i]) \in Nat
    BY <1>0, JoinsType
  <2> HIDE DEF n
  <2>1. CASE k > i
    <3>1. Begins(upto[i], upto[k - 1])
      BY <1>2, <2>1, <2>0, <1>0
    <3> HIDE DEF S
    <3> DEFINE u == upto[k]  s == upto[k - 1]  t == seqs[k]  v == upto[i]
    <3>2. Joined(u, s, t, X)
      BY JoinsStep DEF n
    <3>3. Len(v) \in Nat /\ Begins(v, s)
      BY <2>0, <3>1
    <3> HIDE DEF u, s, t, v
    <3>4. Begins(v, u)
      BY <3>2, <3>3 DEF Joined, Begins
    <3> QED BY <3>4 DEF S, u, v
  <2>2. CASE ~(k > i)
    <3>1. k >= i => k = i
      BY <2>2, <2>0, <1>0
    <3>2. Begins(upto[i], upto[i])
      BY <2>0 DEF Begins
    <3> QED BY <3>1, <3>2, <2>0
  <2> QED BY <2>1, <2>2
<1> HIDE DEF S
<1>3. j \in S
  <2>1. 0..n \subseteq S
    BY <1>0, <1>1, <1>2, InductionUpTo
  <2> QED BY <2>1
<1> QED BY <1>3 DEF S

\* part is found in all, after the first ones.
Found(part, before, all, X) ==
  /\ all \in Seq(X) /\ part \in Seq(X) /\ before \in Nat /\ Len(part) \in Nat /\ Len(all) \in Nat
  /\ before + Len(part) <= Len(all)
  /\ \A p \in 1..Len(part) : all[before + p] = part[p]
  /\ SubSeq(all, before + 1, before + Len(part)) = part

\* Each sequence is found in the whole, after those before it.
LEMMA FlattenPart ==
  ASSUME NEW X, NEW seqs \in Seq(Seq(X)), NEW upto, Joins(upto, seqs, X), NEW i \in 1..Len(seqs)
  PROVE  Found(seqs[i], Len(upto[i - 1]), FlattenSeq(seqs), X)
<1> DEFINE all == FlattenSeq(seqs)  before == Len(upto[i - 1])  n == Len(seqs)  part == seqs[i]  front == upto[i]
<1>1. all = upto[n] /\ n \in 0..n /\ i \in 0..n
  BY FlattenIs
<1>2. all \in Seq(X) /\ Len(all) \in Nat
  BY <1>1, JoinsType
<1>3. Joined(front, upto[i - 1], part, X)
  BY JoinsStep
<1>4. Begins(front, all)
  BY <1>1, JoinsGrow
<1> HIDE DEF all, part, front
<1>5. /\ part \in Seq(X) /\ before \in Nat /\ Len(part) \in Nat /\ Len(front) = before + Len(part)
      /\ \A p \in 1..Len(part) : all[before + p] = part[p]
  <2> DEFINE s == upto[i - 1]
  <2> HIDE DEF s
  <2>1. /\ part \in Seq(X) /\ Len(s) \in Nat /\ Len(part) \in Nat /\ Len(front) = Len(s) + Len(part)
        /\ \A p \in 1..Len(part) : all[Len(s) + p] = part[p]
    <3>1. Joined(front, s, part, X)
      BY <1>3 DEF s
    <3>2. /\ part \in Seq(X) /\ Len(s) \in Nat /\ Len(part) \in Nat /\ Len(front) = Len(s) + Len(part)
          /\ \A p \in 1..Len(s) + Len(part) : front[p] = IF p <= Len(s) THEN s[p] ELSE part[p - Len(s)]
      BY <3>1 DEF Joined
    <3>3. ASSUME NEW p \in 1..Len(part) PROVE all[Len(s) + p] = part[p]
      <4>1. Len(s) + p \in 1..Len(front) /\ ~(Len(s) + p <= Len(s)) /\ Len(s) + p - Len(s) = p
        BY <3>2
      <4> QED BY <4>1, <3>2, <1>4 DEF Begins
    <3> QED BY <3>2, <3>3
  <2> QED BY <2>1 DEF s
<1> HIDE DEF all, before
<1>6. \A p \in before + 1..before + Len(part) : all[p] \in X
  BY <1>2, <1>4, <1>5 DEF Begins
<1>7. /\ SubSeq(all, before + 1, before + Len(part)) \in Seq(X)
      /\ Len(SubSeq(all, before + 1, before + Len(part))) = Len(part)
      /\ \A p \in 1..Len(part) : SubSeq(all, before + 1, before + Len(part))[p] = all[before + p]
  <2> DEFINE m == before + 1  k == before + Len(part)
  <2>1. m \in Int /\ k \in Int /\ k - m + 1 = Len(part) /\ (m <= k => k - m + 1 = Len(part)) /\ (~(m <= k) => Len(part) = 0)
    BY <1>5
  <2>2. \A p \in 1..Len(part) : m + p - 1 = before + p
    BY <1>5
  <2>3. \A p \in m..k : all[p] \in X
    BY <1>6
  <2> HIDE DEF m, k
  <2>4. /\ SubSeq(all, m, k) \in Seq(X) /\ Len(SubSeq(all, m, k)) = IF m <= k THEN k - m + 1 ELSE 0
        /\ \A p \in 1..k - m + 1 : SubSeq(all, m, k)[p] = all[m + p - 1]
    BY <2>1, <2>3, SubSeqProperties
  <2>5. SubSeq(all, m, k) \in Seq(X) /\ Len(SubSeq(all, m, k)) = Len(part)
        /\ \A p \in 1..Len(part) : SubSeq(all, m, k)[p] = all[before + p]
    BY <2>1, <2>2, <2>4
  <2> QED BY <2>5 DEF m, k
<1>8. SubSeq(all, before + 1, before + Len(part)) = part
  <2> DEFINE s == SubSeq(all, before + 1, before + Len(part))
  <2>1. s \in Seq(X) /\ Len(s) = Len(part) /\ \A p \in 1..Len(s) : s[p] = part[p]
    BY <1>5, <1>7
  <2> HIDE DEF s
  <2>2. s = part
    BY <2>1, <1>5, SeqEqual
  <2> QED BY <2>2 DEF s
<1>9. Found(part, before, all, X)
  BY <1>2, <1>4, <1>5, <1>8 DEF Found, Begins
<1> QED BY <1>9 DEF all, before, part

\* And nothing else is in the whole.
LEMMA FlattenCovers ==
  ASSUME NEW X, NEW seqs \in Seq(Seq(X)), NEW upto, Joins(upto, seqs, X), NEW p \in 1..Len(FlattenSeq(seqs))
  PROVE  \E i \in 1..Len(seqs) : \E q \in 1..Len(seqs[i]) : p = Len(upto[i - 1]) + q /\ FlattenSeq(seqs)[p] = seqs[i][q]
<1> DEFINE n == Len(seqs)  S == {i \in 0..n : p > Len(upto[i])}
<1>0. n \in Nat /\ FlattenSeq(seqs) = upto[n]
  BY FlattenIs
<1>1. SUFFICES ASSUME \A i \in 1..n : \A q \in 1..Len(seqs[i]) : p # Len(upto[i - 1]) + q PROVE FALSE
  <2>1. ASSUME NEW i \in 1..n, NEW q \in 1..Len(seqs[i]), p = Len(upto[i - 1]) + q
        PROVE  FlattenSeq(seqs)[p] = seqs[i][q]
    <3>1. Found(seqs[i], Len(upto[i - 1]), FlattenSeq(seqs), X)
      BY FlattenPart
    <3> QED BY <2>1, <3>1 DEF Found
  <2> QED BY <2>1
<1>2. 0 \in S
  BY <1>0 DEF Joins
<1>3. ASSUME NEW i \in 1..n, i - 1 \in S PROVE i \in S
  <2> DEFINE b == Len(upto[i - 1])  l == Len(seqs[i])
  <2>1. Joined(upto[i], upto[i - 1], seqs[i], X)
    BY JoinsStep
  <2>2. b \in Nat /\ Len(upto[i]) = b + l /\ l \in Nat /\ p > b /\ p \in Nat
    BY <1>3, <2>1 DEF Joined
  <2>3. \A q \in 1..l : p # b + q
    BY <1>1
  <2> HIDE DEF b, l
  <2>4. p > b + l
    <3> SUFFICES ASSUME p <= b + l PROVE FALSE
      BY <2>2
    <3>1. p - b \in 1..l /\ p = b + (p - b)
      BY <2>2
    <3> QED BY <3>1, <2>3
  <2> QED BY <2>2, <2>4
<1> HIDE DEF S
<1>4. n \in S
  <2>1. 0..n \subseteq S
    BY <1>0, <1>2, <1>3, InductionUpTo
  <2> QED BY <2>1, <1>0
<1>5. upto[n] \in Seq(X)
  BY <1>0 DEF Joins
<1> QED BY <1>0, <1>4, <1>5 DEF S

\* What is joined is found in the parts, and the parts in it.
LEMMA FlattenRange ==
  ASSUME NEW X, NEW seqs \in Seq(Seq(X))
  PROVE  /\ FlattenSeq(seqs) \in Seq(X)
         /\ \A x : x \in Range(FlattenSeq(seqs)) <=> \E i \in 1..Len(seqs) : x \in Range(seqs[i])
<1>1. PICK upto : Joins(upto, seqs, X)
  BY JoinsExist
<1> DEFINE all == FlattenSeq(seqs)
<1>2. all \in Seq(X)
  <2>1. Len(seqs) \in 0..Len(seqs)
    OBVIOUS
  <2> QED BY <1>1, <2>1, FlattenIs, JoinsType
<1>3. ASSUME NEW x, x \in Range(all) PROVE \E i \in 1..Len(seqs) : x \in Range(seqs[i])
  <2>1. PICK p \in 1..Len(all) : all[p] = x
    BY <1>2, <1>3 DEF Range
  <2>2. PICK i \in 1..Len(seqs) : \E q \in 1..Len(seqs[i]) : all[p] = seqs[i][q]
    BY <1>1, <2>1, FlattenCovers
  <2> DEFINE s == seqs[i]
  <2>3. s \in Seq(X) /\ \E q \in 1..Len(s) : s[q] = x
    BY <2>1, <2>2, ElementOfSeq
  <2> HIDE DEF s
  <2>4. x \in Range(s)
    BY <2>3 DEF Range
  <2> QED BY <2>4 DEF s
<1>4. ASSUME NEW x, NEW i \in 1..Len(seqs), x \in Range(seqs[i]) PROVE x \in Range(all)
  <2> DEFINE s == seqs[i]  b == Len(upto[i - 1])
  <2>1. Found(s, b, all, X)
    BY <1>1, FlattenPart
  <2> HIDE DEF s, b, all
  <2>2. PICK q \in 1..Len(s) : s[q] = x
    BY <1>4, <2>1 DEF Range, Found, s
  <2>3. b + q \in 1..Len(all) /\ all[b + q] = x /\ DOMAIN all = 1..Len(all)
    BY <2>1, <2>2 DEF Found
  <2> QED BY <2>3 DEF Range
<1> QED BY <1>2, <1>3, <1>4 DEF all

\* Of sequences of at most one element, each position comes from one of its own.
LEMMA FlattenAtMostOne ==
  ASSUME NEW X, NEW seqs \in Seq(Seq(X)), \A i \in 1..Len(seqs) : Len(seqs[i]) <= 1
  PROVE  \E from \in [1..Len(FlattenSeq(seqs)) -> 1..Len(seqs)] :
           /\ \A p \in 1..Len(FlattenSeq(seqs)) : Len(seqs[from[p]]) = 1 /\ FlattenSeq(seqs)[p] = seqs[from[p]][1]
           /\ \A p, q \in 1..Len(FlattenSeq(seqs)) : from[p] = from[q] => p = q
<1>1. PICK upto : Joins(upto, seqs, X)
  BY JoinsExist
<1> DEFINE all == FlattenSeq(seqs)
           Is(p, i) == p = Len(upto[i - 1]) + 1 /\ Len(seqs[i]) = 1 /\ all[p] = seqs[i][1]
           from == [p \in 1..Len(all) |-> CHOOSE i \in 1..Len(seqs) : Is(p, i)]
<1>2. ASSUME NEW p \in 1..Len(all) PROVE \E i \in 1..Len(seqs) : Is(p, i)
  <2>1. PICK i \in 1..Len(seqs) : \E q \in 1..Len(seqs[i]) : p = Len(upto[i - 1]) + q /\ all[p] = seqs[i][q]
    BY <1>1, <1>2, FlattenCovers
  <2>2. Len(seqs[i]) \in Nat /\ Len(seqs[i]) <= 1
    BY <1>1, ElementOfSeq, LenProperties
  <2>3. PICK q \in 1..Len(seqs[i]) : p = Len(upto[i - 1]) + q /\ all[p] = seqs[i][q]
    BY <2>1
  <2> DEFINE l == Len(seqs[i])
  <2>0. l \in Nat /\ l <= 1 /\ q \in 1..l
    BY <2>2
  <2> HIDE DEF l
  <2>4. q = 1 /\ l = 1
    BY ONLY <2>0
  <2>5. Is(p, i)
    BY <2>3, <2>4 DEF l
  <2> HIDE DEF Is
  <2> QED BY <2>5
<1> HIDE DEF Is
<1>3. \A p \in 1..Len(all) : from[p] \in 1..Len(seqs) /\ Is(p, from[p])
  BY <1>2
<1>4. from \in [1..Len(all) -> 1..Len(seqs)]
  BY <1>3
<1> HIDE DEF from, all
<1>5. \A p, q \in 1..Len(all) : from[p] = from[q] => p = q
  <2> TAKE p, q \in 1..Len(all)
  <2> HAVE from[p] = from[q]
  <2> QED BY <1>3 DEF Is
<1>6. \A p \in 1..Len(all) : Len(seqs[from[p]]) = 1 /\ all[p] = seqs[from[p]][1]
  BY <1>3 DEF Is
<1> QED BY <1>4, <1>5, <1>6 DEF all

(* The writer's loop. *)

\* The files of a plan, with stamps of St and chunks of C; the entries and calls, runs and writers
\* they become.
Piece(St, C) ==
  {p \in [path : Files, stamp : St, reused : BOOLEAN, first : Int, count : Nat, chunks : Seq(C)] :
     IF p.reused THEN p.first >= 0 ELSE p.first = -1 /\ Len(p.chunks) = p.count}
Entry(St) == [path : Files, stamp : St, start : Nat, count : Nat]
Call(C) == [from : Int, chunk : C \cup {None}]
Run == [start : Nat, count : Nat, previous : Int]
Writers(St, C) ==
  [manifest : Seq(Entry(St)), row : Nat, runs : Seq(Run), calls : Seq(Call(C)), first : Int, waiting : Nat]

\* The calls a file comes to.
Copies(first, count) == [i \in 1..count |-> [from |-> first + i - 1, chunk |-> None]]
CallsOf(p) == IF p.reused THEN Copies(p.first, p.count) ELSE [i \in 1..p.count |-> [from |-> -1, chunk |-> p.chunks[i]]]

\* A run is filled from the rows its calls name.
Fits(run, calls) ==
  /\ run.start + run.count <= Len(calls)
  /\ \A i \in run.start + 1..run.start + run.count :
       calls[i].from = IF run.previous < 0 THEN -1 ELSE run.previous + i - run.start - 1
Holds(run, i) == run.start < i /\ i <= run.start + run.count

\* The runs say where every row comes from.
Filled(runs, calls) ==
  /\ \A k \in 1..Len(runs) : Fits(runs[k], calls)
  /\ \A i \in 1..Len(calls) : \E k \in 1..Len(runs) : Holds(runs[k], i)

\* The calls that copy a run of rows.
LEMMA CopiesType ==
  ASSUME NEW C, NEW first \in Int, NEW count \in Nat
  PROVE  Copies(first, count) \in Seq(Call(C)) /\ Len(Copies(first, count)) = count
<1>1. \A i \in 1..count : [from |-> first + i - 1, chunk |-> None] \in Call(C)
  BY DEF Call
<1> DEFINE s == Copies(first, count)
<1>2. s \in [1..count -> Call(C)]
  BY <1>1 DEF Copies
<1> HIDE DEF s
<1>3. s \in Seq(Call(C)) /\ Len(s) = count
  BY <1>2
<1> QED BY <1>3 DEF s

\* The calls a file of a plan makes.
LEMMA CallsType ==
  ASSUME NEW St, NEW C, NEW p \in Piece(St, C)
  PROVE  CallsOf(p) \in Seq(Call(C)) /\ Len(CallsOf(p)) = p.count
<1>1. p.first \in Int /\ p.count \in Nat /\ p.chunks \in Seq(C) /\ p.reused \in BOOLEAN /\ (~p.reused => Len(p.chunks) = p.count)
  BY DEF Piece
<1>2. CASE p.reused
  BY <1>1, <1>2, CopiesType DEF CallsOf
<1>3. CASE ~p.reused
  <2>1. \A i \in 1..p.count : p.chunks[i] \in C
    BY <1>1, <1>3
  <2> DEFINE s == [i \in 1..p.count |-> [from |-> -1, chunk |-> p.chunks[i]]]
  <2>2. s \in [1..p.count -> Call(C)]
    BY <2>1 DEF Call
  <2>3. CallsOf(p) = s
    BY <1>3 DEF CallsOf
  <2> HIDE DEF s
  <2>4. s \in Seq(Call(C)) /\ Len(s) = p.count
    BY <1>1, <2>2
  <2> QED BY <2>3, <2>4
<1> QED BY <1>1, <1>2, <1>3

\* What each call of a file names.
LEMMA CallsName ==
  ASSUME NEW St, NEW C, NEW p \in Piece(St, C), NEW i \in 1..p.count
  PROVE  IF p.first < 0 THEN CallsOf(p)[i] = [from |-> -1, chunk |-> p.chunks[i]]
         ELSE CallsOf(p)[i] = [from |-> p.first + i - 1, chunk |-> None]
<1>1. p.first \in Int /\ p.count \in Nat /\ p.reused \in BOOLEAN /\ (p.reused <=> ~(p.first < 0))
  BY DEF Piece
<1> QED BY <1>1 DEF CallsOf, Copies

\* One copy in two parts.
LEMMA CopiesJoin ==
  ASSUME NEW first \in Int, NEW m \in Nat, NEW n \in Nat
  PROVE  Copies(first, m) \o Copies(first + m, n) = Copies(first, m + n)
<1> DEFINE s == Copies(first, m)  t == Copies(first + m, n)  u == Copies(first, m + n)  X == Call({})
<1>1. s \in Seq(X) /\ t \in Seq(X) /\ u \in Seq(X) /\ Len(s) = m /\ Len(t) = n /\ Len(u) = m + n
  BY CopiesType
<1>2. /\ \A i \in 1..m : s[i] = [from |-> first + i - 1, chunk |-> None]
      /\ \A i \in 1..n : t[i] = [from |-> first + m + i - 1, chunk |-> None]
      /\ \A i \in 1..m + n : u[i] = [from |-> first + i - 1, chunk |-> None]
  BY DEF Copies
<1> HIDE DEF s, t, u, X
<1>3. Joined(s \o t, s, t, X)
  BY <1>1, JoinedIs
<1> DEFINE v == s \o t
<1>4. Joined(v, s, t, X)
  BY <1>3
<1> HIDE DEF v
<1>5. v \in Seq(X) /\ Len(v) = Len(u)
  BY <1>1, <1>4 DEF Joined
<1>6. ASSUME NEW i \in 1..Len(v) PROVE v[i] = u[i]
  <2>1. v[i] = IF i <= m THEN s[i] ELSE t[i - m]
    BY <1>1, <1>4, <1>5 DEF Joined
  <2>2. i \in 1..m + n
    BY <1>1, <1>5
  <2>3. CASE i <= m
    <3>1. i \in 1..m
      BY <2>2, <2>3
    <3>2. s[i] = [from |-> first + i - 1, chunk |-> None] /\ u[i] = [from |-> first + i - 1, chunk |-> None]
      BY <2>2, <3>1, <1>2
    <3> QED BY <2>1, <2>3, <3>2
  <2>4. CASE ~(i <= m)
    <3>1. i - m \in 1..n /\ first + m + (i - m) - 1 = first + i - 1
      BY <2>2, <2>4
    <3>2. t[i - m] = [from |-> first + m + (i - m) - 1, chunk |-> None]
      BY <3>1, <1>2
    <3> QED BY <2>1, <2>2, <2>4, <3>1, <3>2, <1>2
  <2> QED BY <2>3, <2>4
<1>7. v = u
  BY <1>1, <1>5, <1>6, SeqEqual
<1> QED BY <1>7 DEF v, s, t, u

-----------------------------------------------------------------------------
(* Runs. *)

\* A run that fits goes on fitting when calls are added.
LEMMA FitsLonger ==
  ASSUME NEW C, NEW calls \in Seq(Call(C)), NEW more \in Seq(Call(C)), NEW run \in Run, Fits(run, calls)
  PROVE  Fits(run, calls \o more)
<1> DEFINE all == calls \o more
<1>1. Joined(all, calls, more, Call(C))
  BY JoinedIs
<1> HIDE DEF all
<1>2. run.start \in Nat /\ run.count \in Nat
  BY DEF Run
<1>3. ASSUME NEW i \in run.start + 1..run.start + run.count PROVE all[i] = calls[i]
  <2>1. i \in 1..Len(calls) + Len(more) /\ i <= Len(calls)
    BY <1>1, <1>2 DEF Fits, Joined
  <2> QED BY <2>1, <1>1 DEF Joined
<1>4. Fits(run, all)
  BY <1>1, <1>2, <1>3 DEF Fits, Joined
<1> QED BY <1>4 DEF all

\* The calls of a file fit a run that begins where they do, or that they continue.
LEMMA FitsCalls ==
  ASSUME NEW St, NEW C, NEW p \in Piece(St, C), NEW calls \in Seq(Call(C))
  PROVE  /\ Fits([start |-> Len(calls), count |-> p.count, previous |-> p.first], calls \o CallsOf(p))
         /\ \A run \in Run : Fits(run, calls) /\ Continues(run, Len(calls), p.first)
              => Fits([run EXCEPT !.count = @ + p.count], calls \o CallsOf(p))
<1> DEFINE more == CallsOf(p)  all == calls \o more
<1>1. Joined(all, calls, more, Call(C)) /\ Len(more) = p.count /\ p.count \in Nat /\ p.first \in Int
  BY CallsType, JoinedIs DEF Piece
<1>2. \A i \in 1..p.count : more[i].from = IF p.first < 0 THEN -1 ELSE p.first + i - 1
  <2> TAKE i \in 1..p.count
  <2> DEFINE c == more[i]
  <2>1. IF p.first < 0 THEN c = [from |-> -1, chunk |-> p.chunks[i]] ELSE c = [from |-> p.first + i - 1, chunk |-> None]
    BY CallsName
  <2> HIDE DEF c
  <2>2. c.from = IF p.first < 0 THEN -1 ELSE p.first + i - 1
    BY <2>1
  <2> QED BY <2>2 DEF c
<1> HIDE DEF all, more
<1>3. \A i \in Len(calls) + 1..Len(calls) + p.count : all[i].from = IF p.first < 0 THEN -1 ELSE p.first + i - Len(calls) - 1
  <2> TAKE i \in Len(calls) + 1..Len(calls) + p.count
  <2>1. Len(calls) \in Nat
    BY <1>1 DEF Joined
  <2>2. i - Len(calls) \in 1..p.count /\ i \in 1..Len(calls) + Len(more) /\ ~(i <= Len(calls))
    BY <1>1, <2>1
  <2>3. all[i] = more[i - Len(calls)]
    BY <1>1, <2>2 DEF Joined
  <2>4. more[i - Len(calls)].from = IF p.first < 0 THEN -1 ELSE p.first + (i - Len(calls)) - 1
    BY <1>2, <2>2
  <2> QED BY <2>1, <2>3, <2>4, <1>1
<1>4. Len(all) = Len(calls) + p.count /\ Len(calls) \in Nat
  BY <1>1 DEF Joined
<1>5. Fits([start |-> Len(calls), count |-> p.count, previous |-> p.first], all)
  BY <1>1, <1>3, <1>4 DEF Fits
<1>6. ASSUME NEW run \in Run, Fits(run, calls), Continues(run, Len(calls), p.first)
      PROVE  Fits([run EXCEPT !.count = @ + p.count], all)
  <2> DEFINE r == [run EXCEPT !.count = @ + p.count]
  <2>1. run.start \in Nat /\ run.count \in Nat /\ run.previous \in Int
        /\ r.start = run.start /\ r.count = run.count + p.count /\ r.previous = run.previous
    BY DEF Run
  <2>2. run.start + run.count = Len(calls)
        /\ ((p.first < 0 /\ run.previous < 0) \/ (p.first >= 0 /\ run.previous >= 0 /\ run.previous + run.count = p.first))
    BY <1>6 DEF Continues
  <2>3. Fits(run, all)
    <3>1. more \in Seq(Call(C))
      BY <1>1 DEF Joined
    <3> QED BY <1>6, <3>1, FitsLonger DEF all
  <2> HIDE DEF r
  <2>4. ASSUME NEW i \in r.start + 1..r.start + r.count
        PROVE  all[i].from = IF r.previous < 0 THEN -1 ELSE r.previous + i - r.start - 1
    <3>1. CASE i <= Len(calls)
      <4>1. i \in run.start + 1..run.start + run.count
        BY <3>1, <2>1, <2>2, <1>1
      <4> QED BY <4>1, <2>1, <2>3 DEF Fits
    <3>2. CASE ~(i <= Len(calls))
      <4>1. i \in Len(calls) + 1..Len(calls) + p.count
        BY <3>2, <2>1, <2>2, <1>1, <1>4
      <4>2. all[i].from = IF p.first < 0 THEN -1 ELSE p.first + i - Len(calls) - 1
        BY <4>1, <1>3
      <4>3. CASE p.first < 0 /\ run.previous < 0
        BY <4>2, <4>3, <2>1
      <4>4. CASE p.first >= 0 /\ run.previous >= 0 /\ run.previous + run.count = p.first
        <5>1. i \in Int /\ p.first + i - Len(calls) - 1 = run.previous + i - run.start - 1
          <6> DEFINE l == Len(calls)
          <6>1. l \in Nat /\ run.start + run.count = l /\ i \in l + 1..l + p.count /\ run.start \in Nat /\ run.count \in Nat
                /\ run.previous \in Int /\ p.count \in Nat /\ p.first = run.previous + run.count
            BY <4>1, <4>4, <2>1, <2>2, <1>1, <1>4
          <6> HIDE DEF l
          <6>2. i \in Int /\ p.first + i - l - 1 = run.previous + i - run.start - 1
            <7> DEFINE a == run.start  b == run.count  c == run.previous  d == p.count  e == p.first
            <7>1. l \in Nat /\ a + b = l /\ i \in l + 1..l + d /\ a \in Nat /\ b \in Nat /\ c \in Int /\ d \in Nat /\ e = c + b
              BY <6>1
            <7> HIDE DEF a, b, c, d, e
            <7>2. i \in Int /\ e + i - l - 1 = c + i - a - 1
              BY ONLY <7>1
            <7> QED BY <7>2 DEF a, c, e
          <6> QED BY <6>2 DEF l
        <5> QED BY <4>2, <4>4, <5>1, <2>1, <1>1
      <4> QED BY <4>3, <4>4, <2>2
    <3> QED BY <3>1, <3>2
  <2>5. Fits(r, all)
    BY <2>1, <2>2, <2>4, <1>1, <1>4 DEF Fits
  <2> QED BY <2>5 DEF r
<1> QED BY <1>5, <1>6 DEF all, more

\* What the fresh runs come to.
Fresh(runs) == [i \in DOMAIN runs |-> IF runs[i].previous < 0 THEN runs[i].count ELSE 0]

\* The rows of fresh runs are counted by naturals.
LEMMA FreshType ==
  ASSUME NEW runs \in Seq(Run)
  PROVE  Fresh(runs) \in Seq(Nat) /\ Len(Fresh(runs)) = Len(runs) /\ Total(Fresh(runs)) \in Nat
<1> DEFINE f == Fresh(runs)
<1>1. \A i \in 1..Len(runs) : runs[i].count \in Nat /\ runs[i].previous \in Int
  <2> TAKE i \in 1..Len(runs)
  <2> DEFINE r == runs[i]
  <2>1. r \in Run
    BY ElementOfSeq
  <2> HIDE DEF r
  <2>2. r.count \in Nat /\ r.previous \in Int
    BY <2>1 DEF Run
  <2> QED BY <2>2 DEF r
<1>2. f \in [1..Len(runs) -> Nat]
  BY <1>1 DEF Fresh
<1> HIDE DEF f
<1>3. f \in Seq(Nat) /\ Len(f) = Len(runs)
  BY <1>2
<1>4. PICK sum : Sums(sum, f)
  BY <1>3, SumsExist
<1>5. Total(f) = sum[Len(f)] /\ Len(f) \in 0..Len(f)
  BY <1>3, <1>4, TotalIs
<1>6. Total(f) \in Nat
  BY <1>4, <1>5 DEF Sums
<1> QED BY <1>3, <1>6 DEF f

\* A sum is that of the numbers without the last, and the last.
LEMMA TotalLast ==
  ASSUME NEW s \in Seq(Nat), NEW t \in Seq(Nat), Len(t) = Len(s) + 1, \A i \in 1..Len(s) : t[i] = s[i]
  PROVE  Total(t) = Total(s) + t[Len(t)]
<1>1. PICK sum : Sums(sum, t)
  BY SumsExist
<1> DEFINE n == Len(s)  short == [i \in 0..n |-> sum[i]]
<1>2. n \in Nat /\ n + 1 = Len(t)
  OBVIOUS
<1>3. Sums(short, s)
  <2>1. short \in [0..n -> Nat] /\ short[0] = 0
    BY <1>1, <1>2 DEF Sums
  <2>2. ASSUME NEW i \in 1..n PROVE short[i] = short[i - 1] + s[i]
    <3>1. i \in 0..n /\ i - 1 \in 0..n /\ i \in 1..Len(t) /\ t[i] = s[i]
      BY <1>2
    <3> QED BY <1>1, <3>1 DEF Sums
  <2> QED BY <2>1, <2>2 DEF Sums
<1> HIDE DEF n
<1>4. Total(s) = short[n] /\ Total(t) = sum[n + 1]
  BY <1>1, <1>2, <1>3, TotalIs DEF n
<1>5. n \in 0..n /\ n + 1 \in 1..Len(t) /\ n + 1 - 1 = n
  BY <1>2
<1>6. short[n] = sum[n] /\ sum[n + 1] = sum[n] + t[n + 1]
  BY <1>1, <1>5 DEF Sums
<1> QED BY <1>2, <1>4, <1>6

\* Nothing sums to zero.
LEMMA TotalEmpty == Total(<<>>) = 0
<1> DEFINE s == <<>>
<1>1. s \in Seq(Nat) /\ Len(s) = 0
  OBVIOUS
<1> HIDE DEF s
<1>2. PICK sum : Sums(sum, s)
  BY <1>1, SumsExist
<1>3. Total(s) = sum[0]
  BY <1>1, <1>2, TotalIs
<1> QED BY <1>2, <1>3 DEF Sums, s

\* The last element of a sequence, replaced.
LEMMA LastReplaced ==
  ASSUME NEW X, NEW s \in Seq(X), s # <<>>, NEW x \in X
  PROVE  LET t == Append(Front(s), x) IN
         /\ t \in Seq(X) /\ Len(t) = Len(s) /\ Len(s) \in Nat \ {0}
         /\ t[Len(s)] = x /\ \A k \in 1..Len(s) - 1 : t[k] = s[k]
<1> DEFINE n == Len(s)  f == SubSeq(s, 1, n - 1)
<1>1. n \in Nat \ {0}
  OBVIOUS
<1>2. \A k \in 1..n - 1 : s[k] \in X
  BY <1>1
<1> HIDE DEF n
<1>3. f \in Seq(X) /\ Len(f) = n - 1 /\ \A k \in 1..n - 1 : f[k] = s[k]
  BY <1>1, <1>2
<1> HIDE DEF f
<1>4. Append(f, x) \in Seq(X) /\ Len(Append(f, x)) = n /\ Append(f, x)[n] = x /\ \A k \in 1..n - 1 : Append(f, x)[k] = s[k]
  BY <1>1, <1>3
<1>5. Front(s) = f
  BY DEF Front, f, n
<1> QED BY <1>1, <1>4, <1>5 DEF n

\* Extending the runs by a file fills them from its calls.
LEMMA ExtendFills ==
  ASSUME NEW St, NEW C, NEW p \in Piece(St, C), NEW calls \in Seq(Call(C)), NEW runs \in Seq(Run), Filled(runs, calls)
  PROVE  LET new == Extend(runs, Len(calls), p.count, p.first) IN
         /\ new \in Seq(Run) /\ Filled(new, calls \o CallsOf(p))
         /\ Total(Fresh(new)) = Total(Fresh(runs)) + IF p.reused THEN 0 ELSE p.count
<1> DEFINE more == CallsOf(p)  all == calls \o more  l == Len(calls)
           run == [start |-> l, count |-> p.count, previous |-> p.first]
           new == Extend(runs, l, p.count, p.first)
           Good == new \in Seq(Run) /\ Filled(new, all) /\ Total(Fresh(new)) = Total(Fresh(runs)) + IF p.reused THEN 0 ELSE p.count
<1>1. /\ Joined(all, calls, more, Call(C)) /\ Len(more) = p.count /\ p.count \in Nat /\ p.first \in Int
      /\ p.reused \in BOOLEAN /\ (p.reused <=> ~(p.first < 0))
  BY CallsType, JoinedIs DEF Piece
<1>2. l \in Nat /\ run \in Run
  BY <1>1 DEF Run
<1>3. Fits(run, all) /\ \A r \in Run : Fits(r, calls) /\ Continues(r, l, p.first) => Fits([r EXCEPT !.count = @ + p.count], all)
  BY FitsCalls
<1>4. \A r \in Run : Fits(r, calls) => Fits(r, all)
  BY CallsType, FitsLonger
<1>5. \A k \in 1..Len(runs) : runs[k] \in Run /\ Fits(runs[k], calls) /\ Fits(runs[k], all)
  <2> TAKE k \in 1..Len(runs)
  <2>1. runs[k] \in Run
    BY ElementOfSeq
  <2>2. Fits(runs[k], calls)
    BY DEF Filled
  <2> QED BY <2>1, <2>2, <1>4
<1>6. \A i \in 1..l : \E k \in 1..Len(runs) : Holds(runs[k], i)
  BY DEF Filled
<1>7. \A i \in 1..Len(all) : i \in 1..l \/ i \in l + 1..l + p.count
  BY <1>1, <1>2 DEF Joined
<1>8. Total(Fresh(runs)) \in Nat /\ Fresh(runs) \in Seq(Nat) /\ Len(Fresh(runs)) = Len(runs)
  BY FreshType
<1>9. SUFFICES Good
  OBVIOUS
<1> HIDE DEF all, more, run, new
<1>a. CASE p.count = 0
  <2>1. new = runs
    BY <1>a DEF Extend, new
  <2>2. \A i \in 1..Len(all) : i \in 1..l
    BY <1>a, <1>2, <1>7
  <2>3. Filled(runs, all)
    BY <1>5, <1>6, <2>2 DEF Filled
  <2> QED BY <1>a, <1>8, <2>1, <2>3
<1>b. CASE p.count # 0 /\ runs # <<>> /\ Continues(Last(runs), l, p.first)
  <2> DEFINE n == Len(runs)  last == runs[n]  r == [last EXCEPT !.count = @ + p.count]  t == Append(Front(runs), r)
  <2>1. new = t
    BY <1>b DEF Extend, Last, new
  <2>2. n \in Nat /\ n \in 1..n
    BY <1>b
  <2>3. last \in Run /\ Fits(last, calls) /\ Continues(last, l, p.first)
    BY <1>b, <1>5, <2>2 DEF Last
  <2> HIDE DEF last
  <2>4. /\ r \in Run /\ r.start = last.start /\ r.count = last.count + p.count /\ r.previous = last.previous /\ last.start \in Nat
        /\ last.count \in Nat /\ last.previous \in Int
    <3> DEFINE d == p.count
    <3>1. d \in Nat
      BY <1>1
    <3> HIDE DEF d
    <3>2. last \in Run
      BY <2>3
    <3>3. [last EXCEPT !.count = @ + d] \in Run /\ [last EXCEPT !.count = @ + d].start = last.start
          /\ [last EXCEPT !.count = @ + d].count = last.count + d /\ [last EXCEPT !.count = @ + d].previous = last.previous
          /\ last.start \in Nat /\ last.count \in Nat /\ last.previous \in Int
      BY ONLY <3>1, <3>2 DEF Run
    <3> QED BY <3>3 DEF d
  <2>5. Fits(r, all)
    BY <2>3, <1>3
  <2> HIDE DEF r
  <2>6. t \in Seq(Run) /\ Len(t) = n /\ t[n] = r /\ \A k \in 1..n - 1 : t[k] = runs[k]
    BY <1>b, <2>4, LastReplaced
  <2> HIDE DEF t, n
  <2>7. \A k \in 1..n : k = n \/ k \in 1..n - 1
    BY <2>2
  <2>8. \A k \in 1..n : Fits(t[k], all)
    <3>1. \A k \in 1..n : Fits(runs[k], all)
      BY <1>5 DEF n
    <3>2. \A k \in 1..n - 1 : k \in 1..n
      BY <2>2
    <3> QED BY <2>5, <2>6, <2>7, <3>1, <3>2
  <2>9. ASSUME NEW i \in 1..Len(all) PROVE \E k \in 1..n : Holds(t[k], i)
    <3>1. CASE i \in 1..l
      <4>1. PICK k \in 1..n : Holds(runs[k], i)
        BY <3>1, <1>6 DEF n
      <4>2. CASE k = n
        <5>1. Holds(last, i)
          BY <4>1, <4>2 DEF last, n
        <5>2. Holds(r, i)
          BY <5>1, <2>4, <3>1, <1>1 DEF Holds
        <5> QED BY <5>2, <2>6, <2>2
      <4>3. CASE k # n
        BY <4>1, <4>3, <2>6, <2>7
      <4> QED BY <4>2, <4>3
    <3>2. CASE i \in l + 1..l + p.count
      <4>1. last.start + last.count = l
        BY <2>3 DEF Continues
      <4>2. Holds(r, i)
        BY <3>2, <4>1, <2>4, <1>1, <1>2 DEF Holds
      <4> QED BY <4>2, <2>6, <2>2
    <3> QED BY <3>1, <3>2, <1>7
  <2>10. Filled(t, all)
    BY <2>6, <2>8, <2>9 DEF Filled
  <2>11. Total(Fresh(t)) = Total(Fresh(runs)) + IF p.reused THEN 0 ELSE p.count
    <3> DEFINE f == Fresh(runs)  g == Fresh(t)  h == [k \in 1..n - 1 |-> f[k]]
    <3>1. /\ f \in Seq(Nat) /\ g \in Seq(Nat) /\ Len(f) = n /\ Len(g) = n
          /\ \A k \in 1..n : f[k] = IF runs[k].previous < 0 THEN runs[k].count ELSE 0
          /\ \A k \in 1..n : g[k] = IF t[k].previous < 0 THEN t[k].count ELSE 0
      <4>1. DOMAIN runs = 1..n /\ DOMAIN t = 1..n
        BY <2>6 DEF n
      <4> QED BY <4>1, <2>6, <1>8, FreshType DEF Fresh, n
    <3> HIDE DEF f, g
    <3>2. h \in Seq(Nat) /\ Len(h) = n - 1
      <4>1. \A k \in 1..n - 1 : f[k] \in Nat
        <5> TAKE k \in 1..n - 1
        <5>1. k \in 1..Len(f)
          BY <2>2, <3>1
        <5> QED BY <5>1, <3>1, ElementOfSeq
      <4>2. n - 1 \in Nat
        BY <2>2
      <4> QED BY <4>1, <4>2
    <3>3. ASSUME NEW k \in 1..n - 1 PROVE k \in 1..n /\ g[k] = f[k]
      <4>1. k \in 1..n /\ t[k] = runs[k]
        BY <2>2, <2>6
      <4>2. f[k] = (IF runs[k].previous < 0 THEN runs[k].count ELSE 0) /\ g[k] = IF t[k].previous < 0 THEN t[k].count ELSE 0
        BY <3>1, <4>1
      <4> QED BY <4>1, <4>2
    <3>4. h \in Seq(Nat) /\ Len(f) = Len(h) + 1 /\ Len(g) = Len(h) + 1 /\ (\A k \in 1..Len(h) : f[k] = h[k]) /\ \A k \in 1..Len(h) : g[k] = h[k]
      BY <2>2, <3>1, <3>2, <3>3
    <3> HIDE DEF h
    <3>5. Total(f) = Total(h) + f[n] /\ Total(g) = Total(h) + g[n]
      <4>1. Total(f) = Total(h) + f[Len(f)]
        BY <3>1, <3>4, TotalLast
      <4>2. Total(g) = Total(h) + g[Len(g)]
        BY <3>1, <3>4, TotalLast
      <4> QED BY <4>1, <4>2, <3>1
    <3>6. f[n] = (IF last.previous < 0 THEN last.count ELSE 0) /\ g[n] = (IF r.previous < 0 THEN r.count ELSE 0)
      BY <3>1, <2>2, <2>6 DEF last
    <3>7. (last.previous < 0) <=> (p.first < 0)
      BY <2>3, <2>4, <1>1 DEF Continues
    <3>8. Total(h) \in Int
      <4>0. h \in Seq(Nat)
        BY <3>4
      <4>1. PICK sum : Sums(sum, h)
        BY <4>0, SumsExist
      <4>2. Len(h) \in 0..Len(h)
        BY <4>0
      <4>3. Total(h) = sum[Len(h)]
        BY <4>0, <4>1, TotalIs
      <4> QED BY <4>1, <4>2, <4>3 DEF Sums
    <3>9. g[n] = f[n] + IF p.reused THEN 0 ELSE p.count
      BY <3>6, <3>7, <2>4, <1>1
    <3>10. f[n] \in Nat /\ (IF p.reused THEN 0 ELSE p.count) \in Nat
      BY <3>6, <2>4, <1>1
    <3> QED BY <3>5, <3>8, <3>9, <3>10 DEF f, g
  <2> QED BY <2>1, <2>6, <2>10, <2>11
<1>c. CASE p.count # 0 /\ ~(runs # <<>> /\ Continues(Last(runs), l, p.first))
  <2> DEFINE n == Len(runs)  t == Append(runs, run)
  <2>1. new = t
    BY <1>c DEF Extend, run, new
  <2>2. n \in Nat /\ t \in Seq(Run) /\ Len(t) = n + 1 /\ t[n + 1] = run /\ \A k \in 1..n : t[k] = runs[k]
    BY <1>2, AppendProperties
  <2> HIDE DEF t, n
  <2>3. \A k \in 1..n + 1 : k = n + 1 \/ k \in 1..n
    BY <2>2
  <2>4. \A k \in 1..n + 1 : Fits(t[k], all)
    <3>1. \A k \in 1..n : Fits(runs[k], all)
      BY <1>5 DEF n
    <3> QED BY <1>3, <2>2, <2>3, <3>1
  <2>5. ASSUME NEW i \in 1..Len(all) PROVE \E k \in 1..n + 1 : Holds(t[k], i)
    <3>1. CASE i \in 1..l
      <4>1. PICK k \in 1..n : Holds(runs[k], i)
        BY <3>1, <1>6 DEF n
      <4>2. k \in 1..n + 1
        BY <2>2
      <4> QED BY <4>1, <4>2, <2>2
    <3>2. CASE i \in l + 1..l + p.count
      <4>1. Holds(run, i)
        BY <3>2, <1>1, <1>2 DEF Holds, run
      <4>2. n + 1 \in 1..n + 1
        BY <2>2
      <4> QED BY <4>1, <4>2, <2>2
    <3> QED BY <3>1, <3>2, <1>7
  <2>6. Filled(t, all)
    BY <2>2, <2>4, <2>5 DEF Filled
  <2>7. Total(Fresh(t)) = Total(Fresh(runs)) + IF p.reused THEN 0 ELSE p.count
    <3> DEFINE f == Fresh(runs)  g == Fresh(t)
    <3>1. /\ f \in Seq(Nat) /\ g \in Seq(Nat) /\ Len(f) = n /\ Len(g) = n + 1
          /\ \A k \in 1..n : f[k] = IF runs[k].previous < 0 THEN runs[k].count ELSE 0
          /\ \A k \in 1..n + 1 : g[k] = IF t[k].previous < 0 THEN t[k].count ELSE 0
      <4>1. DOMAIN runs = 1..n /\ DOMAIN t = 1..n + 1
        BY <2>2 DEF n
      <4> QED BY <4>1, <2>2, <1>8, FreshType DEF Fresh, n
    <3> HIDE DEF f, g
    <3>2. ASSUME NEW k \in 1..n PROVE k \in 1..n + 1 /\ g[k] = f[k]
      <4>1. k \in 1..n + 1 /\ t[k] = runs[k]
        BY <2>2
      <4>2. f[k] = (IF runs[k].previous < 0 THEN runs[k].count ELSE 0) /\ g[k] = IF t[k].previous < 0 THEN t[k].count ELSE 0
        BY <3>1, <4>1
      <4> QED BY <4>1, <4>2
    <3>3. Total(g) = Total(f) + g[n + 1]
      BY <2>2, <3>1, <3>2, TotalLast
    <3>4. n + 1 \in 1..n + 1
      BY <2>2
    <3>5. g[n + 1] = IF run.previous < 0 THEN run.count ELSE 0
      BY <3>1, <3>4, <2>2
    <3>6. g[n + 1] = IF p.reused THEN 0 ELSE p.count
      BY <3>5, <1>1 DEF run
    <3> QED BY <3>3, <3>6 DEF f, g
  <2> QED BY <2>1, <2>2, <2>6, <2>7
<1> QED BY <1>a, <1>b, <1>c

-----------------------------------------------------------------------------
(* The loop. *)

\* The writer has, or waits to make, these calls.
Loop(w, calls, St, C) ==
  /\ w \in Writers(St, C) /\ calls \in Seq(Call(C))
  /\ w.calls \o Copies(w.first, w.waiting) = calls
  /\ w.row = Len(calls) /\ Filled(w.runs, calls)

\* Copying what waits changes nothing of what is to be written.
LEMMA CopyReusedLoops ==
  ASSUME NEW St, NEW C, NEW w, NEW calls, Loop(w, calls, St, C)
  PROVE  LET cut == CopyReused(w) IN
         /\ Loop(cut, calls, St, C) /\ cut.calls = calls /\ cut.waiting = 0
         /\ cut.manifest = w.manifest /\ cut.row = w.row /\ cut.runs = w.runs /\ cut.first = w.first
<1> DEFINE cut == CopyReused(w)  c == w.calls \o Copies(w.first, w.waiting)
<1>1. c = calls /\ w \in Writers(St, C) /\ calls \in Seq(Call(C)) /\ w.row = Len(calls) /\ Filled(w.runs, calls)
  BY DEF Loop
<1>2. cut = [w EXCEPT !.calls = c, !.waiting = 0]
  BY <1>1 DEF CopyReused, Copies, Writers
<1> HIDE DEF c, cut
<1>3. /\ cut.calls = calls /\ cut.waiting = 0 /\ cut \in Writers(St, C)
      /\ cut.manifest = w.manifest /\ cut.row = w.row /\ cut.runs = w.runs /\ cut.first = w.first
  BY <1>1, <1>2 DEF Writers
<1>4. Copies(cut.first, 0) = <<>>
  BY DEF Copies
<1>5. cut.calls \o Copies(cut.first, cut.waiting) = calls
  <2>1. calls \o <<>> = calls
    BY <1>1, ConcatEmptySeq
  <2> QED BY <2>1, <1>3, <1>4
<1>6. Loop(cut, calls, St, C)
  BY <1>1, <1>3, <1>5 DEF Loop
<1> QED BY <1>3, <1>6 DEF cut

\* The entry of a file written at a row.
EntryAt(p, row) == [path |-> p.path, stamp |-> p.stamp, start |-> row, count |-> p.count]

\* What listing a file does, whatever is done with its rows.
LEMMA ListedDoes ==
  ASSUME NEW St, NEW C, NEW w, NEW calls, Loop(w, calls, St, C), NEW p \in Piece(St, C)
  PROVE  LET l == Listed(w, p) IN
         /\ l \in Writers(St, C) /\ l.calls = w.calls /\ l.first = w.first /\ l.waiting = w.waiting
         /\ l.manifest = Append(w.manifest, EntryAt(p, w.row)) /\ l.row = w.row + p.count
         /\ calls \o CallsOf(p) \in Seq(Call(C)) /\ l.row = Len(calls \o CallsOf(p))
         /\ Filled(l.runs, calls \o CallsOf(p))
         /\ Total(Fresh(l.runs)) = Total(Fresh(w.runs)) + IF p.reused THEN 0 ELSE p.count
<1> DEFINE l == Listed(w, p)  more == CallsOf(p)  all == calls \o more
           runs == Extend(w.runs, w.row, p.count, p.first)
           manifest == Append(w.manifest, EntryAt(p, w.row))
<1>1. /\ w \in Writers(St, C) /\ calls \in Seq(Call(C)) /\ w.row = Len(calls) /\ Filled(w.runs, calls)
      /\ w.manifest \in Seq(Entry(St)) /\ w.row \in Nat /\ w.runs \in Seq(Run)
  BY DEF Loop, Writers
<1>2. runs \in Seq(Run) /\ Filled(runs, all) /\ Total(Fresh(runs)) = Total(Fresh(w.runs)) + IF p.reused THEN 0 ELSE p.count
  BY <1>1, ExtendFills
<1>3. Joined(all, calls, more, Call(C)) /\ Len(more) = p.count /\ p.count \in Nat
  BY <1>1, CallsType, JoinedIs DEF Piece
<1>4. manifest \in Seq(Entry(St))
  <2>1. EntryAt(p, w.row) \in Entry(St)
    BY <1>1 DEF EntryAt, Entry, Piece
  <2> QED BY <1>1, <2>1, AppendProperties
<1>5. l = [w EXCEPT !.manifest = manifest, !.runs = runs, !.row = w.row + p.count]
  BY <1>1 DEF Listed, EntryAt, Writers
<1> HIDE DEF manifest, runs, l, all, more
<1>6. /\ l \in Writers(St, C) /\ l.calls = w.calls /\ l.first = w.first /\ l.waiting = w.waiting
      /\ l.manifest = manifest /\ l.row = w.row + p.count /\ l.runs = runs
  <2> DEFINE row == w.row + p.count
  <2>1. row \in Nat /\ w \in Writers(St, C) /\ runs \in Seq(Run) /\ manifest \in Seq(Entry(St))
        /\ l = [w EXCEPT !.manifest = manifest, !.runs = runs, !.row = row]
    BY <1>1, <1>2, <1>3, <1>4, <1>5
  <2> HIDE DEF row
  <2>2. /\ l \in Writers(St, C) /\ l.calls = w.calls /\ l.first = w.first /\ l.waiting = w.waiting
        /\ l.manifest = manifest /\ l.row = row /\ l.runs = runs
    BY ONLY <2>1 DEF Writers
  <2> QED BY <2>2 DEF row
<1>7. all \in Seq(Call(C)) /\ l.row = Len(all)
  BY <1>1, <1>3, <1>6 DEF Joined
<1> QED BY <1>2, <1>6, <1>7 DEF l, all, more, manifest

\* A step of the loop.
Stepped(new, w, p, calls, St, C) ==
  /\ Loop(new, calls \o CallsOf(p), St, C)
  /\ new.manifest = Append(w.manifest, EntryAt(p, w.row))
  /\ Total(Fresh(new.runs)) = Total(Fresh(w.runs)) + IF p.reused THEN 0 ELSE p.count

\* A reused file keeps the loop invariant, cut off from the run before it or not.
LEMMA WriteReusedLoops ==
  ASSUME NEW St, NEW C, NEW w, NEW calls, Loop(w, calls, St, C), NEW p \in Piece(St, C), p.reused
  PROVE  Stepped(WriteReused(w, p), w, p, calls, St, C)
<1> DEFINE cut == IF w.waiting > 0 /\ p.first # w.first + w.waiting THEN CopyReused(w) ELSE w
           l == Listed(cut, p)
           new == [l EXCEPT !.first = IF cut.waiting = 0 THEN p.first ELSE @, !.waiting = @ + p.count]
           more == CallsOf(p)  all == calls \o more
<1>0. w.waiting \in Nat /\ w.first \in Int
  BY DEF Loop, Writers
<1>1. /\ Loop(cut, calls, St, C) /\ (cut.waiting = 0 \/ p.first = cut.first + cut.waiting)
      /\ cut.manifest = w.manifest /\ cut.row = w.row /\ cut.runs = w.runs
  BY <1>0, CopyReusedLoops
<1>2. WriteReused(w, p) = new
  BY DEF WriteReused
<1> HIDE DEF cut
<1>3. /\ l \in Writers(St, C) /\ l.calls = cut.calls /\ l.first = cut.first /\ l.waiting = cut.waiting
      /\ l.manifest = Append(cut.manifest, EntryAt(p, cut.row))
      /\ all \in Seq(Call(C)) /\ l.row = Len(all) /\ Filled(l.runs, all)
      /\ Total(Fresh(l.runs)) = Total(Fresh(cut.runs)) + IF p.reused THEN 0 ELSE p.count
  BY <1>1, ListedDoes
<1>4. /\ cut.calls \in Seq(Call(C)) /\ cut.first \in Int /\ cut.waiting \in Nat /\ p.first \in Int /\ p.count \in Nat
      /\ cut.calls \o Copies(cut.first, cut.waiting) = calls /\ calls \in Seq(Call(C))
  BY <1>1 DEF Loop, Writers, Piece
<1> HIDE DEF l, all
<1>5. /\ new \in Writers(St, C) /\ new.calls = cut.calls /\ new.manifest = l.manifest /\ new.row = l.row /\ new.runs = l.runs
      /\ new.first = (IF cut.waiting = 0 THEN p.first ELSE cut.first) /\ new.waiting = cut.waiting + p.count
  <2> DEFINE first == IF cut.waiting = 0 THEN p.first ELSE cut.first  waiting == cut.waiting + p.count
  <2>1. first \in Int /\ waiting \in Nat /\ l \in Writers(St, C) /\ new = [l EXCEPT !.first = first, !.waiting = waiting]
    BY <1>3, <1>4 DEF Writers
  <2> HIDE DEF first, waiting, new
  <2>2. /\ new \in Writers(St, C) /\ new.calls = l.calls /\ new.manifest = l.manifest /\ new.row = l.row /\ new.runs = l.runs
        /\ new.first = first /\ new.waiting = waiting
    BY ONLY <2>1 DEF Writers
  <2> QED BY <2>2, <1>3 DEF first, waiting
<1> HIDE DEF new
<1>6. Copies(new.first, new.waiting) = Copies(cut.first, cut.waiting) \o more
  <2>1. more = Copies(p.first, p.count)
    BY DEF CallsOf
  <2>2. CASE cut.waiting = 0
    <3>1. Copies(cut.first, 0) = <<>>
      BY DEF Copies
    <3>2. <<>> \o Copies(p.first, p.count) = Copies(p.first, p.count)
      <4>1. Copies(p.first, p.count) \in Seq(Call(C))
        BY <1>4, CopiesType
      <4> QED BY <4>1, ConcatEmptySeq
    <3>3. new.first = p.first /\ new.waiting = p.count
      BY <2>2, <1>4, <1>5
    <3> QED BY <2>1, <2>2, <3>1, <3>2, <3>3
  <2>3. CASE cut.waiting # 0
    <3>1. p.first = cut.first + cut.waiting /\ new.first = cut.first /\ new.waiting = cut.waiting + p.count
      BY <2>3, <1>1, <1>5
    <3>2. Copies(cut.first, cut.waiting) \o Copies(cut.first + cut.waiting, p.count) = Copies(cut.first, cut.waiting + p.count)
      BY <1>4, CopiesJoin
    <3> QED BY <2>1, <3>1, <3>2
  <2> QED BY <2>2, <2>3
<1>7. new.calls \o Copies(new.first, new.waiting) = all
  <2> DEFINE a == cut.calls  b == Copies(cut.first, cut.waiting)
  <2>1. a \in Seq(Call(C)) /\ b \in Seq(Call(C)) /\ more \in Seq(Call(C))
    BY <1>4, CopiesType, CallsType
  <2> HIDE DEF a, b, more
  <2>2. (a \o b) \o more = a \o (b \o more)
    BY <2>1, ConcatAssociative
  <2>3. a \o b = calls
    BY <1>4 DEF a, b
  <2>4. new.calls = a /\ Copies(new.first, new.waiting) = b \o more
    BY <1>5, <1>6 DEF a, b
  <2>5. all = (a \o b) \o more
    BY <2>3 DEF all, more
  <2> QED BY <2>2, <2>4, <2>5
<1>8. Loop(new, all, St, C)
  BY <1>3, <1>5, <1>7 DEF Loop
<1> QED BY <1>1, <1>2, <1>3, <1>5, <1>8 DEF Stepped, all

\* A chunked file keeps the loop invariant.
LEMMA WriteChunkedLoops ==
  ASSUME NEW St, NEW C, NEW w, NEW calls, Loop(w, calls, St, C), NEW p \in Piece(St, C), ~p.reused
  PROVE  Stepped(WriteChunked(w, p), w, p, calls, St, C)
<1> DEFINE cut == CopyReused(w)  l == Listed(cut, p)  more == CallsOf(p)  all == calls \o more
           new == [l EXCEPT !.calls = l.calls \o more]
<1>1. /\ Loop(cut, calls, St, C) /\ cut.calls = calls /\ cut.waiting = 0
      /\ cut.manifest = w.manifest /\ cut.row = w.row /\ cut.runs = w.runs
  BY CopyReusedLoops
<1> HIDE DEF cut
<1>2. /\ l \in Writers(St, C) /\ l.calls = cut.calls /\ l.first = cut.first /\ l.waiting = cut.waiting
      /\ l.manifest = Append(cut.manifest, EntryAt(p, cut.row))
      /\ all \in Seq(Call(C)) /\ l.row = Len(all) /\ Filled(l.runs, all)
      /\ Total(Fresh(l.runs)) = Total(Fresh(cut.runs)) + IF p.reused THEN 0 ELSE p.count
  BY <1>1, ListedDoes
<1>3. WriteChunked(w, p) = new
  BY DEF WriteChunked, CallsOf, cut
<1> HIDE DEF l, all, more
<1>4. /\ new \in Writers(St, C) /\ new.calls = all /\ new.manifest = l.manifest /\ new.row = l.row /\ new.runs = l.runs
      /\ new.first = l.first /\ new.waiting = 0
  BY <1>1, <1>2 DEF Writers, all
<1> HIDE DEF new
<1>5. new.calls \o Copies(new.first, new.waiting) = all
  <2>1. Copies(new.first, 0) = <<>>
    BY DEF Copies
  <2>2. all \o <<>> = all
    BY <1>2, ConcatEmptySeq
  <2> QED BY <2>1, <2>2, <1>4
<1>6. Loop(new, all, St, C)
  BY <1>2, <1>4, <1>5 DEF Loop
<1> QED BY <1>1, <1>2, <1>3, <1>4, <1>6 DEF Stepped, all, more

-----------------------------------------------------------------------------
(* The whole plan. *)

\* The rows of the files of a plan, those to embed, and the calls.
Counts(planned) == [i \in DOMAIN planned |-> planned[i].count]
FreshCounts(planned) == [i \in DOMAIN planned |-> IF planned[i].reused THEN 0 ELSE planned[i].count]
CallSeqs(planned) == [i \in DOMAIN planned |-> CallsOf(planned[i])]

\* They are lists as long as the plan.
LEMMA PlanType ==
  ASSUME NEW St, NEW C, NEW planned \in Seq(Piece(St, C))
  PROVE  /\ Counts(planned) \in Seq(Nat) /\ Len(Counts(planned)) = Len(planned)
         /\ FreshCounts(planned) \in Seq(Nat) /\ Len(FreshCounts(planned)) = Len(planned)
         /\ CallSeqs(planned) \in Seq(Seq(Call(C))) /\ Len(CallSeqs(planned)) = Len(planned)
<1> DEFINE n == Len(planned)
<1>1. n \in Nat /\ DOMAIN planned = 1..n
  OBVIOUS
<1>2. \A i \in 1..n : planned[i].count \in Nat /\ planned[i].reused \in BOOLEAN /\ CallsOf(planned[i]) \in Seq(Call(C))
  <2> TAKE i \in 1..n
  <2> DEFINE p == planned[i]
  <2>1. p \in Piece(St, C)
    BY ElementOfSeq
  <2> HIDE DEF p
  <2>2. p.count \in Nat /\ p.reused \in BOOLEAN /\ CallsOf(p) \in Seq(Call(C))
    BY <2>1, CallsType DEF Piece
  <2> QED BY <2>2 DEF p
<1> HIDE DEF n
<1>3. Counts(planned) \in [1..n -> Nat] /\ FreshCounts(planned) \in [1..n -> Nat] /\ CallSeqs(planned) \in [1..n -> Seq(Call(C))]
  BY <1>1, <1>2 DEF Counts, FreshCounts, CallSeqs
<1>4. \A X : \A s \in [1..n -> X] : s \in Seq(X) /\ Len(s) = n
  BY <1>1
<1> QED BY <1>3, <1>4 DEF n

\* The step of the loop for the file i of a plan.
Wrote(w, p) == IF p.reused THEN WriteReused(w, p) ELSE WriteChunked(w, p)

\* Either kind of file keeps the loop invariant.
LEMMA WroteLoops ==
  ASSUME NEW St, NEW C, NEW w, NEW calls, Loop(w, calls, St, C), NEW p \in Piece(St, C)
  PROVE  Stepped(Wrote(w, p), w, p, calls, St, C)
<1>1. p.reused \in BOOLEAN
  BY DEF Piece
<1> QED BY <1>1, WriteReusedLoops, WriteChunkedLoops DEF Wrote

\* What holds after k files.
After(w, k, planned, sum, fr, upto, St, C) ==
  /\ Loop(w, upto[k], St, C) /\ w.row = sum[k] /\ Total(Fresh(w.runs)) = fr[k]
  /\ w.manifest \in Seq(Entry(St)) /\ Len(w.manifest) = k /\ \A i \in 1..k : w.manifest[i] = EntryAt(planned[i], sum[i - 1])

\* A writer that has seen no file.
LEMMA AfterStart ==
  ASSUME NEW St, NEW C, NEW planned \in Seq(Piece(St, C)), NEW sum, Sums(sum, Counts(planned)),
         NEW fr, Sums(fr, FreshCounts(planned)), NEW upto, Joins(upto, CallSeqs(planned), Call(C))
  PROVE  After(Writer, 0, planned, sum, fr, upto, St, C)
<1>1. upto[0] = <<>> /\ sum[0] = 0 /\ fr[0] = 0
  BY DEF Joins, Sums
<1>2. Writer \in Writers(St, C)
  BY DEF Writer, Writers
<1>3. Copies(0, 0) = <<>> /\ <<>> \in Seq(Call(C)) /\ <<>> \o <<>> = <<>>
  BY DEF Copies
<1>4. Filled(<<>>, <<>>)
  BY DEF Filled
<1>5. Fresh(<<>>) = <<>>
  BY DEF Fresh
<1>6. Loop(Writer, <<>>, St, C)
  BY <1>2, <1>3, <1>4 DEF Loop, Writer
<1>7. Total(Fresh(Writer.runs)) = 0
  BY <1>5, TotalEmpty DEF Writer
<1> QED BY <1>1, <1>6, <1>7 DEF After, Writer

\* One file more.
LEMMA AfterStep ==
  ASSUME NEW St, NEW C, NEW planned \in Seq(Piece(St, C)), NEW sum, Sums(sum, Counts(planned)),
         NEW fr, Sums(fr, FreshCounts(planned)), NEW upto, Joins(upto, CallSeqs(planned), Call(C)),
         NEW w, NEW k \in 1..Len(planned), After(w, k - 1, planned, sum, fr, upto, St, C)
  PROVE  After(Wrote(w, planned[k]), k, planned, sum, fr, upto, St, C)
<1> DEFINE p == planned[k]  new == Wrote(w, p)
<1>1. p \in Piece(St, C) /\ p.count \in Nat
  <2>1. p \in Piece(St, C)
    BY ElementOfSeq
  <2> HIDE DEF p
  <2> QED BY <2>1 DEF Piece
<1>2. upto[k] = upto[k - 1] \o CallsOf(p)
  <2>1. k \in 1..Len(CallSeqs(planned)) /\ CallSeqs(planned)[k] = CallsOf(p)
    BY PlanType DEF CallSeqs
  <2> HIDE DEF p
  <2> QED BY <2>1 DEF Joins
<1>3. sum[k] = sum[k - 1] + p.count /\ fr[k] = fr[k - 1] + IF p.reused THEN 0 ELSE p.count
  <2>1. k \in 1..Len(Counts(planned)) /\ Counts(planned)[k] = p.count
    BY PlanType DEF Counts
  <2>2. k \in 1..Len(FreshCounts(planned)) /\ FreshCounts(planned)[k] = IF p.reused THEN 0 ELSE p.count
    BY PlanType DEF FreshCounts
  <2> HIDE DEF p
  <2> QED BY <2>1, <2>2 DEF Sums
<1>4. Loop(w, upto[k - 1], St, C) /\ w.row = sum[k - 1] /\ Total(Fresh(w.runs)) = fr[k - 1]
      /\ w.manifest \in Seq(Entry(St)) /\ Len(w.manifest) = k - 1 /\ \A i \in 1..k - 1 : w.manifest[i] = EntryAt(planned[i], sum[i - 1])
  BY DEF After
<1>5. Stepped(new, w, p, upto[k - 1], St, C)
  BY <1>1, <1>4, WroteLoops
<1>6. \A i \in 1..k : i = k \/ i \in 1..k - 1
  OBVIOUS
<1> HIDE DEF p, new
<1>7. Loop(new, upto[k], St, C) /\ new.manifest = Append(w.manifest, EntryAt(p, sum[k - 1])) /\ Total(Fresh(new.runs)) = fr[k]
  BY <1>2, <1>3, <1>4, <1>5 DEF Stepped
<1>8. new.row = sum[k] /\ new.row \in Nat
  <2> DEFINE s == upto[k - 1]  t == CallsOf(p)
  <2>1. s \in Seq(Call(C)) /\ t \in Seq(Call(C)) /\ Len(t) = p.count /\ w.row = Len(s)
    BY <1>1, <1>4, CallsType DEF Loop
  <2>2. new.row = Len(s \o t)
    BY <1>2, <1>7 DEF Loop
  <2> HIDE DEF s, t
  <2>3. Len(s \o t) = Len(s) + Len(t) /\ Len(s) \in Nat
    BY <2>1
  <2> QED BY <2>1, <2>2, <2>3, <1>1, <1>3, <1>4
<1>9. EntryAt(p, sum[k - 1]) \in Entry(St)
  <2>1. sum[k - 1] \in Nat
    BY <1>4 DEF Loop, Writers
  <2> QED BY <1>1, <2>1 DEF EntryAt, Entry, Piece
<1>10. new.manifest \in Seq(Entry(St)) /\ Len(new.manifest) = k /\ \A i \in 1..k : new.manifest[i] = EntryAt(planned[i], sum[i - 1])
  <2> DEFINE m == w.manifest  e == EntryAt(p, sum[k - 1])  a == Append(m, e)
  <2>1. m \in Seq(Entry(St)) /\ Len(m) = k - 1 /\ e \in Entry(St) /\ e = EntryAt(planned[k], sum[k - 1])
    BY <1>4, <1>9 DEF p
  <2> HIDE DEF m, e
  <2>2. a \in Seq(Entry(St)) /\ Len(a) = k /\ a[k] = e /\ \A i \in 1..k - 1 : a[i] = m[i]
    BY <2>1, AppendProperties
  <2>3. new.manifest = a
    BY <1>7 DEF m, e
  <2> HIDE DEF a
  <2>4. \A i \in 1..k - 1 : a[i] = EntryAt(planned[i], sum[i - 1])
    BY <2>2, <1>4 DEF m
  <2> QED BY <2>1, <2>2, <2>3, <2>4, <1>6
<1>11. After(new, k, planned, sum, fr, upto, St, C)
  BY <1>7, <1>8, <1>10 DEF After
<1> QED BY <1>11 DEF new, p

\* The writer once the plan is written.
Done(w, planned, sum, fr, upto, St, C) ==
  After(w, Len(planned), planned, sum, fr, upto, St, C) /\ w.calls = upto[Len(planned)]

\* The recursive function of WritePlan is computed by the steps of the loop.
LEMMA WritePlanDoes ==
  ASSUME NEW St, NEW C, NEW planned \in Seq(Piece(St, C)), NEW sum, Sums(sum, Counts(planned)),
         NEW fr, Sums(fr, FreshCounts(planned)), NEW upto, Joins(upto, CallSeqs(planned), Call(C))
  PROVE  Done(WritePlan(planned), planned, sum, fr, upto, St, C)
<1> DEFINE n == Len(planned)
           X == {w \in Writers(St, C) : \E calls \in Seq(Call(C)) : Loop(w, calls, St, C)}
           step == [i \in 1..n |-> [w \in X |-> Wrote(w, planned[i])]]
           Is(f) == f = [i \in 0..n |-> IF i = 0 THEN Writer
                                       ELSE IF planned[i].reused THEN WriteReused(f[i - 1], planned[i]) ELSE WriteChunked(f[i - 1], planned[i])]
           f == CHOOSE g : Is(g)
<1>1. n \in Nat
  OBVIOUS
<1>2. Writer \in X
  <2>1. Loop(Writer, upto[0], St, C)
    BY AfterStart DEF After
  <2> QED BY <2>1 DEF Loop
<1>3. step \in [1..n -> [X -> X]]
  <2>1. ASSUME NEW i \in 1..n, NEW w \in X PROVE Wrote(w, planned[i]) \in X
    <3>1. PICK calls : Loop(w, calls, St, C)
      OBVIOUS
    <3> DEFINE p == planned[i]
    <3>2. p \in Piece(St, C)
      BY ElementOfSeq
    <3> HIDE DEF p
    <3>3. Loop(Wrote(w, p), calls \o CallsOf(p), St, C)
      BY <3>1, <3>2, WroteLoops DEF Stepped
    <3>4. Wrote(w, p) \in X
      BY <3>3 DEF Loop
    <3> HIDE DEF X
    <3> QED BY <3>4 DEF p
  <2> HIDE DEF X
  <2> QED BY <2>1
<1> HIDE DEF X
<1>4. \A i \in 1..n : \A w \in X : step[i][w] = Wrote(w, planned[i])
  OBVIOUS
<1> HIDE DEF step
<1>5. PICK g : Computed(g, n, X, Writer, step)
  BY <1>1, <1>2, <1>3, RecursionUpTo
<1>6. Is(g)
  <2>1. \A i \in 1..n : g[i] = Wrote(g[i - 1], planned[i])
    <3> TAKE i \in 1..n
    <3>1. i - 1 \in 0..n
      BY <1>1
    <3>2. g[i - 1] \in X
      BY <1>5, <3>1 DEF Computed
    <3> QED BY <1>4, <1>5, <3>2 DEF Computed
  <2>2. \A i \in 0..n : i = 0 \/ i \in 1..n
    BY <1>1
  <2> HIDE DEF n
  <2>3. \A i \in 0..n : g[i] = IF i = 0 THEN Writer
           ELSE IF planned[i].reused THEN WriteReused(g[i - 1], planned[i]) ELSE WriteChunked(g[i - 1], planned[i])
    BY <1>5, <2>1, <2>2 DEF Wrote, Computed
  <2>4. g = [i \in 0..n |-> g[i]]
    BY <1>5 DEF Computed
  <2> QED BY <2>3, <2>4
<1>7. Is(f)
  BY <1>6
<1>8. WritePlan(planned) = CopyReused(f[n])
  BY DEF WritePlan, f
<1> HIDE DEF f, n
<1>9. f[0] = Writer /\ \A i \in 1..n : f[i] = Wrote(f[i - 1], planned[i])
  <2>1. \A i \in 0..n : f[i] = IF i = 0 THEN Writer
           ELSE IF planned[i].reused THEN WriteReused(f[i - 1], planned[i]) ELSE WriteChunked(f[i - 1], planned[i])
    BY <1>7
  <2>2. 0 \in 0..n /\ \A i \in 1..n : i \in 0..n /\ i # 0
    BY <1>1
  <2> QED BY <2>1, <2>2 DEF Wrote
<1> HIDE DEF Is
<1> DEFINE S == {k \in 0..n : After(f[k], k, planned, sum, fr, upto, St, C)}
<1>10. 0 \in S
  BY <1>1, <1>9, AfterStart
<1>11. ASSUME NEW k \in 1..n, k - 1 \in S PROVE k \in S
  <2>1. After(f[k - 1], k - 1, planned, sum, fr, upto, St, C)
    BY <1>11
  <2>2. After(Wrote(f[k - 1], planned[k]), k, planned, sum, fr, upto, St, C)
    BY <2>1, AfterStep DEF n
  <2>3. k \in 0..n
    OBVIOUS
  <2> QED BY <2>2, <2>3, <1>9
<1> HIDE DEF S
<1>12. n \in S
  <2>1. 0..n \subseteq S
    BY <1>1, <1>10, <1>11, InductionUpTo
  <2> QED BY <2>1, <1>1
<1> DEFINE w == f[n]  cut == CopyReused(w)
<1>13. After(w, n, planned, sum, fr, upto, St, C)
  BY <1>12 DEF S
<1> HIDE DEF w
<1>14. After(cut, n, planned, sum, fr, upto, St, C) /\ cut.calls = upto[n]
  <2>1. Loop(w, upto[n], St, C)
    BY <1>13 DEF After
  <2>2. /\ Loop(cut, upto[n], St, C) /\ cut.calls = upto[n]
        /\ cut.manifest = w.manifest /\ cut.row = w.row /\ cut.runs = w.runs
    BY <2>1, CopyReusedLoops
  <2> HIDE DEF cut
  <2> QED BY <2>2, <1>13 DEF After
<1> QED BY <1>8, <1>14 DEF Done, n, w

-----------------------------------------------------------------------------
(* What is written of a plan. *)

\* Two joins of parts of the same lengths go side by side.
SideBySide(all, seqs, whole, other) ==
  /\ Len(all) = Len(whole)
  /\ \A p \in 1..Len(all) : \E i \in 1..Len(seqs) : \E q \in 1..Len(seqs[i]) : all[p] = seqs[i][q] /\ whole[p] = other[i][q]

\* Two lists of sequences of the same lengths, flattened, have corresponding elements.
LEMMA FlattenAlike ==
  ASSUME NEW X, NEW seqs \in Seq(Seq(X)), NEW Y, NEW other \in Seq(Seq(Y)), Len(seqs) = Len(other),
         \A i \in 1..Len(seqs) : Len(seqs[i]) = Len(other[i])
  PROVE  SideBySide(FlattenSeq(seqs), seqs, FlattenSeq(other), other)
<1>1. PICK u : Joins(u, seqs, X)
  BY JoinsExist
<1>2. PICK v : Joins(v, other, Y)
  BY JoinsExist
<1>c. ASSUME NEW p \in 1..Len(FlattenSeq(seqs))
      PROVE  \E i \in 1..Len(seqs) : \E q \in 1..Len(seqs[i]) : p = Len(u[i - 1]) + q /\ FlattenSeq(seqs)[p] = seqs[i][q]
  <2>1. Joins(u, seqs, X)
    BY <1>1
  <2>2. PICK i \in 1..Len(seqs) : \E q \in 1..Len(seqs[i]) : p = Len(u[i - 1]) + q /\ FlattenSeq(seqs)[p] = seqs[i][q]
    BY <2>1, FlattenCovers, SMTT(30)
  <2> QED BY <2>2
<1> DEFINE n == Len(seqs)  S == {i \in 0..n : Len(u[i]) = Len(v[i])}
<1>3. n \in Nat /\ n = Len(other)
  OBVIOUS
<1>4. 0 \in S
  BY <1>1, <1>2, <1>3 DEF Joins
<1>5. ASSUME NEW i \in 1..n, i - 1 \in S PROVE i \in S
  <2>1. Joined(u[i], u[i - 1], seqs[i], X) /\ Joined(v[i], v[i - 1], other[i], Y)
    BY <1>1, <1>2, <1>3, JoinsStep
  <2>2. Len(seqs[i]) = Len(other[i])
    OBVIOUS
  <2>3. Len(u[i]) = Len(v[i])
    BY <2>1, <2>2, <1>5 DEF Joined
  <2> QED BY <2>3
<1> HIDE DEF S
<1>6. 0..n \subseteq S
  BY <1>3, <1>4, <1>5, InductionUpTo
<1>7. FlattenSeq(seqs) = u[n] /\ FlattenSeq(other) = v[n]
  BY <1>1, <1>2, <1>3, FlattenIs
<1>8. Len(FlattenSeq(seqs)) = Len(FlattenSeq(other))
  <2>1. n \in S
    BY <1>3, <1>6
  <2> QED BY <1>7, <2>1 DEF S
<1>9. ASSUME NEW p \in 1..Len(FlattenSeq(seqs))
      PROVE  \E i \in 1..Len(seqs) : \E q \in 1..Len(seqs[i]) : FlattenSeq(seqs)[p] = seqs[i][q] /\ FlattenSeq(other)[p] = other[i][q]
  <2>a. \E i \in 1..Len(seqs) : \E q \in 1..Len(seqs[i]) : p = Len(u[i - 1]) + q /\ FlattenSeq(seqs)[p] = seqs[i][q]
    BY <1>c, <1>9
  <2>1. PICK i \in 1..Len(seqs) : \E q \in 1..Len(seqs[i]) : p = Len(u[i - 1]) + q /\ FlattenSeq(seqs)[p] = seqs[i][q]
    BY <2>a
  <2>2. PICK q \in 1..Len(seqs[i]) : p = Len(u[i - 1]) + q /\ FlattenSeq(seqs)[p] = seqs[i][q]
    BY <2>1
  <2>3. i - 1 \in 0..n
    BY <1>3
  <2>4. Len(u[i - 1]) = Len(v[i - 1])
    BY <1>6, <2>3 DEF S
  <2>5. i \in 1..Len(other) /\ Len(seqs[i]) = Len(other[i])
    BY <1>3
  <2>6. Found(other[i], Len(v[i - 1]), FlattenSeq(other), Y)
    BY <1>2, <2>5, FlattenPart
  <2>7. q \in 1..Len(other[i])
    BY <2>2, <2>5
  <2>8. FlattenSeq(other)[p] = other[i][q]
    BY <2>2, <2>4, <2>6, <2>7 DEF Found
  <2> QED BY <2>2, <2>8
<1> QED BY <1>8, <1>9 DEF SideBySide

\* The rows a file of a plan comes to.
PieceRows(p, previous) == IF p.reused THEN SubSeq(previous.chunks, p.first + 1, p.first + p.count) ELSE p.chunks
RowSeqs(planned, previous) == [i \in DOMAIN planned |-> PieceRows(planned[i], previous)]
PostingsOf(chunks) == [t \in Readable |-> {i - 1 : i \in {j \in DOMAIN chunks : chunks[j].text = t}}]

\* What a plan reuses is there, and the stores it is taken from agree.
Reuses(planned, previous, C) ==
  /\ previous # None => /\ previous.chunks \in Seq(C) /\ previous.vectors = previous.chunks
                        /\ previous.postings = PostingsOf(previous.chunks)
  /\ \A i \in 1..Len(planned) : planned[i].reused => previous # None /\ planned[i].first + planned[i].count <= Len(previous.chunks)

\* The rows of a file are as many as it counts.
LEMMA RowsType ==
  ASSUME NEW St, NEW C, NEW p \in Piece(St, C), NEW previous,
         p.reused => previous.chunks \in Seq(C) /\ p.first + p.count <= Len(previous.chunks)
  PROVE  /\ PieceRows(p, previous) \in Seq(C) /\ Len(PieceRows(p, previous)) = p.count
         /\ p.reused => \A q \in 1..p.count : PieceRows(p, previous)[q] = previous.chunks[p.first + q]
<1>1. p.reused \in BOOLEAN /\ p.first \in Int /\ p.count \in Nat /\ p.chunks \in Seq(C)
      /\ (p.reused => p.first >= 0) /\ (~p.reused => Len(p.chunks) = p.count)
  BY DEF Piece
<1>2. CASE ~p.reused
  BY <1>1, <1>2 DEF PieceRows
<1>3. CASE p.reused
  <2> DEFINE s == previous.chunks  m == p.first + 1  k == p.first + p.count  l == Len(s)
  <2>1. s \in Seq(C) /\ k <= l /\ l \in Nat
    BY <1>3
  <2>2. \A i \in 1..l : s[i] \in C
    BY <2>1, ElementOfSeq
  <2>3. m \in Int /\ k \in Int /\ k - m + 1 = p.count /\ \A i \in m..k : i \in 1..l
    BY <1>1, <1>3, <2>1
  <2>4. \A q \in 1..p.count : m + q - 1 = p.first + q
    BY <1>1
  <2>5. ~(m <= k) => p.count = 0
    BY <1>1
  <2> HIDE DEF s, m, k, l
  <2> DEFINE r == SubSeq(s, m, k)
  <2>6. r \in Seq(C) /\ Len(r) = (IF m <= k THEN k - m + 1 ELSE 0) /\ \A i \in 1..k - m + 1 : r[i] = s[m + i - 1]
    BY <2>2, <2>3, SubSeqProperties
  <2> HIDE DEF r
  <2>7. r \in Seq(C) /\ Len(r) = p.count /\ \A q \in 1..p.count : r[q] = s[p.first + q]
    BY <2>3, <2>4, <2>5, <2>6
  <2>8. PieceRows(p, previous) = r
    BY <1>3 DEF PieceRows, r, s, m, k
  <2> QED BY <2>7, <2>8 DEF s
<1> QED BY <1>1, <1>2, <1>3

\* The rows of a plan, file by file, are as many as its calls.
LEMMA RowSeqsType ==
  ASSUME NEW St, NEW C, NEW planned \in Seq(Piece(St, C)), NEW previous, Reuses(planned, previous, C)
  PROVE  /\ RowSeqs(planned, previous) \in Seq(Seq(C)) /\ Len(RowSeqs(planned, previous)) = Len(planned)
         /\ \A i \in 1..Len(planned) : Len(RowSeqs(planned, previous)[i]) = Len(CallSeqs(planned)[i]) /\ Len(RowSeqs(planned, previous)[i]) = planned[i].count
<1> DEFINE n == Len(planned)
<1>1. n \in Nat /\ DOMAIN planned = 1..n
  OBVIOUS
<1>2. ASSUME NEW i \in 1..n
      PROVE  PieceRows(planned[i], previous) \in Seq(C) /\ Len(PieceRows(planned[i], previous)) = planned[i].count
             /\ Len(CallsOf(planned[i])) = planned[i].count
  <2> DEFINE p == planned[i]
  <2>1. p \in Piece(St, C)
    BY ElementOfSeq
  <2>2. p.reused => previous.chunks \in Seq(C) /\ p.first + p.count <= Len(previous.chunks)
    BY DEF Reuses
  <2> HIDE DEF p
  <2>3. PieceRows(p, previous) \in Seq(C) /\ Len(PieceRows(p, previous)) = p.count
    BY <2>1, <2>2, RowsType
  <2>4. Len(CallsOf(p)) = p.count
    BY <2>1, CallsType
  <2> QED BY <2>3, <2>4 DEF p
<1> HIDE DEF n
<1>3. RowSeqs(planned, previous) \in [1..n -> Seq(C)]
  BY <1>1, <1>2 DEF RowSeqs
<1>4. RowSeqs(planned, previous) \in Seq(Seq(C)) /\ Len(RowSeqs(planned, previous)) = n
  BY <1>1, <1>3
<1>5. \A i \in 1..n : RowSeqs(planned, previous)[i] = PieceRows(planned[i], previous) /\ CallSeqs(planned)[i] = CallsOf(planned[i])
  BY <1>1 DEF RowSeqs, CallSeqs
<1> QED BY <1>2, <1>4, <1>5 DEF n

\* Every call names a new chunk or a row the previous index has.
Takes(calls, previous, C) ==
  /\ calls \in Seq(Call(C))
  /\ \A j \in 1..Len(calls) : calls[j].from >= 0 => previous # None /\ calls[j].from + 1 \in 1..Len(previous.chunks)

\* The row a call comes to.
NamesRow(call, row, previous) ==
  /\ call.from >= 0 => previous # None /\ call.from + 1 \in 1..Len(previous.chunks)
  /\ row = IF call.from < 0 THEN call.chunk ELSE previous.chunks[call.from + 1]

\* The chunk store of the calls is the rows of the files, one after the other.
LEMMA PlanTakes ==
  ASSUME NEW St, NEW C, NEW planned \in Seq(Piece(St, C)), NEW previous, Reuses(planned, previous, C)
  PROVE  /\ Takes(FlattenSeq(CallSeqs(planned)), previous, C)
         /\ WrittenChunks(FlattenSeq(CallSeqs(planned)), previous) = FlattenSeq(RowSeqs(planned, previous))
         /\ FlattenSeq(RowSeqs(planned, previous)) \in Seq(C)
<1> DEFINE cs == CallSeqs(planned)  rs == RowSeqs(planned, previous)  calls == FlattenSeq(cs)  rows == FlattenSeq(rs)  n == Len(planned)
<1>1. cs \in Seq(Seq(Call(C))) /\ Len(cs) = n /\ n \in Nat
  BY PlanType
<1>2. rs \in Seq(Seq(C)) /\ Len(rs) = n /\ \A i \in 1..n : Len(rs[i]) = Len(cs[i]) /\ Len(rs[i]) = planned[i].count
  BY RowSeqsType
<1>3. \A i \in 1..n : cs[i] = CallsOf(planned[i]) /\ rs[i] = PieceRows(planned[i], previous)
  <2>1. DOMAIN planned = 1..n
    OBVIOUS
  <2> QED BY <2>1 DEF CallSeqs, RowSeqs
<1>4. \A i \in 1..n : planned[i] \in Piece(St, C)
  BY ElementOfSeq
<1>5. \A i \in 1..n : planned[i].reused => previous # None /\ previous.chunks \in Seq(C) /\ planned[i].first + planned[i].count <= Len(previous.chunks)
  BY DEF Reuses
<1> HIDE DEF cs, rs, n
<1>6. ASSUME NEW i \in 1..n, NEW q \in 1..Len(rs[i])
      PROVE  NamesRow(cs[i][q], rs[i][q], previous)
  <2> DEFINE p == planned[i]
  <2>1. p \in Piece(St, C) /\ q \in 1..p.count /\ cs[i] = CallsOf(p) /\ rs[i] = PieceRows(p, previous)
    BY <1>2, <1>3, <1>4
  <2>2. p.reused => previous # None /\ previous.chunks \in Seq(C) /\ p.first + p.count <= Len(previous.chunks)
    BY <1>5
  <2> HIDE DEF p
  <2>3. p.first \in Int /\ p.count \in Nat /\ p.reused \in BOOLEAN /\ (p.reused => p.first >= 0) /\ (~p.reused => p.first = -1)
    BY <2>1 DEF Piece
  <2>4. IF p.first < 0 THEN CallsOf(p)[q] = [from |-> -1, chunk |-> p.chunks[q]]
        ELSE CallsOf(p)[q] = [from |-> p.first + q - 1, chunk |-> None]
    BY <2>1, CallsName
  <2>5. ASSUME p.reused PROVE PieceRows(p, previous)[q] = previous.chunks[p.first + q]
    <3>1. \A k \in 1..p.count : PieceRows(p, previous)[k] = previous.chunks[p.first + k]
      BY <2>1, <2>2, <2>5, RowsType
    <3> QED BY <3>1, <2>1
  <2>6. CASE p.reused
    <3>1. cs[i][q].from = p.first + q - 1
      BY <2>1, <2>3, <2>4, <2>6
    <3>2. previous # None /\ Len(previous.chunks) \in Nat /\ p.first >= 0 /\ p.first + p.count <= Len(previous.chunks)
      BY <2>2, <2>3, <2>6
    <3> DEFINE l == Len(previous.chunks)
    <3>3. p.first + q - 1 >= 0 /\ p.first + q - 1 + 1 \in 1..l /\ p.first + q - 1 + 1 = p.first + q
      BY <3>2, <2>1, <2>3
    <3>4. rs[i][q] = previous.chunks[p.first + q]
      BY <2>1, <2>5, <2>6
    <3> DEFINE f == cs[i][q].from
    <3>5. f = p.first + q - 1 /\ f >= 0 /\ f + 1 \in 1..l /\ f + 1 = p.first + q /\ ~(f < 0)
      BY <3>1, <3>3, <2>1, <2>3
    <3>6. rs[i][q] = previous.chunks[f + 1]
      BY <3>4, <3>5
    <3> QED BY <3>2, <3>5, <3>6 DEF NamesRow
  <2>7. CASE ~p.reused
    <3>1. cs[i][q].from = -1 /\ cs[i][q].chunk = p.chunks[q] /\ rs[i][q] = p.chunks[q]
      BY <2>1, <2>3, <2>4, <2>7 DEF PieceRows
    <3> QED BY <3>1 DEF NamesRow
  <2> QED BY <2>6, <2>7, <2>3
<1>7. Len(calls) = Len(rows) /\ \A j \in 1..Len(calls) : \E i \in 1..n : \E q \in 1..Len(rs[i]) : calls[j] = cs[i][q] /\ rows[j] = rs[i][q]
  <2>1. Len(rs) = Len(cs) /\ \A i \in 1..Len(rs) : Len(rs[i]) = Len(cs[i])
    BY <1>1, <1>2
  <2>2. SideBySide(rows, rs, calls, cs)
    BY <1>1, <1>2, <2>1, FlattenAlike
  <2> HIDE DEF rows, calls
  <2> QED BY <2>2, <1>2 DEF SideBySide
<1>8. calls \in Seq(Call(C)) /\ rows \in Seq(C)
  BY <1>1, <1>2, FlattenRange
<1> HIDE DEF calls, rows
<1>9. \A j \in 1..Len(calls) : NamesRow(calls[j], rows[j], previous)
  <2> TAKE j \in 1..Len(calls)
  <2>1. PICK i \in 1..n : \E q \in 1..Len(rs[i]) : calls[j] = cs[i][q] /\ rows[j] = rs[i][q]
    BY <1>7
  <2> QED BY <2>1, <1>6
<1>10. WrittenChunks(calls, previous) = rows
  <2>1. DOMAIN calls = 1..Len(calls) /\ DOMAIN rows = 1..Len(calls)
    BY <1>7, <1>8
  <2>2. rows = [j \in 1..Len(calls) |-> rows[j]]
    BY <1>7, <1>8
  <2> QED BY <1>9, <2>1, <2>2 DEF WrittenChunks, NamesRow
<1> QED BY <1>8, <1>9, <1>10 DEF Takes, NamesRow, calls, rows, cs, rs

\* The postings and the vectors of the rows written are theirs.
LEMMA StoresAgree ==
  ASSUME NEW C, NEW calls, NEW previous, Takes(calls, previous, C),
         previous # None => /\ previous.chunks \in Seq(C) /\ previous.vectors = previous.chunks
                            /\ previous.postings = PostingsOf(previous.chunks)
  PROVE  /\ WrittenPostings(calls, previous) = PostingsOf(WrittenChunks(calls, previous))
         /\ \A runs \in Seq(Run) : Filled(runs, calls)
              => WriteVectors(runs, Len(calls), previous, WrittenChunks(calls, previous)) = WrittenChunks(calls, previous)
<1> DEFINE chunks == WrittenChunks(calls, previous)  n == Len(calls)
<1>1. /\ n \in Nat /\ DOMAIN calls = 1..n /\ DOMAIN chunks = 1..n
      /\ \A j \in 1..n : chunks[j] = IF calls[j].from < 0 THEN calls[j].chunk ELSE previous.chunks[calls[j].from + 1]
  BY DEF Takes, WrittenChunks
<1>2. \A j \in 1..n : calls[j].from \in Int /\ (calls[j].from >= 0 => previous # None /\ calls[j].from + 1 \in 1..Len(previous.chunks))
  <2> TAKE j \in 1..n
  <2> DEFINE c == calls[j]
  <2>1. c \in Call(C)
    BY ElementOfSeq DEF Takes
  <2> HIDE DEF c
  <2>2. c.from \in Int
    BY <2>1 DEF Call
  <2> QED BY <2>2 DEF Takes, c
<1>b. chunks = [j \in 1..n |-> chunks[j]]
  BY <1>1 DEF WrittenChunks
<1> HIDE DEF chunks, n
<1>3. WrittenPostings(calls, previous) = PostingsOf(chunks)
  <2>1. ASSUME NEW t \in Readable
        PROVE  {j \in 1..n : calls[j].from < 0 /\ calls[j].chunk.text = t} \cup
               (IF previous = None THEN {} ELSE {j \in 1..n : calls[j].from \in previous.postings[t]})
               = {j \in 1..n : chunks[j].text = t}
    <3>1. CASE previous = None
      BY <3>1, <1>1, <1>2
    <3>2. CASE previous # None
      <4> DEFINE l == Len(previous.chunks)
      <4>1. l \in Nat /\ DOMAIN previous.chunks = 1..l /\ previous.postings = PostingsOf(previous.chunks)
        BY <3>2
      <4>2. previous.postings[t] = {i - 1 : i \in {j \in 1..l : previous.chunks[j].text = t}}
        BY <4>1 DEF PostingsOf
      <4> HIDE DEF l
      <4>3. ASSUME NEW j \in 1..n
            PROVE  (calls[j].from < 0 /\ calls[j].chunk.text = t) \/ calls[j].from \in previous.postings[t] <=> chunks[j].text = t
        <5>1. CASE calls[j].from < 0
          <6>1. calls[j].from \notin previous.postings[t]
            BY <5>1, <4>1, <4>2, <1>2
          <6> QED BY <5>1, <6>1, <1>1
        <5>2. CASE calls[j].from >= 0
          <6> DEFINE k == calls[j].from
          <6>1. k \in Nat /\ k + 1 \in 1..l
            BY <5>2, <1>2 DEF l
          <6>2. chunks[j] = previous.chunks[k + 1] /\ ~(calls[j].from < 0)
            BY <5>2, <1>1, <1>2
          <6> HIDE DEF k
          <6>3. k \in previous.postings[t] <=> previous.chunks[k + 1].text = t
            <7>1. ASSUME previous.chunks[k + 1].text = t PROVE k \in previous.postings[t]
              <8>1. k + 1 \in {j_1 \in 1..l : previous.chunks[j_1].text = t} /\ k = (k + 1) - 1
                BY <7>1, <6>1
              <8> QED BY <8>1, <4>2
            <7>2. ASSUME k \in previous.postings[t] PROVE previous.chunks[k + 1].text = t
              <8>1. PICK i \in {j_1 \in 1..l : previous.chunks[j_1].text = t} : k = i - 1
                BY <7>2, <4>2
              <8>2. i = k + 1
                BY <8>1, <4>1
              <8> QED BY <8>1, <8>2
            <7> QED BY <7>1, <7>2
          <6> QED BY <6>2, <6>3 DEF k
        <5> QED BY <5>1, <5>2, <1>2
      <4> QED BY <3>2, <4>3
    <3> QED BY <3>1, <3>2
  <2>2. ASSUME NEW t \in Readable PROVE WrittenPostings(calls, previous)[t] = PostingsOf(chunks)[t]
    <3> DEFINE A == {j \in 1..n : calls[j].from < 0 /\ calls[j].chunk.text = t}
               B == {j \in 1..n : calls[j].from \in previous.postings[t]}
               D == {j \in 1..n : chunks[j].text = t}
    <3>1. PostingsOf(chunks)[t] = {i - 1 : i \in D}
      BY <1>1 DEF PostingsOf
    <3>2. WrittenPostings(calls, previous)[t] = {i - 1 : i \in A} \cup (IF previous = None THEN {} ELSE {i - 1 : i \in B})
      BY <1>1 DEF WrittenPostings, Carried
    <3>3. A \cup (IF previous = None THEN {} ELSE B) = D
      BY <2>1
    <3> HIDE DEF A, B, D
    <3> QED BY <3>1, <3>2, <3>3
  <2>3. WrittenPostings(calls, previous) = [t \in Readable |-> WrittenPostings(calls, previous)[t]]
        /\ PostingsOf(chunks) = [t \in Readable |-> PostingsOf(chunks)[t]]
    BY DEF WrittenPostings, PostingsOf
  <2> QED BY <2>2, <2>3
<1>4. ASSUME NEW runs \in Seq(Run), Filled(runs, calls)
      PROVE  WriteVectors(runs, n, previous, chunks) = chunks
  <2> DEFINE holding(i) == {r \in Range(runs) : r.start < i /\ i <= r.start + r.count}
             at(i) == CHOOSE x \in holding(i) : TRUE
             value(i) == IF holding(i) = {} THEN None ELSE
                         IF at(i).previous < 0 THEN chunks[i] ELSE previous.vectors[at(i).previous + i - at(i).start]
  <2>1. WriteVectors(runs, n, previous, chunks) = [i \in 1..n |-> value(i)]
    BY DEF WriteVectors
  <2>2. ASSUME NEW i \in 1..n PROVE value(i) = chunks[i]
    <3>1. holding(i) # {}
      <4>1. PICK k \in 1..Len(runs) : Holds(runs[k], i)
        BY <1>4 DEF Filled, n
      <4>2. runs[k] \in Range(runs)
        BY <4>1 DEF Range
      <4> QED BY <4>1, <4>2 DEF Holds
    <3> DEFINE r == at(i)
    <3>2. r \in holding(i)
      BY <3>1
    <3>3. value(i) = IF r.previous < 0 THEN chunks[i] ELSE previous.vectors[r.previous + i - r.start]
      BY <3>1
    <3> HIDE DEF r
    <3>4. r \in Range(runs) /\ r.start < i /\ i <= r.start + r.count
      BY <3>2
    <3>5. PICK k \in 1..Len(runs) : r = runs[k]
      BY <3>4 DEF Range
    <3>6. r \in Run /\ Fits(r, calls)
      BY <3>5, <1>4, ElementOfSeq DEF Filled
    <3>7. r.start \in Nat /\ r.count \in Nat /\ r.previous \in Int
      BY <3>6 DEF Run
    <3>8. i \in r.start + 1..r.start + r.count
      BY <3>4, <3>7, <1>1
    <3>9. calls[i].from = IF r.previous < 0 THEN -1 ELSE r.previous + i - r.start - 1
      BY <3>6, <3>8 DEF Fits
    <3>10. CASE ~(r.previous < 0)
      <4> DEFINE k_1 == r.previous + i - r.start - 1
      <4>1. k_1 >= 0 /\ calls[i].from = k_1 /\ k_1 + 1 = r.previous + i - r.start
        BY <3>7, <3>8, <3>9, <3>10
      <4>2. previous # None
        BY <4>1, <1>2
      <4>3. chunks[i] = previous.chunks[k_1 + 1] /\ previous.vectors = previous.chunks
        BY <4>1, <4>2, <1>1, <1>2
      <4> QED BY <3>3, <3>10, <4>1, <4>3
    <3> HIDE DEF value
    <3> QED BY <3>3, <3>10
  <2> HIDE DEF value
  <2> QED BY <2>1, <2>2, <1>b
<1> QED BY <1>3, <1>4 DEF chunks, n

\* What a plan is written to, from the rows its files come to.
Listing(planned, sum) == [i \in 1..Len(planned) |-> EntryAt(planned[i], sum[i - 1])]
IndexOf(planned, sum, chunks) ==
  IF sum[Len(planned)] = 0 THEN None
  ELSE [manifest |-> Listing(planned, sum), chunks |-> chunks, postings |-> PostingsOf(chunks), vectors |-> chunks]

\* write_planned writes what its plan says: the rows of its files in their order, an entry per file at
\* its first row, the postings and the vectors of exactly these rows; and it embeds the chunked ones
\* alone.  The merged runs and the copies put off (create.py _extend, write_planned) change nothing.
THEOREM WritePlannedIs ==
  ASSUME NEW St, NEW C, NEW planned \in Seq(Piece(St, C)), NEW previous, Reuses(planned, previous, C), NEW sum, Sums(sum, Counts(planned))
  PROVE  /\ WritePlanned(planned, previous) = IndexOf(planned, sum, FlattenSeq(RowSeqs(planned, previous)))
         /\ Embedded(planned) = Total(FreshCounts(planned))
<1> DEFINE cs == CallSeqs(planned)  n == Len(planned)  w == WritePlan(planned)  calls == FlattenSeq(cs)  rows == FlattenSeq(RowSeqs(planned, previous))
<1>1. cs \in Seq(Seq(Call(C))) /\ Len(cs) = n /\ n \in Nat /\ FreshCounts(planned) \in Seq(Nat) /\ Len(FreshCounts(planned)) = n
  BY PlanType
<1>2. PICK fr : Sums(fr, FreshCounts(planned))
  BY <1>1, SumsExist
<1>3. PICK upto : Joins(upto, cs, Call(C))
  BY <1>1, JoinsExist
<1>4. Done(w, planned, sum, fr, upto, St, C)
  BY <1>2, <1>3, WritePlanDoes
<1>5. calls = upto[n]
  BY <1>1, <1>3, FlattenIs
<1>6. /\ Takes(calls, previous, C) /\ WrittenChunks(calls, previous) = rows
  BY PlanTakes
<1>a. Total(FreshCounts(planned)) = fr[n]
  BY <1>1, <1>2, TotalIs
<1> HIDE DEF w, n, calls, rows
<1>7. /\ w.calls = calls /\ w.row = sum[n] /\ w.row = Len(calls) /\ Filled(w.runs, calls) /\ w \in Writers(St, C)
      /\ Total(Fresh(w.runs)) = fr[n]
      /\ w.manifest \in Seq(Entry(St)) /\ Len(w.manifest) = n /\ \A i \in 1..n : w.manifest[i] = EntryAt(planned[i], sum[i - 1])
  BY <1>4, <1>5 DEF Done, After, Loop, n
<1>8. w.runs \in Seq(Run)
  BY <1>7 DEF Writers
<1>9. previous # None => /\ previous.chunks \in Seq(C) /\ previous.vectors = previous.chunks
                         /\ previous.postings = PostingsOf(previous.chunks)
  BY DEF Reuses
<1>10. WrittenPostings(calls, previous) = PostingsOf(rows)
  BY <1>6, <1>9, StoresAgree
<1>11. WriteVectors(w.runs, w.row, previous, rows) = rows
  BY <1>6, <1>7, <1>8, <1>9, StoresAgree
<1>12. w.manifest = Listing(planned, sum)
  <2> DEFINE m == w.manifest
  <2>1. m \in Seq(Entry(St)) /\ Len(m) = n
    BY <1>7
  <2> HIDE DEF m
  <2>2. m = [i \in 1..n |-> m[i]]
    BY <2>1
  <2> QED BY <2>2, <1>7 DEF Listing, m, n
<1>13. WritePlanned(planned, previous) = IndexOf(planned, sum, rows)
  BY <1>6, <1>7, <1>10, <1>11, <1>12 DEF WritePlanned, IndexOf, w, n
<1>14. Embedded(planned) = Total(FreshCounts(planned))
  BY <1>7, <1>a DEF Embedded, Fresh, w
<1> QED BY <1>13, <1>14 DEF rows

-----------------------------------------------------------------------------
(* The inductive invariant, in parts. *)

\* What a path may hold.
Texts == Readable \cup {Blank, Unreadable, Gone}

\* The text a stamp stands for, by the histories w of the files, and whether a stamp stands for one.
TextIn(w, f, stamp) == w[stamp[1]][f][stamp[2]]
Known(w, f, stamp) == stamp \in Stamps /\ stamp[2] <= Len(w[stamp[1]][f])

\* rows are those of a file at a stamp.
Tells(w, root, f, stamp, count, rows) ==
  /\ Known(w, f, stamp) /\ TextIn(w, f, stamp) \in Readable
  /\ count = Pieces[TextIn(w, f, stamp)]
  /\ rows = Chunks(root, f, TextIn(w, f, stamp))

\* No path twice.
Unique(entries) == \A i, j \in 1..Len(entries) : entries[i].path = entries[j].path => i = j

\* An index whose rows are what its manifest says.
Sound(w, root, index) ==
  /\ index.manifest \in Seq(Entry(Stamps)) /\ Unique(index.manifest)
  /\ index.chunks \in Seq(Chunk) /\ Len(index.chunks) = Rows(index.manifest)
  /\ index.vectors = index.chunks /\ index.postings = PostingsOf(index.chunks)
  /\ \A i \in 1..Len(index.manifest) :
       LET e == index.manifest[i]
       IN e.start + e.count <= Len(index.chunks) /\ Tells(w, root, e.path, e.stamp, e.count, RowsOf(index.chunks, e))

\* An index, or none.
SoundOrNone(w, root, index) == index # None => Sound(w, root, index)

\* The texts each file has held; it has held one.
Histories(w) == w \in [Roots -> [Files -> Seq(Texts)]] /\ \A r \in Roots, f \in Files : Len(w[r][f]) >= 1

\* A file holds the last text of its history, at the stamp of that.
TreeInv ==
  /\ Histories(written)
  /\ tree \in [Roots -> [Files -> [text : Texts, stamp : Stamps]]]
  /\ \A r \in Roots, f \in Files : /\ tree[r][f].stamp = <<r, Len(written[r][f])>>
                                   /\ tree[r][f].text = written[r][f][Len(written[r][f])]
                                   /\ tree[r][f].text \in Contents[f]

\* What the excuses and the other small variables are.
Excuses == [refused : SUBSET Files, ruled : SUBSET Files, edits : Nat, commits : Nat, rules : Nat,
            unseen : SUBSET (Roots \X Files), committed : BOOLEAN, outrun : SUBSET Files]

ValueInv ==
  /\ head \in [Files -> Texts] /\ ignored \subseteq Files
  /\ queue \in [rescan : BOOLEAN, paths : SUBSET Files] /\ replan \in BOOLEAN
  /\ excuse \in Excuses
  /\ plan.at \in {"idle", "head", "lane", "base", "walk", "compare"} /\ plan.committed \in BOOLEAN /\ plan.git \in BOOLEAN
  /\ plan = [at |-> plan.at, base |-> plan.base, previous |-> plan.previous, git |-> plan.git, head |-> plan.head,
             moved |-> plan.moved, left |-> plan.left, stamp |-> plan.stamp, shared |-> plan.shared,
             differing |-> plan.differing, committed |-> plan.committed]

\* An overlay that points into sound indexes and has every file's rows together.
OverlaySound(w, o) ==
  /\ Sound(w, "base", o.base) /\ SoundOrNone(w, "lane", o.delta)
  /\ o.keep \in Seq(Nat) /\ \A r \in 1..Len(o.keep) : o.keep[r] + 1 \in 1..Len(o.base.chunks)
  /\ o.manifest \in Seq(Entry(Stamps))
  /\ \A e \in Range(o.manifest) : \E r \in Roots, text \in Readable : RowsOf(OverlayChunks(o), e) = Chunks(r, e.path, text)

\* Every index that is kept, or that a plan reads, is sound.
StoresInv ==
  /\ store # None /\ Sound(written, "base", store)
  /\ SoundOrNone(written, "lane", delta)
  /\ overlay # None => OverlaySound(written, overlay)
  /\ plan.at # "idle" => Sound(written, "base", plan.base) /\ SoundOrNone(written, "lane", plan.previous)

\* What the base's index says of a file, and of which files it must.
Follows(f) ==
  IF f \in Files \ (ignored \cup Linked) /\ tree["base"][f].text \in Readable
  THEN Current(EntryOf(store.manifest, f), tree["base"][f])
  ELSE f \notin Paths(store.manifest)

QueueInv ==
  /\ queue.paths \cap Negated = {} /\ queue.paths \cap ignored \subseteq excuse.ruled
  /\ ~queue.rescan =>
       \A f \in Files \ (Linked \cup excuse.refused \cup excuse.ruled \cup queue.paths) :
          <<"base", f>> \notin excuse.unseen => Follows(f)

\* What the lane's files are, for those whose edits are reported, while no change is noted.
Still(f) == ~replan /\ <<"lane", f>> \notin excuse.unseen
LaneText(f) == tree["lane"][f].text

\* The base's rows of a file are the lane's.
Borrowed(f) ==
  /\ f \in Paths(plan.base.manifest) /\ Capsule("lane", f) = Capsule("base", f)
  /\ TextOf(f, EntryOf(plan.base.manifest, f).stamp) = LaneText(f)

\* The verdict on a file that was walked: the base's rows are the lane's, unless the base's file
\* outran them between its stat and the comparison.
Judged(f) ==
  IF Valid(tree["lane"][f]) THEN f \in plan.differing \/ (f \in Paths(plan.shared) /\ (Borrowed(f) \/ f \in excuse.outrun))
  ELSE f \notin plan.differing /\ f \notin Paths(plan.shared)

\* What git's answers come to once the base's rows are current.
Spared(f) == Current(EntryOf(plan.base.manifest, f), tree["base"][f]) => LaneText(f) = tree["base"][f].text

\* The verdicts so far are on the files walked.
Verdicts ==
  /\ plan.left \in Seq(Files \ Linked) /\ IsInjective(plan.left)
  /\ plan.shared \in Seq([path : Files, stamp : Stamps]) /\ Paths(plan.shared) \subseteq Files \ Linked
  /\ plan.differing \subseteq Files \ Linked /\ Paths(plan.shared) \cap plan.differing = {}
  /\ Range(plan.left) \cap (Paths(plan.shared) \cup plan.differing) = {}

\* The file that is yet to be compared.
Compared ==
  /\ plan.left # <<>> /\ plan.stamp \in Stamps
  /\ \A f \in Files : f = Head(plan.left) =>
       Capsule("lane", f) = Capsule("base", f) /\ (Still(f) => Valid(tree["lane"][f]))

\* The plan is walking the lane.
Walking == plan.at \in {"walk", "compare"}

\* What a plan knows at each of its steps: the HEAD it read is the HEAD until a commit; the files
\* git called unmoved are those of that HEAD; the files it has judged are judged rightly.
PlanInv ==
  /\ plan.at \in {"head", "lane", "base"} => plan.shared = <<>> /\ plan.differing = {}
  /\ plan.at \in {"lane", "base"} /\ ~plan.committed => plan.head = head
  /\ plan.at = "base" => \A f \in Tracked : Still(f) /\ f \notin plan.moved => LaneText(f) = plan.head[f]
  /\ plan.at = "compare" => Compared
  /\ Walking =>
       /\ Verdicts
       /\ ~plan.committed => \A f \in Tracked : Still(f) /\ f \notin plan.moved => Spared(f)
       /\ ~plan.committed => \A f \in Files \ Linked : Still(f) /\ f \notin Range(plan.left) => Judged(f)

\* What the lane's index says of a file.
LaneFollows(f) ==
  LET file == tree["lane"][f]
  IN IF f \notin Linked /\ file.text \in Readable
     THEN /\ Pieces[file.text] > 0 => f \in Paths(overlay.manifest)
          /\ f \in Paths(overlay.manifest) =>
               RowsOf(OverlayChunks(overlay), EntryOf(overlay.manifest, f)) = Chunks("lane", f, file.text)
     ELSE f \notin Paths(overlay.manifest)

\* A finished plan answers with the lane's files.
LaneInv ==
  plan.at = "idle" /\ overlay # None /\ ~excuse.committed =>
    \A f \in Files \ excuse.outrun : Still(f) => LaneFollows(f)

\* While no change is noted a plan has the base's index of now, and that index does not list
\* the files that outran it.
OutrunInv ==
  ~replan =>
    /\ plan.at # "idle" => plan.base = store
    /\ plan.at # "idle" \/ overlay # None =>
         \A f \in excuse.outrun : ~Current(EntryOf(store.manifest, f), tree["base"][f])

-----------------------------------------------------------------------------
(* A plan of right files writes a sound index. *)

\* numbers are the lengths of the sequences.
Measures(numbers, seqs) == Len(numbers) = Len(seqs) /\ \A i \in 1..Len(seqs) : Len(seqs[i]) = numbers[i]

\* What is joined is as long as the sum of the lengths.
LEMMA LengthsAreSums ==
  ASSUME NEW X, NEW seqs \in Seq(Seq(X)), NEW upto, Joins(upto, seqs, X), NEW numbers \in Seq(Nat), NEW sum, Sums(sum, numbers),
         Measures(numbers, seqs)
  PROVE  \A i \in 0..Len(seqs) : Len(upto[i]) = sum[i]
<1> DEFINE n == Len(seqs)  S == {i \in 0..n : Len(upto[i]) = sum[i]}
<1>1. n \in Nat /\ n = Len(numbers) /\ \A i \in 1..n : Len(seqs[i]) = numbers[i]
  BY DEF Measures
<1>2. 0 \in S
  BY <1>1 DEF Joins, Sums
<1>3. ASSUME NEW i \in 1..n, i - 1 \in S PROVE i \in S
  <2>1. Joined(upto[i], upto[i - 1], seqs[i], X)
    BY JoinsStep
  <2>2. sum[i] = sum[i - 1] + numbers[i] /\ Len(seqs[i]) = numbers[i]
    BY <1>1 DEF Sums
  <2>3. Len(upto[i]) = sum[i]
    BY <2>1, <2>2, <1>3 DEF Joined
  <2> QED BY <2>3
<1> HIDE DEF S
<1>4. 0..n \subseteq S
  BY <1>1, <1>2, <1>3, InductionUpTo
<1> QED BY <1>4 DEF S

\* The entries of what is written are the files of the plan.
AsPlanned(entries, planned) ==
  Len(entries) = Len(planned) /\ \A i \in 1..Len(planned) : entries[i].path = planned[i].path /\ entries[i].stamp = planned[i].stamp

\* The manifest of what is written.
LEMMA ListingType ==
  ASSUME NEW St, NEW C, NEW planned \in Seq(Piece(St, C)), NEW sum, Sums(sum, Counts(planned))
  PROVE  /\ Listing(planned, sum) \in Seq(Entry(St)) /\ Len(Listing(planned, sum)) = Len(planned)
         /\ \A i \in 1..Len(planned) : Listing(planned, sum)[i] = EntryAt(planned[i], sum[i - 1]) /\ sum[i - 1] \in Nat
         /\ AsPlanned(Listing(planned, sum), planned)
         /\ Rows(Listing(planned, sum)) = sum[Len(planned)]
<1> DEFINE n == Len(planned)  m == Listing(planned, sum)
<1>1. n \in Nat /\ Len(Counts(planned)) = n /\ Counts(planned) \in Seq(Nat) /\ DOMAIN planned = 1..n
  BY PlanType
<1>2. ASSUME NEW i \in 1..n PROVE EntryAt(planned[i], sum[i - 1]) \in Entry(St) /\ sum[i - 1] \in Nat
  <2> DEFINE p == planned[i]
  <2>1. p \in Piece(St, C)
    BY ElementOfSeq
  <2>2. i - 1 \in 0..n
    BY <1>1
  <2>3. sum[i - 1] \in Nat
    BY <2>2, <1>1 DEF Sums
  <2> HIDE DEF p
  <2>4. EntryAt(p, sum[i - 1]) \in Entry(St)
    BY <2>1, <2>3 DEF EntryAt, Entry, Piece
  <2> QED BY <2>3, <2>4 DEF p
<1>3. m = [i \in 1..n |-> EntryAt(planned[i], sum[i - 1])]
  BY DEF Listing
<1> HIDE DEF m, n
<1>4. m \in [1..n -> Entry(St)] /\ \A i \in 1..n : m[i] = EntryAt(planned[i], sum[i - 1])
  BY <1>2, <1>3
<1>5. m \in Seq(Entry(St)) /\ Len(m) = n /\ DOMAIN m = 1..n
  BY <1>1, <1>4
<1>6. AsPlanned(m, planned)
  BY <1>4, <1>5 DEF AsPlanned, EntryAt, n
<1>7. Rows(m) = sum[n]
  <2>1. \A i \in 1..n : m[i].count = planned[i].count
    BY <1>4 DEF EntryAt
  <2>2. [i \in DOMAIN m |-> m[i].count] = Counts(planned)
    BY <2>1, <1>1, <1>5 DEF Counts
  <2>3. Total(Counts(planned)) = sum[n]
    BY <1>1, TotalIs
  <2> QED BY <2>2, <2>3 DEF Rows
<1> QED BY <1>2, <1>4, <1>5, <1>6, <1>7 DEF m, n

\* What a plan of right files writes is sound.
LEMMA IndexIsSound ==
  ASSUME NEW w, NEW root, NEW previous, NEW planned \in Seq(Piece(Stamps, Chunk)), Unique(planned), Reuses(planned, previous, Chunk),
         \A i \in 1..Len(planned) : Tells(w, root, planned[i].path, planned[i].stamp, planned[i].count, PieceRows(planned[i], previous)),
         WritePlanned(planned, previous) # None
  PROVE  /\ Sound(w, root, WritePlanned(planned, previous)) /\ AsPlanned(WritePlanned(planned, previous).manifest, planned)
         /\ \A i \in 1..Len(planned) : RowsOf(WritePlanned(planned, previous).chunks, WritePlanned(planned, previous).manifest[i]) = PieceRows(planned[i], previous)
<1> DEFINE n == Len(planned)  rs == RowSeqs(planned, previous)  rows == FlattenSeq(rs)  index == WritePlanned(planned, previous)
<1>0. Counts(planned) \in Seq(Nat) /\ Len(Counts(planned)) = n /\ n \in Nat
  BY PlanType
<1>1. PICK sum : Sums(sum, Counts(planned))
  BY <1>0, SumsExist
<1> DEFINE m == Listing(planned, sum)
<1>2. index = IndexOf(planned, sum, rows)
  BY <1>1, WritePlannedIs
<1>3. rs \in Seq(Seq(Chunk)) /\ Len(rs) = n /\ \A i \in 1..n : Len(rs[i]) = planned[i].count /\ rs[i] = PieceRows(planned[i], previous)
  <2>1. rs \in Seq(Seq(Chunk)) /\ Len(rs) = n /\ \A i \in 1..n : Len(rs[i]) = planned[i].count
    BY RowSeqsType
  <2>2. \A i \in 1..n : rs[i] = PieceRows(planned[i], previous)
    BY DEF RowSeqs
  <2> QED BY <2>1, <2>2
<1>4. PICK upto : Joins(upto, rs, Chunk)
  BY <1>3, JoinsExist
<1>5. /\ m \in Seq(Entry(Stamps)) /\ Len(m) = n
      /\ \A i \in 1..n : m[i] = EntryAt(planned[i], sum[i - 1]) /\ sum[i - 1] \in Nat
      /\ AsPlanned(m, planned) /\ Rows(m) = sum[n]
  BY <1>1, ListingType
<1> HIDE DEF rs
<1>6. \A i \in 0..n : Len(upto[i]) = sum[i]
  <2>1. \A i \in 1..n : Counts(planned)[i] = planned[i].count
    BY DEF Counts
  <2>2. Measures(Counts(planned), rs)
    BY <2>1, <1>0, <1>3 DEF Measures
  <2>3. \A i \in 0..Len(rs) : Len(upto[i]) = sum[i]
    BY <2>2, <1>0, <1>1, <1>3, <1>4, LengthsAreSums
  <2> QED BY <2>3, <1>3
<1>7. rows = upto[n] /\ rows \in Seq(Chunk)
  <2>1. rows = upto[Len(rs)]
    BY <1>3, <1>4, FlattenIs
  <2>2. rows \in Seq(Chunk)
    BY <1>3, FlattenRange
  <2> QED BY <2>1, <2>2, <1>3
<1>8. index = [manifest |-> m, chunks |-> rows, postings |-> PostingsOf(rows), vectors |-> rows]
  BY <1>2 DEF IndexOf
<1>9. ASSUME NEW i \in 1..n
      PROVE  m[i].start + m[i].count <= Len(rows) /\ RowsOf(rows, m[i]) = PieceRows(planned[i], previous)
  <2>1. Found(rs[i], Len(upto[i - 1]), rows, Chunk)
    BY <1>3, <1>4, FlattenPart
  <2>2. i - 1 \in 0..n
    BY <1>0
  <2>3. Len(upto[i - 1]) = m[i].start /\ Len(rs[i]) = m[i].count /\ rs[i] = PieceRows(planned[i], previous)
    <3>1. m[i] = EntryAt(planned[i], sum[i - 1]) /\ Len(upto[i - 1]) = sum[i - 1]
      BY <2>2, <1>5, <1>6
    <3>2. m[i].start = sum[i - 1] /\ m[i].count = planned[i].count
      BY ONLY <3>1 DEF EntryAt
    <3> QED BY <3>1, <3>2, <1>3
  <2> QED BY <2>1, <2>3 DEF Found, RowsOf
<1>10. Len(rows) = Rows(m)
  <2>1. n \in 0..n
    BY <1>0
  <2> QED BY <2>1, <1>5, <1>6, <1>7
<1>11. Unique(m)
  BY <1>5 DEF AsPlanned, Unique
<1>12. \A i \in 1..n : Tells(w, root, m[i].path, m[i].stamp, m[i].count, RowsOf(rows, m[i]))
  <2> TAKE i \in 1..n
  <2>1. m[i] = EntryAt(planned[i], sum[i - 1])
    BY <1>5
  <2>2. m[i].path = planned[i].path /\ m[i].stamp = planned[i].stamp /\ m[i].count = planned[i].count
    BY ONLY <2>1 DEF EntryAt
  <2> QED BY <2>2, <1>9
<1> HIDE DEF m, rows, index
<1>13. Sound(w, root, index)
  BY <1>5, <1>7, <1>8, <1>9, <1>10, <1>11, <1>12 DEF Sound
<1> QED BY <1>5, <1>8, <1>9, <1>13 DEF index

-----------------------------------------------------------------------------
(* The four ways to plan. *)

\* A file of a plan that is what it says.
Good(w, root, previous) ==
  {p \in Piece(Stamps, Chunk) : /\ Tells(w, root, p.path, p.stamp, p.count, PieceRows(p, previous))
                                /\ p.reused => previous # None /\ p.first + p.count <= Len(previous.chunks)}

\* So a plan whose files are right writes a sound index, or nothing.
LEMMA GoodPlanIsSound ==
  ASSUME NEW w, NEW root, NEW r, NEW previous, SoundOrNone(w, r, previous),
         NEW planned \in Seq(Good(w, root, previous)), Unique(planned)
  PROVE  /\ planned \in Seq(Piece(Stamps, Chunk)) /\ Reuses(planned, previous, Chunk)
         /\ WritePlanned(planned, previous) # None =>
              /\ Sound(w, root, WritePlanned(planned, previous)) /\ AsPlanned(WritePlanned(planned, previous).manifest, planned)
              /\ \A i \in 1..Len(planned) :
                   RowsOf(WritePlanned(planned, previous).chunks, WritePlanned(planned, previous).manifest[i]) = PieceRows(planned[i], previous)
<1>1. \A i \in 1..Len(planned) : planned[i] \in Good(w, root, previous)
  BY ElementOfSeq
<1>2. planned \in Seq(Piece(Stamps, Chunk))
  <2>1. planned \in [1..Len(planned) -> Piece(Stamps, Chunk)] /\ Len(planned) \in Nat
    BY <1>1 DEF Good
  <2> QED BY <2>1
<1>3. Reuses(planned, previous, Chunk)
  BY <1>1 DEF Reuses, Good, SoundOrNone, Sound
<1>4. \A i \in 1..Len(planned) : Tells(w, root, planned[i].path, planned[i].stamp, planned[i].count, PieceRows(planned[i], previous))
  BY <1>1 DEF Good
<1> QED BY <1>2, <1>3, <1>4, IndexIsSound

\* The chunks of a text.
LEMMA ChunksType ==
  ASSUME NEW root \in Roots, NEW f \in Files, NEW text \in Readable
  PROVE  Chunks(root, f, text) \in Seq(Chunk) /\ Len(Chunks(root, f, text)) = Pieces[text] /\ Pieces[text] \in Nat
<1> DEFINE n == Pieces[text]  s == Chunks(root, f, text)
<1>1. n \in Nat
  BY WriteAssumption
<1>2. \A i \in 1..n : [path |-> f, text |-> text, slot |-> i, capsule |-> Capsule(root, f)] \in Chunk
  BY DEF Chunk
<1>3. s \in [1..n -> Chunk]
  BY <1>2 DEF Chunks
<1> HIDE DEF s, n
<1>4. s \in Seq(Chunk) /\ Len(s) = n
  BY <1>1, <1>3
<1> QED BY <1>1, <1>4 DEF s, n

\* One file, with the rows it has.
One(s, f, stamp, reused, G) ==
  s \in Seq(G) /\ Len(s) = 1 /\ s[1].path = f /\ s[1].stamp = stamp /\ s[1].reused = reused

\* A sequence of one file.
LEMMA OneIs ==
  ASSUME NEW G, NEW p \in G
  PROVE  One(<<p>>, p.path, p.stamp, p.reused, G)
BY DEF One

\* Its element.
LEMMA OneElement ==
  ASSUME NEW s, NEW f, NEW stamp, NEW reused, NEW G, One(s, f, stamp, reused, G)
  PROVE  s[1] \in G /\ Range(s) = {s[1]}
<1>1. s \in Seq(G) /\ Len(s) = 1
  BY DEF One
<1>2. s = <<s[1]>>
  BY <1>1
<1>3. s[1] \in G
  BY <1>1, <1>2
<1>4. DOMAIN s = {1}
  BY <1>1
<1> QED BY <1>3, <1>4 DEF Range

\* An entry reused at a stamp that stands for the same text is right.
LEMMA ReusedGood ==
  ASSUME NEW w, NEW root, NEW r, NEW previous, Sound(w, r, previous), previous # None, NEW i \in 1..Len(previous.manifest), NEW e, e = previous.manifest[i],
         Capsule(root, e.path) = Capsule(r, e.path), NEW stamp, Known(w, e.path, stamp), TextIn(w, e.path, stamp) = TextIn(w, e.path, e.stamp)
  PROVE  /\ One(Reused(e, stamp), e.path, stamp, TRUE, Good(w, root, previous))
         /\ Tells(w, r, e.path, e.stamp, e.count, RowsOf(previous.chunks, e))
<1>1. e \in Entry(Stamps) /\ e.start + e.count <= Len(previous.chunks) /\ Tells(w, r, e.path, e.stamp, e.count, RowsOf(previous.chunks, e))
  BY ElementOfSeq DEF Sound
<1> DEFINE p == [path |-> e.path, stamp |-> stamp, reused |-> TRUE, first |-> e.start, count |-> e.count, chunks |-> <<>>]
<1>2. p \in Piece(Stamps, Chunk)
  BY <1>1 DEF Piece, Entry, Known
<1>3. PieceRows(p, previous) = RowsOf(previous.chunks, e)
  BY DEF PieceRows, RowsOf
<1>4. Tells(w, root, e.path, stamp, e.count, RowsOf(previous.chunks, e))
  BY <1>1 DEF Tells, Chunks
<1>5. p \in Good(w, root, previous)
  BY <1>1, <1>2, <1>3, <1>4 DEF Good
<1>6. Reused(e, stamp) = <<p>> /\ p.path = e.path /\ p.stamp = stamp /\ p.reused = TRUE
  BY DEF Reused
<1> HIDE DEF p
<1> QED BY <1>1, <1>5, <1>6, OneIs

\* A file chunked now is right, or left out where it cannot be read.
LEMMA ChunkedGood ==
  ASSUME NEW w, NEW root \in Roots, NEW previous, NEW f \in Files, NEW file, Known(w, f, file.stamp), TextIn(w, f, file.stamp) = file.text
  PROVE  IF file.text \in Readable THEN One(Chunked(root, f, file), f, file.stamp, FALSE, Good(w, root, previous))
         ELSE Chunked(root, f, file) = <<>>
<1>1. SUFFICES ASSUME file.text \in Readable PROVE One(Chunked(root, f, file), f, file.stamp, FALSE, Good(w, root, previous))
  BY DEF Chunked
<1> DEFINE s == Chunks(root, f, file.text)
           p == [path |-> f, stamp |-> file.stamp, reused |-> FALSE, first |-> -1, count |-> Pieces[file.text], chunks |-> s]
<1>2. s \in Seq(Chunk) /\ Len(s) = Pieces[file.text] /\ Pieces[file.text] \in Nat
  BY <1>1, ChunksType
<1> HIDE DEF s
<1>3. p \in Piece(Stamps, Chunk)
  BY <1>2 DEF Piece, Known
<1>4. Tells(w, root, f, file.stamp, Pieces[file.text], s)
  BY <1>1 DEF Tells, s
<1>5. PieceRows(p, previous) = s
  BY DEF PieceRows
<1>6. p \in Good(w, root, previous)
  BY <1>3, <1>4, <1>5 DEF Good
<1>7. Chunked(root, f, file) = <<p>> /\ p.path = f /\ p.stamp = file.stamp /\ p.reused = FALSE
  BY <1>1 DEF Chunked, s
<1> HIDE DEF p
<1> QED BY <1>6, <1>7, OneIs

-----------------------------------------------------------------------------
(* Entries. *)

\* The paths of a list.
LEMMA PathsAre ==
  ASSUME NEW E, NEW m \in Seq(E), NEW f
  PROVE  f \in Paths(m) <=> \E i \in 1..Len(m) : m[i].path = f
BY DEF Paths, Range

\* The entry of a path is the one that has it.
LEMMA EntryIs ==
  ASSUME NEW E, NEW m \in Seq(E), Unique(m), NEW i \in 1..Len(m)
  PROVE  EntryOf(m, m[i].path) = m[i]
<1> DEFINE at == {j \in DOMAIN m : m[j].path = m[i].path}
<1>1. at = {i}
  BY DEF Unique
<1>2. EntryOf(m, m[i].path) = IF at = {} THEN None ELSE m[CHOOSE j \in at : TRUE]
  BY DEF EntryOf
<1> HIDE DEF at
<1> QED BY <1>1, <1>2

\* A path that is not listed has none.
LEMMA NoEntry ==
  ASSUME NEW E, NEW m \in Seq(E), NEW f, f \notin Paths(m)
  PROVE  EntryOf(m, f) = None
<1>1. {j \in DOMAIN m : m[j].path = f} = {}
  BY PathsAre
<1> QED BY <1>1 DEF EntryOf

\* When an entry is current.
LEMMA EntryCurrent ==
  ASSUME NEW m \in Seq(Entry(Stamps)), Unique(m), NEW f, NEW file
  PROVE  /\ Current(EntryOf(m, f), file) <=> \E i \in 1..Len(m) : m[i].path = f /\ m[i].stamp = file.stamp
         /\ f \in Paths(m) => \E i \in 1..Len(m) : m[i].path = f /\ EntryOf(m, f) = m[i] /\ m[i] # None
         /\ f \notin Paths(m) => EntryOf(m, f) = None
<1>1. \A i \in 1..Len(m) : m[i] \in Entry(Stamps) /\ m[i] # None
  <2> TAKE i \in 1..Len(m)
  <2>1. m[i] \in Entry(Stamps)
    BY ElementOfSeq
  <2>2. Entry(Stamps) = Entries
    BY DEF Entry, Entries
  <2> QED BY <2>1, <2>2, LaneAssumption
<1>2. \A i \in 1..Len(m) : EntryOf(m, m[i].path) = m[i]
  BY EntryIs
<1>3. f \in Paths(m) <=> \E i \in 1..Len(m) : m[i].path = f
  BY PathsAre
<1>4. f \notin Paths(m) => EntryOf(m, f) = None
  BY NoEntry
<1> QED BY <1>1, <1>2, <1>3, <1>4 DEF Current

-----------------------------------------------------------------------------
(* Files in order. *)

\* Sequences of one element or none.
LEMMA OneOrNone ==
  /\ \A x : Len(<<x>>) = 1 /\ <<x>>[1] = x /\ Range(<<x>>) = {x}
  /\ Len(<<>>) = 0 /\ Len(<<>>) <= 1 /\ Range(<<>>) = {} /\ \A x : Len(<<x>>) <= 1
BY DEF Range

\* InOrder lists each file of a set once.
LEMMA InOrderLists ==
  ASSUME NEW S \in SUBSET Files
  PROVE  InOrder(S) \in Seq(Files) /\ IsInjective(InOrder(S)) /\ Range(InOrder(S)) = S
<1> DEFINE n == Len(Order)
           seqs == [i \in DOMAIN Order |-> IF Order[i] \in S THEN <<Order[i]>> ELSE <<>>]
<1>1. n \in Nat /\ DOMAIN Order = 1..n /\ \A i \in 1..n : Order[i] \in Files
  BY WriteAssumption
<1>2. \A i \in 1..n : seqs[i] = (IF Order[i] \in S THEN <<Order[i]>> ELSE <<>>) /\ seqs[i] \in Seq(Files)
  BY <1>1
<1>3. seqs \in [1..n -> Seq(Files)]
  BY <1>1, <1>2
<1>4. InOrder(S) = FlattenSeq(seqs)
  BY DEF InOrder
<1> HIDE DEF seqs, n
<1>5. seqs \in Seq(Seq(Files)) /\ Len(seqs) = n
  BY <1>1, <1>3
<1>6. ASSUME NEW i \in 1..n
      PROVE  IF Order[i] \in S THEN Len(seqs[i]) = 1 /\ Len(seqs[i]) <= 1 /\ seqs[i][1] = Order[i] /\ Range(seqs[i]) = {Order[i]}
             ELSE Len(seqs[i]) = 0 /\ Len(seqs[i]) <= 1 /\ Range(seqs[i]) = {}
  <2>1. CASE Order[i] \in S
    <3>1. seqs[i] = <<Order[i]>>
      BY <1>2, <2>1
    <3> QED BY <2>1, <3>1, OneOrNone
  <2>2. CASE Order[i] \notin S
    <3>1. seqs[i] = <<>>
      BY <1>2, <2>2
    <3> QED BY <2>2, <3>1, OneOrNone
  <2> QED BY <2>1, <2>2
<1> DEFINE all == FlattenSeq(seqs)
<1>7. all \in Seq(Files) /\ \A x : x \in Range(all) <=> \E i \in 1..n : x \in Range(seqs[i])
  BY <1>5, FlattenRange
<1>8. \E from \in [1..Len(all) -> 1..Len(seqs)] :
           /\ \A p \in 1..Len(all) : Len(seqs[from[p]]) = 1 /\ all[p] = seqs[from[p]][1]
           /\ \A p, q \in 1..Len(all) : from[p] = from[q] => p = q
  <2>1. \A i \in 1..Len(seqs) : Len(seqs[i]) <= 1
    <3> TAKE i \in 1..Len(seqs)
    <3> QED BY <1>5, <1>6
  <2> QED BY <1>5, <2>1, FlattenAtMostOne
<1> HIDE DEF all
<1>9. IsInjective(all)
  <2>1. PICK from \in [1..Len(all) -> 1..n] :
           /\ \A p \in 1..Len(all) : Len(seqs[from[p]]) = 1 /\ all[p] = seqs[from[p]][1]
           /\ \A p, q \in 1..Len(all) : from[p] = from[q] => p = q
    BY <1>5, <1>8
  <2>2. \A p \in 1..Len(all) : all[p] = Order[from[p]]
    <3> TAKE p \in 1..Len(all)
    <3>1. from[p] \in 1..n /\ Len(seqs[from[p]]) = 1 /\ all[p] = seqs[from[p]][1]
      BY <2>1
    <3>2. Len(seqs[from[p]]) # 0
      BY <3>1
    <3> QED BY <3>1, <3>2, <1>6
  <2>3. \A i, j \in 1..n : Order[i] = Order[j] => i = j
    BY <1>1, WriteAssumption DEF IsInjective
  <2>4. \A p, q \in 1..Len(all) : all[p] = all[q] => p = q
    BY <2>1, <2>2, <2>3
  <2>5. DOMAIN all = 1..Len(all)
    BY <1>7
  <2> QED BY <2>4, <2>5 DEF IsInjective
<1>10. Range(all) = S
  <2>1. ASSUME NEW i \in 1..n PROVE \A x : x \in Range(seqs[i]) <=> x = Order[i] /\ x \in S
    BY <1>6
  <2>2. \A x \in S : \E i \in 1..n : Order[i] = x
    BY <1>1 DEF Files, Range
  <2>3. \A x : x \in Range(all) <=> x \in S
    <3> TAKE x
    <3>1. x \in Range(all) <=> \E i \in 1..n : x = Order[i] /\ x \in S
      BY <2>1, <1>7
    <3> QED BY <3>1, <2>2
  <2> QED BY <2>3
<1> QED BY <1>4, <1>7, <1>9, <1>10 DEF all

-----------------------------------------------------------------------------
(* Plans, file by file. *)

\* The files of a plan with the path f are those of s.
Part(planned, f, s) == \A p : (p \in Range(planned) /\ p.path = f) <=> p \in Range(s)

\* A plan made of what its names come to.
Composed(all, names, seqs, G) ==
  /\ all \in Seq(G) /\ Unique(all)
  /\ \A i \in 1..Len(names) : Part(all, names[i], seqs[i])
  /\ \A f : f \notin Range(names) => Part(all, f, <<>>)

\* A file or nothing per name gives a list without a path twice, with what each name gave.
LEMMA Composes ==
  ASSUME NEW G, NEW names \in Seq(Files), IsInjective(names), NEW seqs \in Seq(Seq(G)), Len(seqs) = Len(names),
         \A i \in 1..Len(names) : Len(seqs[i]) <= 1 /\ \A q \in 1..Len(seqs[i]) : seqs[i][q].path = names[i]
  PROVE  Composed(FlattenSeq(seqs), names, seqs, G)
<1> DEFINE n == Len(names)  all == FlattenSeq(seqs)
<1>1. n \in Nat /\ n = Len(seqs) /\ DOMAIN names = 1..n
  OBVIOUS
<1>2. all \in Seq(G) /\ \A x : x \in Range(all) <=> \E i \in 1..n : x \in Range(seqs[i])
  BY <1>1, FlattenRange
<1>3. PICK from \in [1..Len(all) -> 1..Len(seqs)] :
           /\ \A p \in 1..Len(all) : Len(seqs[from[p]]) = 1 /\ all[p] = seqs[from[p]][1]
           /\ \A p, q \in 1..Len(all) : from[p] = from[q] => p = q
  BY FlattenAtMostOne
<1> HIDE DEF all, n
<1>4. \A i, j \in 1..n : names[i] = names[j] => i = j
  BY <1>1 DEF IsInjective
<1>5. \A i \in 1..n : \A x \in Range(seqs[i]) : x.path = names[i]
  <2> TAKE i \in 1..n
  <2>1. seqs[i] \in Seq(G)
    BY <1>1, ElementOfSeq
  <2> DEFINE s == seqs[i]
  <2>2. \A q \in 1..Len(s) : s[q].path = names[i]
    BY DEF n
  <2> HIDE DEF s
  <2>3. \A x \in Range(s) : \E q \in 1..Len(s) : x = s[q]
    BY <2>1 DEF Range, s
  <2> QED BY <2>2, <2>3 DEF s
<1>6. Unique(all)
  <2>1. \A p \in 1..Len(all) : from[p] \in 1..n /\ all[p].path = names[from[p]]
    <3> TAKE p \in 1..Len(all)
    <3>1. from[p] \in 1..n /\ Len(seqs[from[p]]) = 1 /\ all[p] = seqs[from[p]][1]
      BY <1>1, <1>3
    <3>2. 1 \in 1..Len(seqs[from[p]])
      BY <3>1
    <3>3. seqs[from[p]][1].path = names[from[p]]
      BY <3>1, <3>2 DEF n
    <3> QED BY <3>1, <3>3
  <2> QED BY <2>1, <1>3, <1>4 DEF Unique
<1>7. ASSUME NEW i \in 1..n PROVE Part(all, names[i], seqs[i])
  <2>1. ASSUME NEW p, p \in Range(all), p.path = names[i] PROVE p \in Range(seqs[i])
    <3>1. PICK j \in 1..n : p \in Range(seqs[j])
      BY <1>2, <2>1
    <3>2. names[j] = names[i]
      BY <3>1, <2>1, <1>5
    <3>3. j = i
      BY <3>1, <3>2, <1>4
    <3> QED BY <3>1, <3>3
  <2>2. ASSUME NEW p, p \in Range(seqs[i]) PROVE p \in Range(all) /\ p.path = names[i]
    BY <2>2, <1>2, <1>5
  <2> QED BY <2>1, <2>2 DEF Part
<1>8. ASSUME NEW f, f \notin Range(names) PROVE Part(all, f, <<>>)
  <2>1. \A i \in 1..n : names[i] # f
    BY <1>1, <1>8 DEF Range
  <2>2. Range(<<>>) = {}
    BY DEF Range
  <2> QED BY <2>1, <2>2, <1>2, <1>5 DEF Part
<1> QED BY <1>2, <1>6, <1>7, <1>8 DEF Composed, all, n

-----------------------------------------------------------------------------
(* One file of a plan. *)

\* A file that can be read gives one piece, with its stamp; another gives none.
FileOf(s, f, file, reused, G) == IF file.text \in Readable THEN One(s, f, file.stamp, reused, G) ELSE s = <<>>

\* A tree whose files are in the histories.
TreeOf(w, tr) == \A f \in Files : Known(w, f, tr[f].stamp) /\ TextIn(w, f, tr[f].stamp) = tr[f].text

\* What a file gives to a plan is one file, or nothing.
LEMMA FileOfType ==
  ASSUME NEW s, NEW f, NEW file, NEW reused, NEW G, FileOf(s, f, file, reused, G)
  PROVE  s \in Seq(G) /\ Len(s) <= 1 /\ \A q \in 1..Len(s) : s[q].path = f
<1>1. CASE file.text \in Readable
  <2>1. s \in Seq(G) /\ Len(s) = 1 /\ s[1].path = f
    BY <1>1 DEF FileOf, One
  <2> DEFINE l == Len(s)
  <2>2. l = 1
    BY <2>1
  <2> HIDE DEF l
  <2>3. l <= 1 /\ \A q \in 1..l : q = 1
    BY <2>2
  <2> QED BY <2>1, <2>3 DEF l
<1>2. CASE file.text \notin Readable
  BY <1>2 DEF FileOf
<1> QED BY <1>1, <1>2

\* The manifest of an index, or of none.
LEMMA ManifestType ==
  ASSUME NEW w, NEW r, NEW previous, SoundOrNone(w, r, previous)
  PROVE  ManifestOf(previous) \in Seq(Entry(Stamps)) /\ Unique(ManifestOf(previous))
BY DEF ManifestOf, SoundOrNone, Sound, Unique

\* A current entry tells the text its file has.
LEMMA CurrentTells ==
  ASSUME NEW w, NEW r, NEW previous, SoundOrNone(w, r, previous), NEW f, NEW file,
         Current(EntryOf(ManifestOf(previous), f), file)
  PROVE  /\ previous # None /\ Sound(w, r, previous)
         /\ \E i \in 1..Len(previous.manifest) :
              LET e == previous.manifest[i]
              IN /\ e = EntryOf(ManifestOf(previous), f) /\ e.path = f /\ e.stamp = file.stamp
                 /\ Tells(w, r, f, file.stamp, e.count, RowsOf(previous.chunks, e))
<1> DEFINE m == ManifestOf(previous)
<1>1. m \in Seq(Entry(Stamps)) /\ Unique(m)
  BY ManifestType
<1>2. PICK i \in 1..Len(m) : m[i].path = f /\ m[i].stamp = file.stamp
  BY <1>1, EntryCurrent
<1>3. EntryOf(m, f) = m[i]
  BY <1>1, <1>2, EntryIs
<1>4. previous # None
  <2>1. previous = None => Len(m) = 0
    BY DEF ManifestOf
  <2> QED BY <2>1, <1>2
<1>5. Sound(w, r, previous) /\ m = previous.manifest
  BY <1>4 DEF SoundOrNone, ManifestOf
<1>6. Tells(w, r, f, file.stamp, m[i].count, RowsOf(previous.chunks, m[i]))
  BY <1>2, <1>5 DEF Sound
<1> HIDE DEF m
<1> QED BY <1>2, <1>3, <1>4, <1>5, <1>6 DEF m

\* The files of a tree whose entry is current.
Kept(m, tr) == {f \in Files : Current(EntryOf(m, f), tr[f])}

\* plan_file: a file reused when its entry is current, else chunked, else left out.
LEMMA PlanFileDoes ==
  ASSUME NEW w, NEW root \in Roots, NEW tr, TreeOf(w, tr), NEW previous, SoundOrNone(w, root, previous), NEW f \in Files
  PROVE  FileOf(PlanFile(root, tr, f, EntryOf(ManifestOf(previous), f)), f, tr[f], f \in Kept(ManifestOf(previous), tr), Good(w, root, previous))
<1> DEFINE e == EntryOf(ManifestOf(previous), f)  s == PlanFile(root, tr, f, e)  G == Good(w, root, previous)
<1>1. Known(w, f, tr[f].stamp) /\ TextIn(w, f, tr[f].stamp) = tr[f].text
  BY DEF TreeOf
<1>2. tr[f].text \in Readable => Valid(tr[f])
  BY WriteAssumption DEF Valid
<1>3. CASE Current(e, tr[f])
  <2>1. /\ previous # None /\ Sound(w, root, previous)
        /\ \E i \in 1..Len(previous.manifest) :
             LET d == previous.manifest[i]
             IN d = e /\ d.path = f /\ d.stamp = tr[f].stamp /\ Tells(w, root, f, tr[f].stamp, d.count, RowsOf(previous.chunks, d))
    BY <1>3, CurrentTells
  <2> HIDE DEF e
  <2>2. PICK i \in 1..Len(previous.manifest) :
             /\ previous.manifest[i] = e /\ e.path = f /\ e.stamp = tr[f].stamp
             /\ Tells(w, root, f, tr[f].stamp, e.count, RowsOf(previous.chunks, e))
    BY <2>1
  <2>3. tr[f].text \in Readable
    BY <2>2, <1>1 DEF Tells
  <2>4. s = Reused(e, e.stamp)
    BY <2>3, <1>2, <1>3 DEF PlanFile
  <2>5. One(Reused(e, tr[f].stamp), e.path, tr[f].stamp, TRUE, G)
    BY <2>1, <2>2, <1>1, ReusedGood
  <2> DEFINE c == f \in Kept(ManifestOf(previous), tr)
  <2>a. c = TRUE
    BY <1>3 DEF Kept, e
  <2> HIDE DEF c
  <2>6. One(s, f, tr[f].stamp, c, G)
    BY <2>2, <2>4, <2>5, <2>a DEF One
  <2> QED BY <2>3, <2>6 DEF FileOf, e, c
<1>4. CASE ~Current(e, tr[f])
  <2>1. IF tr[f].text \in Readable THEN One(Chunked(root, f, tr[f]), f, tr[f].stamp, FALSE, G) ELSE Chunked(root, f, tr[f]) = <<>>
    BY <1>1, ChunkedGood
  <2>2. s = IF Valid(tr[f]) THEN Chunked(root, f, tr[f]) ELSE <<>>
    BY <1>4 DEF PlanFile
  <2> DEFINE c == f \in Kept(ManifestOf(previous), tr)
  <2>3. c = FALSE
    BY <1>4 DEF Kept
  <2> HIDE DEF s, e, G, c
  <2>4. FileOf(s, f, tr[f], FALSE, G)
    BY <2>1, <2>2, <1>2 DEF FileOf
  <2>5. FileOf(s, f, tr[f], c, G)
    BY <2>3, <2>4
  <2> QED BY <2>5 DEF s, e, G, c
<1> QED BY <1>3, <1>4

\* The same for the files of a set in order.
Namings(names, S) == names \in Seq(Files) /\ IsInjective(names) /\ Range(names) = S

\* What a plan has for each of its files.
PlansSet(planned, S, tr, kept, G) ==
  /\ planned \in Seq(G) /\ Unique(planned)
  /\ \A p \in Range(planned) : p.path \in S
  /\ \A f \in S : \E s : Part(planned, f, s) /\ FileOf(s, f, tr[f], f \in kept, G)

\* A plan made file by file over a list of names is the plan of their set.
LEMMA ComposesSet ==
  ASSUME NEW names, NEW S \in SUBSET Files, Namings(names, S), NEW G, NEW tr, NEW kept,
         NEW seqs, DOMAIN seqs = DOMAIN names, seqs = [i \in DOMAIN seqs |-> seqs[i]],
         \A i \in DOMAIN names : FileOf(seqs[i], names[i], tr[names[i]], names[i] \in kept, G)
  PROVE  PlansSet(FlattenSeq(seqs), S, tr, kept, G)
<1> DEFINE n == Len(names)  all == FlattenSeq(seqs)
<1>1. n \in Nat /\ DOMAIN names = 1..n /\ names \in Seq(Files) /\ IsInjective(names) /\ Range(names) = S
  BY DEF Namings
<1>2. ASSUME NEW i \in 1..n PROVE seqs[i] \in Seq(G) /\ Len(seqs[i]) <= 1 /\ \A q \in 1..Len(seqs[i]) : seqs[i][q].path = names[i]
  BY <1>1, FileOfType
<1> HIDE DEF n, all
<1>3. seqs \in Seq(Seq(G)) /\ Len(seqs) = n
  <2>1. seqs \in [1..n -> Seq(G)]
    BY <1>1, <1>2
  <2> QED BY <2>1, <1>1
<1>4. Composed(all, names, seqs, G)
  BY <1>1, <1>2, <1>3, Composes DEF n, all
<1>5. \A p \in Range(all) : p.path \in S
  <2> TAKE p \in Range(all)
  <2>1. p.path \notin S => Part(all, p.path, <<>>)
    BY <1>1, <1>4 DEF Composed
  <2>2. Range(<<>>) = {}
    BY DEF Range
  <2> QED BY <2>1, <2>2 DEF Part
<1>6. ASSUME NEW f \in S PROVE \E s : Part(all, f, s) /\ FileOf(s, f, tr[f], f \in kept, G)
  <2>1. PICK i \in 1..n : names[i] = f
    BY <1>1 DEF Range
  <2>2. Part(all, f, seqs[i])
    BY <2>1, <1>4 DEF Composed, n
  <2> QED BY <2>1, <2>2, <1>1
<1> QED BY <1>4, <1>5, <1>6 DEF PlansSet, Composed, all

\* The pieces of a plan, by the names they come from.
Parts(planned, names, tr, kept, G) ==
  \E seqs : /\ planned = FlattenSeq(seqs) /\ DOMAIN seqs = DOMAIN names /\ seqs = [i \in DOMAIN seqs |-> seqs[i]]
            /\ \A i \in DOMAIN names : FileOf(seqs[i], names[i], tr[names[i]], names[i] \in kept, G)

\* The files a walk reaches.
Walked(tr, out) == {f \in Files \ (out \cup Linked) : Valid(tr[f])}

\* plan_files: every file the walk reaches, reused or chunked.
LEMMA PlanFilesDoes ==
  ASSUME NEW w, NEW root \in Roots, NEW tr, TreeOf(w, tr), NEW out, NEW previous, SoundOrNone(w, root, previous)
  PROVE  /\ PlansSet(PlanFiles(root, tr, out, ManifestOf(previous)), Walked(tr, out), tr, Kept(ManifestOf(previous), tr), Good(w, root, previous))
         /\ Parts(PlanFiles(root, tr, out, ManifestOf(previous)), Walk(tr, out), tr, Kept(ManifestOf(previous), tr), Good(w, root, previous))
         /\ Namings(Walk(tr, out), Walked(tr, out))
<1> DEFINE names == Walk(tr, out)  m == ManifestOf(previous)
           seqs == [i \in DOMAIN names |-> PlanFile(root, tr, names[i], EntryOf(m, names[i]))]
<1>1. Namings(names, Walked(tr, out)) /\ Walked(tr, out) \in SUBSET Files
  BY InOrderLists DEF Walk, Walked, Namings
<1>2. PlanFiles(root, tr, out, m) = FlattenSeq(seqs)
  BY DEF PlanFiles
<1> HIDE DEF names
<1>3. \A i \in DOMAIN names : names[i] \in Files
  BY <1>1 DEF Namings
<1>4. \A i \in DOMAIN names : FileOf(seqs[i], names[i], tr[names[i]], names[i] \in Kept(m, tr), Good(w, root, previous))
  BY <1>3, PlanFileDoes
<1>5. DOMAIN seqs = DOMAIN names /\ seqs = [i \in DOMAIN seqs |-> seqs[i]]
  OBVIOUS
<1> HIDE DEF seqs
<1>6. PlansSet(FlattenSeq(seqs), Walked(tr, out), tr, Kept(ManifestOf(previous), tr), Good(w, root, previous))
  BY <1>1, <1>4, <1>5, ComposesSet
<1>7. Parts(FlattenSeq(seqs), names, tr, Kept(m, tr), Good(w, root, previous))
  BY <1>4, <1>5 DEF Parts
<1> QED BY <1>1, <1>2, <1>6, <1>7 DEF names

\* The delta's plan is that of the differing files.
LEMMA PlanDeltaDoes ==
  ASSUME NEW w, NEW S \in SUBSET Files, TreeOf(w, tree["lane"]), NEW previous, SoundOrNone(w, "lane", previous)
  PROVE  PlansSet(PlanDelta(S, previous), S, tree["lane"], Kept(ManifestOf(previous), tree["lane"]), Good(w, "lane", previous))
<1> DEFINE names == InOrder(S)  m == ManifestOf(previous)  tr == tree["lane"]
           file(f) == LET entry == EntryOf(m, f)
                      IN IF tr[f].text # Gone /\ Current(entry, tr[f]) THEN Reused(entry, entry.stamp)
                         ELSE PlanFile("lane", tr, f, None)
           seqs == [i \in DOMAIN names |-> file(names[i])]
<1>1. Namings(names, S)
  BY InOrderLists DEF Namings
<1>2. PlanDelta(S, previous) = FlattenSeq(seqs)
  BY DEF PlanDelta
<1>3. ASSUME NEW f \in Files PROVE file(f) = PlanFile("lane", tr, f, EntryOf(m, f))
  <2> DEFINE e == EntryOf(m, f)
  <2>1. CASE Current(e, tr[f])
    <3>1. \E i \in 1..Len(previous.manifest) :
             LET d == previous.manifest[i] IN Tells(w, "lane", f, tr[f].stamp, d.count, RowsOf(previous.chunks, d))
      BY <2>1, CurrentTells
    <3>2. tr[f].text \in Readable
      BY <3>1 DEF Tells, TreeOf
    <3>3. tr[f].text # Gone /\ Valid(tr[f])
      BY <3>2, WriteAssumption DEF Valid
    <3> QED BY <2>1, <3>3 DEF PlanFile
  <2>2. CASE ~Current(e, tr[f])
    <3>1. ~Current(None, tr[f])
      BY DEF Current
    <3> QED BY <2>2, <3>1 DEF PlanFile
  <2> QED BY <2>1, <2>2
<1> HIDE DEF names, tr, m
<1>4. \A i \in DOMAIN names : names[i] \in Files
  BY <1>1 DEF Namings
<1>5. \A i \in DOMAIN names : seqs[i] = PlanFile("lane", tr, names[i], EntryOf(m, names[i]))
  BY <1>3, <1>4
<1>6. DOMAIN seqs = DOMAIN names /\ seqs = [i \in DOMAIN seqs |-> seqs[i]]
  OBVIOUS
<1> HIDE DEF seqs
<1>7. \A i \in DOMAIN names : FileOf(seqs[i], names[i], tr[names[i]], names[i] \in Kept(m, tr), Good(w, "lane", previous))
  <2>1. "lane" \in Roots
    BY DEF Roots
  <2> QED BY <1>4, <1>5, <2>1, PlanFileDoes DEF m, tr
<1>8. PlansSet(FlattenSeq(seqs), S, tr, Kept(m, tr), Good(w, "lane", previous))
  BY <1>1, <1>6, <1>7, ComposesSet
<1> QED BY <1>2, <1>8 DEF m, tr

\* The files a first build borrows from its sibling.
Lent(root, tr, previous, sibling, theirs) ==
  {f \in Files : LET entry == EntryOf(previous.manifest, f)
                 IN entry # None /\ SameAsSibling(root, tr[f], sibling, theirs[f], entry)}

\* The same of a first build that borrows from a sibling checkout.
LEMMA PlanSeededDoes ==
  ASSUME NEW w, NEW root \in Roots, NEW tr, TreeOf(w, tr), NEW out, NEW sibling \in Roots, NEW theirs, TreeOf(w, theirs),
         NEW previous, previous # None, Sound(w, sibling, previous)
  PROVE  /\ PlansSet(PlanSeeded(root, tr, out, previous.manifest, sibling, theirs), Walked(tr, out), tr,
                     Lent(root, tr, previous, sibling, theirs), Good(w, root, previous))
         /\ Parts(PlanSeeded(root, tr, out, previous.manifest, sibling, theirs), Walk(tr, out), tr,
                  Lent(root, tr, previous, sibling, theirs), Good(w, root, previous))
<1> DEFINE names == Walk(tr, out)  m == previous.manifest  G == Good(w, root, previous)  lent == Lent(root, tr, previous, sibling, theirs)
           file(f) == LET entry == EntryOf(m, f)
                      IN IF entry # None /\ SameAsSibling(root, tr[f], sibling, theirs[f], entry)
                         THEN Reused(entry, tr[f].stamp) ELSE Chunked(root, f, tr[f])
           seqs == [i \in DOMAIN names |-> file(names[i])]
<1>1. Namings(names, Walked(tr, out)) /\ Walked(tr, out) \in SUBSET Files
  BY InOrderLists DEF Walk, Walked, Namings
<1>2. PlanSeeded(root, tr, out, m, sibling, theirs) = FlattenSeq(seqs)
  BY DEF PlanSeeded
<1>3. ASSUME NEW f \in Files PROVE FileOf(file(f), f, tr[f], f \in lent, G)
  <2> DEFINE e == EntryOf(m, f)  c == f \in lent
  <2>1. CASE e # None /\ SameAsSibling(root, tr[f], sibling, theirs[f], e)
    <3>1. Current(EntryOf(ManifestOf(previous), f), theirs[f]) /\ m = ManifestOf(previous)
      BY <2>1 DEF SameAsSibling, ManifestOf
    <3>2. SoundOrNone(w, sibling, previous)
      BY DEF SoundOrNone
    <3>3. \E i \in 1..Len(m) :
              LET d == m[i]
              IN /\ d = EntryOf(ManifestOf(previous), f) /\ d.path = f /\ d.stamp = theirs[f].stamp
                 /\ Tells(w, sibling, f, theirs[f].stamp, d.count, RowsOf(previous.chunks, d))
      BY <3>1, <3>2, CurrentTells
    <3>4. PICK i \in 1..Len(m) : e = m[i] /\ e.path = f /\ e.stamp = theirs[f].stamp
                                 /\ Tells(w, sibling, f, theirs[f].stamp, e.count, RowsOf(previous.chunks, e))
      BY <3>1, <3>3
    <3>5. Capsule(root, f) = Capsule(sibling, f) /\ tr[f].text = theirs[f].text
      BY <2>1, <3>4 DEF SameAsSibling
    <3>6. /\ TextIn(w, f, theirs[f].stamp) = theirs[f].text /\ TextIn(w, f, tr[f].stamp) = tr[f].text /\ Known(w, f, tr[f].stamp)
      BY DEF TreeOf
    <3>7. tr[f].text \in Readable
      BY <3>4, <3>5, <3>6 DEF Tells
    <3>8. c = TRUE
      BY <2>1 DEF Lent
    <3>9. file(f) = Reused(e, tr[f].stamp)
      BY <2>1
    <3> HIDE DEF e, c, file
    <3>10. One(Reused(e, tr[f].stamp), f, tr[f].stamp, TRUE, G)
      <4>1. TextIn(w, e.path, tr[f].stamp) = TextIn(w, e.path, e.stamp) /\ Capsule(root, e.path) = Capsule(sibling, e.path) /\ Known(w, e.path, tr[f].stamp)
        BY <3>4, <3>5, <3>6
      <4>2. One(Reused(e, tr[f].stamp), e.path, tr[f].stamp, TRUE, G)
        BY <3>4, <4>1, ReusedGood
      <4> QED BY <4>2, <3>4
    <3>11. FileOf(file(f), f, tr[f], c, G)
      BY <3>7, <3>8, <3>9, <3>10 DEF FileOf
    <3> QED BY <3>11 DEF c
  <2>2. CASE ~(e # None /\ SameAsSibling(root, tr[f], sibling, theirs[f], e))
    <3>1. IF tr[f].text \in Readable THEN One(Chunked(root, f, tr[f]), f, tr[f].stamp, FALSE, G) ELSE Chunked(root, f, tr[f]) = <<>>
      BY ChunkedGood DEF TreeOf
    <3>2. c = FALSE
      BY <2>2 DEF Lent
    <3>3. file(f) = Chunked(root, f, tr[f])
      BY <2>2
    <3> HIDE DEF c, file
    <3>4. FileOf(file(f), f, tr[f], c, G)
      BY <3>1, <3>2, <3>3 DEF FileOf
    <3> QED BY <3>4 DEF c
  <2> HIDE DEF file
  <2> QED BY <2>1, <2>2
<1> HIDE DEF names, file, lent, G
<1>4. \A i \in DOMAIN names : names[i] \in Files
  BY <1>1 DEF Namings
<1>5. \A i \in DOMAIN names : FileOf(seqs[i], names[i], tr[names[i]], names[i] \in lent, G)
  BY <1>3, <1>4
<1>6. DOMAIN seqs = DOMAIN names /\ seqs = [i \in DOMAIN seqs |-> seqs[i]]
  OBVIOUS
<1> HIDE DEF seqs
<1>7. PlansSet(FlattenSeq(seqs), Walked(tr, out), tr, lent, G)
  BY <1>1, <1>5, <1>6, ComposesSet
<1>8. Parts(FlattenSeq(seqs), names, tr, lent, G)
  BY <1>5, <1>6 DEF Parts
<1> QED BY <1>2, <1>7, <1>8 DEF lent, G, names

\* What a change set's plan has for each file: the rest is kept as it was.
PlansChanged(planned, touched, tr, previous, G) ==
  /\ planned \in Seq(G) /\ Unique(planned)
  /\ \A f \in touched : \E s : Part(planned, f, s) /\ FileOf(s, f, tr[f], f \in Kept(ManifestOf(previous), tr), G)
  /\ \A i \in 1..Len(previous.manifest) : previous.manifest[i].path \notin touched =>
       \E s : Part(planned, previous.manifest[i].path, s) /\ One(s, previous.manifest[i].path, previous.manifest[i].stamp, TRUE, G)
  /\ \A f : f \notin touched /\ f \notin Paths(previous.manifest) => Part(planned, f, <<>>)

\* Two plans of different files, one after the other.
LEMMA PartJoins ==
  ASSUME NEW G, NEW a \in Seq(G), NEW b \in Seq(G), Unique(a), Unique(b),
         \A x \in Range(a) : \A y \in Range(b) : x.path # y.path
  PROVE  /\ a \o b \in Seq(G) /\ Unique(a \o b)
         /\ \A f, s : Part(a, f, s) /\ Part(b, f, <<>>) => Part(a \o b, f, s)
         /\ \A f, s : Part(a, f, <<>>) /\ Part(b, f, s) => Part(a \o b, f, s)
<1> DEFINE c == a \o b
<1>1. Joined(c, a, b, G)
  BY JoinedIs
<1> HIDE DEF c
<1> DEFINE m == Len(a)  n == Len(b)
<1>2. m \in Nat /\ n \in Nat /\ Len(c) = m + n /\ c \in Seq(G)
      /\ \A p \in 1..m + n : c[p] = IF p <= m THEN a[p] ELSE b[p - m]
  BY <1>1 DEF Joined
<1>3. DOMAIN a = 1..m /\ DOMAIN b = 1..n /\ DOMAIN c = 1..m + n
  BY <1>2
<1> HIDE DEF m, n
<1>4. \A p \in 1..m + n : (p \in 1..m /\ c[p] = a[p]) \/ (p - m \in 1..n /\ c[p] = b[p - m] /\ ~(p \in 1..m))
  BY <1>2
<1>5. \A p \in 1..m : p \in 1..m + n /\ c[p] = a[p]
  BY <1>2
<1>6. \A q \in 1..n : m + q \in 1..m + n /\ c[m + q] = b[q]
  <2> TAKE q \in 1..n
  <2>1. m + q \in 1..m + n /\ ~(m + q <= m) /\ (m + q) - m = q
    BY <1>2
  <2> QED BY <2>1, <1>2
<1>7. \A x : x \in Range(c) <=> x \in Range(a) \/ x \in Range(b)
  <2> TAKE x
  <2>1. x \in Range(c) => x \in Range(a) \/ x \in Range(b)
    BY <1>3, <1>4 DEF Range
  <2>2. x \in Range(a) => x \in Range(c)
    BY <1>3, <1>5 DEF Range
  <2>3. x \in Range(b) => x \in Range(c)
    BY <1>3, <1>6 DEF Range
  <2> QED BY <2>1, <2>2, <2>3
<1>8. Unique(c)
  <2>1. \A p \in 1..m : a[p] \in Range(a)
    BY <1>3 DEF Range
  <2>2. \A q \in 1..n : b[q] \in Range(b)
    BY <1>3 DEF Range
  <2>3. ASSUME NEW p \in 1..m + n, NEW q \in 1..m + n, c[p].path = c[q].path PROVE p = q
    <3>1. CASE p \in 1..m /\ q \in 1..m
      BY <3>1, <2>3, <1>5 DEF Unique, m
    <3>2. CASE p - m \in 1..n /\ q - m \in 1..n /\ c[p] = b[p - m] /\ c[q] = b[q - m]
      <4>1. p - m = q - m
        BY <3>2, <2>3 DEF Unique, n
      <4> QED BY <4>1, <1>2
    <3> QED BY <3>1, <3>2, <1>4, <2>1, <2>2, <2>3
  <2> QED BY <2>3, <1>2 DEF Unique
<1>9. Range(<<>>) = {}
  BY DEF Range
<1> QED BY <1>2, <1>7, <1>8, <1>9 DEF Part, c

\* plan_changed_files: the named files as they are now, the others as they were.
LEMMA PlanChangedDoes ==
  ASSUME NEW w, NEW root \in Roots, NEW tr, TreeOf(w, tr), NEW out, NEW changed \in SUBSET Files,
         NEW previous, previous # None, Sound(w, root, previous)
  PROVE  PlansChanged(PlanChangedFiles(root, tr, out, changed, previous.manifest), ChangedIndexedPaths(changed, out), tr,
                      previous, Good(w, root, previous))
<1> DEFINE m == previous.manifest  touched == ChangedIndexedPaths(changed, out)  G == Good(w, root, previous)
           added == InOrder(touched \ Paths(m))
           firstOf(i) == IF m[i].path \in touched THEN PlanFile(root, tr, m[i].path, m[i]) ELSE Reused(m[i], m[i].stamp)
           first == [i \in DOMAIN m |-> firstOf(i)]
           second == [i \in DOMAIN added |-> PlanFile(root, tr, added[i], None)]
           names == [i \in DOMAIN m |-> m[i].path]
           kept == Kept(ManifestOf(previous), tr)
           n == Len(m)
<1>1. SoundOrNone(w, root, previous) /\ ManifestOf(previous) = m
  BY DEF SoundOrNone, ManifestOf
<1>2. m \in Seq(Entry(Stamps)) /\ Unique(m) /\ n \in Nat /\ DOMAIN m = 1..n /\ \A i \in 1..n : m[i] \in Entry(Stamps)
  <2>1. m \in Seq(Entry(Stamps)) /\ Unique(m)
    BY DEF Sound
  <2> HIDE DEF m
  <2> QED BY <2>1, ElementOfSeq
<1>3. touched \in SUBSET Files /\ touched \ Paths(m) \in SUBSET Files
  BY DEF ChangedIndexedPaths
<1>4. Namings(added, touched \ Paths(m))
  BY <1>3, InOrderLists DEF Namings
<1>5. PlanChangedFiles(root, tr, out, changed, m) = FlattenSeq(first) \o FlattenSeq(second)
  BY DEF PlanChangedFiles
<1> HIDE DEF touched, added, kept, G
<1>6. ASSUME NEW i \in 1..n
      PROVE  IF m[i].path \in touched THEN FileOf(first[i], m[i].path, tr[m[i].path], m[i].path \in kept, G)
             ELSE One(first[i], m[i].path, m[i].stamp, TRUE, G)
  <2> DEFINE e == m[i]
  <2>1. first[i] = firstOf(i) /\ EntryOf(m, e.path) = e /\ e \in Entry(Stamps)
    BY <1>2, EntryIs
  <2>2. e.path \in Files
    BY <2>1 DEF Entry
  <2>3. CASE e.path \in touched
    <3>1. first[i] = PlanFile(root, tr, e.path, EntryOf(m, e.path))
      BY <2>1, <2>3
    <3>2. FileOf(PlanFile(root, tr, e.path, EntryOf(m, e.path)), e.path, tr[e.path], e.path \in kept, G)
      BY <1>1, <2>2, PlanFileDoes DEF kept, G
    <3> HIDE DEF first
    <3> QED BY <3>1, <3>2, <2>3
  <2>4. CASE e.path \notin touched
    <3>1. Tells(w, root, e.path, e.stamp, e.count, RowsOf(previous.chunks, e))
      BY DEF Sound
    <3>2. Known(w, e.path, e.stamp)
      BY <3>1 DEF Tells
    <3>3. One(Reused(e, e.stamp), e.path, e.stamp, TRUE, G)
      BY <3>2, ReusedGood DEF G
    <3>4. first[i] = Reused(e, e.stamp)
      BY <2>1, <2>4
    <3> HIDE DEF first
    <3> QED BY <3>3, <3>4, <2>4
  <2> QED BY <2>3, <2>4
<1>7. \A i \in DOMAIN added : FileOf(second[i], added[i], tr[added[i]], added[i] \in kept, G)
  <2> TAKE i \in DOMAIN added
  <2>1. added[i] \in touched \ Paths(m) /\ added[i] \in Files
    BY <1>3, <1>4 DEF Namings, Range
  <2>2. second[i] = PlanFile(root, tr, added[i], EntryOf(m, added[i]))
    BY <2>1, <1>2, NoEntry
  <2> HIDE DEF second
  <2> QED BY <1>1, <2>1, <2>2, PlanFileDoes DEF kept, G
<1>8. names \in Seq(Files) /\ IsInjective(names) /\ Len(names) = n /\ DOMAIN names = 1..n /\ \A i \in 1..n : names[i] = m[i].path
  <2>1. names \in [1..n -> Files] /\ \A i \in 1..n : names[i] = m[i].path
    BY <1>2 DEF Entry
  <2>2. \A i, j \in 1..n : m[i].path = m[j].path => i = j
    BY <1>2 DEF Unique
  <2> HIDE DEF names, n, m
  <2>3. names \in Seq(Files) /\ Len(names) = n /\ DOMAIN names = 1..n
    BY <2>1, <1>2
  <2> QED BY <2>1, <2>2, <2>3 DEF IsInjective
<1>9. DOMAIN first = 1..n /\ DOMAIN second = DOMAIN added /\ second = [i \in DOMAIN second |-> second[i]] /\ first = [i \in 1..n |-> first[i]]
  BY <1>2
<1>m. \A f : f \in Paths(m) <=> f \in Range(names)
  <2> TAKE f
  <2>1. f \in Paths(m) <=> \E i \in 1..n : m[i].path = f
    BY <1>2, PathsAre
  <2> HIDE DEF names
  <2> QED BY <2>1, <1>8 DEF Range
<1> HIDE DEF first, second, names, m, n
<1> DEFINE a == FlattenSeq(first)  b == FlattenSeq(second)
<1>10. Composed(a, names, first, G)
  <2>1. \A i \in 1..n : first[i] \in Seq(G) /\ Len(first[i]) <= 1 /\ \A q \in 1..Len(first[i]) : first[i][q].path = names[i]
    <3> TAKE i \in 1..n
    <3>1. CASE names[i] \in touched
      BY <3>1, <1>6, <1>8, FileOfType
    <3>2. CASE names[i] \notin touched
      <4> DEFINE t == [text |-> CHOOSE x \in Readable : TRUE, stamp |-> m[i].stamp]
      <4>1. One(first[i], names[i], m[i].stamp, TRUE, G)
        BY <3>2, <1>6, <1>8
      <4>2. Len(first[i]) = 1 /\ first[i] \in Seq(G) /\ first[i][1].path = names[i]
        BY <4>1 DEF One
      <4> DEFINE l == Len(first[i])
      <4>3. l = 1
        BY <4>2
      <4> HIDE DEF l
      <4>4. l <= 1 /\ \A q \in 1..l : q = 1
        BY <4>3
      <4> QED BY <4>2, <4>4 DEF l
    <3> QED BY <3>1, <3>2
  <2>2. first \in Seq(Seq(G)) /\ Len(first) = n
    <3>1. first \in [1..n -> Seq(G)]
      BY <2>1, <1>9
    <3> QED BY <3>1, <1>2
  <2>3. Composed(FlattenSeq(first), names, first, G)
    BY <2>1, <2>2, <1>8, Composes
  <2> QED BY <2>3
<1>11. PlansSet(b, touched \ Paths(m), tr, kept, G)
  BY <1>3, <1>4, <1>7, <1>9, ComposesSet
<1> HIDE DEF a, b
<1>12. \A f : f \notin Paths(m) => Part(a, f, <<>>)
  BY <1>10, <1>m DEF Composed
<1>13. \A f : f \notin touched \ Paths(m) => Part(b, f, <<>>)
  <2>1. Range(<<>>) = {}
    BY DEF Range
  <2> QED BY <2>1, <1>11 DEF PlansSet, Part
<1>14. /\ a \o b \in Seq(G) /\ Unique(a \o b)
       /\ \A f, s : Part(a, f, s) /\ Part(b, f, <<>>) => Part(a \o b, f, s)
       /\ \A f, s : Part(a, f, <<>>) /\ Part(b, f, s) => Part(a \o b, f, s)
  <2>1. a \in Seq(G) /\ b \in Seq(G) /\ Unique(a) /\ Unique(b)
    BY <1>10, <1>11 DEF Composed, PlansSet
  <2>2. \A x \in Range(a) : \A y \in Range(b) : x.path # y.path
    <3>1. \A x \in Range(a) : x.path \in Paths(m)
      <4>1. Range(<<>>) = {}
        BY DEF Range
      <4> QED BY <4>1, <1>12 DEF Part
    <3> QED BY <3>1, <1>11 DEF PlansSet
  <2> QED BY <2>1, <2>2, PartJoins
<1> DEFINE all == a \o b
<1>15. ASSUME NEW f \in touched PROVE \E s : Part(all, f, s) /\ FileOf(s, f, tr[f], f \in kept, G)
  <2>1. CASE f \in Paths(m)
    <3>1. PICK i \in 1..n : names[i] = f
      BY <2>1, <1>m, <1>8 DEF Range
    <3>2. Part(a, f, first[i]) /\ FileOf(first[i], f, tr[f], f \in kept, G)
      BY <3>1, <1>6, <1>8, <1>10 DEF Composed
    <3>3. Part(b, f, <<>>)
      BY <2>1, <1>13
    <3> QED BY <3>2, <3>3, <1>14
  <2>2. CASE f \notin Paths(m)
    <3>1. PICK s : Part(b, f, s) /\ FileOf(s, f, tr[f], f \in kept, G)
      BY <2>2, <1>11 DEF PlansSet
    <3> QED BY <3>1, <2>2, <1>12, <1>14
  <2> QED BY <2>1, <2>2
<1>16. ASSUME NEW i \in 1..n, m[i].path \notin touched PROVE \E s : Part(all, m[i].path, s) /\ One(s, m[i].path, m[i].stamp, TRUE, G)
  <2>1. Part(a, m[i].path, first[i]) /\ One(first[i], m[i].path, m[i].stamp, TRUE, G)
    BY <1>6, <1>8, <1>10, <1>16 DEF Composed
  <2>2. Part(b, m[i].path, <<>>)
    BY <1>13, <1>16
  <2> QED BY <2>1, <2>2, <1>14
<1>17. ASSUME NEW f, f \notin touched, f \notin Paths(m) PROVE Part(all, f, <<>>)
  BY <1>12, <1>13, <1>14, <1>17
<1> HIDE DEF all
<1>18. PlansChanged(all, touched, tr, previous, G)
  BY <1>14, <1>15, <1>16, <1>17 DEF PlansChanged, kept, m, n, all
<1> QED BY <1>5, <1>18 DEF all, a, b, touched, m, G

-----------------------------------------------------------------------------
(* Plans of the same files. *)

\* Two plans of the same files come to the same rows, whatever each reuses.
LEMMA SameWrites ==
  ASSUME NEW w, NEW root, NEW names \in Seq(Files), NEW tr,
         NEW r, NEW previous, SoundOrNone(w, r, previous), NEW planned, NEW kept, Parts(planned, names, tr, kept, Good(w, root, previous)), Unique(planned),
         NEW q, NEW before, SoundOrNone(w, q, before), NEW other, NEW held, Parts(other, names, tr, held, Good(w, root, before)), Unique(other)
  PROVE  WritePlanned(planned, previous) = WritePlanned(other, before)
<1> DEFINE n == Len(names)  G == Good(w, root, previous)  H == Good(w, root, before)
<1>1. n \in Nat /\ DOMAIN names = 1..n
  OBVIOUS
<1>2. PICK s : /\ planned = FlattenSeq(s) /\ DOMAIN s = 1..n /\ s = [i \in 1..n |-> s[i]]
               /\ \A i \in 1..n : FileOf(s[i], names[i], tr[names[i]], names[i] \in kept, G)
  BY <1>1 DEF Parts
<1>3. PICK t : /\ other = FlattenSeq(t) /\ DOMAIN t = 1..n /\ t = [i \in 1..n |-> t[i]]
               /\ \A i \in 1..n : FileOf(t[i], names[i], tr[names[i]], names[i] \in held, H)
  BY <1>1 DEF Parts
<1> HIDE DEF n, G, H
<1>4. s \in Seq(Seq(G)) /\ Len(s) = n
  <2>1. \A i \in 1..n : s[i] \in Seq(G)
    BY <1>2, FileOfType
  <2>2. s \in [1..n -> Seq(G)]
    BY <1>2, <2>1
  <2> QED BY <2>2, <1>1
<1>5. t \in Seq(Seq(H)) /\ Len(t) = n
  <2>1. \A i \in 1..n : t[i] \in Seq(H)
    BY <1>3, FileOfType
  <2>2. t \in [1..n -> Seq(H)]
    BY <1>3, <2>1
  <2> QED BY <2>2, <1>1
<1>6. ASSUME NEW i \in 1..n
      PROVE  /\ Len(s[i]) = Len(t[i])
             /\ \A k \in 1..Len(s[i]) : /\ s[i][k] \in G /\ t[i][k] \in H
                                        /\ s[i][k].path = t[i][k].path /\ s[i][k].stamp = t[i][k].stamp
  <2> DEFINE a == s[i]  b == t[i]  f == names[i]
  <2>1. FileOf(a, f, tr[f], f \in kept, G) /\ FileOf(b, f, tr[f], f \in held, H)
    BY <1>2, <1>3
  <2> HIDE DEF a, b, f
  <2>2. CASE tr[f].text \in Readable
    <3>1. One(a, f, tr[f].stamp, f \in kept, G) /\ One(b, f, tr[f].stamp, f \in held, H)
      BY <2>1, <2>2 DEF FileOf
    <3>2. /\ a \in Seq(G) /\ Len(a) = 1 /\ b \in Seq(H) /\ Len(b) = 1
          /\ a[1].path = b[1].path /\ a[1].stamp = b[1].stamp
      BY <3>1 DEF One
    <3>3. a[1] \in G /\ b[1] \in H
      BY <3>1, OneElement
    <3> DEFINE k_1 == Len(a)
    <3>4. k_1 = 1 /\ Len(b) = k_1
      BY <3>2
    <3> HIDE DEF k_1
    <3>5. \A k \in 1..k_1 : k = 1
      BY <3>4
    <3> QED BY <3>2, <3>3, <3>4, <3>5 DEF k_1, a, b
  <2>3. CASE tr[f].text \notin Readable
    <3>1. a = <<>> /\ b = <<>>
      BY <2>1, <2>3 DEF FileOf
    <3> QED BY <3>1 DEF a, b
  <2> QED BY <2>2, <2>3
<1>7. SideBySide(planned, s, other, t)
  BY <1>2, <1>3, <1>4, <1>5, <1>6, FlattenAlike
<1>8. planned \in Seq(G) /\ other \in Seq(H)
  BY <1>2, <1>3, <1>4, <1>5, FlattenRange
<1>9. /\ planned \in Seq(Piece(Stamps, Chunk)) /\ Reuses(planned, previous, Chunk)
      /\ other \in Seq(Piece(Stamps, Chunk)) /\ Reuses(other, before, Chunk)
  BY <1>8, GoodPlanIsSound DEF G, H
<1> DEFINE l == Len(planned)
<1>10. l \in Nat /\ Len(other) = l /\ DOMAIN planned = 1..l /\ DOMAIN other = 1..l
  BY <1>7, <1>9 DEF SideBySide
<1> HIDE DEF l
<1>11. ASSUME NEW p \in 1..l
       PROVE  /\ planned[p].path = other[p].path /\ planned[p].stamp = other[p].stamp /\ planned[p].count = other[p].count
              /\ PieceRows(planned[p], previous) = PieceRows(other[p], before)
  <2>1. \E i \in 1..n : \E k \in 1..Len(s[i]) : planned[p] = s[i][k] /\ other[p] = t[i][k]
    BY <1>4, <1>7 DEF SideBySide, l
  <2>2. /\ planned[p] \in G /\ other[p] \in H
        /\ planned[p].path = other[p].path /\ planned[p].stamp = other[p].stamp
    BY <2>1, <1>6
  <2> DEFINE a == planned[p]  b == other[p]
  <2>3. Tells(w, root, a.path, a.stamp, a.count, PieceRows(a, previous)) /\ Tells(w, root, b.path, b.stamp, b.count, PieceRows(b, before))
    BY <2>2 DEF G, H, Good
  <2> QED BY <2>2, <2>3 DEF Tells
<1>12. Counts(planned) = Counts(other)
  BY <1>10, <1>11 DEF Counts
<1>13. RowSeqs(planned, previous) = RowSeqs(other, before)
  BY <1>10, <1>11 DEF RowSeqs
<1>14. PICK sum : Sums(sum, Counts(planned))
  BY <1>9, PlanType, SumsExist
<1>15. WritePlanned(planned, previous) = IndexOf(planned, sum, FlattenSeq(RowSeqs(planned, previous)))
       /\ WritePlanned(other, before) = IndexOf(other, sum, FlattenSeq(RowSeqs(other, before)))
  BY <1>9, <1>12, <1>14, WritePlannedIs
<1>16. Listing(planned, sum) = Listing(other, sum)
  <2>1. \A p \in 1..l : EntryAt(planned[p], sum[p - 1]) = EntryAt(other[p], sum[p - 1])
    BY <1>11 DEF EntryAt
  <2> QED BY <2>1, <1>10 DEF Listing, l
<1> QED BY <1>10, <1>13, <1>15, <1>16 DEF IndexOf, l

\* A full build reuses nothing.
LEMMA SoundNone == \A w, r : SoundOrNone(w, r, None) /\ ManifestOf(None) = <<>>
BY DEF SoundOrNone, ManifestOf

-----------------------------------------------------------------------------
(* Files and types. *)

\* Histories that go on.
Grown(w, v) == \A r \in Roots, f \in Files : Begins(w[r][f], v[r][f])

\* A stamp stands for its text for good.
LEMMA KnownGrows ==
  ASSUME NEW w, NEW v, Histories(w), Histories(v), Grown(w, v), NEW f \in Files, NEW stamp, Known(w, f, stamp)
  PROVE  Known(v, f, stamp) /\ TextIn(v, f, stamp) = TextIn(w, f, stamp)
<1>1. stamp \in Roots \X (Nat \ {0}) /\ stamp[1] \in Roots /\ stamp[2] \in Nat /\ stamp[2] >= 1
  BY DEF Known, Stamps
<1> DEFINE s == w[stamp[1]][f]  t == v[stamp[1]][f]
<1>2. s \in Seq(Texts) /\ t \in Seq(Texts) /\ stamp[2] \in 1..Len(s)
  BY <1>1 DEF Known, Histories
<1>3. Len(s) <= Len(t) /\ \A p \in 1..Len(s) : t[p] = s[p]
  BY <1>1 DEF Grown, Begins
<1>4. t[stamp[2]] = s[stamp[2]]
  BY <1>2, <1>3
<1>5. Len(t) >= stamp[2]
  <2> DEFINE k == Len(s)  l == Len(t)
  <2>1. stamp[2] <= k /\ k <= l /\ k \in Nat /\ l \in Nat /\ stamp[2] \in Nat
    BY <1>1, <1>2, <1>3
  <2> HIDE DEF k, l
  <2>2. l >= stamp[2]
    BY <2>1
  <2> QED BY <2>2 DEF l
<1> QED BY <1>1, <1>4, <1>5 DEF Known, TextIn, Stamps

\* So what is sound stays so while files move.
LEMMA SoundGrows ==
  ASSUME NEW w, NEW v, Histories(w), Histories(v), Grown(w, v), NEW root, NEW index, Sound(w, root, index)
  PROVE  Sound(v, root, index)
<1> DEFINE m == index.manifest
<1>1. ASSUME NEW i \in 1..Len(m)
      PROVE  Tells(v, root, m[i].path, m[i].stamp, m[i].count, RowsOf(index.chunks, m[i]))
  <2> DEFINE e == m[i]
  <2>1. e \in Entry(Stamps) /\ Tells(w, root, e.path, e.stamp, e.count, RowsOf(index.chunks, e))
    BY ElementOfSeq DEF Sound
  <2>2. e.path \in Files
    BY <2>1 DEF Entry
  <2> HIDE DEF e
  <2>3. Known(w, e.path, e.stamp)
    BY <2>1 DEF Tells
  <2>4. Known(v, e.path, e.stamp) /\ TextIn(v, e.path, e.stamp) = TextIn(w, e.path, e.stamp)
    BY <2>2, <2>3, KnownGrows
  <2>5. Tells(v, root, e.path, e.stamp, e.count, RowsOf(index.chunks, e))
    BY <2>1, <2>4 DEF Tells
  <2> QED BY <2>5 DEF e
<1> QED BY <1>1 DEF Sound

-----------------------------------------------------------------------------
(* The files. *)

\* Initially.
LEMMA TreeInit == Init => TreeInv /\ ValueInv
<1> SUFFICES ASSUME Init PROVE TreeInv /\ ValueInv
  OBVIOUS
<1>1. First \in [Files -> Readable] /\ \A f \in Files : First[f] \in Contents[f] /\ First[f] \in Readable
  BY LaneAssumption
<1>2. \A f \in Files : First[f] \in Texts
  BY <1>1 DEF Texts
<1>3. tree = [r \in Roots |-> [f \in Files |-> [text |-> First[f], stamp |-> <<r, 1>>]]]
  BY DEF Init, FirstTree
<1>4. written = [r \in Roots |-> [f \in Files |-> <<First[f]>>]]
  BY DEF Init
<1>5. \A r \in Roots, f \in Files : written[r][f] = <<First[f]>> /\ tree[r][f] = [text |-> First[f], stamp |-> <<r, 1>>]
  BY <1>3, <1>4
<1>6. \A r \in Roots, f \in Files : /\ written[r][f] \in Seq(Texts) /\ Len(written[r][f]) = 1 /\ written[r][f][1] = First[f]
                                    /\ tree[r][f] \in [text : Texts, stamp : Stamps]
  <2> TAKE r \in Roots, f \in Files
  <2>1. written[r][f] = <<First[f]>> /\ tree[r][f] = [text |-> First[f], stamp |-> <<r, 1>>] /\ First[f] \in Texts
    BY <1>2, <1>5
  <2>2. <<First[f]>> \in Seq(Texts) /\ Len(<<First[f]>>) = 1 /\ <<First[f]>>[1] = First[f]
    BY <2>1
  <2>3. <<r, 1>> \in Stamps
    BY DEF Stamps
  <2> QED BY <2>1, <2>2, <2>3
<1>7. Histories(written)
  BY <1>4, <1>6 DEF Histories
<1>8. TreeInv
  BY <1>1, <1>3, <1>5, <1>6, <1>7 DEF TreeInv
<1>9. ValueInv
  <2>1. head \in [Files -> Texts]
    BY <1>1, <1>2 DEF Init
  <2>2. ignored \subseteq Files /\ queue \in [rescan : BOOLEAN, paths : SUBSET Files] /\ replan \in BOOLEAN /\ excuse \in Excuses
    BY DEF Init, NoChange, Excuses
  <2>3. plan = Idle
    BY DEF Init
  <2> QED BY <2>1, <2>2, <2>3 DEF ValueInv, Idle
<1> QED BY <1>8, <1>9

\* What an edit does to the file it edits, and to no other.
LEMMA EditDoes ==
  ASSUME TreeInv, NEW root \in Roots, NEW f \in Files, Edit(root, f)
  PROVE  /\ TreeInv' /\ Grown(written, written')
         /\ \A r \in Roots, g \in Files : r # root \/ g # f => tree'[r][g] = tree[r][g] /\ written'[r][g] = written[r][g]
         /\ tree'[root][f].stamp = <<root, Len(written[root][f]) + 1>>
<1>1. PICK text \in Contents[f] \ {tree[root][f].text} :
         /\ tree' = [tree EXCEPT ![root][f] = [text |-> text, stamp |-> <<root, Len(written[root][f]) + 1>>]]
         /\ written' = [written EXCEPT ![root][f] = Append(@, text)]
  BY DEF Edit
<1>2. text \in Texts
  BY <1>1, LaneAssumption DEF Texts
<1>3. /\ tree \in [Roots -> [Files -> [text : Texts, stamp : Stamps]]] /\ written \in [Roots -> [Files -> Seq(Texts)]]
      /\ \A r \in Roots, g \in Files : Len(written[r][g]) >= 1
  BY DEF TreeInv, Histories
<1> DEFINE h == written[root][f]  n == Len(h)  new == [text |-> text, stamp |-> <<root, n + 1>>]
<1>4. h \in Seq(Texts) /\ n \in Nat /\ n >= 1
  BY <1>3
<1>5. /\ Append(h, text) \in Seq(Texts) /\ Len(Append(h, text)) = n + 1 /\ Append(h, text)[n + 1] = text
      /\ \A p \in 1..n : Append(h, text)[p] = h[p]
  BY <1>2, <1>4, AppendProperties
<1>6. /\ tree'[root][f] = new /\ written'[root][f] = Append(h, text)
      /\ \A r \in Roots, g \in Files : r # root \/ g # f => tree'[r][g] = tree[r][g] /\ written'[r][g] = written[r][g]
  BY <1>1, <1>3
<1>7. new \in [text : Texts, stamp : Stamps] /\ new.text = text /\ new.stamp = <<root, n + 1>>
  BY <1>2, <1>4 DEF Stamps
<1>8. tree' \in [Roots -> [Files -> [text : Texts, stamp : Stamps]]]
  <2>1. tree' = [tree EXCEPT ![root][f] = new]
    BY <1>1
  <2> HIDE DEF new
  <2> QED BY <2>1, <1>3, <1>7
<1>9. written' \in [Roots -> [Files -> Seq(Texts)]]
  <2> DEFINE all == Append(h, text)
  <2>1. written' = [written EXCEPT ![root][f] = all] /\ all \in Seq(Texts)
    BY <1>1, <1>5
  <2> HIDE DEF all
  <2> QED BY <2>1, <1>3
<1> HIDE DEF new, h, n
<1>10. ASSUME NEW r \in Roots, NEW g \in Files
       PROVE  /\ Len(written'[r][g]) >= 1 /\ tree'[r][g].stamp = <<r, Len(written'[r][g])>>
              /\ tree'[r][g].text = written'[r][g][Len(written'[r][g])] /\ tree'[r][g].text \in Contents[g]
              /\ Begins(written[r][g], written'[r][g])
  <2>1. CASE r = root /\ g = f
    <3>1. Len(written'[r][g]) = n + 1 /\ n + 1 >= 1 /\ written'[r][g][n + 1] = text
      BY <2>1, <1>4, <1>5, <1>6
    <3>2. tree'[r][g].stamp = <<r, n + 1>> /\ tree'[r][g].text = text
      BY <2>1, <1>6, <1>7
    <3>3. Begins(h, Append(h, text))
      BY <1>4, <1>5 DEF Begins, n
    <3> QED BY <3>1, <3>2, <3>3, <2>1, <1>1, <1>6 DEF h
  <2>2. CASE r # root \/ g # f
    <3>1. tree'[r][g] = tree[r][g] /\ written'[r][g] = written[r][g]
      BY <2>2, <1>6
    <3> DEFINE s == written[r][g]
    <3>2. s \in Seq(Texts)
      BY <1>3
    <3> HIDE DEF s
    <3>3. Begins(s, s)
      BY <3>2 DEF Begins
    <3> QED BY <3>1, <3>3, <1>3 DEF TreeInv, s
  <2> QED BY <2>1, <2>2
<1>11. TreeInv' /\ Grown(written, written')
  BY <1>8, <1>9, <1>10 DEF TreeInv, Histories, Grown
<1> QED BY <1>6, <1>7, <1>11 DEF h, n

\* Nothing written is growth too.
LEMMA GrownRefl ==
  ASSUME NEW w, Histories(w)
  PROVE  Grown(w, w)
<1> SUFFICES ASSUME NEW r \in Roots, NEW f \in Files PROVE Begins(w[r][f], w[r][f])
  BY DEF Grown
<1> DEFINE s == w[r][f]
<1>1. s \in Seq(Texts)
  BY DEF Histories
<1> HIDE DEF s
<1>2. Begins(s, s)
  BY <1>1 DEF Begins
<1> QED BY <1>2 DEF s

\* Only an edit moves a file.
LEMMA FilesStep ==
  ASSUME TreeInv, [Next]_vars
  PROVE  TreeInv' /\ Grown(written, written')
<1>1. CASE \E r \in Roots, f \in Files : Edit(r, f)
  BY <1>1, EditDoes
<1>2. CASE UNCHANGED <<tree, written>>
  <2>1. TreeInv' /\ Histories(written) /\ written' = written
    BY <1>2 DEF TreeInv
  <2> QED BY <2>1, GrownRefl
<1>3. CASE Commit
  BY <1>2, <1>3 DEF Commit
<1>4. CASE \E f \in Ignorable : Ignore(f)
  BY <1>2, <1>4 DEF Ignore
<1>5. CASE RebuildChanged
  BY <1>2, <1>5 DEF RebuildChanged
<1>6. CASE RebuildAll
  BY <1>2, <1>6 DEF RebuildAll
<1>7. CASE Begin
  BY <1>2, <1>7 DEF Begin
<1>8. CASE ReadHead \/ DiffLane \/ DiffBase \/ WalkFile \/ CompareFile
  BY <1>2, <1>8 DEF ReadHead, DiffLane, DiffBase, WalkFile, CompareFile
<1>9. CASE Finish
  BY <1>2, <1>9 DEF Finish
<1>10. CASE Evict
  BY <1>2, <1>10 DEF Evict
<1>11. CASE UNCHANGED vars
  BY <1>2, <1>11 DEF vars
<1> QED BY <1>1, <1>3, <1>4, <1>5, <1>6, <1>7, <1>8, <1>9, <1>10, <1>11 DEF Next

\* A rebuild moves the index, its queue, what is noted and the history.
RebuildKeeps == UNCHANGED <<tree, written, head, ignored, overlay, delta, plan>>

\* A rebuild refuses, is retried, or answers for its files with an index.
Refused(files) == queue' = NoChange /\ excuse' = [excuse EXCEPT !.refused = @ \cup files] /\ store' = store /\ replan' = replan
Retried == queue' = [rescan |-> TRUE, paths |-> {}] /\ store' = store /\ replan' = replan /\ excuse' = excuse

\* The three ends of a rebuild.
Answered(files, walked) ==
  /\ store' # None /\ replan' = (replan \/ overlay # None \/ plan.at # "idle") /\ queue' = NoChange
  /\ excuse' = [excuse EXCEPT !.refused = @ \ files, !.ruled = @ \ walked, !.unseen = @ \ {<<"base", f>> : f \in walked}]

\* The index a rebuild ends with: the one there is, or the one its plan writes.
ChangedIndex ==
  IF ~ChangeSetMovesAnything(tree["base"], ignored, queue.paths, store.manifest) THEN store
  ELSE WritePlanned(PlanChangedFiles("base", tree["base"], ignored, queue.paths, store.manifest), store)
AllIndex ==
  IF ~TreeMovesAnything(tree["base"], ignored, store.manifest) THEN store
  ELSE WritePlanned(PlanFiles("base", tree["base"], ignored, store.manifest), store)

\* A rebuild from a change set ends in one of them.
LEMMA RebuildChangedDoes ==
  ASSUME RebuildChanged
  PROVE  /\ RebuildKeeps /\ ~queue.rescan /\ queue.paths # {}
         /\ Refused(queue.paths) \/ Retried \/ (Answered(queue.paths, {}) /\ store' = ChangedIndex)
<1>1. \A index, files, walked : Rebuilt(index, files, walked) => Retried \/ (Answered(files, walked) /\ store' = index)
  BY DEF Rebuilt, Retry, Swap, Retried, Answered
<1>2. \A files : Refuse(files) => Refused(files)
  BY DEF Refuse, Refused
<1> DEFINE work == Cardinality(EstimateChangedPaths(tree["base"], ignored, queue.paths, store.manifest)) > WorkLimit
<1>3. IF work THEN Refuse(queue.paths) ELSE Rebuilt(ChangedIndex, queue.paths, {})
  BY DEF RebuildChanged, ChangedIndex
<1>4. RebuildKeeps /\ ~queue.rescan /\ queue.paths # {}
  BY DEF RebuildChanged, RebuildKeeps
<1> QED BY <1>1, <1>2, <1>3, <1>4

\* And so does a full one.
LEMMA RebuildAllDoes ==
  ASSUME RebuildAll
  PROVE  RebuildKeeps /\ (Refused(Files) \/ Retried \/ (Answered(Files, Files) /\ store' = AllIndex))
<1>1. \A index, files, walked : Rebuilt(index, files, walked) => Retried \/ (Answered(files, walked) /\ store' = index)
  BY DEF Rebuilt, Retry, Swap, Retried, Answered
<1>2. \A files : Refuse(files) => Refused(files)
  BY DEF Refuse, Refused
<1> DEFINE work == Cardinality(EstimateTree(tree["base"], ignored, store.manifest)) > WorkLimit
<1>3. IF work THEN Refuse(Files) ELSE Rebuilt(AllIndex, Files, Files)
  BY DEF RebuildAll, AllIndex
<1>4. RebuildKeeps
  BY DEF RebuildAll, RebuildKeeps
<1> QED BY <1>1, <1>2, <1>3, <1>4

\* Each end keeps the types.
LEMMA AnsweredType ==
  ASSUME ValueInv, NEW files \in SUBSET Files, NEW walked, Refused(files) \/ Retried \/ Answered(files, walked), RebuildKeeps
  PROVE  ValueInv'
<1>1. excuse' \in Excuses /\ queue' \in [rescan : BOOLEAN, paths : SUBSET Files] /\ replan' \in BOOLEAN
  <2>1. excuse \in Excuses /\ replan \in BOOLEAN
    BY DEF ValueInv
  <2>2. CASE Refused(files)
    BY <2>1, <2>2 DEF Refused, Excuses, NoChange
  <2>3. CASE Retried
    BY <2>1, <2>3 DEF Retried
  <2>4. CASE Answered(files, walked)
    <3>1. excuse' \in Excuses
      BY <2>1, <2>4 DEF Answered, Excuses
    <3>2. replan' \in BOOLEAN /\ queue' \in [rescan : BOOLEAN, paths : SUBSET Files]
      BY <2>1, <2>4 DEF Answered, NoChange
    <3> QED BY <3>1, <3>2
  <2> QED BY <2>2, <2>3, <2>4
<1>2. head' = head /\ ignored' = ignored /\ plan' = plan
  BY DEF RebuildKeeps
<1> QED BY <1>1, <1>2 DEF ValueInv

\* What a verdict makes of the plan.
LEMMA JudgeIs ==
  ASSUME ValueInv, NEW same, NEW stamp
  PROVE  Judge(same, stamp) =
           [plan EXCEPT !.at = "walk", !.left = Tail(plan.left), !.stamp = None,
                        !.shared = IF same THEN Append(plan.shared, [path |-> Head(plan.left), stamp |-> stamp]) ELSE plan.shared,
                        !.differing = IF same THEN plan.differing ELSE plan.differing \cup {Head(plan.left)}]
<1> DEFINE f == Head(plan.left)  entry == [path |-> f, stamp |-> stamp]
<1>1. Judge(same, stamp) =
        [plan EXCEPT !.at = "walk", !.left = Tail(@), !.stamp = None,
                     !.shared = IF same THEN Append(@, entry) ELSE @, !.differing = IF same THEN @ ELSE @ \cup {f}]
  BY DEF Judge
<1> HIDE DEF f, entry
<1>2. Judge(same, stamp) =
        [plan EXCEPT !.at = "walk", !.left = Tail(plan.left), !.stamp = None,
                     !.shared = IF same THEN Append(plan.shared, entry) ELSE plan.shared,
                     !.differing = IF same THEN plan.differing ELSE plan.differing \cup {f}]
  BY <1>1 DEF ValueInv
<1> QED BY <1>2 DEF f, entry

\* A plan that goes on to the next file.
WalksOn(p) ==
  p = [at |-> "walk", base |-> plan.base, previous |-> plan.previous, git |-> plan.git, head |-> plan.head, moved |-> plan.moved,
       left |-> p.left, stamp |-> None, shared |-> p.shared, differing |-> p.differing, committed |-> plan.committed]

\* A verdict leaves what the plan reads alone.
LEMMA JudgeKeeps ==
  ASSUME ValueInv, NEW same, NEW stamp
  PROVE  /\ Judge(same, stamp).base = plan.base /\ Judge(same, stamp).previous = plan.previous
         /\ WalksOn(Judge(same, stamp))
<1> DEFINE x == Tail(plan.left)
           y == IF same THEN Append(plan.shared, [path |-> Head(plan.left), stamp |-> stamp]) ELSE plan.shared
           z == IF same THEN plan.differing ELSE plan.differing \cup {Head(plan.left)}
<1>1. Judge(same, stamp) = [plan EXCEPT !.at = "walk", !.left = x, !.stamp = None, !.shared = y, !.differing = z]
  BY JudgeIs
<1> HIDE DEF x, y, z
<1>2. Judge(same, stamp).base = plan.base /\ Judge(same, stamp).previous = plan.previous
  BY <1>1 DEF ValueInv
<1>3. WalksOn(Judge(same, stamp))
  BY <1>1 DEF ValueInv, WalksOn
<1> QED BY <1>2, <1>3

\* The first file left is passed over, judged, or left to be compared.
LEMMA WalkDoes ==
  ASSUME ValueInv, WalkFile
  PROVE  LET f == Head(plan.left) file == tree["lane"][f]
             held == BaseCurrent(f) /\ Capsule("lane", f) = Capsule("base", f)
         IN \/ ~Valid(file) /\ plan' = [plan EXCEPT !.left = Tail(plan.left)]
            \/ Valid(file) /\ ~(held /\ ByContent(f)) /\ plan' = Judge(held /\ f \notin plan.moved, file.stamp)
            \/ Valid(file) /\ held /\ ByContent(f) /\ plan' = [plan EXCEPT !.at = "compare", !.stamp = file.stamp]
<1> DEFINE f == Head(plan.left)  file == tree["lane"][f]  held == BaseCurrent(f) /\ Capsule("lane", f) = Capsule("base", f)
<1>1. \/ ~Valid(file) /\ plan' = [plan EXCEPT !.left = Tail(@)]
      \/ Valid(file) /\ ~(held /\ ByContent(f)) /\ plan' = Judge(held /\ f \notin plan.moved, file.stamp)
      \/ Valid(file) /\ held /\ ByContent(f) /\ plan' = [plan EXCEPT !.at = "compare", !.stamp = file.stamp]
  BY DEF WalkFile
<1>2. [plan EXCEPT !.left = Tail(@)] = [plan EXCEPT !.left = Tail(plan.left)]
  BY DEF ValueInv
<1> HIDE DEF f, file, held
<1>3. \/ ~Valid(file) /\ plan' = [plan EXCEPT !.left = Tail(plan.left)]
      \/ Valid(file) /\ ~(held /\ ByContent(f)) /\ plan' = Judge(held /\ f \notin plan.moved, file.stamp)
      \/ Valid(file) /\ held /\ ByContent(f) /\ plan' = [plan EXCEPT !.at = "compare", !.stamp = file.stamp]
  BY <1>1, <1>2
<1> QED BY <1>3 DEF f, file, held

\* It is judged when it was compared; the history notes that the base's file outran its rows.
LEMMA CompareDoes ==
  ASSUME ValueInv, PlanInv, CompareFile
  PROVE  LET f == Head(plan.left) text == tree["lane"][f].text
             same == text = tree["base"][f].text /\ text \notin {Unreadable, Gone}
         IN /\ f \in Files /\ plan' = Judge(same, plan.stamp)
            /\ excuse' = [excuse EXCEPT !.outrun = IF same /\ ~BaseCurrent(f) THEN excuse.outrun \cup {f} ELSE excuse.outrun]
<1> DEFINE f == Head(plan.left)  text == tree["lane"][f].text  same == text = tree["base"][f].text /\ text \notin {Unreadable, Gone}
<1>1. plan' = Judge(same, plan.stamp) /\ excuse' = [excuse EXCEPT !.outrun = IF same /\ ~BaseCurrent(f) THEN @ \cup {f} ELSE @]
  BY DEF CompareFile
<1>2. f \in Files
  <2>1. plan.left # <<>> /\ plan.left \in Seq(Files \ Linked)
    BY DEF PlanInv, Compared, Walking, Verdicts, CompareFile
  <2> QED BY <2>1
<1> HIDE DEF f, same
<1>3. excuse' = [excuse EXCEPT !.outrun = IF same /\ ~BaseCurrent(f) THEN excuse.outrun \cup {f} ELSE excuse.outrun]
  BY <1>1 DEF ValueInv, Excuses
<1> QED BY <1>1, <1>2, <1>3 DEF f, same, text

\* Every step keeps the types.
LEMMA ValueStep ==
  ASSUME TreeInv, ValueInv, PlanInv, [Next]_vars
  PROVE  ValueInv'
<1>a. /\ head \in [Files -> Texts] /\ ignored \subseteq Files
      /\ queue \in [rescan : BOOLEAN, paths : SUBSET Files] /\ replan \in BOOLEAN /\ excuse \in Excuses
  BY DEF ValueInv
<1>p. /\ plan.at \in {"idle", "head", "lane", "base", "walk", "compare"} /\ plan.committed \in BOOLEAN /\ plan.git \in BOOLEAN
      /\ plan = [at |-> plan.at, base |-> plan.base, previous |-> plan.previous, git |-> plan.git, head |-> plan.head,
                 moved |-> plan.moved, left |-> plan.left, stamp |-> plan.stamp, shared |-> plan.shared,
                 differing |-> plan.differing, committed |-> plan.committed]
  BY DEF ValueInv
<1>t. \A f \in Files : tree["base"][f].text \in Texts
  BY DEF TreeInv, Roots
<1>1. ASSUME NEW r \in Roots, NEW f \in Files, Edit(r, f) PROVE ValueInv'
  <2>1. head' = head /\ ignored' = ignored /\ plan' = plan
    BY <1>1 DEF Edit
  <2>2. queue' \in [rescan : BOOLEAN, paths : SUBSET Files]
    BY <1>1, <1>a DEF Edit, Note
  <2>3. replan' \in BOOLEAN
    BY <1>1, <1>a DEF Edit
  <2>4. excuse' \in Excuses
    <3> DEFINE x == IF Reported(r, f) THEN excuse.unseen ELSE excuse.unseen \cup {<<r, f>>}  y == excuse.edits + 1
    <3>1. x \in SUBSET (Roots \X Files) /\ y \in Nat
      BY <1>a DEF Excuses
    <3>2. excuse' = [excuse EXCEPT !.edits = y, !.unseen = x]
      BY <1>1, <1>a DEF Edit, Excuses
    <3> HIDE DEF x, y
    <3> QED BY <3>1, <3>2, <1>a DEF Excuses
  <2> QED BY <2>1, <2>2, <2>3, <2>4, <1>a, <1>p DEF ValueInv
<1>2. ASSUME Commit PROVE ValueInv'
  <2>1. ignored' = ignored /\ queue' = queue /\ replan' = replan
    BY <1>2 DEF Commit
  <2>2. head' \in [Files -> Texts]
    BY <1>2, <1>t DEF Commit
  <2>3. excuse' \in Excuses
    BY <1>2, <1>a DEF Commit, Excuses
  <2>4. plan' = [plan EXCEPT !.committed = @ \/ plan.at \in {"lane", "base"}]
    BY <1>2 DEF Commit
  <2> QED BY <2>1, <2>2, <2>3, <2>4, <1>a, <1>p DEF ValueInv
<1>3. ASSUME NEW f \in Files, Ignore(f) PROVE ValueInv'
  <2>1. head' = head /\ queue' = queue /\ replan' = replan /\ plan' = plan
    BY <1>3 DEF Ignore
  <2>2. ignored' \subseteq Files
    BY <1>3, <1>a DEF Ignore, SymDiff
  <2>3. excuse' \in Excuses
    <3> DEFINE x == excuse.ruled \cup {f}  y == excuse.rules + 1
    <3>1. x \in SUBSET Files /\ y \in Nat
      BY <1>a DEF Excuses
    <3>2. excuse' = [excuse EXCEPT !.rules = y, !.ruled = x]
      BY <1>3, <1>a DEF Ignore, Excuses
    <3> HIDE DEF x, y
    <3> QED BY <3>1, <3>2, <1>a DEF Excuses
  <2> QED BY <2>1, <2>2, <2>3, <1>a, <1>p DEF ValueInv
<1>4. ASSUME RebuildChanged PROVE ValueInv'
  BY <1>4, <1>a, RebuildChangedDoes, AnsweredType
<1>5. ASSUME RebuildAll PROVE ValueInv'
  BY <1>5, RebuildAllDoes, AnsweredType
<1>6. ASSUME Begin PROVE ValueInv'
  <2>1. head' = head /\ ignored' = ignored /\ queue' = queue /\ replan' = FALSE
    BY <1>6 DEF Begin
  <2>2. excuse' \in Excuses
    BY <1>6, <1>a DEF Begin, Excuses
  <2>3. \E git \in BOOLEAN :
       plan' = [Idle EXCEPT !.at = "head", !.base = store, !.git = git,
                            !.previous = IF overlay = None THEN delta ELSE overlay.delta]
    BY <1>6 DEF Begin
  <2> QED BY <2>1, <2>2, <2>3, <1>a DEF ValueInv, Idle
<1>7. ASSUME ReadHead \/ DiffLane \/ DiffBase \/ WalkFile PROVE ValueInv'
  <2>1. head' = head /\ ignored' = ignored /\ queue' = queue /\ replan' = replan /\ excuse' = excuse
    BY <1>7 DEF ReadHead, DiffLane, DiffBase, WalkFile
  <2>2. CASE ReadHead
    <3>1. plan' = [plan EXCEPT !.at = "lane", !.head = head]
      BY <2>2 DEF ReadHead
    <3> QED BY <2>1, <3>1, <1>a, <1>p DEF ValueInv
  <2>3. CASE DiffLane
    <3> DEFINE x == {f \in Tracked : tree["lane"][f].text # plan.head[f]}
    <3>1. plan' = [plan EXCEPT !.at = "base", !.moved = x]
      BY <2>3 DEF DiffLane
    <3> HIDE DEF x
    <3> QED BY <2>1, <3>1, <1>a, <1>p DEF ValueInv
  <2>4. CASE DiffBase
    <3> DEFINE x == plan.moved \cup {f \in Files : tree["base"][f].text # head[f]}  y == InOrder(Files \ Linked)
    <3>1. plan' = [plan EXCEPT !.at = "walk", !.moved = x, !.left = y]
      BY <2>4, <1>p DEF DiffBase
    <3> HIDE DEF x, y
    <3> QED BY <2>1, <3>1, <1>a, <1>p DEF ValueInv
  <2>5. CASE WalkFile
    <3>1. \A same, stamp : WalksOn(Judge(same, stamp))
      BY JudgeKeeps
    <3>2. plan.at = "walk"
      BY <2>5 DEF WalkFile
    <3>3. CASE \E x : plan' = [plan EXCEPT !.left = x]
      BY <2>1, <3>2, <3>3, <1>a, <1>p DEF ValueInv
    <3>4. CASE \E same, stamp : plan' = Judge(same, stamp)
      <4>1. WalksOn(plan')
        BY <3>1, <3>4
      <4> QED BY <2>1, <4>1, <1>a, <1>p DEF ValueInv, WalksOn
    <3>5. CASE \E s : plan' = [plan EXCEPT !.at = "compare", !.stamp = s]
      BY <2>1, <3>5, <1>a, <1>p DEF ValueInv
    <3> QED BY <2>5, <3>3, <3>4, <3>5, WalkDoes
  <2> QED BY <1>7, <2>2, <2>3, <2>4, <2>5
<1>11. ASSUME CompareFile PROVE ValueInv'
  <2>1. head' = head /\ ignored' = ignored /\ queue' = queue /\ replan' = replan
    BY <1>11 DEF CompareFile
  <2>2. excuse' \in Excuses
    <3>1. \E x : x \in {excuse.outrun, excuse.outrun \cup {Head(plan.left)}} /\ excuse' = [excuse EXCEPT !.outrun = x]
      BY <1>11, CompareDoes
    <3>2. Head(plan.left) \in Files
      BY <1>11, CompareDoes
    <3> QED BY <3>1, <3>2, <1>a DEF Excuses
  <2>3. \A same, stamp : WalksOn(Judge(same, stamp))
    BY JudgeKeeps
  <2>4. WalksOn(plan')
    BY <1>11, <2>3, CompareDoes
  <2> QED BY <2>1, <2>2, <2>4, <1>a, <1>p DEF ValueInv, WalksOn
<1>8. ASSUME Finish PROVE ValueInv'
  <2>1. head' = head /\ ignored' = ignored /\ queue' = queue /\ replan' = replan /\ plan' = Idle
    BY <1>8 DEF Finish
  <2>2. excuse' \in Excuses
    BY <1>8, <1>a, <1>p DEF Finish, Excuses
  <2> QED BY <2>1, <2>2, <1>a DEF ValueInv, Idle
<1>9. ASSUME Evict PROVE ValueInv'
  <2>1. head' = head /\ ignored' = ignored /\ queue' = queue /\ replan' = FALSE /\ plan' = plan
    BY <1>9 DEF Evict
  <2>2. excuse' \in Excuses
    BY <1>9, <1>a DEF Evict, Excuses
  <2> QED BY <2>1, <2>2, <1>a, <1>p DEF ValueInv
<1>10. CASE UNCHANGED vars
  BY <1>10, <1>a, <1>p DEF vars, ValueInv
<1> QED BY <1>1, <1>2, <1>3, <1>4, <1>5, <1>6, <1>7, <1>8, <1>9, <1>10, <1>11, LaneAssumption DEF Next

-----------------------------------------------------------------------------
(* Composing an overlay. *)

\* The sum of the first numbers is a running sum.
LEMMA TotalPrefix ==
  ASSUME NEW numbers \in Seq(Nat), NEW sum, Sums(sum, numbers), NEW k \in 0..Len(numbers)
  PROVE  Total([j \in 1..k |-> numbers[j]]) = sum[k]
<1> DEFINE n == Len(numbers)  first == [j \in 1..k |-> numbers[j]]  short == [j \in 0..k |-> sum[j]]
<1>1. n \in Nat /\ k \in Nat /\ k <= n
  OBVIOUS
<1>2. first \in Seq(Nat) /\ Len(first) = k
  OBVIOUS
<1>3. \A j \in 1..k : first[j] = numbers[j] /\ j \in 1..n /\ j - 1 \in 0..k
  BY <1>1
<1>4. \A j \in 0..k : short[j] = sum[j] /\ j \in 0..n
  BY <1>1
<1>5. short \in [0..k -> Nat]
  BY <1>4 DEF Sums
<1>6. sum[0] = 0 /\ \A j \in 1..n : sum[j] = sum[j - 1] + numbers[j]
  BY DEF Sums
<1> HIDE DEF first, short, n
<1>9. short[0] = 0
  BY <1>1, <1>4, <1>6
<1>10. ASSUME NEW j \in 1..k PROVE short[j] = short[j - 1] + first[j]
  <2>1. j \in 1..n /\ j \in 0..k /\ j - 1 \in 0..k
    BY <1>1
  <2> QED BY <2>1, <1>3, <1>4, <1>6
<1>11. \A l : l = k => /\ short \in [0..l -> Nat] /\ short[0] = 0 /\ \A j \in 1..l : short[j] = short[j - 1] + first[j]
  BY <1>5, <1>9, <1>10
<1>12. short \in [0..Len(first) -> Nat] /\ short[0] = 0 /\ \A j \in 1..Len(first) : short[j] = short[j - 1] + first[j]
  BY <1>2, <1>11
<1>7. Sums(short, first)
  BY <1>12 DEF Sums
<1>8. Total(first) = short[k]
  BY <1>2, <1>7, TotalIs
<1> QED BY <1>1, <1>4, <1>8 DEF first

\* The rows of the base an overlay keeps, file by file.
KeepSeqs(base, paths) ==
  [i \in DOMAIN base.manifest |-> IF base.manifest[i].path \in paths
                                  THEN [q \in 1..base.manifest[i].count |-> base.manifest[i].start + q - 1] ELSE <<>>]
KeepCounts(base, paths) == [i \in DOMAIN base.manifest |-> IF base.manifest[i].path \in paths THEN base.manifest[i].count ELSE 0]
KeptChunks(base, keep) == [r \in DOMAIN keep |-> base.chunks[keep[r] + 1]]

\* What the kept rows are: those of the shared files, run by run.
KeepIs(base, paths, ks, kc) ==
  /\ ks \in Seq(Seq(Nat)) /\ Len(ks) = Len(base.manifest) /\ kc \in Seq(Nat) /\ Len(kc) = Len(base.manifest)
  /\ \A i \in 1..Len(base.manifest) :
       /\ base.manifest[i] \in Entry(Stamps) /\ base.manifest[i].start + base.manifest[i].count <= Len(base.chunks)
       /\ Len(ks[i]) = kc[i]
       /\ IF base.manifest[i].path \in paths
          THEN kc[i] = base.manifest[i].count /\ \A q \in 1..base.manifest[i].count : ks[i][q] = base.manifest[i].start + q - 1
          ELSE kc[i] = 0

\* They are so.
LEMMA KeepType ==
  ASSUME NEW w, NEW base, Sound(w, "base", base), NEW paths
  PROVE  KeepIs(base, paths, KeepSeqs(base, paths), KeepCounts(base, paths))
<1> DEFINE m == base.manifest  n == Len(m)  ks == KeepSeqs(base, paths)  kc == KeepCounts(base, paths)
<1>1. m \in Seq(Entry(Stamps)) /\ \A i \in 1..n : m[i].start + m[i].count <= Len(base.chunks)
  BY DEF Sound
<1>2. n \in Nat /\ DOMAIN m = 1..n /\ \A i \in 1..n : m[i] \in Entry(Stamps)
  BY <1>1, ElementOfSeq
<1>3. \A i \in 1..n : m[i].start \in Nat /\ m[i].count \in Nat
  BY <1>2 DEF Entry
<1>4. /\ ks = [i \in 1..n |-> IF m[i].path \in paths THEN [q \in 1..m[i].count |-> m[i].start + q - 1] ELSE <<>>]
      /\ kc = [i \in 1..n |-> IF m[i].path \in paths THEN m[i].count ELSE 0]
  BY <1>2 DEF KeepSeqs, KeepCounts
<1> HIDE DEF ks, kc, n, m
<1>5. ASSUME NEW i \in 1..n
      PROVE  /\ ks[i] \in Seq(Nat) /\ kc[i] \in Nat /\ Len(ks[i]) = kc[i]
             /\ IF m[i].path \in paths THEN kc[i] = m[i].count /\ \A q \in 1..m[i].count : ks[i][q] = m[i].start + q - 1
                ELSE kc[i] = 0
  <2> DEFINE a == m[i].start  c == m[i].count
  <2>1. a \in Nat /\ c \in Nat
    BY <1>3
  <2> HIDE DEF a, c
  <2>2. CASE m[i].path \in paths
    <3> DEFINE s == [q \in 1..c |-> a + q - 1]
    <3>1. ks[i] = s /\ kc[i] = c
      BY <2>2, <1>4 DEF a, c
    <3>2. s \in [1..c -> Nat] /\ \A q \in 1..c : s[q] = a + q - 1
      BY <2>1
    <3> HIDE DEF s
    <3>3. s \in Seq(Nat) /\ Len(s) = c
      BY <2>1, <3>2
    <3> QED BY <2>1, <2>2, <3>1, <3>2, <3>3 DEF a, c
  <2>3. CASE m[i].path \notin paths
    BY <2>3, <1>4
  <2> QED BY <2>2, <2>3
<1>6. ks \in Seq(Seq(Nat)) /\ Len(ks) = n /\ kc \in Seq(Nat) /\ Len(kc) = n
  <2>1. ks \in [1..n -> Seq(Nat)] /\ kc \in [1..n -> Nat]
    BY <1>4, <1>5
  <2> QED BY <2>1, <1>2
<1> QED BY <1>1, <1>2, <1>5, <1>6 DEF m, n, ks, kc, KeepIs

\* What an overlay finds where it keeps a shared file's rows.
KeepGives(base, paths, keep, sum) ==
  /\ keep \in Seq(Nat) /\ \A r \in 1..Len(keep) : keep[r] + 1 \in 1..Len(base.chunks)
  /\ KeptChunks(base, keep) \in Seq(Chunk) /\ Len(KeptChunks(base, keep)) = Len(keep)
  /\ \A i \in 1..Len(base.manifest) : base.manifest[i].path \in paths =>
       /\ sum[i - 1] \in Nat /\ sum[i - 1] + base.manifest[i].count <= Len(keep)
       /\ \A q \in 1..base.manifest[i].count : KeptChunks(base, keep)[sum[i - 1] + q] = base.chunks[base.manifest[i].start + q]

\* The kept rows are rows of the base, and each shared file's are together.
LEMMA KeepDoes ==
  ASSUME NEW w, NEW base, Sound(w, "base", base), NEW paths,
         NEW sum, Sums(sum, KeepCounts(base, paths)), NEW keep, keep = FlattenSeq(KeepSeqs(base, paths))
  PROVE  KeepGives(base, paths, keep, sum)
<1>0. SUFFICES
      /\ keep \in Seq(Nat) /\ \A r \in 1..Len(keep) : keep[r] + 1 \in 1..Len(base.chunks)
      /\ KeptChunks(base, keep) \in Seq(Chunk) /\ Len(KeptChunks(base, keep)) = Len(keep)
      /\ \A i \in 1..Len(base.manifest) : base.manifest[i].path \in paths =>
           /\ sum[i - 1] \in Nat /\ sum[i - 1] + base.manifest[i].count <= Len(keep)
           /\ \A q \in 1..base.manifest[i].count : KeptChunks(base, keep)[sum[i - 1] + q] = base.chunks[base.manifest[i].start + q]
  BY DEF KeepGives
<1> DEFINE m == base.manifest  n == Len(m)  ks == KeepSeqs(base, paths)  kc == KeepCounts(base, paths)  l == Len(base.chunks)
<1>k. KeepIs(base, paths, ks, kc)
  BY KeepType
<1>s. Sums(sum, kc)
  OBVIOUS
<1>f. keep = FlattenSeq(ks)
  OBVIOUS
<1> HIDE DEF ks, kc
<1>1. /\ ks \in Seq(Seq(Nat)) /\ Len(ks) = n /\ kc \in Seq(Nat) /\ Len(kc) = n
      /\ \A i \in 1..n : /\ m[i] \in Entry(Stamps) /\ m[i].start + m[i].count <= l /\ Len(ks[i]) = kc[i]
                         /\ IF m[i].path \in paths THEN kc[i] = m[i].count /\ \A q \in 1..m[i].count : ks[i][q] = m[i].start + q - 1
                            ELSE kc[i] = 0
  BY <1>k DEF KeepIs
<1>2. base.chunks \in Seq(Chunk) /\ l \in Nat /\ DOMAIN base.chunks = 1..l /\ \A j \in 1..l : base.chunks[j] \in Chunk
  BY ElementOfSeq DEF Sound
<1>3. PICK upto : Joins(upto, ks, Nat)
  BY <1>1, JoinsExist
<1> HIDE DEF l
<1>4. \A i \in 0..n : Len(upto[i]) = sum[i]
  <2>1. Measures(kc, ks)
    BY <1>1 DEF Measures
  <2> DEFINE N == Nat
  <2>3. ks \in Seq(Seq(N)) /\ kc \in Seq(Nat) /\ Joins(upto, ks, N) /\ Sums(sum, kc)
    BY <1>1, <1>3, <1>s
  <2> HIDE DEF N
  <2>2. \A i \in 0..Len(ks) : Len(upto[i]) = sum[i]
    BY ONLY <2>1, <2>3, LengthsAreSums
  <2> QED BY <2>2, <1>1
<1>5. keep \in Seq(Nat)
  BY <1>1, <1>f, FlattenRange
<1>6. \A i \in 1..n : Found(ks[i], Len(upto[i - 1]), keep, Nat)
  BY <1>1, <1>3, <1>f, FlattenPart
<1>7. ASSUME NEW r \in 1..Len(keep) PROVE keep[r] + 1 \in 1..l
  <2>1. keep[r] \in Range(keep)
    BY <1>5 DEF Range
  <2>2. PICK i \in 1..n : keep[r] \in Range(ks[i])
    BY <2>1, <1>1, <1>f, FlattenRange
  <2>3. ks[i] \in Seq(Nat)
    BY <1>1, ElementOfSeq
  <2> DEFINE s == ks[i]
  <2>9. s \in Seq(Nat) /\ keep[r] \in Range(s)
    BY <2>2, <2>3
  <2> HIDE DEF s
  <2>10. \E q \in 1..Len(s) : keep[r] = s[q]
    BY <2>9 DEF Range
  <2>4. PICK q \in 1..Len(ks[i]) : keep[r] = ks[i][q]
    BY <2>10 DEF s
  <2>5. m[i].start \in Nat /\ m[i].count \in Nat /\ m[i].start + m[i].count <= l
    BY <1>1 DEF Entry
  <2> DEFINE a == m[i].start  c == m[i].count
  <2>6. q \in 1..kc[i]
    BY <2>4, <1>1
  <2>11. m[i].path \in paths
    <3>1. CASE m[i].path \notin paths
      <4>1. kc[i] = 0
        BY <3>1, <1>1
      <4> QED BY <4>1, <2>6
    <3> QED BY <3>1
  <2>7. m[i].path \in paths /\ q \in 1..c /\ keep[r] = a + q - 1
    BY <2>4, <2>6, <2>11, <1>1
  <2> HIDE DEF a, c, m, n
  <2>8. a + q - 1 + 1 \in 1..l
    BY <2>5, <2>7, <1>2 DEF a, c
  <2> QED BY <2>7, <2>8
<1>8. \A r \in DOMAIN keep : r \in 1..Len(keep) /\ keep[r] + 1 \in 1..l
  BY <1>5, <1>7
<1> DEFINE kept == KeptChunks(base, keep)
<1>9. kept \in [1..Len(keep) -> Chunk] /\ \A r \in 1..Len(keep) : kept[r] = base.chunks[keep[r] + 1]
  BY <1>2, <1>5, <1>8 DEF KeptChunks
<1> HIDE DEF kept
<1>10. kept \in Seq(Chunk) /\ Len(kept) = Len(keep)
  BY <1>5, <1>9
<1>11. ASSUME NEW i \in 1..n, m[i].path \in paths
       PROVE  /\ sum[i - 1] \in Nat /\ sum[i - 1] + m[i].count <= Len(keep)
              /\ \A q \in 1..m[i].count : kept[sum[i - 1] + q] = base.chunks[m[i].start + q]
  <2> DEFINE a == m[i].start  c == m[i].count  b == sum[i - 1]
  <2>1. a \in Nat /\ c \in Nat
    BY <1>1 DEF Entry
  <2>2. i - 1 \in 0..n
    BY <1>1
  <2>3. Len(upto[i - 1]) = b /\ Len(ks[i]) = c /\ \A q \in 1..c : ks[i][q] = a + q - 1
    BY <2>2, <1>1, <1>4, <1>11
  <2>4. Found(ks[i], b, keep, Nat)
    BY <2>3, <1>6
  <2> HIDE DEF a, b, c
  <2>5. b \in Nat /\ b + c <= Len(keep) /\ Len(keep) \in Nat /\ \A q \in 1..c : keep[b + q] = a + q - 1
    BY <2>3, <2>4 DEF Found
  <2>6. \A q \in 1..c : b + q \in 1..Len(keep) /\ a + q - 1 + 1 = a + q
    BY <2>1, <2>5
  <2>7. \A q \in 1..c : kept[b + q] = base.chunks[a + q]
    BY <2>5, <2>6, <1>9
  <2> QED BY <2>5, <2>7 DEF a, b, c
<1> QED BY <1>5, <1>7, <1>10, <1>11 DEF kept, l

\* The c rows behind the first a of them.
From(s, a, c) == SubSeq(s, a + 1, a + c)
Alike(s, a, t, b, c) == \A q \in 1..c : s[a + q] = t[b + q]

\* Rows found in two places.
LEMMA SameRows ==
  ASSUME NEW X, NEW s \in Seq(X), NEW t \in Seq(X), NEW a \in Nat, NEW b \in Nat, NEW c \in Nat,
         a + c <= Len(s), b + c <= Len(t), Alike(s, a, t, b, c)
  PROVE  From(s, a, c) = From(t, b, c)
<1>1. /\ SubSeq(s, a + 1, a + c) = [i \in 1..(a + c + 1 - (a + 1)) |-> s[i + (a + 1) - 1]]
      /\ SubSeq(t, b + 1, b + c) = [i \in 1..(b + c + 1 - (b + 1)) |-> t[i + (b + 1) - 1]]
  OBVIOUS
<1>2. a + c + 1 - (a + 1) = c /\ b + c + 1 - (b + 1) = c
  OBVIOUS
<1>3. \A i \in 1..c : i + (a + 1) - 1 = a + i /\ i + (b + 1) - 1 = b + i
  OBVIOUS
<1>4. [i \in 1..c |-> s[i + (a + 1) - 1]] = [i \in 1..c |-> t[i + (b + 1) - 1]]
  BY <1>3 DEF Alike
<1> QED BY <1>1, <1>2, <1>4 DEF From

\* Where the overlay's manifest puts the shared files.
SharedAt(listed, m, paths, sum) ==
  /\ listed \in Seq(Entry(Stamps))
  /\ \A e \in Range(listed) : \E i \in 1..Len(m) :
       m[i].path \in paths /\ e.path = m[i].path /\ e.start = sum[i - 1] /\ e.count = m[i].count
  /\ \A i \in 1..Len(m) : m[i].path \in paths => \E e \in Range(listed) : e.path = m[i].path

\* The entries of shared files point at their kept rows.
LEMMA SharedListed ==
  ASSUME NEW w, NEW base, Sound(w, "base", base), NEW shared \in Seq([path : Files, stamp : Stamps]),
         NEW sum, Sums(sum, KeepCounts(base, Paths(shared)))
  PROVE  SharedAt(SharedManifest(base, shared), base.manifest, Paths(shared), sum)
<1> DEFINE m == base.manifest  n == Len(m)  P == Paths(shared)  kc == KeepCounts(base, P)
           before(i) == Total([j \in 1..(i - 1) |-> IF m[j].path \in P THEN m[j].count ELSE 0])
           new(i) == [path |-> m[i].path, stamp |-> EntryOf(shared, m[i].path).stamp, start |-> before(i), count |-> m[i].count]
           seqs == [i \in DOMAIN m |-> IF m[i].path \in P THEN <<new(i)>> ELSE <<>>]
<1>1. SharedManifest(base, shared) = FlattenSeq(seqs)
  BY DEF SharedManifest
<1>2. n \in Nat /\ DOMAIN m = 1..n /\ \A i \in 1..n : m[i] \in Entry(Stamps)
  BY ElementOfSeq DEF Sound
<1>3. kc \in Seq(Nat) /\ Len(kc) = n
  BY KeepType DEF KeepIs
<1>4. \A j \in 1..n : kc[j] = IF m[j].path \in P THEN m[j].count ELSE 0
  BY <1>2 DEF KeepCounts
<1>5. Sums(sum, kc)
  OBVIOUS
<1> HIDE DEF kc
<1>6. ASSUME NEW i \in 1..n PROVE before(i) = sum[i - 1] /\ sum[i - 1] \in Nat
  <2>1. i - 1 \in 0..n /\ i - 1 \in 0..Len(kc)
    BY <1>2, <1>3
  <2>2. Total([j \in 1..(i - 1) |-> kc[j]]) = sum[i - 1]
    BY <2>1, <1>3, <1>5, TotalPrefix
  <2>3. [j \in 1..(i - 1) |-> kc[j]] = [j \in 1..(i - 1) |-> IF m[j].path \in P THEN m[j].count ELSE 0]
    <3>1. \A j \in 1..(i - 1) : j \in 1..n
      BY <1>2
    <3> QED BY <3>1, <1>4
  <2>4. sum \in [0..Len(kc) -> Nat]
    BY <1>5 DEF Sums
  <2> QED BY <2>1, <2>2, <2>3, <2>4
<1>7. ASSUME NEW f \in P PROVE EntryOf(shared, f).stamp \in Stamps
  <2> DEFINE at == {i \in DOMAIN shared : shared[i].path = f}  k == CHOOSE i \in at : TRUE
  <2>1. PICK i \in 1..Len(shared) : shared[i].path = f
    BY PathsAre
  <2>2. i \in at
    BY <2>1
  <2>3. k \in at
    BY <2>2
  <2>4. EntryOf(shared, f) = shared[k]
    BY <2>2 DEF EntryOf
  <2> HIDE DEF k
  <2>6. k \in 1..Len(shared)
    BY <2>3
  <2>5. shared[k] \in [path : Files, stamp : Stamps]
    BY <2>6, ElementOfSeq
  <2> QED BY <2>4, <2>5
<1> HIDE DEF P, m, n, before
<1>8. ASSUME NEW i \in 1..n, m[i].path \in P PROVE new(i) \in Entry(Stamps) /\ seqs[i] = <<new(i)>>
  <2>1. m[i] \in Entry(Stamps) /\ before(i) \in Nat /\ EntryOf(shared, m[i].path).stamp \in Stamps
    BY <1>2, <1>6, <1>7, <1>8
  <2> QED BY <2>1, <1>2, <1>8 DEF Entry
<1>9. \A i \in 1..n : m[i].path \notin P => seqs[i] = <<>>
  BY <1>2
<1>10. DOMAIN seqs = 1..n
  BY <1>2
<1> HIDE DEF seqs, new
<1>11. ASSUME NEW i \in 1..n PROVE seqs[i] \in Seq(Entry(Stamps))
  <2>1. CASE m[i].path \in P
    <3>1. new(i) \in Entry(Stamps) /\ seqs[i] = <<new(i)>>
      BY <2>1, <1>8
    <3> QED BY <3>1
  <2>2. CASE m[i].path \notin P
    <3>1. seqs[i] = <<>>
      BY <2>2, <1>9
    <3> QED BY <3>1
  <2> QED BY <2>1, <2>2
<1>12. seqs \in Seq(Seq(Entry(Stamps))) /\ Len(seqs) = n
  <2>1. seqs = [i \in 1..n |-> seqs[i]]
    BY <1>10 DEF seqs
  <2>2. seqs \in [1..n -> Seq(Entry(Stamps))]
    BY <2>1, <1>11
  <2> QED BY <2>2, <1>2
<1>13. /\ FlattenSeq(seqs) \in Seq(Entry(Stamps))
       /\ \A x : x \in Range(FlattenSeq(seqs)) <=> \E i \in 1..n : x \in Range(seqs[i])
  BY <1>12, FlattenRange
<1>14. \A i \in 1..n : m[i].path \in P => Range(seqs[i]) = {new(i)}
  BY <1>8, OneOrNone
<1>15. \A i \in 1..n : m[i].path \notin P => Range(seqs[i]) = {}
  BY <1>9, OneOrNone
<1>16. ASSUME NEW e \in Range(FlattenSeq(seqs))
       PROVE  \E i \in 1..n : m[i].path \in P /\ e.path = m[i].path /\ e.start = sum[i - 1] /\ e.count = m[i].count
  <2>1. PICK i \in 1..n : e \in Range(seqs[i])
    BY <1>13
  <2>2. m[i].path \in P /\ e = new(i)
    BY <2>1, <1>14, <1>15
  <2>3. e.path = m[i].path /\ e.start = before(i) /\ e.count = m[i].count
    BY <2>2 DEF new
  <2> QED BY <2>2, <2>3, <1>6
<1>17. ASSUME NEW i \in 1..n, m[i].path \in P PROVE \E e \in Range(FlattenSeq(seqs)) : e.path = m[i].path
  <2>1. new(i) \in Range(FlattenSeq(seqs))
    BY <1>13, <1>14, <1>17
  <2>2. new(i).path = m[i].path
    BY DEF new
  <2> QED BY <2>1, <2>2
<1> QED BY <1>1, <1>13, <1>16, <1>17 DEF m, n, P, SharedAt

\* The rows of a delta, or none.
DeltaChunks(d) == IF d = None THEN <<>> ELSE d.chunks

\* The stores of an overlay are those of its base's kept rows and its delta.
LEMMA OverlayChunksAre ==
  ASSUME NEW o
  PROVE  OverlayChunks(o) = KeptChunks(o.base, o.keep) \o DeltaChunks(o.delta)
BY DEF OverlayChunks, OverlayStore, KeptChunks, DeltaChunks

\* Where an overlay's entry finds its rows: a row of the base's index or one of the delta's.
Lends(w, index, root, f, rows) ==
  \E i \in 1..Len(index.manifest) :
     LET e == index.manifest[i]
     IN e.path = f /\ rows = RowsOf(index.chunks, e) /\ Tells(w, root, f, e.stamp, e.count, rows)
Answers(w, base, shared, d, f, rows) ==
  \/ f \in Paths(shared) /\ Lends(w, base, "base", f, rows)
  \/ d # None /\ Lends(w, d, "lane", f, rows)

\* The delta's entries, behind the kept rows.
Behind(d, k) == [i \in DOMAIN ManifestOf(d) |-> [d.manifest[i] EXCEPT !.start = @ + k]]

\* The delta's entries, moved behind the kept rows.
LEMMA BehindDoes ==
  ASSUME NEW w, NEW d, SoundOrNone(w, "lane", d), NEW k \in Nat
  PROVE  /\ Behind(d, k) \in Seq(Entry(Stamps))
         /\ \A e \in Range(Behind(d, k)) : d # None /\ \E i \in 1..Len(d.manifest) :
              e.path = d.manifest[i].path /\ e.start = d.manifest[i].start + k /\ e.count = d.manifest[i].count
         /\ \A f \in Paths(ManifestOf(d)) : \E e \in Range(Behind(d, k)) : e.path = f
<1> DEFINE m == ManifestOf(d)  n == Len(m)  b == Behind(d, k)
<1>1. m \in Seq(Entry(Stamps)) /\ n \in Nat /\ DOMAIN m = 1..n /\ \A i \in 1..n : m[i] \in Entry(Stamps)
  BY ManifestType, ElementOfSeq
<1>2. n > 0 => d # None /\ m = d.manifest
  <2>1. CASE d = None
    <3>1. m = <<>> /\ Len(<<>>) = 0
      BY <2>1 DEF ManifestOf
    <3> QED BY <3>1
  <2>2. CASE d # None
    BY <2>2 DEF ManifestOf
  <2> QED BY <2>1, <2>2
<1>3. b = [i \in 1..n |-> [d.manifest[i] EXCEPT !.start = @ + k]]
  BY <1>1 DEF Behind
<1> HIDE DEF b, n, m
<1>4. ASSUME NEW i \in 1..n
      PROVE  /\ d # None /\ m = d.manifest /\ b[i] \in Entry(Stamps) /\ b[i].path = m[i].path
             /\ b[i].start = m[i].start + k /\ b[i].count = m[i].count
  <2>1. d # None /\ m = d.manifest
    BY <1>1, <1>2
  <2> DEFINE e == m[i]
  <2>2. e \in Entry(Stamps) /\ b[i] = [e EXCEPT !.start = @ + k]
    BY <1>1, <1>3, <2>1
  <2> HIDE DEF e
  <2>3. /\ [e EXCEPT !.start = @ + k] \in Entry(Stamps) /\ [e EXCEPT !.start = @ + k].path = e.path
        /\ [e EXCEPT !.start = @ + k].start = e.start + k /\ [e EXCEPT !.start = @ + k].count = e.count
    BY <2>2 DEF Entry
  <2> QED BY <2>1, <2>2, <2>3 DEF e
<1>5. b \in Seq(Entry(Stamps)) /\ Len(b) = n /\ DOMAIN b = 1..n
  <2>1. b \in [1..n -> Entry(Stamps)]
    BY <1>3, <1>4
  <2> QED BY <2>1, <1>1
<1>6. ASSUME NEW e \in Range(b)
      PROVE  d # None /\ \E i \in 1..Len(d.manifest) :
               e.path = d.manifest[i].path /\ e.start = d.manifest[i].start + k /\ e.count = d.manifest[i].count
  <2>1. PICK i \in 1..n : e = b[i]
    BY <1>5 DEF Range
  <2>2. d # None /\ m = d.manifest /\ i \in 1..Len(m)
    BY <1>4 DEF n
  <2> QED BY <2>1, <2>2, <1>4
<1>7. ASSUME NEW f \in Paths(m) PROVE \E e \in Range(b) : e.path = f
  <2>1. PICK i \in 1..Len(m) : m[i].path = f
    BY <1>1, PathsAre
  <2>2. i \in 1..n
    BY DEF n
  <2>3. b[i] \in Range(b) /\ b[i].path = f
    BY <2>1, <2>2, <1>4, <1>5 DEF Range
  <2> QED BY <2>3
<1> QED BY <1>5, <1>6, <1>7 DEF b, m

\* The entries of the base's kept files and of the delta find their rows.
OverlayIs(w, base, shared, d, o) ==
  /\ o.base = base /\ o.delta = d /\ OverlaySound(w, o)
  /\ \A e \in Range(o.manifest) : Answers(w, base, shared, d, e.path, RowsOf(OverlayChunks(o), e))
  /\ \A f : f \in Paths(o.manifest) <=> (f \in Paths(shared) /\ f \in Paths(base.manifest)) \/ f \in Paths(ManifestOf(d))

\* build_overlay: an overlay answers exactly the shared files with the base's rows and the others with
\* the delta's.
LEMMA BuildOverlayDoes ==
  ASSUME NEW w, NEW base, Sound(w, "base", base), NEW shared \in Seq([path : Files, stamp : Stamps]), NEW d, SoundOrNone(w, "lane", d),
         NEW o, o = BuildOverlay(base, shared, d)
  PROVE  OverlayIs(w, base, shared, d, o)
<1> DEFINE P == Paths(shared)  kc == KeepCounts(base, P)  keep == FlattenSeq(KeepSeqs(base, P))  k == Len(keep)
           listed == SharedManifest(base, shared)  behind == Behind(d, k)  m == base.manifest
<1>1. Keep(base, shared) = keep
  BY DEF Keep, KeepSeqs
<1>2. o = [base |-> base, keep |-> keep, delta |-> d, manifest |-> listed \o behind]
  BY <1>1 DEF BuildOverlay, Behind
<1>3. kc \in Seq(Nat)
  BY KeepType DEF KeepIs
<1>4. PICK sum : Sums(sum, kc)
  BY <1>3, SumsExist
<1> DEFINE kept == KeptChunks(base, keep)
<1>5. /\ keep \in Seq(Nat) /\ \A r \in 1..k : keep[r] + 1 \in 1..Len(base.chunks)
      /\ kept \in Seq(Chunk) /\ Len(kept) = k
      /\ \A i \in 1..Len(m) : m[i].path \in P =>
           /\ sum[i - 1] \in Nat /\ sum[i - 1] + m[i].count <= k
           /\ \A q \in 1..m[i].count : kept[sum[i - 1] + q] = base.chunks[m[i].start + q]
  <2>1. KeepGives(base, P, keep, sum)
    <3> HIDE DEF P
    <3> QED BY <1>4, KeepDoes
  <2> HIDE DEF keep, P
  <2> QED BY <2>1 DEF KeepGives
<1>6. /\ listed \in Seq(Entry(Stamps))
      /\ \A e \in Range(listed) : \E i \in 1..Len(m) :
           m[i].path \in P /\ e.path = m[i].path /\ e.start = sum[i - 1] /\ e.count = m[i].count
      /\ \A i \in 1..Len(m) : m[i].path \in P => \E e \in Range(listed) : e.path = m[i].path
  <2>1. SharedAt(listed, m, P, sum)
    BY <1>4, SharedListed
  <2> HIDE DEF listed, m, P
  <2> QED BY <2>1 DEF SharedAt
<1>7. k \in Nat
  BY <1>5
<1>8. /\ behind \in Seq(Entry(Stamps))
      /\ \A e \in Range(behind) : d # None /\ \E i \in 1..Len(d.manifest) :
           e.path = d.manifest[i].path /\ e.start = d.manifest[i].start + k /\ e.count = d.manifest[i].count
      /\ \A f \in Paths(ManifestOf(d)) : \E e \in Range(behind) : e.path = f
  BY <1>7, BehindDoes
<1> DEFINE dc == DeltaChunks(d)  all == kept \o dc
<1>9. dc \in Seq(Chunk)
  BY DEF DeltaChunks, SoundOrNone, Sound
<1>10. OverlayChunks(o) = all
  <2>1. o.base = base /\ o.keep = keep /\ o.delta = d
    BY <1>2
  <2> HIDE DEF keep
  <2> QED BY <2>1, OverlayChunksAre
<1> HIDE DEF kept, dc, listed, behind, keep, k, kc
<1>11. /\ all \in Seq(Chunk) /\ Len(all) = k + Len(dc) /\ Len(dc) \in Nat
       /\ \A p \in 1..k : all[p] = kept[p]
       /\ \A p \in 1..Len(dc) : all[k + p] = dc[p]
  <2>1. Joined(all, kept, dc, Chunk)
    BY <1>5, <1>9, JoinedIs
  <2> DEFINE l == Len(dc)
  <2>2. /\ all \in Seq(Chunk) /\ l \in Nat /\ Len(all) = k + l
        /\ \A p \in 1..k + l : all[p] = IF p <= k THEN kept[p] ELSE dc[p - k]
    BY <2>1, <1>5 DEF Joined
  <2> HIDE DEF l, all
  <2>3. \A p \in 1..k : p \in 1..k + l /\ p <= k
    BY <2>2, <1>7
  <2>4. \A p \in 1..l : k + p \in 1..k + l /\ ~(k + p <= k) /\ k + p - k = p
    BY <2>2, <1>7
  <2>5. \A p \in 1..k : all[p] = kept[p]
    BY <2>2, <2>3
  <2>6. ASSUME NEW p \in 1..l PROVE all[k + p] = dc[p]
    <3> DEFINE j == k + p
    <3>0. k \in Nat /\ l \in Nat /\ p \in Nat /\ 1 <= p /\ p <= l
      BY <2>2, <1>7
    <3>1. j \in 1..k + l /\ ~(j <= k) /\ j - k = p
      BY ONLY <3>0
    <3> HIDE DEF j
    <3>2. all[j] = dc[j - k]
      BY <3>1, <2>2
    <3> QED BY <3>1, <3>2 DEF j
  <2> QED BY <2>2, <2>5, <2>6 DEF l
<1> HIDE DEF all
<1>12. ASSUME NEW e \in Range(listed) PROVE e.path \in P /\ Lends(w, base, "base", e.path, RowsOf(all, e))
  <2>1. PICK i \in 1..Len(m) : m[i].path \in P /\ e.path = m[i].path /\ e.start = sum[i - 1] /\ e.count = m[i].count
    BY <1>6
  <2> DEFINE a == sum[i - 1]  b == m[i].start  c == m[i].count
  <2>2. /\ m[i] \in Entry(Stamps) /\ b + c <= Len(base.chunks) /\ base.chunks \in Seq(Chunk)
        /\ Tells(w, "base", m[i].path, m[i].stamp, c, RowsOf(base.chunks, m[i]))
    BY ElementOfSeq DEF Sound
  <2>3. b \in Nat /\ c \in Nat
    BY <2>2 DEF Entry
  <2>4. a \in Nat /\ a + c <= k /\ \A q \in 1..c : kept[a + q] = base.chunks[b + q]
    BY <2>1, <1>5
  <2>5. RowsOf(all, e) = From(all, a, c) /\ RowsOf(base.chunks, m[i]) = From(base.chunks, b, c)
    BY <2>1 DEF RowsOf, From
  <2> HIDE DEF a, b, c
  <2>6. \A q \in 1..c : a + q \in 1..k /\ all[a + q] = base.chunks[b + q]
    BY <2>3, <2>4, <1>7, <1>11
  <2>7. a + c <= Len(all)
    BY <2>3, <2>4, <1>7, <1>11
  <2>10. b + c <= Len(base.chunks) /\ base.chunks \in Seq(Chunk) /\ all \in Seq(Chunk) /\ a \in Nat
         /\ Alike(all, a, base.chunks, b, c)
    BY <2>2, <2>4, <2>6, <1>11 DEF b, c, Alike
  <2>8. From(all, a, c) = From(base.chunks, b, c)
    BY ONLY <2>3, <2>7, <2>10, SameRows
  <2>9. RowsOf(all, e) = RowsOf(base.chunks, m[i])
    BY <2>5, <2>8
  <2> QED BY <2>1, <2>2, <2>9 DEF Lends, c
<1>13. ASSUME NEW e \in Range(behind) PROVE d # None /\ Lends(w, d, "lane", e.path, RowsOf(all, e))
  <2>1. d # None /\ \E i \in 1..Len(d.manifest) :
          e.path = d.manifest[i].path /\ e.start = d.manifest[i].start + k /\ e.count = d.manifest[i].count
    BY <1>8
  <2>2. PICK i \in 1..Len(d.manifest) :
          e.path = d.manifest[i].path /\ e.start = d.manifest[i].start + k /\ e.count = d.manifest[i].count
    BY <2>1
  <2> DEFINE t == d.manifest[i]  b == t.start  c == t.count  a == b + k
  <2>3. /\ Sound(w, "lane", d) /\ dc = d.chunks
    BY <2>1 DEF SoundOrNone, DeltaChunks, dc
  <2>4. /\ t \in Entry(Stamps) /\ b + c <= Len(d.chunks)
        /\ Tells(w, "lane", t.path, t.stamp, c, RowsOf(d.chunks, t))
    BY <2>3, ElementOfSeq DEF Sound
  <2>5. b \in Nat /\ c \in Nat
    BY <2>4 DEF Entry
  <2>6. RowsOf(all, e) = From(all, a, c) /\ RowsOf(dc, t) = From(dc, b, c)
    BY <2>2 DEF RowsOf, From
  <2>7. a = k + b
    BY <2>5, <1>7
  <2>11. b + c <= Len(dc)
    BY <2>3, <2>4
  <2> HIDE DEF a, b, c
  <2>8. \A q \in 1..c : b + q \in 1..Len(dc) /\ a + q = k + (b + q)
    BY <2>5, <2>7, <2>11, <1>7, <1>11
  <2>9. Alike(all, a, dc, b, c)
    BY <2>8, <1>11 DEF Alike
  <2>10. a \in Nat /\ a + c <= Len(all)
    BY <2>5, <2>7, <2>11, <1>7, <1>11
  <2>12. From(all, a, c) = From(dc, b, c)
    <3>1. all \in Seq(Chunk)
      BY <1>11
    <3> QED BY ONLY <3>1, <2>5, <2>9, <2>10, <2>11, <1>9, SameRows
  <2>13. RowsOf(all, e) = RowsOf(d.chunks, t)
    BY <2>3, <2>6, <2>12
  <2> QED BY <2>1, <2>2, <2>4, <2>13 DEF Lends, c
<1>14. o.manifest = listed \o behind /\ o.base = base /\ o.delta = d /\ o.keep = keep
  BY <1>2
<1>15. o.manifest \in Seq(Entry(Stamps)) /\ Range(o.manifest) = Range(listed) \cup Range(behind)
  <2>1. listed \o behind \in Seq(Entry(Stamps))
    BY <1>6, <1>8
  <2>2. Range(listed \o behind) = Range(listed) \cup Range(behind)
    <3> DEFINE E == Entry(Stamps)
    <3>1. listed \in Seq(E) /\ behind \in Seq(E)
      BY <1>6, <1>8
    <3> HIDE DEF E
    <3> QED BY <3>1, RangeConcatenation
  <2> QED BY <2>1, <2>2, <1>14
<1>16. ASSUME NEW e \in Range(o.manifest) PROVE Answers(w, base, shared, d, e.path, RowsOf(OverlayChunks(o), e))
  BY <1>10, <1>12, <1>13, <1>15 DEF Answers
<1>17. ASSUME NEW e \in Range(o.manifest)
       PROVE  \E r \in Roots, text \in Readable : RowsOf(OverlayChunks(o), e) = Chunks(r, e.path, text)
  <2> DEFINE rows == RowsOf(OverlayChunks(o), e)
  <2>1. \E r \in Roots : \E stamp, count : Tells(w, r, e.path, stamp, count, rows)
    BY <1>16 DEF Answers, Lends, Roots
  <2> QED BY <2>1 DEF Tells
<1>18. OverlaySound(w, o)
  BY <1>5, <1>14, <1>15, <1>17 DEF OverlaySound, k
<1>19. ASSUME NEW f PROVE f \in Paths(o.manifest) <=> (f \in P /\ f \in Paths(m)) \/ f \in Paths(ManifestOf(d))
  <2>0. Paths(o.manifest) = {e.path : e \in Range(o.manifest)}
    BY DEF Paths
  <2>1. ASSUME f \in Paths(o.manifest) PROVE (f \in P /\ f \in Paths(m)) \/ f \in Paths(ManifestOf(d))
    <3>1. PICK e \in Range(listed) \cup Range(behind) : e.path = f
      BY <2>0, <2>1, <1>15
    <3>2. CASE e \in Range(listed)
      <4>1. PICK i \in 1..Len(m) : m[i].path \in P /\ e.path = m[i].path
        BY <3>2, <1>6
      <4>2. f \in Paths(m)
        BY <3>1, <4>1, PathsAre DEF Sound
      <4> QED BY <3>1, <4>1, <4>2
    <3>3. CASE e \in Range(behind)
      <4>1. d # None /\ \E i \in 1..Len(d.manifest) : d.manifest[i].path = f
        BY <3>1, <3>3, <1>8
      <4>2. ManifestOf(d) = d.manifest /\ d.manifest \in Seq(Entry(Stamps))
        BY <4>1 DEF ManifestOf, SoundOrNone, Sound
      <4>3. f \in Paths(ManifestOf(d))
        BY <4>1, <4>2, PathsAre
      <4> QED BY <4>3
    <3> QED BY <3>1, <3>2, <3>3
  <2>2. ASSUME f \in P, f \in Paths(m) PROVE f \in Paths(o.manifest)
    <3>1. PICK i \in 1..Len(m) : m[i].path = f
      BY <2>2, PathsAre DEF Sound
    <3>2. \E e \in Range(listed) : e.path = f
      BY <2>2, <3>1, <1>6
    <3> QED BY <2>0, <3>2, <1>15
  <2>3. ASSUME f \in Paths(ManifestOf(d)) PROVE f \in Paths(o.manifest)
    BY <2>0, <2>3, <1>8, <1>15
  <2> QED BY <2>1, <2>2, <2>3
<1> QED BY <1>14, <1>16, <1>18, <1>19 DEF OverlayIs

-----------------------------------------------------------------------------
(* Every index is sound. *)

\* Both trees are in the histories.
LEMMA TreesAre ==
  ASSUME TreeInv, NEW r \in Roots
  PROVE  TreeOf(written, tree[r])
<1> SUFFICES ASSUME NEW f \in Files PROVE Known(written, f, tree[r][f].stamp) /\ TextIn(written, f, tree[r][f].stamp) = tree[r][f].text
  BY DEF TreeOf
<1> DEFINE s == tree[r][f].stamp  h == written[r][f]  n == Len(h)
<1>1. h \in Seq(Texts) /\ n >= 1 /\ s = <<r, n>> /\ tree[r][f].text = h[n] /\ s \in Stamps
  BY DEF TreeInv, Histories
<1>2. n \in Nat
  BY <1>1
<1>3. s[1] = r /\ s[2] = n
  BY <1>1
<1> HIDE DEF s
<1>4. TextIn(written, f, s) = h[n] /\ Len(written[s[1]][f]) = n
  BY <1>3 DEF TextIn
<1> HIDE DEF n
<1>5. Known(written, f, s)
  BY <1>1, <1>2, <1>3, <1>4 DEF Known
<1> QED BY <1>1, <1>4, <1>5 DEF s

\* What a plan of right files writes is right.
LEMMA BuiltSound ==
  ASSUME NEW w, NEW root, NEW r, NEW previous, SoundOrNone(w, r, previous),
         NEW planned \in Seq(Good(w, root, previous)), Unique(planned)
  PROVE  SoundOrNone(w, root, WritePlanned(planned, previous))
BY GoodPlanIsSound DEF SoundOrNone

\* Initially.
LEMMA StoresInit == Init => StoresInv
<1> SUFFICES ASSUME Init PROVE StoresInv
  OBVIOUS
<1>1. TreeInv
  BY TreeInit
<1>2. TreeOf(written, tree["base"]) /\ "base" \in Roots
  BY <1>1, TreesAre DEF Roots
<1> DEFINE planned == PlanFiles("base", tree["base"], {}, <<>>)  G == Good(written, "base", None)
<1>3. planned \in Seq(G) /\ Unique(planned)
  <2>1. SoundOrNone(written, "base", None) /\ ManifestOf(None) = <<>>
    BY SoundNone
  <2>2. \E S, kept : PlansSet(planned, S, tree["base"], kept, G)
    BY <2>1, <1>2, PlanFilesDoes
  <2> QED BY <2>2 DEF PlansSet
<1>4. store = WritePlanned(planned, None) /\ store # None
  BY LaneAssumption DEF Init, FirstIndex
<1>5. Sound(written, "base", store)
  BY <1>3, <1>4, SoundNone, BuiltSound DEF SoundOrNone
<1>6. delta = None /\ overlay = None /\ plan.at = "idle"
  BY DEF Init, Idle
<1> QED BY <1>4, <1>5, <1>6 DEF StoresInv, SoundOrNone

\* A sound overlay stays so while files move.
LEMMA OverlayGrows ==
  ASSUME NEW w, NEW v, Histories(w), Histories(v), Grown(w, v), NEW o, OverlaySound(w, o)
  PROVE  OverlaySound(v, o)
BY SoundGrows DEF OverlaySound, SoundOrNone

\* A step that writes no index.
LEMMA StoresSame ==
  ASSUME StoresInv, Histories(written), Histories(written'), Grown(written, written'), store' = store, delta' = delta, overlay' \in {overlay, None},
         plan'.at # "idle" => plan.at # "idle" /\ plan'.base = plan.base /\ plan'.previous = plan.previous
  PROVE  StoresInv'
<1>1. store' # None /\ Sound(written', "base", store') /\ SoundOrNone(written', "lane", delta')
  BY SoundGrows DEF StoresInv, SoundOrNone
<1>2. overlay' # None => OverlaySound(written', overlay')
  BY OverlayGrows DEF StoresInv
<1>3. plan'.at # "idle" => Sound(written', "base", plan'.base) /\ SoundOrNone(written', "lane", plan'.previous)
  BY SoundGrows DEF StoresInv, SoundOrNone
<1> QED BY <1>1, <1>2, <1>3 DEF StoresInv

\* What a rebuild ends with.
LEMMA RebuiltSound ==
  ASSUME TreeInv, ValueInv, StoresInv
  PROVE  SoundOrNone(written, "base", ChangedIndex) /\ SoundOrNone(written, "base", AllIndex)
<1>1. Sound(written, "base", store) /\ store # None /\ SoundOrNone(written, "base", store) /\ ManifestOf(store) = store.manifest
  BY DEF StoresInv, SoundOrNone, ManifestOf
<1>2. TreeOf(written, tree["base"]) /\ "base" \in Roots
  BY TreesAre DEF Roots
<1>3. queue.paths \in SUBSET Files
  BY DEF ValueInv
<1> DEFINE G == Good(written, "base", store)
           named == PlanChangedFiles("base", tree["base"], ignored, queue.paths, store.manifest)
           walked == PlanFiles("base", tree["base"], ignored, store.manifest)
<1>4. named \in Seq(G) /\ Unique(named)
  <2>1. \E S : PlansChanged(named, S, tree["base"], store, G)
    BY <1>1, <1>2, <1>3, PlanChangedDoes
  <2> QED BY <2>1 DEF PlansChanged
<1>5. walked \in Seq(G) /\ Unique(walked)
  <2>1. \E S, kept : PlansSet(walked, S, tree["base"], kept, G)
    BY <1>1, <1>2, PlanFilesDoes
  <2> QED BY <2>1 DEF PlansSet
<1>6. SoundOrNone(written, "base", WritePlanned(named, store)) /\ SoundOrNone(written, "base", WritePlanned(walked, store))
  BY <1>1, <1>4, <1>5, BuiltSound
<1> QED BY <1>1, <1>6 DEF ChangedIndex, AllIndex

\* A rebuild of the base, however it ends.
LEMMA StoresRebuilt ==
  ASSUME TreeInv, ValueInv, StoresInv, RebuildKeeps, NEW index, SoundOrNone(written, "base", index), NEW files, NEW walked,
         Refused(files) \/ Retried \/ (Answered(files, walked) /\ store' = index)
  PROVE  StoresInv'
<1>1. written' = written /\ overlay' = overlay /\ delta' = delta /\ plan' = plan
  BY DEF RebuildKeeps
<1>2. store' # None /\ Sound(written, "base", store')
  BY DEF Refused, Retried, Answered, StoresInv, SoundOrNone
<1> QED BY <1>1, <1>2 DEF StoresInv

\* The delta and the overlay a plan ends with.
LEMMA FinishDoes ==
  ASSUME TreeInv, ValueInv, StoresInv, PlanInv, Finish
  PROVE  SoundOrNone(written, "lane", delta') /\ OverlayIs(written, plan.base, plan.shared, delta', overlay')
<1>1. plan.at = "walk" /\ plan.at # "idle"
  BY DEF Finish
<1>2. Sound(written, "base", plan.base) /\ SoundOrNone(written, "lane", plan.previous)
  BY <1>1 DEF StoresInv
<1>3. plan.shared \in Seq([path : Files, stamp : Stamps]) /\ plan.differing \in SUBSET Files
  BY <1>1 DEF PlanInv, Walking, Verdicts
<1>4. TreeOf(written, tree["lane"])
  BY TreesAre DEF Roots
<1> DEFINE planned == PlanDelta(plan.differing, plan.previous)  G == Good(written, "lane", plan.previous)
<1>5. PlansSet(planned, plan.differing, tree["lane"], Kept(ManifestOf(plan.previous), tree["lane"]), G)
  BY <1>2, <1>3, <1>4, PlanDeltaDoes
<1>6. planned \in Seq(G) /\ Unique(planned)
  BY <1>5 DEF PlansSet
<1>7. SoundOrNone(written, "lane", delta')
  BY <1>2, <1>6, BuiltSound DEF Finish
<1>8. overlay' = BuildOverlay(plan.base, plan.shared, delta')
  BY DEF Finish
<1> QED BY <1>2, <1>3, <1>7, <1>8, BuildOverlayDoes

\* Every step keeps the stores sound.
LEMMA StoresStep ==
  ASSUME TreeInv, ValueInv, StoresInv, PlanInv, [Next]_vars
  PROVE  StoresInv'
<1>1. TreeInv' /\ Grown(written, written') /\ Histories(written) /\ Histories(written')
  BY FilesStep DEF TreeInv
<1>2. CASE /\ store' = store /\ delta' = delta /\ overlay' \in {overlay, None}
           /\ plan'.at # "idle" => plan.at # "idle" /\ plan'.base = plan.base /\ plan'.previous = plan.previous
  BY <1>1, <1>2, StoresSame
<1>p. plan = [at |-> plan.at, base |-> plan.base, previous |-> plan.previous, git |-> plan.git, head |-> plan.head,
              moved |-> plan.moved, left |-> plan.left, stamp |-> plan.stamp, shared |-> plan.shared,
              differing |-> plan.differing, committed |-> plan.committed]
  BY DEF ValueInv
<1>3. CASE \E r \in Roots, f \in Files : Edit(r, f)
  BY <1>2, <1>3 DEF Edit
<1>4. CASE Commit
  <2>1. plan'.at = plan.at /\ plan'.base = plan.base /\ plan'.previous = plan.previous
    BY <1>4, <1>p DEF Commit
  <2> QED BY <1>2, <1>4, <2>1 DEF Commit
<1>5. CASE \E f \in Ignorable : Ignore(f)
  BY <1>2, <1>5 DEF Ignore
<1>6. CASE RebuildChanged
  BY <1>6, RebuildChangedDoes, RebuiltSound, StoresRebuilt
<1>7. CASE RebuildAll
  BY <1>7, RebuildAllDoes, RebuiltSound, StoresRebuilt
<1>8. CASE Begin
  <2>1. store' = store /\ overlay' = overlay /\ delta' = delta /\ written' = written
    BY <1>8 DEF Begin
  <2>2. plan'.base = store /\ plan'.previous = IF overlay = None THEN delta ELSE overlay.delta
    BY <1>8 DEF Begin, Idle
  <2> QED BY <2>1, <2>2 DEF StoresInv, OverlaySound
<1>9. CASE ReadHead
  <2>1. plan'.base = plan.base /\ plan'.previous = plan.previous
    BY <1>9, <1>p DEF ReadHead
  <2> QED BY <1>2, <1>9, <2>1 DEF ReadHead
<1>10. CASE DiffLane
  <2>1. plan'.base = plan.base /\ plan'.previous = plan.previous
    BY <1>10, <1>p DEF DiffLane
  <2> QED BY <1>2, <1>10, <2>1 DEF DiffLane
<1>11. CASE DiffBase
  <2>1. plan'.base = plan.base /\ plan'.previous = plan.previous
    BY <1>11, <1>p DEF DiffBase
  <2> QED BY <1>2, <1>11, <2>1 DEF DiffBase
<1>12. CASE WalkFile
  <2>1. \A same, stamp : Judge(same, stamp).base = plan.base /\ Judge(same, stamp).previous = plan.previous
    BY JudgeKeeps
  <2>2. plan'.base = plan.base /\ plan'.previous = plan.previous
    BY <1>12, <1>p, <2>1, WalkDoes
  <2> QED BY <1>2, <1>12, <2>2 DEF WalkFile
<1>16. CASE CompareFile
  <2>1. \A same, stamp : Judge(same, stamp).base = plan.base /\ Judge(same, stamp).previous = plan.previous
    BY JudgeKeeps
  <2>2. plan'.base = plan.base /\ plan'.previous = plan.previous
    BY <1>16, <2>1, CompareDoes
  <2> QED BY <1>2, <1>16, <2>2 DEF CompareFile
<1>13. CASE Finish
  <2>1. written' = written /\ store' = store /\ plan'.at = "idle"
    BY <1>13 DEF Finish, Idle
  <2>2. SoundOrNone(written, "lane", delta') /\ OverlayIs(written, plan.base, plan.shared, delta', overlay')
    BY <1>13, FinishDoes
  <2> QED BY <2>1, <2>2 DEF StoresInv, OverlayIs
<1>14. CASE Evict
  BY <1>2, <1>14 DEF Evict
<1>15. CASE UNCHANGED vars
  BY <1>2, <1>15 DEF vars
<1> QED BY <1>3, <1>4, <1>5, <1>6, <1>7, <1>8, <1>9, <1>10, <1>11, <1>12, <1>13, <1>14, <1>15, <1>16 DEF Next

-----------------------------------------------------------------------------
(* What the queue still owes the index. *)

\* An index follows a tree for a file: it lists the file as it is, or not at all.
Lists(m, f, tr, reach) ==
  IF f \in reach /\ tr[f].text \in Readable THEN Current(EntryOf(m, f), tr[f]) ELSE f \notin Paths(m)

\* An entry of what is written, by its path.
LEMMA WrittenLists ==
  ASSUME NEW m \in Seq(Entry(Stamps)), Unique(m), NEW planned \in Seq(Piece(Stamps, Chunk)), AsPlanned(m, planned), NEW f, NEW s, Part(planned, f, s)
  PROVE  /\ s = <<>> => f \notin Paths(m)
         /\ \A stamp, reused, G, file : One(s, f, stamp, reused, G) /\ file.stamp = stamp => f \in Paths(m) /\ Current(EntryOf(m, f), file)
<1>1. Len(m) = Len(planned) /\ \A i \in 1..Len(planned) : m[i].path = planned[i].path /\ m[i].stamp = planned[i].stamp
  BY DEF AsPlanned
<1>2. ASSUME s = <<>> PROVE f \notin Paths(m)
  <2>1. SUFFICES ASSUME NEW i \in 1..Len(m), m[i].path = f PROVE FALSE
    BY PathsAre
  <2>2. planned[i] \in Range(planned) /\ planned[i].path = f
    BY <1>1, <2>1 DEF Range
  <2>3. Range(s) = {}
    BY <1>2, OneOrNone
  <2> QED BY <2>2, <2>3 DEF Part
<1>3. ASSUME NEW stamp, NEW reused, NEW G, NEW file, One(s, f, stamp, reused, G), file.stamp = stamp
      PROVE  f \in Paths(m) /\ Current(EntryOf(m, f), file)
  <2>1. Range(s) = {s[1]} /\ s[1].path = f /\ s[1].stamp = stamp
    BY <1>3, OneElement DEF One
  <2>2. s[1] \in Range(planned)
    BY <2>1 DEF Part
  <2>3. PICK i \in 1..Len(planned) : planned[i] = s[1]
    BY <2>2 DEF Range
  <2>4. i \in 1..Len(m) /\ m[i].path = f /\ m[i].stamp = file.stamp
    BY <1>1, <1>3, <2>1, <2>3
  <2>5. f \in Paths(m)
    BY <2>4, PathsAre
  <2> QED BY <2>4, <2>5, EntryCurrent
<1> QED BY <1>2, <1>3

\* The entry of a file that is in a plan, or its absence.
LEMMA WrittenFileLists ==
  ASSUME NEW m \in Seq(Entry(Stamps)), Unique(m), NEW planned \in Seq(Piece(Stamps, Chunk)), AsPlanned(m, planned),
         NEW f, NEW s, Part(planned, f, s), NEW tr, NEW reused, NEW G, FileOf(s, f, tr[f], reused, G)
  PROVE  IF tr[f].text \in Readable THEN Current(EntryOf(m, f), tr[f]) ELSE f \notin Paths(m)
<1>1. CASE tr[f].text \in Readable
  <2>1. One(s, f, tr[f].stamp, reused, G)
    BY <1>1 DEF FileOf
  <2>2. Current(EntryOf(m, f), tr[f])
    BY <2>1, WrittenLists
  <2> QED BY <1>1, <2>2
<1>2. CASE tr[f].text \notin Readable
  <2>1. s = <<>>
    BY <1>2 DEF FileOf
  <2> QED BY <1>2, <2>1, WrittenLists
<1> QED BY <1>1, <1>2

\* The index of a walk lists what the walk reached.
LEMMA WalkedLists ==
  ASSUME NEW w, NEW root, NEW r, NEW previous, SoundOrNone(w, r, previous), NEW S, NEW tr, NEW kept, NEW planned,
         PlansSet(planned, S, tr, kept, Good(w, root, previous)), WritePlanned(planned, previous) # None
  PROVE  \A f : Lists(WritePlanned(planned, previous).manifest, f, tr, S)
<1> DEFINE G == Good(w, root, previous)  m == WritePlanned(planned, previous).manifest
<1>1. /\ planned \in Seq(G) /\ Unique(planned)
      /\ \A p \in Range(planned) : p.path \in S
      /\ \A f \in S : \E s : Part(planned, f, s) /\ FileOf(s, f, tr[f], f \in kept, G)
  BY DEF PlansSet
<1>2. planned \in Seq(Piece(Stamps, Chunk)) /\ Sound(w, root, WritePlanned(planned, previous)) /\ AsPlanned(m, planned)
  BY <1>1, GoodPlanIsSound
<1>3. m \in Seq(Entry(Stamps)) /\ Unique(m)
  BY <1>2 DEF Sound
<1> HIDE DEF m, G
<1>4. ASSUME NEW f PROVE Lists(m, f, tr, S)
  <2>1. CASE f \in S
    <3>1. PICK s : Part(planned, f, s) /\ FileOf(s, f, tr[f], f \in kept, G)
      BY <2>1, <1>1
    <3> DEFINE c == f \in kept
    <3>2. FileOf(s, f, tr[f], c, G) /\ Part(planned, f, s)
      BY <3>1
    <3> HIDE DEF c
    <3>3. IF tr[f].text \in Readable THEN Current(EntryOf(m, f), tr[f]) ELSE f \notin Paths(m)
      BY <3>2, <1>2, <1>3, WrittenFileLists
    <3> QED BY <2>1, <3>3 DEF Lists
  <2>2. CASE f \notin S
    <3>1. \A p : ~(p \in Range(planned) /\ p.path = f)
      BY <2>2, <1>1
    <3>2. Part(planned, f, <<>>)
      BY <3>1, OneOrNone DEF Part
    <3>3. f \notin Paths(m)
      BY <3>2, <1>2, <1>3, WrittenLists
    <3> QED BY <2>2, <3>3 DEF Lists
  <2> QED BY <2>1, <2>2
<1> QED BY <1>4 DEF m

-----------------------------------------------------------------------------
(* Counting. *)

\* A set that is numbered without gaps has as many members as numbers.
LEMMA Counted ==
  ASSUME NEW n \in Nat, NEW T, NEW f \in [1..n -> T], \A i, j \in 1..n : f[i] = f[j] => i = j, \A t \in T : \E i \in 1..n : f[i] = t
  PROVE  IsFiniteSet(T) /\ Cardinality(T) = n
<1>1. IsFiniteSet(1..n) /\ Cardinality(1..n) = n
  BY FS_Interval
<1>2. f \in Surjection(1..n, T) /\ f \in Injection(1..n, T)
  BY DEF Surjection, Injection, IsInjective
<1> QED BY <1>1, <1>2, FS_Surjection

\* As many names as entries name them all.
LEMMA SameLength ==
  ASSUME NEW names \in Seq(Files), IsInjective(names), NEW E, NEW m \in Seq(E), Unique(m)
  PROVE  /\ Range(names) = Paths(m) => Len(names) = Len(m)
         /\ Range(names) \subseteq Paths(m) /\ Len(names) = Len(m) => Range(names) = Paths(m)
<1> DEFINE k == Len(names)  n == Len(m)  N == Range(names)  P == Paths(m)  path == [i \in 1..n |-> m[i].path]
<1>1. k \in Nat /\ names \in [1..k -> N] /\ (\A i, j \in 1..k : names[i] = names[j] => i = j) /\ \A t \in N : \E i \in 1..k : names[i] = t
  BY DEF Range, IsInjective
<1>2. n \in Nat /\ path \in [1..n -> P] /\ (\A i, j \in 1..n : path[i] = path[j] => i = j) /\ \A t \in P : \E i \in 1..n : path[i] = t
  <2>1. n \in Nat /\ \A t : t \in P <=> \E i \in 1..n : m[i].path = t
    BY PathsAre
  <2> QED BY <2>1 DEF Unique
<1> HIDE DEF k, n, N, P, path
<1>3. IsFiniteSet(N) /\ Cardinality(N) = k
  BY <1>1, Counted
<1>4. IsFiniteSet(P) /\ Cardinality(P) = n
  BY <1>2, Counted
<1>5. N = P => k = n
  BY <1>3, <1>4
<1>6. N \subseteq P /\ k = n => N = P
  BY <1>3, <1>4, FS_Subset
<1> QED BY <1>5, <1>6 DEF k, n, N, P

\* A tree none of whose files moved.
LEMMA UnmovedLists ==
  ASSUME NEW w, NEW root \in Roots, NEW tr, TreeOf(w, tr), NEW out, NEW index, index # None, Sound(w, root, index),
         ~TreeMovesAnything(tr, out, index.manifest)
  PROVE  \A f : Lists(index.manifest, f, tr, Walked(tr, out))
<1> DEFINE m == index.manifest  names == Walk(tr, out)
<1>1. m \in Seq(Entry(Stamps)) /\ Unique(m) /\ SoundOrNone(w, root, index) /\ ManifestOf(index) = m
  BY DEF Sound, SoundOrNone, ManifestOf
<1>2. names \in Seq(Files) /\ IsInjective(names) /\ Range(names) = Walked(tr, out)
  BY <1>1, PlanFilesDoes DEF Namings
<1>3. (\A f \in Range(names) : Current(EntryOf(m, f), tr[f])) /\ Len(names) = Len(m)
  BY DEF TreeMovesAnything
<1>4. \A f : f \notin Paths(m) => ~Current(EntryOf(m, f), tr[f])
  BY <1>1, EntryCurrent DEF Current
<1>5. Range(names) \subseteq Paths(m)
  BY <1>3, <1>4
<1>6. Range(names) = Paths(m)
  BY <1>1, <1>2, <1>3, <1>5, SameLength
<1>7. ASSUME NEW f, f \in Paths(m) PROVE tr[f].text \in Readable /\ Current(EntryOf(m, f), tr[f])
  <2>1. f \in Files /\ Current(EntryOf(m, f), tr[f])
    <3>1. f \in Range(names)
      BY <1>6, <1>7
    <3> QED BY <3>1, <1>2, <1>3 DEF Range
  <2>2. \E e : Tells(w, root, f, tr[f].stamp, e.count, RowsOf(index.chunks, e))
    BY <2>1, <1>1, CurrentTells
  <2>3. TextIn(w, f, tr[f].stamp) \in Readable
    BY <2>2 DEF Tells
  <2> QED BY <2>1, <2>3 DEF TreeOf
<1> QED BY <1>2, <1>6, <1>7 DEF Lists

-----------------------------------------------------------------------------
(* Change sets. *)

\* What an index lists after a change set: the named files as they are, the rest as it did.
ListsOn(m, old, f, tr, touched) ==
  IF f \in touched THEN IF tr[f].text \in Readable THEN Current(EntryOf(m, f), tr[f]) ELSE f \notin Paths(m)
  ELSE /\ f \in Paths(m) <=> f \in Paths(old)
       /\ \A file : Current(EntryOf(m, f), file) <=> Current(EntryOf(old, f), file)

\* A change set that moves nothing: the index is as a rebuild from it would leave it.
LEMMA UnmovedChangedLists ==
  ASSUME NEW w, NEW root \in Roots, NEW tr, TreeOf(w, tr), NEW out, NEW changed \in SUBSET Files, NEW index, index # None, Sound(w, root, index),
         ~ChangeSetMovesAnything(tr, out, changed, index.manifest)
  PROVE  \A f \in Files : ListsOn(index.manifest, index.manifest, f, tr, ChangedIndexedPaths(changed, out))
<1> DEFINE m == index.manifest  touched == ChangedIndexedPaths(changed, out)
<1> SUFFICES ASSUME NEW f \in Files PROVE ListsOn(m, m, f, tr, touched)
  OBVIOUS
<1>1. m \in Seq(Entry(Stamps)) /\ Unique(m) /\ SoundOrNone(w, root, index) /\ ManifestOf(index) = m
  BY DEF Sound, SoundOrNone, ManifestOf
<1>2. CASE f \notin touched
  BY <1>2 DEF ListsOn
<1>3. CASE f \in touched
  <2>1. IF Valid(tr[f]) THEN Current(EntryOf(m, f), tr[f]) ELSE f \notin Paths(m)
    BY <1>3 DEF ChangeSetMovesAnything
  <2>2. CASE Valid(tr[f])
    <3>1. Current(EntryOf(m, f), tr[f])
      BY <2>1, <2>2
    <3>2. \E e : Tells(w, root, f, tr[f].stamp, e.count, RowsOf(index.chunks, e))
      BY <3>1, <1>1, CurrentTells
    <3>3. tr[f].text \in Readable
      BY <3>2 DEF Tells, TreeOf
    <3> QED BY <3>1, <3>3, <1>3 DEF ListsOn
  <2>3. CASE ~Valid(tr[f])
    <3>1. f \notin Paths(m)
      BY <2>1, <2>3
    <3>2. tr[f].text \notin Readable
      BY <2>3, WriteAssumption DEF Valid
    <3> QED BY <3>1, <3>2, <1>3 DEF ListsOn
  <2> QED BY <2>2, <2>3
<1> QED BY <1>2, <1>3

\* A rebuild from a change set: the named files as they are now, the others as they were.
LEMMA ChangedLists ==
  ASSUME NEW w, NEW root, NEW tr, NEW touched, NEW previous, previous # None, Sound(w, root, previous), NEW planned,
         PlansChanged(planned, touched, tr, previous, Good(w, root, previous)), WritePlanned(planned, previous) # None
  PROVE  \A f : ListsOn(WritePlanned(planned, previous).manifest, previous.manifest, f, tr, touched)
<1> DEFINE G == Good(w, root, previous)  m == WritePlanned(planned, previous).manifest  old == previous.manifest
<1> SUFFICES ASSUME NEW f PROVE ListsOn(m, old, f, tr, touched)
  OBVIOUS
<1>1. /\ planned \in Seq(G) /\ Unique(planned)
      /\ \A g \in touched : \E s : Part(planned, g, s) /\ FileOf(s, g, tr[g], g \in Kept(ManifestOf(previous), tr), G)
      /\ \A i \in 1..Len(old) : old[i].path \notin touched =>
           \E s : Part(planned, old[i].path, s) /\ One(s, old[i].path, old[i].stamp, TRUE, G)
      /\ \A g : g \notin touched /\ g \notin Paths(old) => Part(planned, g, <<>>)
  BY DEF PlansChanged
<1>2. planned \in Seq(Piece(Stamps, Chunk)) /\ Sound(w, root, WritePlanned(planned, previous)) /\ AsPlanned(m, planned)
  BY <1>1, GoodPlanIsSound DEF SoundOrNone
<1>3. m \in Seq(Entry(Stamps)) /\ Unique(m) /\ old \in Seq(Entry(Stamps)) /\ Unique(old)
  BY <1>2 DEF Sound
<1> HIDE DEF m, G, old
<1>4. CASE f \in touched
  <2>1. PICK s : Part(planned, f, s) /\ FileOf(s, f, tr[f], f \in Kept(ManifestOf(previous), tr), G)
    BY <1>1, <1>4
  <2> DEFINE c == f \in Kept(ManifestOf(previous), tr)
  <2>2. FileOf(s, f, tr[f], c, G) /\ Part(planned, f, s)
    BY <2>1
  <2> HIDE DEF c
  <2>3. IF tr[f].text \in Readable THEN Current(EntryOf(m, f), tr[f]) ELSE f \notin Paths(m)
    BY <2>2, <1>2, <1>3, WrittenFileLists
  <2> QED BY <2>3, <1>4 DEF ListsOn
<1>5. CASE f \notin touched /\ f \notin Paths(old)
  <2>1. Part(planned, f, <<>>)
    BY <1>1, <1>5
  <2>2. f \notin Paths(m)
    BY <2>1, <1>2, <1>3, WrittenLists
  <2>3. EntryOf(m, f) = None /\ EntryOf(old, f) = None
    BY <2>2, <1>3, <1>5, NoEntry
  <2> QED BY <2>2, <2>3, <1>5 DEF ListsOn
<1>6. CASE f \notin touched /\ f \in Paths(old)
  <2>1. PICK i \in 1..Len(old) : old[i].path = f
    BY <1>3, <1>6, PathsAre
  <2> DEFINE stamp == old[i].stamp
  <2>2. \E s : Part(planned, f, s) /\ One(s, f, stamp, TRUE, G)
    BY <2>1, <1>1, <1>6
  <2>3. PICK s : Part(planned, f, s) /\ One(s, f, stamp, TRUE, G)
    BY <2>2
  <2>4. EntryOf(old, f) = old[i] /\ EntryOf(old, f) # None
    <3>1. EntryOf(old, f) = old[i]
      BY <2>1, <1>3, EntryIs
    <3>2. EntryOf(old, f) # None
      BY <1>3, <1>6, EntryCurrent
    <3> QED BY <3>1, <3>2
  <2> HIDE DEF stamp
  <2>5. ASSUME NEW file, file.stamp = stamp PROVE Current(EntryOf(m, f), file) /\ f \in Paths(m)
    BY <2>3, <2>5, <1>2, <1>3, WrittenLists
  <2> DEFINE mine == [stamp |-> stamp]
  <2>6. mine.stamp = stamp
    OBVIOUS
  <2> HIDE DEF mine
  <2>7. EntryOf(m, f) # None /\ EntryOf(m, f).stamp = stamp /\ f \in Paths(m)
    BY <2>5, <2>6 DEF Current
  <2>8. \A file : Current(EntryOf(m, f), file) <=> Current(EntryOf(old, f), file)
    BY <2>4, <2>7 DEF Current, stamp
  <2> QED BY <2>7, <2>8, <1>6 DEF ListsOn
<1> QED BY <1>4, <1>5, <1>6

-----------------------------------------------------------------------------
(* The queue's invariant. *)

\* Initially.
LEMMA QueueInit == Init => QueueInv
<1> SUFFICES ASSUME Init PROVE QueueInv
  OBVIOUS
<1>1. TreeInv /\ ValueInv
  BY TreeInit
<1>2. TreeOf(written, tree["base"]) /\ "base" \in Roots
  BY <1>1, TreesAre DEF Roots
<1> DEFINE planned == PlanFiles("base", tree["base"], {}, <<>>)
<1>3. store = WritePlanned(planned, None) /\ store # None
  BY LaneAssumption DEF Init, FirstIndex
<1>4. \E kept : PlansSet(planned, Walked(tree["base"], {}), tree["base"], kept, Good(written, "base", None))
  BY <1>2, SoundNone, PlanFilesDoes
<1>5. \A f : Lists(store.manifest, f, tree["base"], Walked(tree["base"], {}))
  BY <1>3, <1>4, SoundNone, WalkedLists
<1>6. ignored = {} /\ queue = NoChange
  BY DEF Init
<1>7. \A f \in Files \ Linked : Follows(f)
  <2> TAKE f \in Files \ Linked
  <2>1. tree["base"][f].text \in Readable => f \in Walked(tree["base"], {})
    BY WriteAssumption DEF Walked, Valid
  <2> QED BY <2>1, <1>5, <1>6 DEF Follows, Lists
<1> QED BY <1>6, <1>7 DEF QueueInv, NoChange

\* A file that stays as it is, in an index that stays.
LEMMA FollowsOn ==
  ASSUME NEW f, Follows(f), store' = store, ignored' = ignored, tree'["base"][f] = tree["base"][f]
  PROVE  Follows(f)'
BY DEF Follows

\* Every step leaves a file the index does not follow in the queue, or excused.
LEMMA QueueStep ==
  ASSUME TreeInv, ValueInv, StoresInv, QueueInv, [Next]_vars
  PROVE  QueueInv'
<1>q. /\ queue.paths \cap Negated = {} /\ queue.paths \cap ignored \subseteq excuse.ruled
      /\ queue \in [rescan : BOOLEAN, paths : SUBSET Files] /\ excuse \in Excuses
  BY DEF QueueInv, ValueInv
<1>f. ASSUME ~queue.rescan, NEW f \in Files \ (Linked \cup excuse.refused \cup excuse.ruled \cup queue.paths), <<"base", f>> \notin excuse.unseen
      PROVE  Follows(f)
  BY <1>f DEF QueueInv
<1>s. /\ Sound(written, "base", store) /\ store # None /\ SoundOrNone(written, "base", store) /\ ManifestOf(store) = store.manifest
      /\ TreeOf(written, tree["base"]) /\ "base" \in Roots
  BY TreesAre DEF StoresInv, SoundOrNone, ManifestOf, Roots
<1>1. CASE /\ store' = store /\ ignored' = ignored /\ queue' = queue /\ tree'["base"] = tree["base"]
           /\ excuse'.refused = excuse.refused /\ excuse'.ruled = excuse.ruled
           /\ \A f \in Files : <<"base", f>> \in excuse.unseen => <<"base", f>> \in excuse'.unseen
  <2>1. \A f \in Files : Follows(f) => Follows(f)'
    BY <1>1, FollowsOn
  <2> QED BY <1>1, <1>q, <1>f, <2>1 DEF QueueInv
<1>2. ASSUME NEW r \in Roots, NEW g \in Files, Edit(r, g) PROVE QueueInv'
  <2>0. /\ store' = store /\ ignored' = ignored /\ queue' = IF r = "base" THEN Note(g) ELSE queue
        /\ \A f \in Files : r # "base" \/ f # g => tree'["base"][f] = tree["base"][f]
    <3>1. \A h \in Files : r # "base" \/ h # g => tree'["base"][h] = tree["base"][h]
      <4>1. \A v \in Roots, h \in Files : v # r \/ h # g => tree'[v][h] = tree[v][h]
        BY <1>2, EditDoes
      <4> QED BY <4>1, <1>s
    <3>2. store' = store /\ ignored' = ignored /\ queue' = IF r = "base" THEN Note(g) ELSE queue
      BY <1>2 DEF Edit
    <3> QED BY <3>1, <3>2
  <2> DEFINE x == IF Reported(r, g) THEN excuse.unseen ELSE excuse.unseen \cup {<<r, g>>}
  <2>1. excuse'.refused = excuse.refused /\ excuse'.ruled = excuse.ruled /\ excuse'.unseen = x
    BY <1>2, <1>q DEF Edit, Excuses
  <2>2. CASE r # "base"
    <3>1. \A f \in Files : Follows(f) => Follows(f)'
      BY <2>0, <2>2, FollowsOn
    <3> QED BY <2>0, <2>1, <2>2, <3>1, <1>q, <1>f DEF QueueInv
  <2>3. CASE r = "base" /\ Reported("base", g)
    <3>1. queue' = [queue EXCEPT !.paths = @ \cup {g}] /\ g \notin Negated /\ g \notin ignored
      BY <2>0, <2>3 DEF Note, Reported
    <3>2. queue'.rescan = queue.rescan /\ queue'.paths = queue.paths \cup {g}
      BY <3>1, <1>q
    <3>3. \A f \in Files : f # g /\ Follows(f) => Follows(f)'
      BY <2>0, FollowsOn
    <3> QED BY <2>0, <2>1, <2>3, <3>1, <3>2, <3>3, <1>q, <1>f DEF QueueInv
  <2>4. CASE r = "base" /\ ~Reported("base", g)
    <3>1. queue' = queue /\ x = excuse.unseen \cup {<<"base", g>>}
      BY <2>0, <2>4 DEF Note
    <3>3. \A f \in Files : f # g /\ Follows(f) => Follows(f)'
      BY <2>0, FollowsOn
    <3> QED BY <2>0, <2>1, <2>4, <3>1, <3>3, <1>q, <1>f DEF QueueInv
  <2> QED BY <2>2, <2>3, <2>4
<1>3. ASSUME Commit PROVE QueueInv'
  <2>1. excuse'.refused = excuse.refused /\ excuse'.ruled = excuse.ruled /\ excuse'.unseen = excuse.unseen
    BY <1>3, <1>q DEF Commit, Excuses
  <2> QED BY <1>1, <1>3, <2>1 DEF Commit
<1>4. ASSUME NEW g \in Files, Ignore(g) PROVE QueueInv'
  <2>1. excuse'.refused = excuse.refused /\ excuse'.ruled = excuse.ruled \cup {g} /\ excuse'.unseen = excuse.unseen
    BY <1>4, <1>q DEF Ignore, Excuses
  <2>2. store' = store /\ queue' = queue /\ tree' = tree /\ \A f : f # g => (f \in ignored' <=> f \in ignored)
    BY <1>4 DEF Ignore, SymDiff
  <2>3. \A f \in Files : f # g /\ Follows(f) => Follows(f)'
    BY <2>2 DEF Follows
  <2> QED BY <2>1, <2>2, <2>3, <1>q, <1>f DEF QueueInv
<1>5. ASSUME RebuildChanged PROVE QueueInv'
  <2>1. RebuildKeeps /\ ~queue.rescan /\ (Refused(queue.paths) \/ Retried \/ (Answered(queue.paths, {}) /\ store' = ChangedIndex))
    BY <1>5, RebuildChangedDoes
  <2>2. tree' = tree /\ ignored' = ignored
    BY <2>1 DEF RebuildKeeps
  <2>3. CASE Refused(queue.paths)
    <3>1. excuse'.refused = excuse.refused \cup queue.paths /\ excuse'.ruled = excuse.ruled /\ excuse'.unseen = excuse.unseen
      BY <2>3, <1>q DEF Refused, Excuses
    <3>2. store' = store /\ queue'.paths = {}
      BY <2>3 DEF Refused, NoChange
    <3>3. \A f \in Files : Follows(f) => Follows(f)'
      BY <2>2, <3>2, FollowsOn
    <3> QED BY <2>1, <3>1, <3>2, <3>3, <1>q, <1>f DEF QueueInv
  <2>4. CASE Retried
    BY <2>4 DEF Retried, QueueInv
  <2>5. CASE Answered(queue.paths, {}) /\ store' = ChangedIndex
    <3>1. excuse'.refused = excuse.refused \ queue.paths /\ excuse'.ruled = excuse.ruled /\ excuse'.unseen = excuse.unseen
      BY <2>5, <1>q DEF Answered, Excuses
    <3>2. store' # None /\ queue'.paths = {}
      BY <2>5 DEF Answered, NoChange
    <3> DEFINE touched == ChangedIndexedPaths(queue.paths, ignored)
    <3>3. \A f \in Files : ListsOn(store'.manifest, store.manifest, f, tree["base"], touched)
      <4>1. CASE ~ChangeSetMovesAnything(tree["base"], ignored, queue.paths, store.manifest)
        <5>1. store' = store
          BY <4>1, <2>5 DEF ChangedIndex
        <5> QED BY <4>1, <5>1, <1>q, <1>s, UnmovedChangedLists
      <4>2. CASE ChangeSetMovesAnything(tree["base"], ignored, queue.paths, store.manifest)
        <5> DEFINE planned == PlanChangedFiles("base", tree["base"], ignored, queue.paths, store.manifest)
        <5>1. store' = WritePlanned(planned, store)
          BY <4>2, <2>5 DEF ChangedIndex
        <5>2. PlansChanged(planned, touched, tree["base"], store, Good(written, "base", store))
          BY <1>q, <1>s, PlanChangedDoes
        <5> HIDE DEF planned, touched
        <5> QED BY <5>1, <5>2, <3>2, <1>s, ChangedLists
      <4> QED BY <4>1, <4>2
    <3>4. ASSUME NEW f \in Files \ (Linked \cup excuse'.refused \cup excuse'.ruled), <<"base", f>> \notin excuse'.unseen
          PROVE  Follows(f)'
      <4>1. CASE f \in touched
        <5>1. f \notin ignored
          BY <4>1 DEF ChangedIndexedPaths
        <5>2. IF tree["base"][f].text \in Readable THEN Current(EntryOf(store'.manifest, f), tree["base"][f]) ELSE f \notin Paths(store'.manifest)
          BY <4>1, <3>3 DEF ListsOn
        <5> QED BY <2>2, <5>1, <5>2 DEF Follows
      <4>2. CASE f \notin touched
        <5>1. f \notin queue.paths
          BY <4>2, <3>1, <3>4, <1>q DEF ChangedIndexedPaths
        <5>2. Follows(f)
          BY <2>1, <3>1, <3>4, <5>1, <1>f
        <5>3. /\ f \in Paths(store'.manifest) <=> f \in Paths(store.manifest)
              /\ \A file : Current(EntryOf(store'.manifest, f), file) <=> Current(EntryOf(store.manifest, f), file)
          BY <4>2, <3>3 DEF ListsOn
        <5> QED BY <2>2, <5>2, <5>3 DEF Follows
      <4> QED BY <4>1, <4>2
    <3> QED BY <3>2, <3>4 DEF QueueInv
  <2> QED BY <2>1, <2>3, <2>4, <2>5
<1>6. ASSUME RebuildAll PROVE QueueInv'
  <2>1. RebuildKeeps /\ (Refused(Files) \/ Retried \/ (Answered(Files, Files) /\ store' = AllIndex))
    BY <1>6, RebuildAllDoes
  <2>2. tree' = tree /\ ignored' = ignored
    BY <2>1 DEF RebuildKeeps
  <2>3. CASE Refused(Files)
    <3>1. excuse'.refused = excuse.refused \cup Files /\ queue'.paths = {}
      BY <2>3, <1>q DEF Refused, Excuses, NoChange
    <3> QED BY <3>1 DEF QueueInv
  <2>4. CASE Retried
    BY <2>4 DEF Retried, QueueInv
  <2>5. CASE Answered(Files, Files) /\ store' = AllIndex
    <3>1. store' # None /\ queue'.paths = {}
      BY <2>5 DEF Answered, NoChange
    <3>2. \A f : Lists(store'.manifest, f, tree["base"], Walked(tree["base"], ignored))
      <4>1. CASE ~TreeMovesAnything(tree["base"], ignored, store.manifest)
        <5>1. store' = store
          BY <4>1, <2>5 DEF AllIndex
        <5> QED BY <4>1, <5>1, <1>s, UnmovedLists
      <4>2. CASE TreeMovesAnything(tree["base"], ignored, store.manifest)
        <5> DEFINE planned == PlanFiles("base", tree["base"], ignored, store.manifest)
        <5>1. store' = WritePlanned(planned, store)
          BY <4>2, <2>5 DEF AllIndex
        <5>2. \E kept : PlansSet(planned, Walked(tree["base"], ignored), tree["base"], kept, Good(written, "base", store))
          BY <1>s, PlanFilesDoes
        <5> HIDE DEF planned
        <5> QED BY <5>1, <5>2, <3>1, <1>s, WalkedLists
      <4> QED BY <4>1, <4>2
    <3>3. ASSUME NEW f \in Files \ Linked PROVE Follows(f)'
      <4>1. f \in Walked(tree["base"], ignored) /\ tree["base"][f].text \in Readable
              <=> f \notin ignored /\ tree["base"][f].text \in Readable
        BY WriteAssumption DEF Walked, Valid
      <4> QED BY <4>1, <3>2, <2>2 DEF Follows, Lists
    <3> QED BY <3>1, <3>3 DEF QueueInv
  <2> QED BY <2>1, <2>3, <2>4, <2>5
<1>7. ASSUME Begin PROVE QueueInv'
  <2>1. excuse'.refused = excuse.refused /\ excuse'.ruled = excuse.ruled /\ excuse'.unseen = excuse.unseen \ {<<"lane", f>> : f \in Files}
    BY <1>7, <1>q DEF Begin, Excuses
  <2>2. \A f \in Files : <<"base", f>> \in excuse.unseen => <<"base", f>> \in excuse'.unseen
    BY <2>1
  <2> QED BY <1>1, <1>7, <2>1, <2>2 DEF Begin
<1>8. ASSUME ReadHead \/ DiffLane \/ DiffBase \/ WalkFile PROVE QueueInv'
  BY <1>1, <1>8 DEF ReadHead, DiffLane, DiffBase, WalkFile
<1>12. ASSUME CompareFile PROVE QueueInv'
  <2>1. excuse'.refused = excuse.refused /\ excuse'.ruled = excuse.ruled /\ excuse'.unseen = excuse.unseen
    BY <1>12, <1>q DEF CompareFile, Excuses
  <2> QED BY <1>1, <1>12, <2>1 DEF CompareFile
<1>9. ASSUME Finish PROVE QueueInv'
  <2>1. excuse'.refused = excuse.refused /\ excuse'.ruled = excuse.ruled /\ excuse'.unseen = excuse.unseen
    BY <1>9, <1>q DEF Finish, Excuses
  <2> QED BY <1>1, <1>9, <2>1 DEF Finish
<1>10. ASSUME Evict PROVE QueueInv'
  <2>1. excuse'.refused = excuse.refused /\ excuse'.ruled = excuse.ruled /\ excuse'.unseen = excuse.unseen
    BY <1>10, <1>q DEF Evict, Excuses
  <2> QED BY <1>1, <1>10, <2>1 DEF Evict
<1>11. CASE UNCHANGED vars
  BY <1>1, <1>11 DEF vars
<1> QED BY <1>2, <1>3, <1>4, <1>5, <1>6, <1>7, <1>8, <1>9, <1>10, <1>11, <1>12, LaneAssumption DEF Next

-----------------------------------------------------------------------------
(* The lane's plan, step by step. *)

\* The files that are still what the plan, or the lane's index, took them for.
StillOn == \A f \in Files : Still(f)' => Still(f) /\ tree'["lane"][f] = tree["lane"][f]

\* The entry of a sound index stands for a text that was chunked.
LEMMA SoundEntry ==
  ASSUME NEW w, NEW r, NEW index, Sound(w, r, index), NEW f, f \in Paths(index.manifest)
  PROVE  /\ f \in Files /\ EntryOf(index.manifest, f) \in Entry(Stamps) /\ Known(w, f, EntryOf(index.manifest, f).stamp)
         /\ TextIn(w, f, EntryOf(index.manifest, f).stamp) \in Readable /\ EntryOf(index.manifest, f).path = f
<1> DEFINE m == index.manifest
<1>1. m \in Seq(Entry(Stamps)) /\ Unique(m)
  BY DEF Sound
<1>2. PICK i \in 1..Len(m) : m[i].path = f /\ EntryOf(m, f) = m[i]
  <2> DEFINE file == [stamp |-> f]
  <2>1. Current(EntryOf(m, f), file) \/ ~Current(EntryOf(m, f), file)
    OBVIOUS
  <2> HIDE DEF file
  <2> QED BY <2>1, <1>1, EntryCurrent
<1>3. m[i] \in Entry(Stamps)
  BY <1>1, ElementOfSeq
<1>4. Tells(w, r, m[i].path, m[i].stamp, m[i].count, RowsOf(index.chunks, m[i]))
  BY DEF Sound
<1>5. f \in Files
  BY <1>2, <1>3 DEF Entry
<1> QED BY <1>2, <1>3, <1>4, <1>5 DEF Tells

\* Rows that are the lane's stay so while its file stays.
LEMMA BorrowedOn ==
  ASSUME TreeInv, TreeInv', Grown(written, written'), Sound(written, "base", plan.base), NEW f \in Files, Borrowed(f),
         plan'.base = plan.base, tree'["lane"][f] = tree["lane"][f]
  PROVE  Borrowed(f)'
<1> DEFINE stamp == EntryOf(plan.base.manifest, f).stamp
<1>1. Known(written, f, stamp)
  BY SoundEntry DEF Borrowed
<1>2. Histories(written) /\ Histories(written')
  BY DEF TreeInv
<1>3. TextIn(written', f, stamp) = TextIn(written, f, stamp)
  BY <1>1, <1>2, KnownGrows
<1> QED BY <1>3 DEF Borrowed, LaneText, TextIn, TextOf

\* A step that leaves the lane's files alone leaves its plan right.
LEMMA PlanStays ==
  ASSUME TreeInv, TreeInv', Grown(written, written'), PlanInv, StoresInv, NEW c \in BOOLEAN, plan' = [plan EXCEPT !.committed = c], ValueInv,
         plan.committed => c, plan.at \in {"lane", "base"} /\ ~c => head' = head, StillOn, excuse'.outrun = excuse.outrun,
         Walking => \A f \in Files : tree'["base"][f] = tree["base"][f] \/ ~Current(EntryOf(plan.base.manifest, f), tree'["base"][f])
  PROVE  PlanInv'
<1>1. /\ plan'.at = plan.at /\ plan'.base = plan.base /\ plan'.head = plan.head /\ plan'.moved = plan.moved /\ plan'.left = plan.left
      /\ plan'.shared = plan.shared /\ plan'.differing = plan.differing /\ plan'.committed = c /\ plan'.stamp = plan.stamp
  BY DEF ValueInv
<1>2. Verdicts => Verdicts'
  BY <1>1 DEF Verdicts
<1>3. ASSUME plan.at = "base", NEW f \in Tracked, Still(f)', f \notin plan.moved PROVE LaneText(f)' = plan.head[f]
  <2>1. f \in Files
    BY DEF Tracked
  <2>2. Still(f) /\ tree'["lane"][f] = tree["lane"][f]
    BY <1>3, <2>1 DEF StillOn
  <2> QED BY <1>3, <2>2 DEF PlanInv, LaneText
<1>4. ASSUME Walking, ~c, NEW f \in Tracked, Still(f)', f \notin plan.moved PROVE Spared(f)'
  <2>1. f \in Files
    BY DEF Tracked
  <2>2. Still(f) /\ tree'["lane"][f] = tree["lane"][f]
    BY <1>4, <2>1 DEF StillOn
  <2>3. Spared(f)
    BY <1>4, <2>2 DEF PlanInv
  <2> QED BY <1>1, <1>4, <2>1, <2>2, <2>3 DEF Spared, LaneText
<1>5. ASSUME Walking, ~c, NEW f \in Files \ Linked, Still(f)', f \notin Range(plan.left) PROVE Judged(f)'
  <2>2. Still(f) /\ tree'["lane"][f] = tree["lane"][f]
    BY <1>5 DEF StillOn
  <2>3. Judged(f)
    BY <1>5, <2>2 DEF PlanInv
  <2>4. Sound(written, "base", plan.base)
    BY <1>5 DEF StoresInv, Walking
  <2>5. Borrowed(f) => Borrowed(f)'
    BY <1>1, <2>2, <2>4, BorrowedOn
  <2> QED BY <1>1, <2>2, <2>3, <2>5 DEF Judged
<1>6. plan'.at \in {"head", "lane", "base"} => plan'.shared = <<>> /\ plan'.differing = {}
  BY <1>1 DEF PlanInv
<1>7. plan'.at \in {"lane", "base"} /\ ~plan'.committed => plan'.head = head'
  BY <1>1 DEF PlanInv
<1>8. Walking => Verdicts'
  BY <1>2 DEF PlanInv
<1>9. Tracked' = Tracked /\ (Walking' <=> Walking)
  BY <1>1 DEF Tracked, Walking
<1>10. plan.at = "compare" => Compared'
  <2> SUFFICES ASSUME plan.at = "compare" PROVE Compared'
    OBVIOUS
  <2>1. Compared
    BY DEF PlanInv
  <2> QED BY <2>1, <1>1 DEF Compared, StillOn
<1> QED BY <1>1, <1>3, <1>4, <1>5, <1>6, <1>7, <1>8, <1>9, <1>10 DEF PlanInv

\* And what it answers.
LEMMA LaneStays ==
  ASSUME LaneInv, overlay' = overlay, excuse'.committed = excuse.committed, excuse'.outrun = excuse.outrun, plan'.at = plan.at, StillOn
  PROVE  LaneInv'
<1> SUFFICES ASSUME plan.at = "idle", overlay # None, ~excuse.committed, NEW f \in Files \ excuse.outrun, Still(f)' PROVE LaneFollows(f)'
  BY DEF LaneInv
<1>1. Still(f) /\ tree'["lane"][f] = tree["lane"][f]
  BY DEF StillOn
<1>2. LaneFollows(f)
  BY <1>1 DEF LaneInv
<1> QED BY <1>1, <1>2 DEF LaneFollows

\* What a step that leaves the plan alone has to show.
LEMMA BothStay ==
  ASSUME TreeInv, ValueInv, StoresInv, PlanInv, LaneInv, [Next]_vars, plan' = plan, overlay' = overlay, excuse'.committed = excuse.committed,
         excuse'.outrun = excuse.outrun, head' = head, StillOn,
         Walking => \A f \in Files : tree'["base"][f] = tree["base"][f] \/ ~Current(EntryOf(plan.base.manifest, f), tree'["base"][f])
  PROVE  PlanInv' /\ LaneInv'
<1>1. TreeInv' /\ Grown(written, written')
  BY FilesStep
<1>2. plan' = [plan EXCEPT !.committed = plan.committed] /\ plan.committed \in BOOLEAN
  BY DEF ValueInv
<1>3. PlanInv'
  BY <1>1, <1>2, PlanStays
<1>4. LaneInv'
  BY LaneStays
<1> QED BY <1>3, <1>4

\* Without a plan and a lane there is nothing to keep.
LEMMA NothingYet ==
  ASSUME plan'.at = "idle", overlay' = None
  PROVE  PlanInv' /\ LaneInv'
BY DEF PlanInv, LaneInv, Walking

\* A file an index lists as it is was there when the index was written.
LEMMA FreshIsNotCurrent ==
  ASSUME NEW w, Histories(w), NEW index, Sound(w, "base", index), NEW f \in Files, NEW file, NEW r \in Roots,
         file.stamp = <<r, Len(w[r][f]) + 1>>
  PROVE  ~Current(EntryOf(index.manifest, f), file)
<1> SUFFICES ASSUME Current(EntryOf(index.manifest, f), file) PROVE FALSE
  OBVIOUS
<1> DEFINE e == EntryOf(index.manifest, f)  n == Len(w[r][f])
<1>1. e # None /\ e.stamp = <<r, n + 1>>
  BY DEF Current
<1>2. f \in Paths(index.manifest)
  BY <1>1, NoEntry DEF Sound
<1>3. Known(w, f, e.stamp)
  BY <1>2, SoundEntry
<1> HIDE DEF e
<1>4. e.stamp[1] = r /\ e.stamp[2] = n + 1
  BY <1>1
<1>5. n + 1 <= n
  BY <1>3, <1>4 DEF Known
<1>6. n \in Nat
  BY DEF Histories
<1> HIDE DEF n
<1> QED BY <1>5, <1>6

\* An edit of either checkout: of the lane it is noted, of the base it makes the base's rows out of date.
LEMMA LaneEdit ==
  ASSUME TreeInv, ValueInv, StoresInv, PlanInv, LaneInv, NEW r \in Roots, NEW g \in Files, Edit(r, g)
  PROVE  PlanInv' /\ LaneInv'
<1>0. [Next]_vars
  BY DEF Next
<1>1. /\ \A v \in Roots, h \in Files : v # r \/ h # g => tree'[v][h] = tree[v][h]
      /\ tree'[r][g].stamp = <<r, Len(written[r][g]) + 1>>
  BY EditDoes
<1>2. plan' = plan /\ overlay' = overlay /\ head' = head
  BY DEF Edit
<1> DEFINE x == IF Reported(r, g) THEN excuse.unseen ELSE excuse.unseen \cup {<<r, g>>}
<1>3. excuse'.committed = excuse.committed /\ excuse'.unseen = x /\ excuse'.outrun = excuse.outrun
  <2>1. excuse \in Excuses
    BY DEF ValueInv
  <2> QED BY <2>1 DEF Edit, Excuses
<1>4. CASE overlay = None /\ plan.at = "idle"
  BY <1>2, <1>4, NothingYet
<1>5. CASE overlay # None \/ plan.at # "idle"
  <2>1. replan' = (replan \/ (r = "lane" /\ Reported(r, g)))
    BY <1>5 DEF Edit
  <2>2. ASSUME NEW f \in Files, Still(f)' PROVE Still(f) /\ tree'["lane"][f] = tree["lane"][f]
    <3>1. ~replan' /\ <<"lane", f>> \notin excuse'.unseen
      BY <2>2 DEF Still
    <3>2. ~replan /\ ~(r = "lane" /\ Reported(r, g))
      BY <2>1, <3>1
    <3>3. <<"lane", f>> \notin excuse.unseen /\ ~(r = "lane" /\ g = f)
      BY <1>3, <3>1, <3>2
    <3>4. tree'["lane"][f] = tree["lane"][f]
      BY <1>1, <3>3 DEF Roots
    <3> QED BY <3>2, <3>3, <3>4 DEF Still
  <2>3. ASSUME Walking, NEW f \in Files
        PROVE  tree'["base"][f] = tree["base"][f] \/ ~Current(EntryOf(plan.base.manifest, f), tree'["base"][f])
    <3>1. CASE r = "base" /\ f = g
      <4>1. Sound(written, "base", plan.base) /\ Histories(written)
        BY <2>3 DEF StoresInv, TreeInv, Walking
      <4> QED BY <3>1, <4>1, <1>1, FreshIsNotCurrent
    <3>2. CASE r # "base" \/ f # g
      BY <3>2, <1>1 DEF Roots
    <3> QED BY <3>1, <3>2
  <2> QED BY <1>0, <1>2, <1>3, <2>2, <2>3, BothStay DEF StillOn
<1> QED BY <1>4, <1>5

\* A commit in the base: the plan under way notes it.
LEMMA LaneCommit ==
  ASSUME TreeInv, ValueInv, StoresInv, PlanInv, LaneInv, Commit
  PROVE  PlanInv' /\ LaneInv'
<1>0. [Next]_vars
  BY DEF Next
<1>1. TreeInv' /\ Grown(written, written')
  BY <1>0, FilesStep
<1>2. /\ excuse'.committed = excuse.committed /\ excuse'.unseen = excuse.unseen /\ excuse'.outrun = excuse.outrun
      /\ replan' = replan /\ tree' = tree /\ overlay' = overlay
  BY DEF Commit, ValueInv, Excuses
<1>3. StillOn
  BY <1>2 DEF StillOn, Still
<1> DEFINE c == plan.committed \/ plan.at \in {"lane", "base"}
<1>4. plan' = [plan EXCEPT !.committed = c] /\ c \in BOOLEAN /\ (plan.committed => c) /\ ~(plan.at \in {"lane", "base"} /\ ~c)
  <2>1. plan' = [plan EXCEPT !.committed = @ \/ plan.at \in {"lane", "base"}]
    BY DEF Commit
  <2>2. plan.committed \in BOOLEAN
    BY DEF ValueInv
  <2> QED BY <2>1, <2>2
<1>5. plan'.at = plan.at
  BY <1>4 DEF ValueInv
<1> HIDE DEF c
<1>6. PlanInv'
  BY <1>1, <1>2, <1>3, <1>4, PlanStays
<1> QED BY <1>2, <1>3, <1>5, <1>6, LaneStays

\* A rebuild of the base: the plan keeps the index it began on.
LEMMA LaneRebuild ==
  ASSUME TreeInv, ValueInv, StoresInv, PlanInv, LaneInv, [Next]_vars, RebuildKeeps, NEW files, NEW walked,
         Refused(files) \/ Retried \/ Answered(files, walked)
  PROVE  PlanInv' /\ LaneInv'
<1>1. plan' = plan /\ overlay' = overlay /\ head' = head /\ tree' = tree
  BY DEF RebuildKeeps
<1>2. excuse \in Excuses
  BY DEF ValueInv
<1>3. /\ excuse'.committed = excuse.committed /\ excuse'.outrun = excuse.outrun
      /\ \A f \in Files : <<"lane", f>> \in excuse.unseen => <<"lane", f>> \in excuse'.unseen
  <2>1. CASE Refused(files)
    BY <2>1, <1>2 DEF Refused, Excuses
  <2>2. CASE Retried
    BY <2>2 DEF Retried
  <2>3. CASE Answered(files, walked)
    <3>1. /\ excuse'.committed = excuse.committed /\ excuse'.outrun = excuse.outrun
          /\ excuse'.unseen = excuse.unseen \ {<<"base", f>> : f \in walked}
      BY <2>3, <1>2 DEF Answered, Excuses
    <3>2. \A f \in Files : <<"lane", f>> \notin {<<"base", g>> : g \in walked}
      OBVIOUS
    <3> QED BY <3>1, <3>2
  <2> QED BY <2>1, <2>2, <2>3
<1>4. CASE overlay = None /\ plan.at = "idle"
  BY <1>1, <1>4, NothingYet
<1>5. CASE overlay # None \/ plan.at # "idle"
  <2>1. replan => replan'
    BY <1>5 DEF Refused, Retried, Answered
  <2>2. StillOn
    BY <2>1, <1>1, <1>3 DEF StillOn, Still
  <2> QED BY <1>1, <1>3, <2>2, BothStay
<1> QED BY <1>4, <1>5

-----------------------------------------------------------------------------
(* The steps of a plan. *)

\* The steps of a plan that ask git.
LEMMA LanePlanned ==
  ASSUME TreeInv, ValueInv, PlanInv, Begin \/ ReadHead \/ DiffLane \/ DiffBase
  PROVE  PlanInv' /\ LaneInv'
<1>p. plan = [at |-> plan.at, base |-> plan.base, previous |-> plan.previous, git |-> plan.git, head |-> plan.head,
              moved |-> plan.moved, left |-> plan.left, stamp |-> plan.stamp, shared |-> plan.shared,
              differing |-> plan.differing, committed |-> plan.committed]
  BY DEF ValueInv
<1>1. CASE Begin
  <2>1. plan'.at = "head" /\ plan'.shared = <<>> /\ plan'.differing = {}
    BY <1>1 DEF Begin, Idle
  <2> QED BY <2>1 DEF PlanInv, LaneInv, Walking
<1>2. CASE ReadHead
  <2>1. plan.at = "head" /\ plan' = [plan EXCEPT !.at = "lane", !.head = head] /\ head' = head
    BY <1>2 DEF ReadHead
  <2>2. plan'.at = "lane" /\ plan'.head = head /\ plan'.shared = plan.shared /\ plan'.differing = plan.differing
    BY <2>1, <1>p
  <2> QED BY <2>1, <2>2 DEF PlanInv, LaneInv, Walking
<1>3. CASE DiffLane
  <2> DEFINE x == {f \in Tracked : tree["lane"][f].text # plan.head[f]}
  <2>1. plan.at = "lane" /\ plan' = [plan EXCEPT !.at = "base", !.moved = x] /\ head' = head /\ tree' = tree
    BY <1>3 DEF DiffLane
  <2>2. \A f \in Tracked : f \notin x => LaneText(f) = plan.head[f]
    BY DEF LaneText
  <2> HIDE DEF x
  <2>3. plan'.at = "base" /\ plan'.head = plan.head /\ plan'.shared = plan.shared /\ plan'.differing = plan.differing
        /\ plan'.committed = plan.committed /\ plan'.moved = x
    BY <2>1, <1>p
  <2>4. \A f \in Tracked : f \notin plan'.moved => LaneText(f)' = plan'.head[f]
    BY <2>1, <2>2, <2>3 DEF LaneText
  <2> QED BY <2>1, <2>3, <2>4 DEF PlanInv, LaneInv, Tracked, Walking
<1>4. CASE DiffBase
  <2> DEFINE x == plan.moved \cup {f \in Files : tree["base"][f].text # head[f]}  y == InOrder(Files \ Linked)
  <2>1. /\ plan.at = "base" /\ plan' = [plan EXCEPT !.at = "walk", !.moved = x, !.left = y]
        /\ tree' = tree /\ replan' = replan /\ excuse' = excuse
    BY <1>4, <1>p DEF DiffBase
  <2>2. y \in Seq(Files) /\ IsInjective(y) /\ Range(y) = Files \ Linked
    BY InOrderLists
  <2>3. \A f \in Tracked : f \notin x => f \notin plan.moved /\ f \in Files /\ tree["base"][f].text = head[f]
    BY DEF Tracked
  <2> HIDE DEF x, y
  <2>4. /\ plan'.at = "walk" /\ plan'.shared = plan.shared /\ plan'.differing = plan.differing
        /\ plan'.committed = plan.committed /\ plan'.moved = x /\ plan'.left = y /\ plan'.base = plan.base
    BY <2>1, <1>p
  <2>5. plan.shared = <<>> /\ plan.differing = {} /\ (~plan.committed => plan.head = head)
        /\ \A f \in Tracked : Still(f) /\ f \notin plan.moved => LaneText(f) = plan.head[f]
    BY <2>1 DEF PlanInv
  <2>6. y \in Seq(Files \ Linked)
    <3>1. \A i \in 1..Len(y) : y[i] \in Range(y)
      BY <2>2 DEF Range
    <3>2. y \in [1..Len(y) -> Files \ Linked]
      BY <3>1, <2>2
    <3> QED BY <3>2, <2>2
  <2>7. Paths(<<>>) = {}
    BY OneOrNone DEF Paths
  <2>8. Verdicts'
    BY <2>2, <2>4, <2>5, <2>6, <2>7 DEF Verdicts
  <2>9. ASSUME ~plan.committed, NEW f \in Tracked, Still(f)', f \notin plan'.moved PROVE Spared(f)'
    <3>1. Still(f)
      BY <2>1, <2>9 DEF Still
    <3>2. LaneText(f) = tree["base"][f].text
      BY <3>1, <2>3, <2>4, <2>5, <2>9
    <3> QED BY <3>2, <2>1 DEF Spared, LaneText
  <2>10. \A f \in Files \ Linked : f \in Range(plan'.left)
    BY <2>2, <2>4
  <2> QED BY <2>4, <2>8, <2>9, <2>10 DEF PlanInv, LaneInv, Tracked, Walking
<1> QED BY <1>1, <1>2, <1>3, <1>4

\* The first of a list, and the rest.
LEMMA HeadTail ==
  ASSUME NEW X, NEW s \in Seq(X), s # <<>>, IsInjective(s)
  PROVE  /\ Head(s) \in X /\ Head(s) \in Range(s) /\ Tail(s) \in Seq(X) /\ IsInjective(Tail(s))
         /\ Range(Tail(s)) = Range(s) \ {Head(s)}
<1> DEFINE n == Len(s)  t == Tail(s)
<1>1. n \in Nat /\ n >= 1 /\ \A i, j \in 1..n : s[i] = s[j] => i = j
  BY DEF IsInjective
<1>2. t \in Seq(X) /\ Len(t) = n - 1 /\ \A i \in 1..n - 1 : t[i] = s[i + 1]
  <2>1. t \in Seq(X) /\ Len(t) = Len(s) - 1 /\ \A i \in 1..Len(s) - 1 : t[i] = s[i + 1]
    BY HeadTailProperties
  <2> QED BY <2>1
<1>3. Head(s) = s[1] /\ Head(s) \in X
  BY <1>1
<1> HIDE DEF t, n
<1>4. Range(t) = {t[i] : i \in 1..n - 1} /\ DOMAIN t = 1..n - 1
  BY <1>1, <1>2 DEF Range
<1>5. Range(s) = {s[i] : i \in 1..n}
  BY DEF Range, n
<1>6. \A i, j \in 1..n - 1 : t[i] = t[j] => i = j
  <2> SUFFICES ASSUME NEW i \in 1..n - 1, NEW j \in 1..n - 1, t[i] = t[j] PROVE i = j
    OBVIOUS
  <2>1. s[i + 1] = s[j + 1] /\ i + 1 \in 1..n /\ j + 1 \in 1..n
    BY <1>1, <1>2
  <2>2. i + 1 = j + 1
    BY <2>1, <1>1
  <2> QED BY <2>2
<1>7. ASSUME NEW x PROVE x \in Range(t) <=> x \in Range(s) /\ x # s[1]
  <2>1. ASSUME x \in Range(t) PROVE x \in Range(s) /\ x # s[1]
    <3>1. PICK i \in 1..n - 1 : x = t[i]
      BY <2>1, <1>4
    <3>2. x = s[i + 1] /\ i + 1 \in 1..n /\ i + 1 # 1 /\ 1 \in 1..n
      BY <3>1, <1>1, <1>2
    <3> QED BY <3>2, <1>1, <1>5
  <2>2. ASSUME x \in Range(s), x # s[1] PROVE x \in Range(t)
    <3>1. PICK i \in 1..n : x = s[i]
      BY <2>2, <1>5
    <3>2. i - 1 \in 1..n - 1 /\ i - 1 + 1 = i
      BY <3>1, <2>2, <1>1
    <3>3. t[i - 1] = x
      BY <3>1, <3>2, <1>2
    <3> QED BY <3>2, <3>3, <1>4
  <2> QED BY <2>1, <2>2
<1>8. 1 \in 1..n
  BY <1>1
<1> QED BY <1>2, <1>3, <1>4, <1>5, <1>6, <1>7, <1>8 DEF t, IsInjective

\* A file whose text is the base's is what the base's rows tell.
LEMMA SharedBorrowed ==
  ASSUME TreeInv, Sound(written, "base", plan.base), NEW f \in Files, BaseCurrent(f), Capsule("lane", f) = Capsule("base", f),
         LaneText(f) = tree["base"][f].text
  PROVE  Borrowed(f)
<1> DEFINE e == EntryOf(plan.base.manifest, f)  file == tree["base"][f]
<1>1. Current(e, file)
  BY DEF BaseCurrent
<1>2. f \in Paths(plan.base.manifest)
  BY <1>1, NoEntry DEF Current, Sound
<1>3. TreeOf(written, tree["base"])
  BY TreesAre DEF Roots
<1>4. TextOf(f, e.stamp) = file.text
  BY <1>1, <1>3 DEF TextOf, Current, TreeOf, TextIn
<1> QED BY <1>1, <1>2, <1>4 DEF Borrowed

\* One more path.
LEMMA AppendPaths ==
  ASSUME NEW X, NEW s \in Seq(X), NEW e \in X
  PROVE  Append(s, e) \in Seq(X) /\ \A f : f \in Paths(Append(s, e)) <=> f \in Paths(s) \/ f = e.path
<1> DEFINE n == Len(s)  t == Append(s, e)
<1>1. n \in Nat /\ t \in Seq(X) /\ Len(t) = n + 1 /\ t[n + 1] = e /\ \A i \in 1..n : t[i] = s[i]
  BY AppendProperties
<1> HIDE DEF t
<1>2. \A f : (f \in Paths(t) <=> \E i \in 1..Len(t) : t[i].path = f) /\ (f \in Paths(s) <=> \E i \in 1..n : s[i].path = f)
  BY <1>1, PathsAre
<1> HIDE DEF n
<1>3. ASSUME NEW f PROVE f \in Paths(t) <=> f \in Paths(s) \/ f = e.path
  <2>1. f \in Paths(t) <=> \E i \in 1..n + 1 : t[i].path = f
    BY <1>1, <1>2
  <2>2. \A i : i \in 1..n + 1 <=> i \in 1..n \/ i = n + 1
    BY <1>1
  <2> QED BY <2>1, <2>2, <1>1, <1>2
<1> QED BY <1>1, <1>3 DEF t

\* A verdict: y when the first file left is the base's, n when it differs, neither when it is passed over.
LEMMA LaneJudged ==
  ASSUME TreeInv, ValueInv, StoresInv, PlanInv, Walking, plan.left # <<>>, NEW y \in BOOLEAN, NEW n \in BOOLEAN, ~(y /\ n), NEW stamp \in Stamps,
         plan' = [plan EXCEPT !.at = "walk", !.left = Tail(plan.left), !.stamp = None,
                              !.shared = IF y THEN Append(plan.shared, [path |-> Head(plan.left), stamp |-> stamp]) ELSE plan.shared,
                              !.differing = IF n THEN plan.differing \cup {Head(plan.left)} ELSE plan.differing]
         \/ (~y /\ ~n /\ plan.at = "walk" /\ plan' = [plan EXCEPT !.left = Tail(plan.left)]),
         tree' = tree, replan' = replan, written' = written, excuse'.unseen = excuse.unseen, excuse.outrun \subseteq excuse'.outrun,
         ~plan.committed /\ Still(Head(plan.left)) =>
           (y => Borrowed(Head(plan.left)) \/ Head(plan.left) \in excuse'.outrun) /\ (y \/ n <=> Valid(tree["lane"][Head(plan.left)]))
  PROVE  PlanInv' /\ LaneInv'
<1> DEFINE f == Head(plan.left)
           entry == [path |-> f, stamp |-> stamp]
           shared == IF y THEN Append(plan.shared, entry) ELSE plan.shared
           differing == IF n THEN plan.differing \cup {f} ELSE plan.differing
<1>2. /\ Verdicts
      /\ ~plan.committed => \A g \in Tracked : Still(g) /\ g \notin plan.moved => Spared(g)
      /\ ~plan.committed => \A g \in Files \ Linked : Still(g) /\ g \notin Range(plan.left) => Judged(g)
  BY DEF PlanInv
<1>3. /\ f \in Files \ Linked /\ f \in Range(plan.left) /\ Tail(plan.left) \in Seq(Files \ Linked) /\ IsInjective(Tail(plan.left))
      /\ Range(Tail(plan.left)) = Range(plan.left) \ {f}
  BY <1>2, HeadTail DEF Verdicts
<1>5. ~plan.committed /\ Still(f) => (y => Borrowed(f) \/ f \in excuse'.outrun) /\ (y \/ n <=> Valid(tree["lane"][f]))
  OBVIOUS
<1>6. shared \in Seq([path : Files, stamp : Stamps]) /\ \A g : g \in Paths(shared) <=> g \in Paths(plan.shared) \/ (y /\ g = f)
  <2> DEFINE X == [path : Files, stamp : Stamps]
  <2>1. entry \in X /\ entry.path = f /\ plan.shared \in Seq(X)
    BY <1>2, <1>3 DEF Verdicts
  <2> HIDE DEF X, entry
  <2>4. shared \in Seq(X) /\ \A g : g \in Paths(shared) <=> g \in Paths(plan.shared) \/ (y /\ g = f)
    <3>2. Append(plan.shared, entry) \in Seq(X) /\ \A g : g \in Paths(Append(plan.shared, entry)) <=> g \in Paths(plan.shared) \/ g = f
      BY <2>1, AppendPaths
    <3>3. y => shared = Append(plan.shared, entry)
      OBVIOUS
    <3>4. ~y => shared = plan.shared
      OBVIOUS
    <3> HIDE DEF shared
    <3>5. CASE y
      BY <3>2, <3>3, <3>5
    <3>6. CASE ~y
      BY <3>4, <3>6, <2>1
    <3> QED BY <3>5, <3>6
  <2> QED BY <2>4 DEF X
<1>7. \A g : g \in differing <=> g \in plan.differing \/ (n /\ g = f)
  OBVIOUS
<1>1. plan' = [plan EXCEPT !.at = "walk", !.left = Tail(plan.left), !.stamp = None, !.shared = shared, !.differing = differing]
      \/ (shared = plan.shared /\ differing = plan.differing /\ plan.at = "walk" /\ plan' = [plan EXCEPT !.left = Tail(plan.left)])
  OBVIOUS
<1> HIDE DEF f, shared, differing
<1>9. /\ plan'.at = "walk" /\ plan'.left = Tail(plan.left) /\ plan'.shared = shared /\ plan'.differing = differing
      /\ plan'.base = plan.base /\ plan'.moved = plan.moved /\ plan'.committed = plan.committed
  BY <1>1 DEF ValueInv
<1>10. f \notin Paths(plan.shared) /\ f \notin plan.differing
  BY <1>2, <1>3 DEF Verdicts
<1>11. Verdicts'
  <2>1. \A g : g \in Paths(shared) => g \in Files \ Linked /\ g \notin differing /\ g \notin Range(plan.left) \ {f}
    BY <1>2, <1>3, <1>6, <1>7, <1>10 DEF Verdicts
  <2>2. \A g : g \in differing => g \in Files \ Linked /\ g \notin Range(plan.left) \ {f}
    BY <1>2, <1>3, <1>7 DEF Verdicts
  <2> QED BY <1>3, <1>6, <1>9, <2>1, <2>2 DEF Verdicts
<1>12. \A g : Still(g)' <=> Still(g)
  BY DEF Still
<1>13. ASSUME ~plan.committed, NEW g \in Tracked, Still(g)', g \notin plan'.moved PROVE Spared(g)'
  BY <1>2, <1>9, <1>12, <1>13 DEF Spared, LaneText
<1>14. \A g : Borrowed(g) => Borrowed(g)'
  BY <1>9 DEF Borrowed, LaneText, TextOf
<1>15. ASSUME ~plan.committed, NEW g \in Files \ Linked, Still(g)', g \notin Range(plan'.left) PROVE Judged(g)'
  <2>1. CASE g # f
    <3>1. g \notin Range(plan.left)
      BY <2>1, <1>3, <1>9, <1>15
    <3>2. Judged(g)
      BY <3>1, <1>2, <1>12, <1>15
    <3>3. (g \in Paths(shared) <=> g \in Paths(plan.shared)) /\ (g \in differing <=> g \in plan.differing)
      BY <2>1, <1>6, <1>7
    <3> QED BY <3>2, <3>3, <1>9, <1>14 DEF Judged
  <2>2. CASE g = f
    <3>1. (f \in Paths(shared) <=> y) /\ (f \in differing <=> n)
      BY <1>6, <1>7, <1>10
    <3>2. (y => Borrowed(f) \/ f \in excuse'.outrun) /\ (y \/ n <=> Valid(tree["lane"][f]))
      BY <2>2, <1>5, <1>12, <1>15
    <3> QED BY <2>2, <3>1, <3>2, <1>9, <1>14 DEF Judged
  <2> QED BY <2>1, <2>2
<1>16. Tracked' = Tracked /\ (plan'.at = "walk" => Walking')
  BY DEF Tracked, Walking
<1> QED BY <1>9, <1>11, <1>13, <1>15, <1>16 DEF PlanInv, LaneInv

\* A file of the lane is passed over, judged by git's answers, or left to be compared.
LEMMA LaneWalk ==
  ASSUME TreeInv, ValueInv, StoresInv, PlanInv, WalkFile
  PROVE  PlanInv' /\ LaneInv'
<1> DEFINE f == Head(plan.left)  file == tree["lane"][f]
           held == BaseCurrent(f) /\ Capsule("lane", f) = Capsule("base", f)  same == held /\ f \notin plan.moved
<1>1. plan.at = "walk" /\ plan.left # <<>> /\ tree' = tree /\ replan' = replan /\ excuse' = excuse /\ written' = written
  BY DEF WalkFile
<1>2. /\ Walking /\ Sound(written, "base", plan.base) /\ Verdicts
      /\ ~plan.committed => \A g \in Tracked : Still(g) /\ g \notin plan.moved => Spared(g)
  BY <1>1 DEF PlanInv, StoresInv, Walking
<1>3. f \in Files \ Linked
  BY <1>1, <1>2, HeadTail DEF Verdicts
<1>4. file.stamp \in Stamps
  BY <1>3 DEF TreeInv, Roots
<1>5. CASE ~Valid(file) /\ plan' = [plan EXCEPT !.left = Tail(plan.left)]
  <2> HIDE DEF f, file
  <2>1. ~Valid(tree["lane"][Head(plan.left)])
    BY <1>5 DEF f, file
  <2> QED BY <1>1, <1>2, <1>4, <1>5, <2>1, LaneJudged
<1>6. CASE Valid(file) /\ ~(held /\ ByContent(f)) /\ plan' = Judge(same, file.stamp)
  <2>1. same => f \in Tracked /\ f \notin plan.moved /\ BaseCurrent(f) /\ Capsule("lane", f) = Capsule("base", f)
    BY <1>6 DEF ByContent
  <2>2. ~plan.committed /\ Still(f) => (same => Borrowed(f))
    <3> SUFFICES ASSUME ~plan.committed, Still(f), same PROVE Borrowed(f)
      OBVIOUS
    <3>1. LaneText(f) = tree["base"][f].text
      BY <1>2, <2>1 DEF Spared, BaseCurrent
    <3> QED BY <1>2, <1>3, <2>1, <3>1, SharedBorrowed
  <2> DEFINE y == same  n == ~same
  <2>3. plan' = [plan EXCEPT !.at = "walk", !.left = Tail(plan.left), !.stamp = None,
                             !.shared = IF y THEN Append(plan.shared, [path |-> f, stamp |-> file.stamp]) ELSE plan.shared,
                             !.differing = IF n THEN plan.differing \cup {f} ELSE plan.differing]
    BY <1>6, JudgeIs
  <2>4. y \in BOOLEAN /\ n \in BOOLEAN /\ ~(y /\ n) /\ (y \/ n)
    OBVIOUS
  <2> DEFINE s == file.stamp
  <2> HIDE DEF y, n, s
  <2>5. plan' = [plan EXCEPT !.at = "walk", !.left = Tail(plan.left), !.stamp = None,
                             !.shared = IF y THEN Append(plan.shared, [path |-> Head(plan.left), stamp |-> s]) ELSE plan.shared,
                             !.differing = IF n THEN plan.differing \cup {Head(plan.left)} ELSE plan.differing]
    BY <2>3 DEF s
  <2>6. ~plan.committed /\ Still(Head(plan.left)) =>
          (y => Borrowed(Head(plan.left)) \/ Head(plan.left) \in excuse'.outrun) /\ (y \/ n <=> Valid(tree["lane"][Head(plan.left)]))
    BY <2>2, <2>4, <1>6 DEF y
  <2>7. s \in Stamps
    BY <1>4 DEF s
  <2> QED BY <1>1, <1>2, <2>4, <2>5, <2>6, <2>7, LaneJudged
<1>7. CASE Valid(file) /\ held /\ ByContent(f) /\ plan' = [plan EXCEPT !.at = "compare", !.stamp = file.stamp]
  <2> DEFINE s == file.stamp
  <2> HIDE DEF s
  <2>1. /\ plan'.at = "compare" /\ plan'.stamp = s /\ plan'.left = plan.left /\ plan'.shared = plan.shared /\ plan'.moved = plan.moved
        /\ plan'.differing = plan.differing /\ plan'.base = plan.base /\ plan'.committed = plan.committed
    BY <1>7 DEF s, ValueInv
  <2>2. Verdicts'
    BY <1>2, <2>1 DEF Verdicts
  <2>3. Compared'
    BY <1>1, <1>4, <1>7, <2>1 DEF Compared, s
  <2>4. \A g : (Still(g)' <=> Still(g)) /\ (Spared(g)' <=> Spared(g)) /\ (Judged(g)' <=> Judged(g))
    BY <1>1, <2>1 DEF Still, Spared, Judged, Borrowed, LaneText, TextOf
  <2>5. Tracked' = Tracked /\ Walking'
    BY <2>1 DEF Tracked, Walking
  <2>6. ~plan.committed => \A g \in Files \ Linked : Still(g) /\ g \notin Range(plan.left) => Judged(g)
    BY <1>2 DEF PlanInv
  <2>7. ~plan.committed => \A g \in Tracked : Still(g)' /\ g \notin plan'.moved => Spared(g)'
    BY <1>2, <2>1, <2>4
  <2>8. ~plan.committed => \A g \in Files \ Linked : Still(g)' /\ g \notin Range(plan'.left) => Judged(g)'
    BY <2>1, <2>4, <2>6
  <2> QED BY <2>1, <2>2, <2>3, <2>5, <2>7, <2>8 DEF PlanInv, LaneInv
<1> QED BY <1>5, <1>6, <1>7, WalkDoes

\* A file of the lane is compared with the base's.
LEMMA LaneCompare ==
  ASSUME TreeInv, ValueInv, StoresInv, PlanInv, CompareFile
  PROVE  PlanInv' /\ LaneInv'
<1> DEFINE f == Head(plan.left)  text == tree["lane"][f].text  same == text = tree["base"][f].text /\ text \notin {Unreadable, Gone}
<1>1. plan.at = "compare" /\ tree' = tree /\ replan' = replan /\ written' = written
  BY DEF CompareFile
<1>2. Walking /\ Sound(written, "base", plan.base) /\ Compared /\ excuse \in Excuses
  BY <1>1 DEF PlanInv, StoresInv, Walking, ValueInv
<1>3. /\ f \in Files /\ plan' = Judge(same, plan.stamp)
      /\ excuse' = [excuse EXCEPT !.outrun = IF same /\ ~BaseCurrent(f) THEN excuse.outrun \cup {f} ELSE excuse.outrun]
  BY CompareDoes
<1>4. /\ excuse'.unseen = excuse.unseen /\ excuse.outrun \subseteq excuse'.outrun
      /\ same /\ ~BaseCurrent(f) => f \in excuse'.outrun
  <2> HIDE DEF f, same
  <2> QED BY <1>2, <1>3 DEF Excuses
<1>5. same => Borrowed(f) \/ f \in excuse'.outrun
  <2> SUFFICES ASSUME same, BaseCurrent(f) PROVE Borrowed(f)
    BY <1>4
  <2>1. LaneText(f) = tree["base"][f].text /\ Capsule("lane", f) = Capsule("base", f)
    BY <1>2, <1>3 DEF LaneText, Compared
  <2> QED BY <1>2, <1>3, <2>1, SharedBorrowed
<1> DEFINE y == same  n == ~same
<1>6. y \in BOOLEAN /\ n \in BOOLEAN /\ ~(y /\ n) /\ (y \/ n)
  OBVIOUS
<1>7. plan' = [plan EXCEPT !.at = "walk", !.left = Tail(plan.left), !.stamp = None,
                           !.shared = IF y THEN Append(plan.shared, [path |-> Head(plan.left), stamp |-> plan.stamp]) ELSE plan.shared,
                           !.differing = IF n THEN plan.differing \cup {Head(plan.left)} ELSE plan.differing]
  BY <1>3, JudgeIs
<1>8. Still(f) => Valid(tree["lane"][f])
  BY <1>2, <1>3 DEF Compared
<1>9. ~plan.committed /\ Still(f) => (y => Borrowed(f) \/ f \in excuse'.outrun) /\ (y \/ n <=> Valid(tree["lane"][f]))
  BY <1>5, <1>6, <1>8
<1>10. plan.left # <<>> /\ plan.stamp \in Stamps
  BY <1>2 DEF Compared
<1> HIDE DEF y, n
<1> QED BY <1>1, <1>2, <1>4, <1>6, <1>7, <1>9, <1>10, LaneJudged

-----------------------------------------------------------------------------
(* The end of a plan. *)

\* No number is more than the sum.
LEMMA SumsGrow ==
  ASSUME NEW numbers \in Seq(Nat), NEW sum, Sums(sum, numbers), NEW j \in 1..Len(numbers)
  PROVE  numbers[j] <= sum[Len(numbers)]
<1> DEFINE n == Len(numbers)  S == {k \in 0..n : k >= j => numbers[j] <= sum[k]}
<1>1. n \in Nat /\ j \in Nat /\ j >= 1 /\ j <= n /\ \A k \in 1..n : numbers[k] \in Nat
  BY ElementOfSeq
<1>2. sum \in [0..n -> Nat] /\ \A k \in 1..n : sum[k] = sum[k - 1] + numbers[k]
  BY DEF Sums
<1> HIDE DEF n
<1>3. 0 \in S
  BY <1>1
<1>4. ASSUME NEW k \in 1..n, k - 1 \in S PROVE k \in S
  <2>1. k \in Nat /\ k - 1 \in 0..n /\ k \in 0..n
    BY <1>1
  <2>2. sum[k - 1] \in Nat /\ numbers[k] \in Nat /\ numbers[j] \in Nat /\ sum[k] = sum[k - 1] + numbers[k]
    BY <2>1, <1>1, <1>2
  <2>3. CASE k = j
    <3>1. numbers[j] <= sum[k]
      BY <2>2, <2>3
    <3> QED BY <2>1, <3>1
  <2>4. CASE k # j
    <3>1. k >= j => k - 1 >= j
      BY <2>1, <2>4, <1>1
    <3>2. k >= j => numbers[j] <= sum[k - 1]
      BY <3>1, <1>4
    <3> QED BY <2>1, <2>2, <3>2
  <2> QED BY <2>3, <2>4
<1> HIDE DEF S
<1>5. 0..n \subseteq S
  BY <1>1, <1>3, <1>4, InductionUpTo
<1>6. n \in S
  BY <1>1, <1>5
<1> QED BY <1>1, <1>6 DEF S, n

\* A plan that writes nothing has no row.
LEMMA NoRows ==
  ASSUME NEW w, NEW root, NEW r, NEW previous, SoundOrNone(w, r, previous),
         NEW planned \in Seq(Good(w, root, previous)), Unique(planned), WritePlanned(planned, previous) = None
  PROVE  \A p \in Range(planned) : p.count = 0
<1>1. planned \in Seq(Piece(Stamps, Chunk)) /\ Reuses(planned, previous, Chunk)
  BY GoodPlanIsSound
<1> DEFINE counts == Counts(planned)  n == Len(planned)  chunks == FlattenSeq(RowSeqs(planned, previous))
<1>2. counts \in Seq(Nat) /\ Len(counts) = n /\ DOMAIN planned = 1..n /\ n \in Nat /\ \A i \in 1..n : counts[i] = planned[i].count
  BY <1>1, PlanType DEF Counts
<1>3. PICK sum : Sums(sum, counts)
  BY <1>2, SumsExist
<1>4. IndexOf(planned, sum, chunks) = None
  BY <1>1, <1>3, WritePlannedIs
<1> DEFINE index == [manifest |-> Listing(planned, sum), chunks |-> chunks, postings |-> PostingsOf(chunks), vectors |-> chunks]
<1>5. index \in Indexes
  <2>1. Listing(planned, sum) \in Seq(Entries)
    <3>1. Listing(planned, sum) \in Seq(Entry(Stamps))
      BY <1>1, <1>3, ListingType
    <3> QED BY <3>1 DEF Entry, Entries
  <2>2. chunks \in Seq(Chunk)
    BY <1>1, PlanTakes
  <2> HIDE DEF chunks
  <2>3. PostingsOf(chunks) \in [Readable -> SUBSET Nat]
    <3>1. \A i \in DOMAIN chunks : i - 1 \in Nat
      BY <2>2
    <3> QED BY <3>1 DEF PostingsOf
  <2> QED BY <2>1, <2>2, <2>3 DEF Indexes
<1>6. index # None
  BY <1>5, LaneAssumption
<1> HIDE DEF index, chunks, counts
<1>7. sum[n] = 0
  BY <1>4, <1>6 DEF IndexOf, index
<1>8. ASSUME NEW i \in 1..n PROVE planned[i].count = 0
  <2>1. counts[i] <= sum[n] /\ counts[i] \in Nat
    BY <1>2, <1>3, SumsGrow, ElementOfSeq
  <2> QED BY <2>1, <1>2, <1>7
<1> QED BY <1>2, <1>8 DEF Range

\* An entry of the delta is of a differing file, as the lane has it.
DeltaIs(w, d, S, tr) ==
  /\ \A f : f \in Paths(ManifestOf(d)) => f \in S /\ tr[f].text \in Readable
  /\ \A f \in S : tr[f].text \in Readable /\ Pieces[tr[f].text] > 0 => f \in Paths(ManifestOf(d))
  /\ \A f, rows : d # None /\ Lends(w, d, "lane", f, rows) => f \in S /\ rows = Chunks("lane", f, tr[f].text)

LEMMA DeltaLists ==
  ASSUME NEW w, NEW S, NEW tr, NEW kept, NEW previous, SoundOrNone(w, "lane", previous), NEW planned,
         PlansSet(planned, S, tr, kept, Good(w, "lane", previous)), NEW d, d = WritePlanned(planned, previous),
         TreeOf(w, tr), S \subseteq Files
  PROVE  DeltaIs(w, d, S, tr)
<1> SUFFICES /\ \A f : f \in Paths(ManifestOf(d)) => f \in S /\ tr[f].text \in Readable
             /\ \A f \in S : tr[f].text \in Readable /\ Pieces[tr[f].text] > 0 => f \in Paths(ManifestOf(d))
             /\ \A f, rows : d # None /\ Lends(w, d, "lane", f, rows) => f \in S /\ rows = Chunks("lane", f, tr[f].text)
  BY DEF DeltaIs
<1> DEFINE G == Good(w, "lane", previous)
<1>1. planned \in Seq(G) /\ Unique(planned) /\ \A f \in S : \E s : Part(planned, f, s) /\ FileOf(s, f, tr[f], f \in kept, G)
  BY DEF PlansSet
<1>2. CASE d = None
  <2>1. ManifestOf(d) = <<>> /\ Paths(<<>>) = {}
    BY <1>2, OneOrNone DEF ManifestOf, Paths
  <2>2. ASSUME NEW f \in S, tr[f].text \in Readable PROVE ~(Pieces[tr[f].text] > 0)
    <3>1. PICK s : Part(planned, f, s) /\ FileOf(s, f, tr[f], f \in kept, G)
      BY <1>1
    <3>2. One(s, f, tr[f].stamp, f \in kept, G)
      BY <3>1, <2>2 DEF FileOf
    <3>3. Range(s) = {s[1]} /\ s[1] \in G /\ s[1].path = f /\ s[1].stamp = tr[f].stamp
      BY <3>2, OneElement DEF One
    <3>4. s[1] \in Range(planned)
      BY <3>1, <3>3 DEF Part
    <3>5. s[1].count = 0
      BY <3>4, <1>1, <1>2, NoRows
    <3>6. Tells(w, "lane", s[1].path, s[1].stamp, s[1].count, PieceRows(s[1], previous))
      BY <3>3 DEF Good
    <3>7. s[1].count = Pieces[TextIn(w, f, tr[f].stamp)]
      BY <3>3, <3>6 DEF Tells
    <3>8. TextIn(w, f, tr[f].stamp) = tr[f].text
      BY DEF TreeOf
    <3> QED BY <3>5, <3>7, <3>8
  <2> QED BY <1>2, <2>1, <2>2
<1>3. CASE d # None
  <2>1. Sound(w, "lane", d) /\ ManifestOf(d) = d.manifest
    BY <1>1, <1>3, GoodPlanIsSound DEF ManifestOf
  <2> DEFINE m == d.manifest
  <2>2. m \in Seq(Entry(Stamps)) /\ Unique(m)
    BY <2>1 DEF Sound
  <2>3. \A f : Lists(m, f, tr, S)
    BY <1>3, WalkedLists
  <2>4. \A f : ~Current(EntryOf(m, f), tr[f]) \/ f \in Paths(m)
    BY <2>2, NoEntry DEF Current
  <2>5. ASSUME NEW f, NEW rows, Lends(w, d, "lane", f, rows) PROVE f \in S /\ rows = Chunks("lane", f, tr[f].text)
    <3>1. PICK i \in 1..Len(m) : m[i].path = f /\ Tells(w, "lane", f, m[i].stamp, m[i].count, rows)
      BY <2>5 DEF Lends
    <3>2. f \in Paths(m) /\ EntryOf(m, f) = m[i]
      BY <3>1, <2>2, PathsAre, EntryIs
    <3>3. f \in S /\ Current(EntryOf(m, f), tr[f])
      BY <3>2, <2>3 DEF Lists
    <3>4. m[i].stamp = tr[f].stamp
      BY <3>2, <3>3 DEF Current
    <3>5. TextIn(w, f, tr[f].stamp) = tr[f].text
      BY <3>3 DEF TreeOf
    <3> QED BY <3>1, <3>3, <3>4, <3>5 DEF Tells
  <2> QED BY <2>1, <2>3, <2>4, <2>5 DEF Lists
<1> QED BY <1>2, <1>3

\* The plan ends: what was judged rightly is answered rightly.
LEMMA LaneFinish ==
  ASSUME TreeInv, ValueInv, StoresInv, PlanInv, Finish
  PROVE  PlanInv' /\ LaneInv'
<1> DEFINE S == plan.differing  P == Paths(plan.shared)  tr == tree["lane"]  planned == PlanDelta(S, plan.previous)
<1>1. /\ plan.at = "walk" /\ plan.left = <<>> /\ plan'.at = "idle" /\ excuse' = [excuse EXCEPT !.committed = plan.committed]
      /\ tree' = tree /\ replan' = replan /\ written' = written /\ delta' = WritePlanned(planned, plan.previous)
  BY DEF Finish, Idle
<1>2. excuse'.committed = plan.committed /\ excuse'.unseen = excuse.unseen /\ excuse'.outrun = excuse.outrun
  BY <1>1 DEF ValueInv, Excuses
<1>3. /\ S \subseteq Files \ Linked /\ P \subseteq Files \ Linked /\ P \cap S = {}
      /\ ~plan.committed => \A f \in Files \ Linked : Still(f) => Judged(f)
      /\ Sound(written, "base", plan.base) /\ SoundOrNone(written, "lane", plan.previous)
  <2>1. Range(<<>>) = {}
    BY OneOrNone
  <2> QED BY <2>1, <1>1 DEF PlanInv, Walking, Verdicts, StoresInv
<1>4. OverlayIs(written, plan.base, plan.shared, delta', overlay')
  BY FinishDoes
<1>5. TreeOf(written, tr)
  BY TreesAre DEF Roots
<1>6. PlansSet(planned, S, tr, Kept(ManifestOf(plan.previous), tr), Good(written, "lane", plan.previous))
  BY <1>3, <1>5, PlanDeltaDoes
<1> HIDE DEF planned
<1>7. /\ \A f : f \in Paths(ManifestOf(delta')) => f \in S /\ tr[f].text \in Readable
      /\ \A f \in S : tr[f].text \in Readable /\ Pieces[tr[f].text] > 0 => f \in Paths(ManifestOf(delta'))
      /\ \A f, rows : delta' # None /\ Lends(written, delta', "lane", f, rows) => f \in S /\ rows = Chunks("lane", f, tr[f].text)
  <2> DEFINE K == Kept(ManifestOf(plan.previous), tr)
  <2>1. PlansSet(planned, S, tr, K, Good(written, "lane", plan.previous)) /\ S \subseteq Files
    BY <1>3, <1>6
  <2>2. delta' = WritePlanned(planned, plan.previous) /\ SoundOrNone(written, "lane", plan.previous) /\ TreeOf(written, tr)
    BY <1>1, <1>3, <1>5
  <2> HIDE DEF K, S, tr
  <2>3. DeltaIs(written, delta', S, tr)
    BY <2>1, <2>2, DeltaLists
  <2> QED BY <2>3 DEF DeltaIs
<1> DEFINE m == overlay'.manifest  c == OverlayChunks(overlay')
<1>8. /\ m \in Seq(Entry(Stamps))
      /\ \A e \in Range(m) : Answers(written, plan.base, plan.shared, delta', e.path, RowsOf(c, e))
      /\ \A f : f \in Paths(m) <=> (f \in P /\ f \in Paths(plan.base.manifest)) \/ f \in Paths(ManifestOf(delta'))
  BY <1>4 DEF OverlayIs, OverlaySound
<1> HIDE DEF m, c
<1>9. ASSUME NEW f, f \in Paths(m) PROVE EntryOf(m, f) \in Range(m) /\ EntryOf(m, f).path = f
  <2> DEFINE at == {i \in DOMAIN m : m[i].path = f}  k == CHOOSE i \in at : TRUE
  <2>1. \E i \in 1..Len(m) : m[i].path = f
    BY <1>8, <1>9, PathsAre
  <2>2. at # {}
    BY <2>1, <1>8
  <2>3. k \in at /\ EntryOf(m, f) = m[k]
    BY <2>2 DEF EntryOf
  <2> QED BY <2>3 DEF Range
<1>10. ASSUME ~plan.committed, NEW f \in Files \ excuse.outrun, Still(f)'
       PROVE  IF f \notin Linked /\ tr[f].text \in Readable
              THEN /\ Pieces[tr[f].text] > 0 => f \in Paths(m)
                   /\ f \in Paths(m) => RowsOf(c, EntryOf(m, f)) = Chunks("lane", f, tr[f].text)
              ELSE f \notin Paths(m)
  <2>1. Still(f)
    BY <1>1, <1>2, <1>10 DEF Still
  <2>2. CASE f \in Linked
    BY <2>2, <1>3, <1>7, <1>8
  <2>3. CASE f \notin Linked /\ f \in P /\ Borrowed(f)
    <3> DEFINE base == plan.base.manifest
    <3>1. f \in Paths(base) /\ Capsule("lane", f) = Capsule("base", f) /\ TextOf(f, EntryOf(base, f).stamp) = tr[f].text
      BY <2>3 DEF Borrowed, LaneText
    <3>2. TextIn(written, f, EntryOf(base, f).stamp) = tr[f].text
      BY <3>1 DEF TextIn, TextOf
    <3>3. tr[f].text \in Readable
      <4>1. TextIn(written, f, EntryOf(base, f).stamp) \in Readable
        BY <3>1, <1>3, SoundEntry
      <4> QED BY <3>2, <4>1
    <3>4. f \in Paths(m)
      BY <2>3, <3>1, <1>8
    <3> DEFINE rows == RowsOf(c, EntryOf(m, f))
    <3>5. Answers(written, plan.base, plan.shared, delta', f, rows)
      BY <3>4, <1>8, <1>9
    <3>6. Lends(written, plan.base, "base", f, rows)
      BY <2>3, <3>5, <1>3, <1>7 DEF Answers
    <3>7. PICK i \in 1..Len(base) : base[i].path = f /\ Tells(written, "base", f, base[i].stamp, base[i].count, rows)
      BY <3>6 DEF Lends
    <3>8. EntryOf(base, f) = base[i]
      BY <3>7, <1>3, EntryIs DEF Sound
    <3>9. rows = Chunks("base", f, tr[f].text)
      BY <3>2, <3>7, <3>8 DEF Tells
    <3>10. Chunks("base", f, tr[f].text) = Chunks("lane", f, tr[f].text)
      BY <3>1 DEF Chunks
    <3> QED BY <2>3, <3>3, <3>4, <3>9, <3>10
  <2>4. CASE f \notin Linked /\ f \in S
    <3>1. f \notin P
      BY <2>4, <1>3
    <3>2. f \in Paths(m) <=> f \in Paths(ManifestOf(delta'))
      BY <3>1, <1>8
    <3>3. tr[f].text \in Readable /\ Pieces[tr[f].text] > 0 => f \in Paths(m)
      BY <2>4, <3>2, <1>7
    <3>4. f \in Paths(m) => tr[f].text \in Readable
      BY <3>2, <1>7
    <3>5. f \in Paths(m) => RowsOf(c, EntryOf(m, f)) = Chunks("lane", f, tr[f].text)
      <4> SUFFICES ASSUME f \in Paths(m) PROVE RowsOf(c, EntryOf(m, f)) = Chunks("lane", f, tr[f].text)
        OBVIOUS
      <4> DEFINE rows == RowsOf(c, EntryOf(m, f))
      <4>1. Answers(written, plan.base, plan.shared, delta', f, rows)
        BY <1>8, <1>9
      <4>2. delta' # None /\ Lends(written, delta', "lane", f, rows)
        BY <3>1, <4>1 DEF Answers
      <4> QED BY <4>2, <1>7
    <3> QED BY <3>3, <3>4, <3>5, <2>4
  <2>5. CASE f \notin Linked /\ ~Valid(tr[f])
    <3>1. f \notin S /\ f \notin P
      BY <2>1, <2>5, <1>3, <1>10 DEF Judged
    <3>2. tr[f].text \notin Readable
      BY <2>5, WriteAssumption DEF Valid
    <3> QED BY <3>1, <3>2, <1>7, <1>8
  <2>6. f \notin Linked => Judged(f)
    BY <2>1, <1>3, <1>10
  <2> QED BY <2>2, <2>3, <2>4, <2>5, <2>6 DEF Judged
<1>11. ~excuse'.committed => \A f \in Files \ excuse'.outrun : Still(f)' => LaneFollows(f)'
  BY <1>1, <1>2, <1>10 DEF LaneFollows, m, c
<1> QED BY <1>1, <1>11 DEF PlanInv, LaneInv, Walking

\* Initially.
LEMMA LaneInit == Init => PlanInv /\ LaneInv
BY DEF Init, Idle, PlanInv, LaneInv, Walking

\* Every step.
LEMMA LaneStep ==
  ASSUME TreeInv, ValueInv, StoresInv, PlanInv, LaneInv, [Next]_vars
  PROVE  PlanInv' /\ LaneInv'
<1>1. CASE \E r \in Roots, f \in Files : Edit(r, f)
  BY <1>1, LaneEdit
<1>2. CASE Commit
  BY <1>2, LaneCommit
<1>3. CASE \E f \in Ignorable : Ignore(f)
  <2>1. excuse'.committed = excuse.committed /\ excuse'.unseen = excuse.unseen /\ excuse'.outrun = excuse.outrun
    BY <1>3 DEF Ignore, ValueInv, Excuses
  <2>2. tree' = tree /\ replan' = replan /\ plan' = plan /\ overlay' = overlay /\ head' = head
    BY <1>3 DEF Ignore
  <2>3. StillOn
    BY <2>1, <2>2 DEF StillOn, Still
  <2> QED BY <2>1, <2>2, <2>3, BothStay
<1>4. CASE RebuildChanged
  BY <1>4, RebuildChangedDoes, LaneRebuild
<1>5. CASE RebuildAll
  BY <1>5, RebuildAllDoes, LaneRebuild
<1>6. CASE Begin \/ ReadHead \/ DiffLane \/ DiffBase
  BY <1>6, LanePlanned
<1>7. CASE WalkFile
  BY <1>7, LaneWalk
<1>11. CASE CompareFile
  BY <1>11, LaneCompare
<1>8. CASE Finish
  BY <1>8, LaneFinish
<1>9. CASE Evict
  <2>1. plan'.at = "idle" /\ overlay' = None
    BY <1>9 DEF Evict
  <2> QED BY <2>1, NothingYet
<1>10. CASE UNCHANGED vars
  <2>1. tree' = tree /\ replan' = replan /\ plan' = plan /\ overlay' = overlay /\ head' = head /\ excuse' = excuse
    BY <1>10 DEF vars
  <2>2. StillOn
    BY <2>1 DEF StillOn, Still
  <2> QED BY <2>1, <2>2, BothStay
<1> QED BY <1>1, <1>2, <1>3, <1>4, <1>5, <1>6, <1>7, <1>8, <1>9, <1>10, <1>11 DEF Next

-----------------------------------------------------------------------------
(* The files of the base that outran its rows. *)

\* Initially.
LEMMA OutrunInit == Init => OutrunInv
BY DEF Init, Idle, OutrunInv

\* A step that moves no file of the base to where its index is keeps them outrun.
LEMMA OutrunStays ==
  ASSUME OutrunInv, ValueInv, ~replan' => ~replan, store' = store, excuse'.outrun = excuse.outrun, plan'.at # "idle" => plan.at # "idle" /\ plan'.base = plan.base,
         overlay' # None => overlay # None \/ plan.at # "idle",
         \A f \in Files : tree'["base"][f] = tree["base"][f] \/ ~Current(EntryOf(store.manifest, f), tree'["base"][f])
  PROVE  OutrunInv'
<1>1. excuse.outrun \subseteq Files
  BY DEF ValueInv, Excuses
<1> QED BY <1>1 DEF OutrunInv

\* Every step: a rebuild is noted by a lane, and a plan that begins has outrun nothing.
LEMMA OutrunStep ==
  ASSUME TreeInv, ValueInv, StoresInv, PlanInv, OutrunInv, [Next]_vars
  PROVE  OutrunInv'
<1>p. /\ excuse \in Excuses
      /\ plan = [at |-> plan.at, base |-> plan.base, previous |-> plan.previous, git |-> plan.git, head |-> plan.head,
                 moved |-> plan.moved, left |-> plan.left, stamp |-> plan.stamp, shared |-> plan.shared,
                 differing |-> plan.differing, committed |-> plan.committed]
  BY DEF ValueInv
<1>1. ASSUME NEW r \in Roots, NEW g \in Files, Edit(r, g) PROVE OutrunInv'
  <2>1. store' = store /\ overlay' = overlay /\ plan' = plan /\ (~replan' => ~replan)
    BY <1>1 DEF Edit
  <2>2. excuse'.outrun = excuse.outrun
    BY <1>1, <1>p DEF Edit, Excuses
  <2>3. ASSUME NEW f \in Files PROVE tree'["base"][f] = tree["base"][f] \/ ~Current(EntryOf(store.manifest, f), tree'["base"][f])
    <3>1. CASE r = "base" /\ f = g
      <4>1. tree'[r][g].stamp = <<r, Len(written[r][g]) + 1>>
        BY <1>1, EditDoes
      <4>2. Sound(written, "base", store) /\ Histories(written)
        BY DEF StoresInv, TreeInv
      <4> QED BY <3>1, <4>1, <4>2, FreshIsNotCurrent
    <3>2. CASE r # "base" \/ f # g
      BY <1>1, <3>2, EditDoes DEF Roots
    <3> QED BY <3>1, <3>2
  <2> QED BY <2>1, <2>2, <2>3, OutrunStays
<1>2. CASE Commit
  <2>1. excuse'.outrun = excuse.outrun /\ plan'.at = plan.at /\ plan'.base = plan.base
    BY <1>2, <1>p DEF Commit, Excuses
  <2> QED BY <1>2, <2>1, OutrunStays DEF Commit
<1>3. CASE \E f \in Ignorable : Ignore(f)
  <2>1. excuse'.outrun = excuse.outrun
    BY <1>3, <1>p DEF Ignore, Excuses
  <2> QED BY <1>3, <2>1, OutrunStays DEF Ignore
<1>4. ASSUME RebuildKeeps, NEW files, NEW walked, Refused(files) \/ Retried \/ Answered(files, walked) PROVE OutrunInv'
  <2>1. excuse'.outrun = excuse.outrun /\ plan' = plan /\ overlay' = overlay /\ tree' = tree
    BY <1>4, <1>p DEF RebuildKeeps, Refused, Retried, Answered, Excuses
  <2>2. CASE Refused(files) \/ Retried
    BY <2>1, <2>2, OutrunStays DEF Refused, Retried
  <2>3. CASE Answered(files, walked)
    BY <2>1, <2>3 DEF Answered, OutrunInv
  <2> QED BY <1>4, <2>2, <2>3
<1>5. CASE RebuildChanged
  BY <1>4, <1>5, RebuildChangedDoes
<1>6. CASE RebuildAll
  BY <1>4, <1>6, RebuildAllDoes
<1>7. CASE Begin
  <2>1. excuse'.outrun = {}
    BY <1>7, <1>p DEF Begin, Excuses
  <2>2. plan'.base = store /\ store' = store
    BY <1>7 DEF Begin, Idle
  <2> QED BY <2>1, <2>2 DEF OutrunInv
<1>8. CASE ReadHead \/ DiffLane \/ DiffBase
  <2>1. plan.at # "idle" /\ plan'.base = plan.base
    BY <1>8, <1>p DEF ReadHead, DiffLane, DiffBase
  <2> QED BY <1>8, <2>1, OutrunStays DEF ReadHead, DiffLane, DiffBase
<1>9. CASE WalkFile
  <2>1. \A same, stamp : Judge(same, stamp).base = plan.base
    BY JudgeKeeps
  <2>2. plan.at # "idle" /\ plan'.base = plan.base
    BY <1>9, <1>p, <2>1, WalkDoes DEF WalkFile
  <2> QED BY <1>9, <2>2, OutrunStays DEF WalkFile
<1>10. CASE CompareFile
  <2> DEFINE f == Head(plan.left)
  <2>1. \A same, stamp : Judge(same, stamp).base = plan.base
    BY JudgeKeeps
  <2>2. plan.at # "idle" /\ plan'.base = plan.base /\ store' = store /\ tree' = tree /\ replan' = replan
    BY <1>10, <2>1, CompareDoes DEF CompareFile
  <2>3. excuse'.outrun = excuse.outrun \/ (excuse'.outrun = excuse.outrun \cup {f} /\ ~BaseCurrent(f))
    <3> HIDE DEF f
    <3>1. excuse' = excuse \/ (excuse' = [excuse EXCEPT !.outrun = excuse.outrun \cup {f}] /\ ~BaseCurrent(f))
      BY <1>10, <1>p, CompareDoes DEF f, Excuses
    <3> QED BY <3>1, <1>p DEF Excuses
  <2>4. ~replan => plan.base = store /\ \A g \in excuse.outrun : ~Current(EntryOf(store.manifest, g), tree["base"][g])
    BY <2>2 DEF OutrunInv
  <2> HIDE DEF f
  <2>5. ~replan => \A g \in excuse'.outrun : ~Current(EntryOf(store.manifest, g), tree["base"][g])
    BY <2>3, <2>4 DEF BaseCurrent
  <2> QED BY <2>2, <2>4, <2>5 DEF OutrunInv
<1>11. CASE Finish
  <2>1. excuse'.outrun = excuse.outrun /\ plan'.at = "idle" /\ plan.at # "idle"
    BY <1>11, <1>p DEF Finish, Idle, Excuses
  <2> QED BY <1>11, <2>1, OutrunStays DEF Finish
<1>12. CASE Evict
  BY <1>12 DEF Evict, OutrunInv
<1>13. CASE UNCHANGED vars
  BY <1>13, OutrunStays DEF vars
<1> QED BY <1>1, <1>2, <1>3, <1>5, <1>6, <1>7, <1>8, <1>9, <1>10, <1>11, <1>12, <1>13, LaneAssumption DEF Next

-----------------------------------------------------------------------------
(* The invariant. *)

\* The inductive invariant.
Inv == TreeInv /\ ValueInv /\ StoresInv /\ QueueInv /\ PlanInv /\ LaneInv /\ OutrunInv

\* Trees, indexes, queue, plan and lane fit together in every state (see the parts above).
THEOREM Invariant == Spec => []Inv
<1>1. Init => Inv
  BY TreeInit, StoresInit, QueueInit, LaneInit, OutrunInit DEF Inv
<1>2. Inv /\ [Next]_vars => Inv'
  <2> SUFFICES ASSUME Inv, [Next]_vars PROVE Inv'
    OBVIOUS
  <2>1. TreeInv' /\ ValueInv' /\ StoresInv' /\ QueueInv'
    BY FilesStep, ValueStep, StoresStep, QueueStep DEF Inv
  <2>2. PlanInv' /\ LaneInv' /\ OutrunInv'
    BY LaneStep, OutrunStep DEF Inv
  <2> QED BY <2>1, <2>2 DEF Inv
<1> QED BY <1>1, <1>2, PTL DEF Spec

-----------------------------------------------------------------------------
(* What the invariant says of the properties. *)

\* A sound index describes its files.
LEMMA SoundDescribes ==
  ASSUME NEW r, NEW index, Sound(written, r, index)
  PROVE  Describes(r, index)
<1> DEFINE m == index.manifest
<1>1. m \in Seq(Entry(Stamps))
  BY DEF Sound
<1>2. ASSUME NEW e \in Range(m) PROVE RowsOf(index.chunks, e) = Chunks(r, e.path, TextOf(e.path, e.stamp))
  <2>1. PICK i \in 1..Len(m) : e = m[i]
    BY <1>1 DEF Range
  <2>2. Tells(written, r, e.path, e.stamp, e.count, RowsOf(index.chunks, e))
    BY <2>1 DEF Sound
  <2> QED BY <2>2 DEF Tells, TextIn, TextOf
<1>3. /\ Len(index.chunks) = Rows(index.manifest) /\ index.vectors = index.chunks
      /\ index.postings = [t \in Readable |-> {i - 1 : i \in {j \in DOMAIN index.chunks : index.chunks[j].text = t}}]
  BY DEF Sound, PostingsOf
<1> QED BY <1>2, <1>3 DEF Describes

\* The stores of a sound overlay are stores of the same rows.
LEMMA OverlayAgrees ==
  ASSUME NEW w, NEW o, OverlaySound(w, o)
  PROVE  /\ OverlayDense(o) = OverlayChunks(o)
         /\ \A e \in Range(o.manifest) : \A c \in Range(RowsOf(OverlayChunks(o), e)) : c.path = e.path
         /\ \A t \in Readable : OverlaySymbols(o, t) = {i - 1 : i \in {j \in DOMAIN OverlayChunks(o) : OverlayChunks(o)[j].text = t}}
<1> DEFINE k == KeptChunks(o.base, o.keep)  d == DeltaChunks(o.delta)  c == OverlayChunks(o)  n == Len(o.keep)  b == o.base.chunks
<1>1. c = k \o d
  BY OverlayChunksAre
<1>2. /\ b \in Seq(Chunk) /\ o.base.vectors = b /\ o.base.postings = PostingsOf(b)
      /\ o.keep \in Seq(Nat) /\ \A r \in 1..n : o.keep[r] + 1 \in 1..Len(b)
  BY DEF OverlaySound, Sound
<1>3. n \in Nat /\ k \in Seq(Chunk) /\ Len(k) = n /\ \A r \in 1..n : k[r] = b[o.keep[r] + 1]
  <2> DEFINE keep == o.keep
  <2>1. keep \in Seq(Nat) /\ DOMAIN keep = 1..n /\ n \in Nat /\ k = [r \in DOMAIN keep |-> b[keep[r] + 1]]
    BY <1>2 DEF KeptChunks
  <2>2. \A r \in 1..n : b[keep[r] + 1] \in Chunk
    BY <1>2, ElementOfSeq
  <2> HIDE DEF keep, b, n, k
  <2>3. k \in [1..n -> Chunk] /\ \A r \in 1..n : k[r] = b[keep[r] + 1]
    BY <2>1, <2>2
  <2>4. k \in Seq(Chunk) /\ Len(k) = n
    BY <2>1, <2>3
  <2> QED BY <2>1, <2>3, <2>4 DEF keep
<1>4. /\ d \in Seq(Chunk)
      /\ o.delta # None => o.delta.chunks = d /\ o.delta.vectors = d /\ o.delta.postings = PostingsOf(d)
      /\ o.delta = None => d = <<>>
  BY DEF OverlaySound, SoundOrNone, Sound, DeltaChunks
<1>5. OverlayDense(o) = c
  <2>1. OverlayDense(o) = [r \in DOMAIN o.keep |-> o.base.vectors[o.keep[r] + 1]] \o (IF o.delta = None THEN <<>> ELSE o.delta.vectors)
    BY DEF OverlayDense, OverlayStore
  <2>2. [r \in DOMAIN o.keep |-> o.base.vectors[o.keep[r] + 1]] = k
    BY <1>2 DEF KeptChunks
  <2>3. (IF o.delta = None THEN <<>> ELSE o.delta.vectors) = d
    BY <1>4
  <2> QED BY <2>1, <2>2, <2>3, <1>1
<1>6. ASSUME NEW e \in Range(o.manifest), NEW x \in Range(RowsOf(c, e)) PROVE x.path = e.path
  <2>1. PICK r \in Roots, text \in Readable : RowsOf(c, e) = Chunks(r, e.path, text)
    BY DEF OverlaySound
  <2>2. x \in Range(Chunks(r, e.path, text))
    BY <2>1, <1>6
  <2> DEFINE s == Chunks(r, e.path, text)
  <2>3. PICK i \in DOMAIN s : x = s[i]
    BY <2>2 DEF Range
  <2>4. \A j \in DOMAIN s : s[j].path = e.path
    BY DEF Chunks
  <2> HIDE DEF s
  <2> QED BY <2>3, <2>4
<1>7. ASSUME NEW t \in Readable PROVE OverlaySymbols(o, t) = {i - 1 : i \in {j \in DOMAIN c : c[j].text = t}}
  <2> HIDE DEF c, k, d, n, b
  <2>1. Joined(c, k, d, Chunk)
    BY <1>1, <1>3, <1>4, JoinedIs
  <2>2. DOMAIN c = 1..(n + Len(d)) /\ Len(d) \in Nat /\ \A p \in 1..(n + Len(d)) : c[p] = IF p <= n THEN k[p] ELSE d[p - n]
    BY <2>1, <1>3 DEF Joined
  <2>3. DOMAIN d = 1..Len(d) /\ DOMAIN b = 1..Len(b)
    BY <1>2, <1>4
  <2> DEFINE kept == {r \in 0..(n - 1) : o.keep[r + 1] \in o.base.postings[t]}
             own == IF o.delta = None THEN {} ELSE {n + r : r \in o.delta.postings[t]}
  <2>4. OverlaySymbols(o, t) = kept \cup own
    BY DEF OverlaySymbols, Split, n
  <2>5. ASSUME NEW r \in 0..(n - 1) PROVE r \in kept <=> k[r + 1].text = t
    <3>1. r + 1 \in 1..n
      BY <1>3
    <3>2. o.keep[r + 1] + 1 \in 1..Len(b) /\ k[r + 1] = b[o.keep[r + 1] + 1] /\ o.keep[r + 1] \in Nat
      BY <3>1, <1>2, <1>3 DEF n
    <3>3. o.base.postings[t] = {i - 1 : i \in {j \in DOMAIN b : b[j].text = t}}
      BY <1>2 DEF PostingsOf
    <3> DEFINE a == o.keep[r + 1]
    <3>4. r \in kept <=> a \in {i - 1 : i \in {j \in DOMAIN b : b[j].text = t}}
      BY <3>3
    <3>5. a \in Nat /\ a + 1 \in DOMAIN b
      BY <3>2, <2>3
    <3> HIDE DEF a, kept
    <3>6. a \in {i - 1 : i \in {j \in DOMAIN b : b[j].text = t}} <=> b[a + 1].text = t
      BY <3>5, <2>3
    <3> QED BY <3>2, <3>4, <3>6 DEF a
  <2>6. ASSUME NEW x PROVE x \in own <=> \E i \in 1..Len(d) : d[i].text = t /\ x = n + (i - 1)
    <3>1. CASE o.delta = None
      BY <3>1, <1>4
    <3>2. CASE o.delta # None
      <4>1. o.delta.postings[t] = {i - 1 : i \in {j \in DOMAIN d : d[j].text = t}}
        BY <3>2, <1>4 DEF PostingsOf
      <4> QED BY <3>2, <4>1, <2>3
    <3> QED BY <3>1, <3>2
  <2> HIDE DEF own
  <2>7. ASSUME NEW x PROVE x \in kept \cup own <=> \E j \in 1..(n + Len(d)) : c[j].text = t /\ x = j - 1
    <3>1. ASSUME x \in kept PROVE \E j \in 1..(n + Len(d)) : c[j].text = t /\ x = j - 1
      <4>1. x \in 0..(n - 1)
        BY <3>1
      <4>2. k[x + 1].text = t
        BY <3>1, <4>1, <2>5
      <4>3. x + 1 \in 1..(n + Len(d)) /\ x + 1 <= n /\ x = (x + 1) - 1
        BY <4>1, <1>3, <2>2
      <4> QED BY <4>2, <4>3, <2>2
    <3>2. ASSUME x \in own PROVE \E j \in 1..(n + Len(d)) : c[j].text = t /\ x = j - 1
      <4>1. PICK i \in 1..Len(d) : d[i].text = t /\ x = n + (i - 1)
        BY <3>2, <2>6
      <4>2. n + i \in 1..(n + Len(d)) /\ ~(n + i <= n) /\ (n + i) - n = i /\ x = (n + i) - 1
        BY <4>1, <1>3, <2>2
      <4> QED BY <4>1, <4>2, <2>2
    <3>3. ASSUME NEW j \in 1..(n + Len(d)), c[j].text = t, x = j - 1 PROVE x \in kept \cup own
      <4>1. CASE j <= n
        <5>1. c[j] = k[j] /\ x \in 0..(n - 1) /\ x + 1 = j
          BY <3>3, <4>1, <1>3, <2>2
        <5> QED BY <3>3, <5>1, <2>5
      <4>2. CASE ~(j <= n)
        <5>1. c[j] = d[j - n] /\ j - n \in 1..Len(d) /\ x = n + ((j - n) - 1)
          BY <3>3, <4>2, <1>3, <2>2
        <5> QED BY <3>3, <5>1, <2>6
      <4> QED BY <4>1, <4>2
    <3> HIDE DEF kept
    <3> QED BY <3>1, <3>2, <3>3
  <2> HIDE DEF kept
  <2> DEFINE goal == {i - 1 : i \in {j \in DOMAIN c : c[j].text = t}}
  <2>8. \A x : x \in goal <=> \E j \in 1..(n + Len(d)) : c[j].text = t /\ x = j - 1
    BY <2>2
  <2> HIDE DEF goal
  <2>9. kept \cup own = goal
    BY <2>7, <2>8
  <2> QED BY <2>4, <2>9 DEF goal
<1> QED BY <1>5, <1>6, <1>7

\* So the stores describe their files.
LEMMA StoresClaim == StoresInv => StoresDescribeTheirFiles
BY SoundDescribes, OverlayAgrees DEF StoresInv, SoundOrNone, StoresDescribeTheirFiles

-----------------------------------------------------------------------------
(* A build that reuses is a build that does not. *)

\* A right plan embeds what it chunks.
LEMMA GoodEmbeds ==
  ASSUME NEW w, NEW root, NEW r, NEW previous, SoundOrNone(w, r, previous),
         NEW planned \in Seq(Good(w, root, previous)), Unique(planned)
  PROVE  Embedded(planned) = Total([i \in DOMAIN planned |-> IF planned[i].reused THEN 0 ELSE planned[i].count])
<1>1. planned \in Seq(Piece(Stamps, Chunk)) /\ Reuses(planned, previous, Chunk)
  BY GoodPlanIsSound
<1>2. PICK sum : Sums(sum, Counts(planned))
  BY <1>1, PlanType, SumsExist
<1>3. Embedded(planned) = Total(FreshCounts(planned))
  BY <1>1, <1>2, WritePlannedIs
<1> QED BY <1>3 DEF FreshCounts

\* Plans of the same files write the same index, whatever they reuse.
LEMMA ReuseClaim == TreeInv /\ ValueInv /\ StoresInv => ReuseIsAFullBuild
<1> SUFFICES ASSUME TreeInv, ValueInv, StoresInv PROVE ReuseIsAFullBuild
  OBVIOUS
<1> DEFINE b == tree["base"]  l == tree["lane"]
           full(root, out) == PlanFiles(root, tree[root], out, <<>>)
           walked == PlanFiles("base", b, ignored, store.manifest)
           named == PlanChangedFiles("base", b, ignored, Files, store.manifest)
           seeded == PlanSeeded("lane", l, {}, store.manifest, "base", b)
           G(r) == Good(written, r, store)
           E == [r \in Roots |-> Good(written, r, None)]
<1>1. TreeOf(written, b) /\ TreeOf(written, l) /\ "base" \in Roots /\ "lane" \in Roots
  BY TreesAre DEF Roots
<1>2. store # None /\ Sound(written, "base", store) /\ SoundOrNone(written, "base", store) /\ ManifestOf(store) = store.manifest
  BY DEF StoresInv, SoundOrNone, ManifestOf
<1>3. /\ PlansSet(walked, Walked(b, ignored), b, Kept(store.manifest, b), G("base"))
      /\ Parts(walked, Walk(b, ignored), b, Kept(store.manifest, b), G("base")) /\ Namings(Walk(b, ignored), Walked(b, ignored))
  <2>1. /\ PlansSet(PlanFiles("base", b, ignored, ManifestOf(store)), Walked(b, ignored), b, Kept(ManifestOf(store), b), G("base"))
        /\ Parts(PlanFiles("base", b, ignored, ManifestOf(store)), Walk(b, ignored), b, Kept(ManifestOf(store), b), G("base"))
        /\ Namings(Walk(b, ignored), Walked(b, ignored))
    BY <1>1, <1>2, PlanFilesDoes
  <2> QED BY <2>1, <1>2
<1>4. ASSUME NEW r \in Roots, NEW out
      PROVE  /\ PlansSet(full(r, out), Walked(tree[r], out), tree[r], Kept(<<>>, tree[r]), Good(written, r, None))
             /\ Parts(full(r, out), Walk(tree[r], out), tree[r], Kept(<<>>, tree[r]), Good(written, r, None))
             /\ Namings(Walk(tree[r], out), Walked(tree[r], out))
  <2>1. TreeOf(written, tree[r]) /\ SoundOrNone(written, r, None) /\ ManifestOf(None) = <<>>
    BY TreesAre, SoundNone
  <2>2. /\ PlansSet(PlanFiles(r, tree[r], out, ManifestOf(None)), Walked(tree[r], out), tree[r], Kept(ManifestOf(None), tree[r]), Good(written, r, None))
        /\ Parts(PlanFiles(r, tree[r], out, ManifestOf(None)), Walk(tree[r], out), tree[r], Kept(ManifestOf(None), tree[r]), Good(written, r, None))
        /\ Namings(Walk(tree[r], out), Walked(tree[r], out))
    BY <2>1, PlanFilesDoes
  <2> QED BY <2>1, <2>2
<1>5. /\ PlansSet(seeded, Walked(l, {}), l, Lent("lane", l, store, "base", b), G("lane"))
      /\ Parts(seeded, Walk(l, {}), l, Lent("lane", l, store, "base", b), G("lane"))
  BY <1>1, <1>2, PlanSeededDoes
<1>6. PlansChanged(named, ChangedIndexedPaths(Files, ignored), b, store, G("base"))
  BY <1>1, <1>2, PlanChangedDoes
<1> HIDE DEF walked, named, seeded, full, b, l
<1>7. WritePlanned(walked, store) = WritePlanned(full("base", ignored), None)
  <2>1. Walk(b, ignored) \in Seq(Files) /\ Unique(walked)
    BY <1>3 DEF Namings, PlansSet
  <2>2. Unique(full("base", ignored)) /\ Parts(full("base", ignored), Walk(b, ignored), b, Kept(<<>>, b), Good(written, "base", None))
    BY <1>1, <1>4 DEF PlansSet, b
  <2>3. SoundOrNone(written, "base", None)
    BY SoundNone
  <2> QED BY <1>2, <1>3, <2>1, <2>2, <2>3, SameWrites
<1>8. WritePlanned(seeded, store) = WritePlanned(full("lane", {}), None)
  <2>1. Walk(l, {}) \in Seq(Files) /\ Unique(seeded)
    BY <1>1, <1>4, <1>5 DEF Namings, PlansSet, l
  <2>2. Unique(full("lane", {})) /\ Parts(full("lane", {}), Walk(l, {}), l, Kept(<<>>, l), Good(written, "lane", None))
    BY <1>1, <1>4 DEF PlansSet, l
  <2>3. SoundOrNone(written, "lane", None)
    BY SoundNone
  <2> QED BY <1>2, <1>5, <2>1, <2>2, <2>3, SameWrites
<1>9. ASSUME NEW p \in {walked, named, seeded}
      PROVE  Embedded(p) = Total([i \in DOMAIN p |-> IF p[i].reused THEN 0 ELSE p[i].count])
  <2>1. Unique(p) /\ (p \in Seq(Good(written, "base", store)) \/ p \in Seq(Good(written, "lane", store)))
    BY <1>3, <1>5, <1>6 DEF PlansSet, PlansChanged
  <2> QED BY <2>1, <1>2, GoodEmbeds
<1> QED BY <1>7, <1>8, <1>9 DEF ReuseIsAFullBuild, full, walked, named, seeded, b, l

-----------------------------------------------------------------------------
(* What the checks find is what the plan does. *)

\* The files a plan chunks.
FreshPaths(planned) == {planned[i].path : i \in {j \in DOMAIN planned : ~planned[j].reused}}

\* The paths of a plan, and of what it chunks.
LEMMA PlanPaths ==
  ASSUME NEW G, NEW planned \in Seq(G), NEW f
  PROVE  /\ f \in Paths(planned) <=> \E p \in Range(planned) : p.path = f
         /\ f \in FreshPaths(planned) <=> \E p \in Range(planned) : p.path = f /\ ~p.reused
BY DEF Paths, FreshPaths, Range

\* Whether a file is in a plan, and chunked.
LEMMA FileFresh ==
  ASSUME NEW G, NEW planned \in Seq(G), NEW f, NEW s, Part(planned, f, s)
  PROVE  /\ s = <<>> => f \notin Paths(planned) /\ f \notin FreshPaths(planned)
         /\ \A stamp, reused : One(s, f, stamp, reused, G) => f \in Paths(planned) /\ (f \in FreshPaths(planned) <=> ~reused)
<1>1. ASSUME s = <<>> PROVE f \notin Paths(planned) /\ f \notin FreshPaths(planned)
  BY <1>1, PlanPaths, OneOrNone DEF Part
<1>2. ASSUME NEW stamp, NEW reused, One(s, f, stamp, reused, G)
      PROVE  f \in Paths(planned) /\ (f \in FreshPaths(planned) <=> ~reused)
  <2>1. Range(s) = {s[1]} /\ s[1].path = f /\ s[1].reused = reused
    BY <1>2, OneElement DEF One
  <2>2. \A p : (p \in Range(planned) /\ p.path = f) <=> p = s[1]
    BY <2>1 DEF Part
  <2> QED BY <2>1, <2>2, PlanPaths
<1> QED BY <1>1, <1>2

\* The files in the plan of a walk, and those it chunks.
LEMMA SetFresh ==
  ASSUME NEW planned, NEW S, NEW tr, NEW kept, NEW G, PlansSet(planned, S, tr, kept, G), NEW f
  PROVE  /\ f \in Paths(planned) <=> f \in S /\ tr[f].text \in Readable
         /\ f \in FreshPaths(planned) <=> f \in S /\ tr[f].text \in Readable /\ f \notin kept
<1>1. planned \in Seq(G) /\ \A p \in Range(planned) : p.path \in S
  BY DEF PlansSet
<1>2. CASE f \notin S
  BY <1>1, <1>2, PlanPaths
<1>3. CASE f \in S
  <2>1. PICK s : Part(planned, f, s) /\ FileOf(s, f, tr[f], f \in kept, G)
    BY <1>3 DEF PlansSet
  <2>2. CASE tr[f].text \in Readable
    <3>1. One(s, f, tr[f].stamp, f \in kept, G)
      BY <2>1, <2>2 DEF FileOf
    <3>2. f \in Paths(planned) /\ (f \in FreshPaths(planned) <=> ~(f \in kept))
      BY <1>1, <2>1, <3>1, FileFresh
    <3> QED BY <1>3, <2>2, <3>2
  <2>3. CASE tr[f].text \notin Readable
    <3>1. s = <<>>
      BY <2>1, <2>3 DEF FileOf
    <3>2. f \notin Paths(planned) /\ f \notin FreshPaths(planned)
      BY <1>1, <2>1, <3>1, FileFresh
    <3> QED BY <2>3, <3>2
  <2> QED BY <2>2, <2>3
<1> QED BY <1>2, <1>3

\* The files in the plan of a change set, and those it chunks.
LEMMA ChangedFresh ==
  ASSUME NEW planned, NEW touched, NEW tr, NEW previous, NEW G, PlansChanged(planned, touched, tr, previous, G),
         previous # None, previous.manifest \in Seq(Entry(Stamps)), touched \subseteq Files, NEW f
  PROVE  /\ f \in Paths(planned) <=> IF f \in touched THEN tr[f].text \in Readable ELSE f \in Paths(previous.manifest)
         /\ f \in FreshPaths(planned) <=> f \in touched /\ tr[f].text \in Readable /\ ~Current(EntryOf(previous.manifest, f), tr[f])
<1> DEFINE m == previous.manifest
<1>1. planned \in Seq(G)
  BY DEF PlansChanged
<1>2. CASE f \in touched
  <2>1. PICK s : Part(planned, f, s) /\ FileOf(s, f, tr[f], f \in Kept(ManifestOf(previous), tr), G)
    BY <1>2 DEF PlansChanged
  <2>2. f \in Kept(ManifestOf(previous), tr) <=> Current(EntryOf(m, f), tr[f])
    BY <1>2 DEF Kept, ManifestOf
  <2>3. CASE tr[f].text \in Readable
    <3>1. One(s, f, tr[f].stamp, f \in Kept(ManifestOf(previous), tr), G)
      BY <2>1, <2>3 DEF FileOf
    <3>2. f \in Paths(planned) /\ (f \in FreshPaths(planned) <=> ~(f \in Kept(ManifestOf(previous), tr)))
      BY <1>1, <2>1, <3>1, FileFresh
    <3> QED BY <1>2, <2>2, <2>3, <3>2
  <2>4. CASE tr[f].text \notin Readable
    <3>1. s = <<>>
      BY <2>1, <2>4 DEF FileOf
    <3>2. f \notin Paths(planned) /\ f \notin FreshPaths(planned)
      BY <1>1, <2>1, <3>1, FileFresh
    <3> QED BY <1>2, <2>4, <3>2
  <2> QED BY <2>3, <2>4
<1>3. CASE f \notin touched /\ f \in Paths(m)
  <2>1. PICK i \in 1..Len(m) : m[i].path = f
    BY <1>3, PathsAre
  <2>2. PICK s : Part(planned, f, s) /\ One(s, f, m[i].stamp, TRUE, G)
    BY <1>3, <2>1 DEF PlansChanged
  <2> QED BY <1>1, <1>3, <2>2, FileFresh
<1>4. CASE f \notin touched /\ f \notin Paths(m)
  <2>1. Part(planned, f, <<>>)
    BY <1>4 DEF PlansChanged
  <2> QED BY <1>1, <1>4, <2>1, FileFresh
<1> QED BY <1>2, <1>3, <1>4

\* A file a walk reaches and cannot read is unreadable.
LEMMA ValidText ==
  ASSUME TreeInv, NEW r \in Roots, NEW f \in Files
  PROVE  /\ Valid(tree[r][f]) => tree[r][f].text \in Readable \/ tree[r][f].text = Unreadable
         /\ tree[r][f].text \in Readable => Valid(tree[r][f])
         /\ tree[r][f].text \in Readable => tree[r][f].text # Gone
<1>1. tree[r][f].text \in Texts
  BY DEF TreeInv
<1> QED BY <1>1, WriteAssumption DEF Texts, Valid

\* The check of a change set judges its plan.
LEMMA ChangedChecks ==
  ASSUME TreeInv, ValueInv, StoresInv, NEW changed \in SUBSET Files, NEW named,
         named = PlanChangedFiles("base", tree["base"], ignored, changed, store.manifest)
  PROVE  /\ FreshPaths(named) = {} /\ Paths(named) = Paths(store.manifest) =>
              ~ChangeSetMovesAnything(tree["base"], ignored, changed, store.manifest) \/ \E f \in changed : tree["base"][f].text = Unreadable
         /\ ~ChangeSetMovesAnything(tree["base"], ignored, changed, store.manifest) =>
              FreshPaths(named) = {} /\ Paths(named) = Paths(store.manifest)
         /\ FreshPaths(named) \subseteq EstimateChangedPaths(tree["base"], ignored, changed, store.manifest)
<1> DEFINE tr == tree["base"]  m == store.manifest  touched == ChangedIndexedPaths(changed, ignored)
           moves == ChangeSetMovesAnything(tr, ignored, changed, m)
<1>1. TreeOf(written, tr) /\ "base" \in Roots
  BY TreesAre DEF Roots
<1>2. store # None /\ Sound(written, "base", store) /\ m \in Seq(Entry(Stamps))
  BY DEF StoresInv, Sound
<1>3. touched \subseteq changed /\ touched \subseteq Files
  BY DEF ChangedIndexedPaths
<1>4. \A f : /\ f \in Paths(named) <=> IF f \in touched THEN tr[f].text \in Readable ELSE f \in Paths(m)
             /\ f \in FreshPaths(named) <=> f \in touched /\ tr[f].text \in Readable /\ ~Current(EntryOf(m, f), tr[f])
  <2>1. PlansChanged(named, touched, tr, store, Good(written, "base", store))
    BY <1>1, <1>2, PlanChangedDoes
  <2> QED BY <2>1, <1>2, <1>3, ChangedFresh
<1>5. \A f \in touched : /\ Valid(tr[f]) => tr[f].text \in Readable \/ tr[f].text = Unreadable
                         /\ tr[f].text \in Readable => Valid(tr[f])
                         /\ tr[f].text \in Readable => tr[f].text # Gone
  BY <1>1, <1>3, ValidText
<1>6. moves <=> \E f \in touched : IF Valid(tr[f]) THEN ~Current(EntryOf(m, f), tr[f]) ELSE f \in Paths(m)
  BY DEF ChangeSetMovesAnything
<1>7. ~moves => \A f \in Files : ListsOn(m, m, f, tr, touched)
  BY <1>1, <1>2, UnmovedChangedLists
<1>8. FreshPaths(named) \subseteq EstimateChangedPaths(tr, ignored, changed, m)
  BY <1>4, <1>5 DEF EstimateChangedPaths, StillWork
<1> HIDE DEF tr, m, touched, moves
<1>9. FreshPaths(named) = {} /\ Paths(named) = Paths(m) => ~moves \/ \E f \in changed : tr[f].text = Unreadable
  BY <1>3, <1>4, <1>5, <1>6
<1>10. ~moves => FreshPaths(named) = {} /\ Paths(named) = Paths(m)
  <2> SUFFICES ASSUME ~moves PROVE FreshPaths(named) = {} /\ Paths(named) = Paths(m)
    OBVIOUS
  <2>1. \A f \in touched : IF tr[f].text \in Readable THEN Current(EntryOf(m, f), tr[f]) ELSE f \notin Paths(m)
    BY <1>3, <1>7 DEF ListsOn
  <2>2. \A f : ~Current(EntryOf(m, f), tr[f]) \/ f \in Paths(m)
    BY <1>2, NoEntry DEF Current, m
  <2>3. \A f : f \in Paths(named) <=> f \in Paths(m)
    BY <1>4, <2>1, <2>2
  <2>4. \A f : f \notin FreshPaths(named)
    BY <1>4, <2>1
  <2>5. Paths(named) = Paths(m)
    BY <2>3
  <2> QED BY <2>4, <2>5
<1> QED BY <1>8, <1>9, <1>10 DEF tr, m, moves

\* The check of a tree judges the plan of its walk.
LEMMA TreeChecks ==
  ASSUME TreeInv, ValueInv, StoresInv, NEW walked, walked = PlanFiles("base", tree["base"], ignored, store.manifest)
  PROVE  /\ FreshPaths(walked) = {} /\ Paths(walked) = Paths(store.manifest) =>
              ~TreeMovesAnything(tree["base"], ignored, store.manifest) \/ \E f \in Files : tree["base"][f].text = Unreadable
         /\ ~TreeMovesAnything(tree["base"], ignored, store.manifest) =>
              FreshPaths(walked) = {} /\ Paths(walked) = Paths(store.manifest)
         /\ FreshPaths(walked) \subseteq EstimateTree(tree["base"], ignored, store.manifest)
<1> DEFINE tr == tree["base"]  m == store.manifest  names == Walk(tr, ignored)  S == Walked(tr, ignored)
           moves == TreeMovesAnything(tr, ignored, m)
<1>1. TreeOf(written, tr) /\ "base" \in Roots
  BY TreesAre DEF Roots
<1>2. store # None /\ Sound(written, "base", store) /\ SoundOrNone(written, "base", store) /\ ManifestOf(store) = m
      /\ m \in Seq(Entry(Stamps)) /\ Unique(m)
  BY DEF StoresInv, Sound, SoundOrNone, ManifestOf
<1>3. PlansSet(walked, S, tr, Kept(m, tr), Good(written, "base", store)) /\ Namings(names, S)
  BY <1>1, <1>2, PlanFilesDoes
<1>4. \A f : /\ f \in Paths(walked) <=> f \in S /\ tr[f].text \in Readable
             /\ f \in FreshPaths(walked) <=> f \in S /\ tr[f].text \in Readable /\ f \notin Kept(m, tr)
  BY <1>3, SetFresh
<1>5. /\ S \subseteq Files \ (ignored \cup Linked)
      /\ \A f \in S : /\ tr[f].text \in Readable \/ tr[f].text = Unreadable
                      /\ tr[f].text \in Readable => tr[f].text # Gone
                      /\ f \in Kept(m, tr) <=> Current(EntryOf(m, f), tr[f])
  <2>1. S \subseteq Files \ (ignored \cup Linked) /\ \A f \in S : Valid(tr[f])
    BY DEF Walked
  <2> QED BY <2>1, <1>1, ValidText DEF Kept
<1>6. moves <=> (\E f \in S : ~Current(EntryOf(m, f), tr[f])) \/ Len(names) # Len(m)
  BY <1>3 DEF TreeMovesAnything, Namings
<1>7. ~moves => \A f : Lists(m, f, tr, S)
  BY <1>1, <1>2, UnmovedLists
<1>8. names \in Seq(Files) /\ (S = Paths(m) => Len(names) = Len(m))
  BY <1>2, <1>3, SameLength DEF Namings
<1>9. FreshPaths(walked) \subseteq EstimateTree(tr, ignored, m)
  BY <1>4, <1>5 DEF EstimateTree, StillWork
<1> HIDE DEF tr, m, names, S, moves
<1>10. FreshPaths(walked) = {} /\ Paths(walked) = Paths(m) => ~moves \/ \E f \in Files : tr[f].text = Unreadable
  <2> SUFFICES ASSUME FreshPaths(walked) = {}, Paths(walked) = Paths(m), \A f \in Files : tr[f].text # Unreadable PROVE ~moves
    OBVIOUS
  <2>1. \A f \in S : tr[f].text \in Readable /\ Current(EntryOf(m, f), tr[f])
    BY <1>4, <1>5
  <2>2. S = Paths(m)
    BY <1>4, <2>1
  <2> QED BY <2>1, <2>2, <1>6, <1>8
<1>11. ~moves => FreshPaths(walked) = {} /\ Paths(walked) = Paths(m)
  <2> SUFFICES ASSUME ~moves PROVE FreshPaths(walked) = {} /\ Paths(walked) = Paths(m)
    OBVIOUS
  <2>1. \A f : IF f \in S /\ tr[f].text \in Readable THEN Current(EntryOf(m, f), tr[f]) ELSE f \notin Paths(m)
    BY <1>7 DEF Lists
  <2>2. \A f : ~Current(EntryOf(m, f), tr[f]) \/ f \in Paths(m)
    BY <1>2, NoEntry DEF Current
  <2>3. \A f : f \in Paths(walked) <=> f \in Paths(m)
    BY <1>4, <2>1, <2>2
  <2>4. \A f : f \notin FreshPaths(walked)
    BY <1>4, <1>5, <1>6
  <2>5. Paths(walked) = Paths(m)
    BY <2>3
  <2> QED BY <2>4, <2>5
<1> QED BY <1>9, <1>10, <1>11 DEF tr, m, moves

\* Both.
LEMMA ChecksClaim == TreeInv /\ ValueInv /\ StoresInv => ChecksFollowThePlan
BY ChangedChecks, TreeChecks DEF ChecksFollowThePlan, FreshPaths

-----------------------------------------------------------------------------
(* What is settled. *)

\* Without a change waiting, the index lists the walk.
LEMMA IndexClaim == TreeInv /\ ValueInv /\ StoresInv /\ QueueInv => SettledIndexFollowsTree
<1> SUFFICES ASSUME TreeInv, ValueInv, StoresInv, QueueInv, queue = NoChange,
                    NEW f \in Files \ (Linked \cup excuse.refused \cup excuse.ruled), <<"base", f>> \notin excuse.unseen
             PROVE  IF f \in Range(Walk(tree["base"], ignored)) /\ tree["base"][f].text \in Readable
                    THEN Current(EntryOf(store.manifest, f), tree["base"][f])
                    ELSE f \notin Paths(store.manifest)
  BY DEF SettledIndexFollowsTree
<1>1. TreeOf(written, tree["base"]) /\ "base" \in Roots /\ SoundOrNone(written, "base", None)
  BY TreesAre, SoundNone DEF Roots
<1>2. Namings(Walk(tree["base"], ignored), Walked(tree["base"], ignored))
  BY <1>1, PlanFilesDoes
<1>3. Follows(f)
  BY DEF QueueInv, NoChange
<1>4. tree["base"][f].text \in Readable => Valid(tree["base"][f])
  BY <1>1, ValidText
<1> QED BY <1>2, <1>3, <1>4 DEF Follows, Namings, Walked

\* Without a change noted, the lane answers with its files.
LEMMA LaneClaim == LaneInv /\ OutrunInv => SettledLaneFollowsTree
BY DEF LaneInv, OutrunInv, LaneFollows, Still, SettledLaneFollowsTree

\* The types.
LEMMA TypeClaim == TreeInv /\ ValueInv => TypeOK
<1> SUFFICES ASSUME TreeInv, ValueInv PROVE TypeOK
  OBVIOUS
<1>1. ASSUME NEW r \in Roots, NEW f \in Files
      PROVE  tree[r][f].text \in Contents[f] /\ TextOf(f, tree[r][f].stamp) = tree[r][f].text
  <2>1. tree[r][f].stamp = <<r, Len(written[r][f])>> /\ tree[r][f].text = written[r][f][Len(written[r][f])] /\ tree[r][f].text \in Contents[f]
    BY DEF TreeInv
  <2> QED BY <2>1 DEF TextOf
<1> QED BY <1>1 DEF TypeOK, ValueInv

\* Type correctness: a file's stamp stands for the text it holds.
THEOREM TypeIsCorrect == Spec => []TypeOK
BY Invariant, TypeClaim, PTL DEF Inv

\* Whatever was edited, removed, reused and rebuilt in between, every entry of the base's index and of
\* the delta finds its own rows in all stores, and an overlay's names and vectors are those of its rows.
THEOREM StoresAreRight == Spec => []StoresDescribeTheirFiles
BY Invariant, StoresClaim, PTL DEF Inv

\* A build that reuses what it can writes the index of a build that reuses nothing, seeded from a
\* sibling or not, and buys vectors for the files it chunks alone.
THEOREM ReuseIsFull == Spec => []ReuseIsAFullBuild
BY Invariant, ReuseClaim, PTL DEF Inv

\* The checks that skip or refuse a rebuild judge the plan it would make.
THEOREM ChecksAreRight == Spec => []ChecksFollowThePlan
BY Invariant, ChecksClaim, PTL DEF Inv

\* With no change waiting, the base's index lists what a walk would, but for the excused paths.
THEOREM IndexSettles == Spec => []SettledIndexFollowsTree
BY Invariant, IndexClaim, PTL DEF Inv

\* With no change noted and no commit between git's answers, a lane answers with its own files, but for
\* those whose copy in the base became theirs between its stat and the comparison, and for these as soon
\* as the base's index lists that copy.
THEOREM LaneSettles == Spec => []SettledLaneFollowsTree
BY Invariant, LaneClaim, PTL DEF Inv

===============================================================================
