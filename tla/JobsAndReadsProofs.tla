--------------------------- MODULE JobsAndReadsProofs ---------------------------
(***************************************************************************)
(* Proofs about the two parts that share out the daemon's work: GraphJobs, *)
(* for any roots, lanes, passes and bounds, and ReadAdmission, for any     *)
(* finite set of requests and any number of slots.                         *)
(*                                                                         *)
(* GraphJobs.  The inductive invariant IInv has one part per thing the     *)
(* properties are about: the turn (its flag and its one owner agree), the  *)
(* memory limit (lowered by the owner of a worker, who remembers that it   *)
(* was full) and what each job owes (covered by its running, its coming or *)
(* its follow-up pass).                                                    *)
(*                                                                         *)
(* ReadAdmission.  AdmissionInv joins the counters to what they count;     *)
(* that a free permit never sleeps beside a waiter (NoLostWakeup) is       *)
(* inductive with the types alone.                                         *)
(***************************************************************************)
EXTENDS GraphJobs, ReadAdmission, FiniteSetTheorems, TLAPS

\* The turn has one owner exactly when the flag is set.
TurnInv ==
  /\ \A r, s \in Roots : pc[r] \in InTurn /\ pc[s] \in InTurn => r = s
  /\ turnHeld <=> \E r \in Roots : pc[r] \in InTurn

\* A worker's job lowered a limit that was full.
LimitInv ==
  /\ limit = "reserve" => \E r \in Roots : pc[r] \in HasWorker
  /\ \A r \in Roots : pc[r] \in HasWorker => saved[r] = "full"

\* The change set a job's pass covers: what its worker was sent and reads, or
\* what the pass will send.
Covered(r) == IF pc[r] \in {"building", "reaping"} THEN taken[r] ELSE FilesOf(paths[r])

\* A job covers all it owes; without a job nothing is owed.
DebtInv ==
  \A r \in Roots :
    /\ pc[r] = "none" => owing[r] = {} /\ pending[r] = Nothing
    /\ pc[r] # "none" => owing[r] \subseteq Covered(r) \cup FilesOf(pending[r])

IInv == TypeOK /\ TurnInv /\ LimitInv /\ DebtInv

-----------------------------------------------------------------------------
(* What the helpers do. *)

LEMMA ChangeSetFacts ==
  /\ Nothing \in ChangeSets /\ FilesOf(Nothing) = {}
  /\ All \in ChangeSets /\ FilesOf(All) = Files
  /\ \A F \in SUBSET Files : Named(F) \in ChangeSets /\ FilesOf(Named(F)) = F /\ Named(F) # Nothing
  /\ \A c \in ChangeSets : FilesOf(c) \subseteq Files /\ c.files \subseteq FilesOf(c)
  /\ All # Nothing
BY DEF Nothing, All, Named, ChangeSets, FilesOf

\* Folding a change set in keeps what is pending and adds the change set.
LEMMA FoldInCovers ==
  ASSUME TypeOK, NEW r \in Roots, NEW c \in ChangeSets, FoldIn(r, c)
  PROVE  /\ pending' \in [Roots -> ChangeSets]
         /\ \A s \in Roots \ {r} : pending'[s] = pending[s]
         /\ FilesOf(pending[r]) \cup FilesOf(c) \subseteq FilesOf(pending'[r])
<1> DEFINE both == pending[r].files \cup c.files
<1>1. pending[r] \in ChangeSets
  BY DEF TypeOK
<1>2. both \in SUBSET Files
  BY <1>1 DEF ChangeSets
<1>3. PICK new \in ChangeSets : /\ new = All \/ (new = Named(both) /\ pending[r].kind # "all" /\ c.kind # "all")
                                /\ pending' = [pending EXCEPT ![r] = new]
  BY <1>2, ChangeSetFacts DEF FoldIn
<1>4. FilesOf(pending[r]) \cup FilesOf(c) \subseteq FilesOf(new)
  <2>1. CASE new = All
    BY <2>1, <1>1, ChangeSetFacts
  <2>2. CASE new = Named(both) /\ pending[r].kind # "all" /\ c.kind # "all"
    BY <2>2, <1>2, ChangeSetFacts DEF FilesOf
  <2> QED BY <2>1, <2>2, <1>3
<1> QED BY <1>3, <1>4 DEF TypeOK

LEMMA WithoutTyped ==
  ASSUME TypeOK, NEW r \in Roots
  PROVE  Without(r) \in [Roots -> Nat]
BY DEF TypeOK, Without

\* The owner of the turn hands it to a waiter or frees it, and goes on at next.
LEMMA PassTurnKeeps ==
  ASSUME TypeOK, TurnInv, NEW r \in Roots, pc[r] \in InTurn,
         NEW next \in {"none", "begin"}, PassTurn(r, next)
  PROVE  /\ TurnInv'
         /\ pc' \in [Roots -> InTurn \cup {"none", "begin", "queued"}]
         /\ ticket' \in [Roots -> Nat] /\ turnHeld' \in BOOLEAN
         /\ pc'[r] = next
         /\ \A s \in Roots \ {r} : pc'[s] = pc[s] \/ (pc[s] = "queued" /\ pc'[s] = "turn" /\ IsNext(s))
<1>1. CASE /\ \A s \in Roots : pc[s] # "queued"
           /\ turnHeld' = FALSE
           /\ pc' = [pc EXCEPT ![r] = next]
           /\ UNCHANGED ticket
  BY <1>1 DEF TypeOK, TurnInv, InTurn
<1>2. ASSUME NEW s \in Roots, IsNext(s), pc' = [pc EXCEPT ![r] = next, ![s] = "turn"],
             ticket' = Without(s), UNCHANGED turnHeld
      PROVE  /\ TurnInv'
             /\ pc' \in [Roots -> InTurn \cup {"none", "begin", "queued"}]
             /\ ticket' \in [Roots -> Nat] /\ turnHeld' \in BOOLEAN
             /\ pc'[r] = next
             /\ \A q \in Roots \ {r} : pc'[q] = pc[q] \/ (pc[q] = "queued" /\ pc'[q] = "turn" /\ IsNext(q))
  <2>1. s # r /\ pc[s] = "queued"
    BY <1>2 DEF IsNext, InTurn
  <2>2. pc'[s] = "turn" /\ pc'[r] = next /\ \A q \in Roots \ {r, s} : pc'[q] = pc[q]
    BY <1>2, <2>1 DEF TypeOK
  <2>3. pc' \in [Roots -> InTurn \cup {"none", "begin", "queued"}]
    BY <1>2 DEF TypeOK, InTurn
  <2>4. TurnInv'
    BY <1>2, <2>1, <2>2, <2>3 DEF TurnInv, InTurn
  <2> QED BY <1>2, <2>1, <2>2, <2>3, <2>4, WithoutTyped DEF TypeOK
<1> QED BY <1>1, <1>2 DEF PassTurn

-----------------------------------------------------------------------------

\* What the end of a job leaves of the data.
LEMMA JobOverKeeps ==
  ASSUME TypeOK, DebtInv, NEW r \in Roots, JobOver(r), owing' = [owing EXCEPT ![r] = {}],
         pc'[r] = "none",
         \A s \in Roots \ {r} : pc'[s] = pc[s] \/ (pc[s] = "queued" /\ pc'[s] = "turn")
  PROVE  /\ DebtInv'
         /\ paths' \in [Roots -> ChangeSets] /\ pending' \in [Roots -> ChangeSets]
         /\ owing' \in [Roots -> SUBSET Files] /\ taken' \in [Roots -> SUBSET Files]
         /\ pass' \in [Passes -> {"idle", "indexing", "joined", "landed"}]
         /\ announced' \subseteq Roots /\ asks' \in 0..MaxAsks /\ closing' \in BOOLEAN
         /\ cancelled' \subseteq Roots
<1>1. /\ paths' \in [Roots -> ChangeSets] /\ pending' \in [Roots -> ChangeSets]
      /\ owing' \in [Roots -> SUBSET Files] /\ taken' \in [Roots -> SUBSET Files]
  BY ChangeSetFacts DEF JobOver, TypeOK
<1>2. /\ pass' \in [Passes -> {"idle", "indexing", "joined", "landed"}]
      /\ announced' \subseteq Roots /\ asks' \in 0..MaxAsks /\ closing' \in BOOLEAN
      /\ cancelled' \subseteq Roots
  BY DEF JobOver, TypeOK
<1>3. ASSUME NEW s \in Roots
      PROVE  /\ pc'[s] = "none" => owing'[s] = {} /\ pending'[s] = Nothing
             /\ pc'[s] # "none" => owing'[s] \subseteq Covered(s)' \cup FilesOf(pending'[s])
  <2>1. CASE s = r
    BY <2>1, <1>1 DEF JobOver, TypeOK
  <2>2. CASE s # r
    <3>1. owing'[s] = owing[s] /\ pending'[s] = pending[s] /\ paths'[s] = paths[s] /\ taken'[s] = taken[s]
      BY <2>2 DEF JobOver, TypeOK
    <3>2. /\ pc'[s] = "none" <=> pc[s] = "none"
          /\ pc'[s] \in {"building", "reaping"} <=> pc[s] \in {"building", "reaping"}
      BY <2>2
    <3>3. Covered(s)' = Covered(s)
      BY <3>1, <3>2 DEF Covered, FilesOf
    <3> QED BY <3>1, <3>2, <3>3 DEF DebtInv
  <2> QED BY <2>1, <2>2
<1>4. DebtInv'
  BY <1>3 DEF DebtInv, FilesOf
<1> QED BY <1>1, <1>2, <1>4

\* A job fails or is dropped with the turn in its hands, its limit restored.
LEMMA OverInTurn ==
  ASSUME IInv, NEW r \in Roots, pc[r] \in InTurn, PassTurn(r, "none"), JobOver(r),
         owing' = [owing EXCEPT ![r] = {}],
         indexLock' \in Roots \cup {NoRoot, Loader}, saved' \in [Roots -> {"full", "reserve"}],
         (limit' = limit /\ pc[r] \notin HasWorker) \/ limit' = "full",
         \A s \in Roots \ {r} : saved'[s] = saved[s],
         ready' \subseteq Roots, UNCHANGED gone
  PROVE  IInv'
<1>1. /\ TurnInv'
      /\ pc' \in [Roots -> InTurn \cup {"none", "begin", "queued"}]
      /\ ticket' \in [Roots -> Nat] /\ turnHeld' \in BOOLEAN
      /\ pc'[r] = "none"
      /\ \A s \in Roots \ {r} : pc'[s] = pc[s] \/ (pc[s] = "queued" /\ pc'[s] = "turn")
  BY PassTurnKeeps DEF IInv
<1>2. TypeOK' /\ DebtInv'
  BY <1>1, JobOverKeeps DEF IInv, TypeOK
<1>3. \A s \in Roots : pc'[s] \in HasWorker => s # r /\ pc'[s] = pc[s]
  BY <1>1 DEF HasWorker
<1>4. limit' = "reserve" => limit = "reserve" /\ pc[r] \notin HasWorker
  BY DEF IInv, TypeOK
<1>5. \A s \in Roots : pc[s] \in HasWorker /\ s # r => pc'[s] = pc[s]
  BY <1>1 DEF HasWorker
<1>6. LimitInv'
  BY <1>1, <1>3, <1>4, <1>5 DEF IInv, LimitInv
<1> QED BY <1>1, <1>2, <1>6 DEF IInv

-----------------------------------------------------------------------------
(* Every step keeps the invariant. *)

LEMMA InitHolds == Init => IInv
<1> SUFFICES ASSUME Init PROVE IInv
  OBVIOUS
<1>1. TypeOK
  <2>1. /\ pc \in [Roots -> InTurn \cup {"none", "begin", "queued"}]
        /\ ticket \in [Roots -> Nat]
        /\ saved \in [Roots -> {"full", "reserve"}]
        /\ paths \in [Roots -> ChangeSets] /\ pending \in [Roots -> ChangeSets]
        /\ owing \in [Roots -> SUBSET Files] /\ taken \in [Roots -> SUBSET Files]
    BY ChangeSetFacts DEF Init
  <2>2. /\ turnHeld \in BOOLEAN /\ closing \in BOOLEAN
        /\ indexLock \in Roots \cup {NoRoot, Loader} /\ limit \in {"full", "reserve"}
        /\ ready \subseteq Roots /\ gone \subseteq Roots /\ cancelled \subseteq Roots
    BY DEF Init
  <2>3. /\ pass \in [Passes -> {"idle", "indexing", "joined", "landed"}]
        /\ announced \subseteq Roots /\ asks \in 0..MaxAsks
    BY BoundsAssumption DEF Init
  <2> QED BY <2>1, <2>2, <2>3 DEF TypeOK
<1>2. TurnInv /\ LimitInv /\ DebtInv
  BY DEF Init, TurnInv, LimitInv, DebtInv, InTurn, HasWorker
<1> QED BY <1>1, <1>2 DEF IInv

LEMMA AskStep == ASSUME IInv, NEW r \in Roots, Ask(r) PROVE IInv'
<1> USE RootsAssumption, BoundsAssumption
<1>1. /\ pc[r] = "none" /\ pc' = [pc EXCEPT ![r] = "begin"] /\ paths' = [paths EXCEPT ![r] = All]
      /\ UNCHANGED <<ticket, turnHeld, pending, limitVars, owing, taken, ready, gone, pass, announced, closing, cancelled>>
      /\ asks < MaxAsks /\ asks' = asks + 1
  BY DEF Ask, StartJob
<1>2. TypeOK'
  BY <1>1, ChangeSetFacts DEF IInv, TypeOK, limitVars
<1>3. TurnInv'
  BY <1>1 DEF IInv, TypeOK, TurnInv, InTurn
<1>4. LimitInv'
  BY <1>1 DEF IInv, TypeOK, LimitInv, HasWorker, limitVars
<1>5. DebtInv'
  BY <1>1 DEF IInv, TypeOK, DebtInv, Covered, FilesOf
<1> QED BY <1>2, <1>3, <1>4, <1>5 DEF IInv

\* The users' other steps leave the jobs alone.
LEMMA UserStep ==
  ASSUME IInv,
         \/ \E r \in Roots : RemoveRoot(r)
         \/ \E p \in Passes : BeginPass(p) \/ RefuseRefresh(p) \/ EndPass(p)
         \/ TakeLoad \/ EndLoad \/ Close
  PROVE  IInv'
<1> USE RootsAssumption, BoundsAssumption
<1>1. UNCHANGED <<turnVars, limit, saved, workVars, ready>>
  BY DEF RemoveRoot, BeginPass, RefuseRefresh, EndPass, TakeLoad, EndLoad, Close, limitVars
<1>2. /\ gone' \subseteq Roots /\ indexLock' \in Roots \cup {NoRoot, Loader}
      /\ closing' \in BOOLEAN /\ cancelled' \subseteq Roots
  BY DEF RemoveRoot, BeginPass, RefuseRefresh, EndPass, TakeLoad, EndLoad, Close, limitVars, Live,
         userVars, IInv, TypeOK
<1>3. /\ pass' \in [Passes -> {"idle", "indexing", "joined", "landed"}]
      /\ announced' \subseteq Roots /\ asks' \in 0..MaxAsks
  BY DEF RemoveRoot, BeginPass, RefuseRefresh, EndPass, TakeLoad, EndLoad, Close, userVars, IInv, TypeOK
<1>4. TypeOK' /\ TurnInv' /\ LimitInv'
  BY <1>1, <1>2, <1>3 DEF IInv, TypeOK, TurnInv, LimitInv, turnVars, workVars
<1>5. DebtInv'
  BY <1>1 DEF IInv, DebtInv, turnVars, workVars, Covered, FilesOf
<1> QED BY <1>4, <1>5 DEF IInv

LEMMA RefreshStep ==
  ASSUME IInv, NEW p \in Passes, NEW c \in ChangeSets, Refresh(p, c)
  PROVE  IInv'
<1> DEFINE r == RootOf[p]
<1>0. r \in Roots
  BY RootsAssumption
<1>1. /\ owing' = [owing EXCEPT ![r] = @ \cup FilesOf(c)]
      /\ taken' = [taken EXCEPT ![r] = @ \ FilesOf(c)]
      /\ pass' = [pass EXCEPT ![p] = "joined"]
      /\ UNCHANGED <<ticket, turnHeld, limitVars, ready, gone, announced, asks, closing, cancelled>>
  BY DEF Refresh, StartJob, turnVars
<1>2. FilesOf(c) \subseteq Files
  BY ChangeSetFacts
<1>3. CASE pc[r] = "none"
  <2>1. /\ pc' = [pc EXCEPT ![r] = "begin"] /\ paths' = [paths EXCEPT ![r] = c] /\ UNCHANGED pending
    BY <1>3 DEF Refresh, StartJob
  <2>2. TypeOK'
    BY <1>0, <1>1, <1>2, <2>1 DEF IInv, TypeOK, limitVars
  <2>3. TurnInv'
    BY <1>0, <1>1, <1>3, <2>1 DEF IInv, TypeOK, TurnInv, InTurn
  <2>4. LimitInv'
    BY <1>0, <1>1, <1>3, <2>1 DEF IInv, TypeOK, LimitInv, HasWorker, limitVars
  <2>5. DebtInv'
    BY <1>0, <1>1, <1>3, <2>1 DEF IInv, TypeOK, DebtInv, Covered, FilesOf
  <2> QED BY <2>2, <2>3, <2>4, <2>5 DEF IInv
<1>4. CASE pc[r] # "none"
  <2>1. FoldIn(r, c) /\ UNCHANGED <<pc, paths>>
    BY <1>4 DEF Refresh, turnVars
  <2>2. /\ pending' \in [Roots -> ChangeSets]
        /\ \A s \in Roots \ {r} : pending'[s] = pending[s]
        /\ FilesOf(pending[r]) \cup FilesOf(c) \subseteq FilesOf(pending'[r])
    BY <2>1, <1>0, FoldInCovers DEF IInv
  <2>3. TypeOK'
    BY <1>0, <1>1, <1>2, <2>1, <2>2 DEF IInv, TypeOK, limitVars
  <2>4. TurnInv' /\ LimitInv'
    BY <1>1, <2>1 DEF IInv, TurnInv, LimitInv, limitVars
  <2>5. ASSUME NEW s \in Roots
        PROVE  /\ pc'[s] = "none" => owing'[s] = {} /\ pending'[s] = Nothing
               /\ pc'[s] # "none" => owing'[s] \subseteq Covered(s)' \cup FilesOf(pending'[s])
    <3>1. CASE s = r
      <4>1. owing'[r] = owing[r] \cup FilesOf(c) /\ taken'[r] = taken[r] \ FilesOf(c)
        BY <1>0, <1>1 DEF IInv, TypeOK
      <4>2. Covered(r) \ FilesOf(c) \subseteq Covered(r)'
        BY <4>1, <2>1 DEF Covered, FilesOf
      <4>3. owing[r] \subseteq Covered(r) \cup FilesOf(pending[r])
        BY <1>0, <1>4 DEF IInv, DebtInv
      <4> QED BY <3>1, <4>1, <4>2, <4>3, <2>1, <2>2, <1>4
    <3>2. CASE s # r
      <4>1. owing'[s] = owing[s] /\ taken'[s] = taken[s] /\ pending'[s] = pending[s]
        BY <3>2, <1>0, <1>1, <2>2 DEF IInv, TypeOK
      <4>2. Covered(s)' = Covered(s)
        BY <4>1, <2>1 DEF Covered, FilesOf
      <4> QED BY <4>1, <4>2, <2>1 DEF IInv, DebtInv
    <3> QED BY <3>1, <3>2
  <2>6. DebtInv'
    BY <2>5 DEF DebtInv, FilesOf
  <2> QED BY <2>3, <2>4, <2>6 DEF IInv
<1> QED BY <1>3, <1>4

\* A step of one job that takes the turn or moves on with it.
LEMMA TurnStep ==
  ASSUME IInv, NEW r \in Roots,
         Settle(r) \/ CheckRoot(r) \/ LowerLimit(r) \/ Spawn(r) \/ CancelWorker(r)
  PROVE  IInv'
<1>1. CASE Settle(r)
  <2>0. /\ pc[r] = "begin"
        /\ UNCHANGED <<limitVars, workVars, ready, gone, userVars, closing, cancelled>>
    BY <1>1 DEF Settle
  <2>1. CASE turnHeld
    <3>1. /\ pc' = [pc EXCEPT ![r] = "queued"] /\ UNCHANGED turnHeld
          /\ ticket' = [ticket EXCEPT ![r] = 1 + Cardinality({s \in Roots : pc[s] = "queued"})]
      BY <1>1, <2>1 DEF Settle
    <3>2. Cardinality({s \in Roots : pc[s] = "queued"}) \in Nat
      <4>1. IsFiniteSet({s \in Roots : pc[s] = "queued"})
        BY RootsAssumption, FS_Subset
      <4> QED BY <4>1, FS_CardinalityType
    <3>3. TypeOK'
      BY <2>0, <3>1, <3>2 DEF IInv, TypeOK, limitVars, workVars, userVars
    <3>4. TurnInv'
      BY <2>0, <3>1 DEF IInv, TypeOK, TurnInv, InTurn
    <3>5. LimitInv' /\ DebtInv'
      BY <2>0, <3>1 DEF IInv, TypeOK, LimitInv, DebtInv, HasWorker, Covered, FilesOf, limitVars, workVars
    <3> QED BY <3>3, <3>4, <3>5 DEF IInv
  <2>2. CASE ~turnHeld
    <3>1. pc' = [pc EXCEPT ![r] = "turn"] /\ turnHeld' = TRUE /\ UNCHANGED ticket
      BY <1>1, <2>2 DEF Settle
    <3>2. TypeOK'
      BY <2>0, <3>1 DEF IInv, TypeOK, InTurn, limitVars, workVars, userVars
    <3>3. TurnInv'
      BY <2>0, <2>2, <3>1 DEF IInv, TypeOK, TurnInv, InTurn
    <3>4. LimitInv' /\ DebtInv'
      BY <2>0, <3>1 DEF IInv, TypeOK, LimitInv, DebtInv, HasWorker, Covered, FilesOf, limitVars, workVars
    <3> QED BY <3>2, <3>3, <3>4 DEF IInv
  <2> QED BY <2>1, <2>2
<1>2. CASE CheckRoot(r)
  <2>1. /\ pc[r] = "turn" /\ pc' = [pc EXCEPT ![r] = "locking"]
        /\ UNCHANGED <<ticket, turnHeld, limitVars, workVars, ready, gone, userVars, closing, cancelled>>
    BY <1>2 DEF CheckRoot
  <2>2. TypeOK'
    BY <2>1 DEF IInv, TypeOK, InTurn, limitVars, workVars, userVars
  <2>3. TurnInv'
    BY <2>1 DEF IInv, TypeOK, TurnInv, InTurn
  <2>4. LimitInv' /\ DebtInv'
    BY <2>1 DEF IInv, TypeOK, LimitInv, DebtInv, HasWorker, Covered, FilesOf, limitVars, workVars
  <2> QED BY <2>2, <2>3, <2>4 DEF IInv
<1>3. CASE LowerLimit(r)
  <2>1. /\ pc[r] = "locking" /\ indexLock' = r /\ limit' = "reserve"
        /\ saved' = [saved EXCEPT ![r] = limit] /\ pc' = [pc EXCEPT ![r] = "spawn"]
        /\ UNCHANGED <<ticket, turnHeld, workVars, ready, gone, userVars, closing, cancelled>>
    BY <1>3 DEF LowerLimit
  <2>2. \A s \in Roots : pc[s] \notin HasWorker
    BY <2>1 DEF IInv, TurnInv, InTurn, HasWorker
  <2>3. limit = "full"
    BY <2>2 DEF IInv, TypeOK, LimitInv
  <2>4. TypeOK'
    BY <2>1 DEF IInv, TypeOK, InTurn, workVars, userVars
  <2>5. TurnInv'
    BY <2>1 DEF IInv, TypeOK, TurnInv, InTurn
  <2>6. LimitInv'
    BY <2>1, <2>2, <2>3 DEF IInv, TypeOK, LimitInv, HasWorker
  <2>7. DebtInv'
    BY <2>1 DEF IInv, TypeOK, DebtInv, Covered, FilesOf, workVars
  <2> QED BY <2>4, <2>5, <2>6, <2>7 DEF IInv
<1>4. CASE Spawn(r)
  <2>1. /\ pc[r] = "spawn" /\ pc' = [pc EXCEPT ![r] = "building"] /\ indexLock' = NoRoot
        /\ taken' = [taken EXCEPT ![r] = owing[r] \cap FilesOf(paths[r])]
        /\ UNCHANGED <<ticket, turnHeld, limit, saved, paths, pending, owing, ready, gone, userVars, closing, cancelled>>
    BY <1>4 DEF Spawn
  <2>2. TypeOK'
    BY <2>1 DEF IInv, TypeOK, InTurn, userVars
  <2>3. TurnInv'
    BY <2>1 DEF IInv, TypeOK, TurnInv, InTurn
  <2>4. LimitInv'
    BY <2>1 DEF IInv, TypeOK, LimitInv, HasWorker
  <2>5. DebtInv'
    BY <2>1 DEF IInv, TypeOK, DebtInv, Covered, FilesOf
  <2> QED BY <2>2, <2>3, <2>4, <2>5 DEF IInv
<1>5. CASE CancelWorker(r)
  <2>1. /\ pc[r] = "building" /\ pc' = [pc EXCEPT ![r] = "reaping"]
        /\ UNCHANGED <<ticket, turnHeld, limitVars, workVars, ready, gone, userVars, closing, cancelled>>
    BY <1>5 DEF CancelWorker
  <2>2. TypeOK'
    BY <2>1 DEF IInv, TypeOK, InTurn, limitVars, workVars, userVars
  <2>3. TurnInv'
    BY <2>1 DEF IInv, TypeOK, TurnInv, InTurn
  <2>4. LimitInv'
    BY <2>1 DEF IInv, TypeOK, LimitInv, HasWorker, limitVars
  <2>5. DebtInv'
    BY <2>1 DEF IInv, TypeOK, DebtInv, Covered, FilesOf, workVars
  <2> QED BY <2>2, <2>3, <2>4, <2>5 DEF IInv
<1> QED BY <1>1, <1>2, <1>3, <1>4, <1>5

LEMMA FinishStep == ASSUME IInv, NEW r \in Roots, Finish(r) PROVE IInv'
<1>1. /\ pc[r] = "building" /\ pc[r] \in InTurn
      /\ limit' = "full" /\ saved' = [saved EXCEPT ![r] = "full"]
      /\ ready' = ready \cup {r} /\ owing' = [owing EXCEPT ![r] = @ \ taken[r]]
      /\ UNCHANGED <<indexLock, gone>>
  BY DEF Finish, IInv, LimitInv, HasWorker, InTurn
<1>2. CASE pending[r] = Nothing /\ PassTurn(r, "none") /\ JobOver(r)
  <2>1. owing[r] \subseteq taken[r]
    BY <1>1, <1>2, ChangeSetFacts DEF IInv, DebtInv, Covered
  <2>2. owing' = [owing EXCEPT ![r] = {}]
    BY <1>1, <2>1 DEF IInv, TypeOK
  <2>3. /\ saved' \in [Roots -> {"full", "reserve"}] /\ \A s \in Roots \ {r} : saved'[s] = saved[s]
        /\ ready' \subseteq Roots /\ indexLock' \in Roots \cup {NoRoot, Loader}
    BY <1>1 DEF IInv, TypeOK
  <2> QED BY <1>1, <1>2, <2>2, <2>3, OverInTurn
<1>3. CASE /\ pending[r] # Nothing /\ PassTurn(r, "begin")
           /\ paths' = [paths EXCEPT ![r] = pending[r]]
           /\ pending' = [pending EXCEPT ![r] = Nothing]
           /\ taken' = [taken EXCEPT ![r] = {}]
           /\ UNCHANGED <<userVars, closing, cancelled>>
  <2>1. /\ TurnInv'
        /\ pc' \in [Roots -> InTurn \cup {"none", "begin", "queued"}]
        /\ ticket' \in [Roots -> Nat] /\ turnHeld' \in BOOLEAN
        /\ pc'[r] = "begin"
        /\ \A s \in Roots \ {r} : pc'[s] = pc[s] \/ (pc[s] = "queued" /\ pc'[s] = "turn")
    BY <1>1, <1>3, PassTurnKeeps DEF IInv
  <2>2. TypeOK'
    BY <1>1, <1>3, <2>1, ChangeSetFacts DEF IInv, TypeOK, userVars
  <2>3. LimitInv'
    BY <1>1, <2>1 DEF IInv, TypeOK, LimitInv, HasWorker
  <2>4. ASSUME NEW s \in Roots
        PROVE  /\ pc'[s] = "none" => owing'[s] = {} /\ pending'[s] = Nothing
               /\ pc'[s] # "none" => owing'[s] \subseteq Covered(s)' \cup FilesOf(pending'[s])
    <3>1. CASE s = r
      <4>1. owing[r] \subseteq taken[r] \cup FilesOf(pending[r])
        BY <1>1 DEF IInv, DebtInv, Covered
      <4>2. owing'[r] = owing[r] \ taken[r] /\ paths'[r] = pending[r]
        BY <1>1, <1>3 DEF IInv, TypeOK
      <4>3. Covered(r)' = FilesOf(pending[r])
        BY <4>2, <2>1 DEF Covered, FilesOf
      <4> QED BY <3>1, <4>1, <4>2, <4>3, <2>1
    <3>2. CASE s # r
      <4>1. /\ owing'[s] = owing[s] /\ taken'[s] = taken[s]
            /\ pending'[s] = pending[s] /\ paths'[s] = paths[s]
        BY <3>2, <1>1, <1>3 DEF IInv, TypeOK
      <4>2. /\ pc'[s] = "none" <=> pc[s] = "none"
            /\ pc'[s] \in {"building", "reaping"} <=> pc[s] \in {"building", "reaping"}
        BY <3>2, <2>1
      <4>3. Covered(s)' = Covered(s)
        BY <4>1, <4>2 DEF Covered, FilesOf
      <4> QED BY <4>1, <4>2, <4>3 DEF IInv, DebtInv
    <3> QED BY <3>1, <3>2
  <2>5. DebtInv'
    BY <2>4 DEF DebtInv, FilesOf
  <2> QED BY <2>1, <2>2, <2>3, <2>5 DEF IInv
<1> QED BY <1>2, <1>3 DEF Finish

LEMMA OverStep ==
  ASSUME IInv, NEW r \in Roots,
         DropJob(r) \/ RefuseWorker(r) \/ SpawnFails(r) \/ WorkerFails(r) \/ CancelWaiting(r)
  PROVE  IInv'
<1>1. CASE DropJob(r) \/ RefuseWorker(r)
  <2>1. /\ pc[r] \in InTurn /\ pc[r] \notin HasWorker
        /\ PassTurn(r, "none") /\ JobOver(r) /\ owing' = [owing EXCEPT ![r] = {}]
        /\ UNCHANGED <<limitVars, gone>>
    BY <1>1 DEF DropJob, RefuseWorker, InTurn, HasWorker
  <2>2. ready' \subseteq Roots
    BY <1>1 DEF DropJob, RefuseWorker, IInv, TypeOK
  <2>3. indexLock' \in Roots \cup {NoRoot, Loader} /\ saved' \in [Roots -> {"full", "reserve"}]
        /\ limit' = limit /\ \A s \in Roots \ {r} : saved'[s] = saved[s]
    BY <2>1 DEF limitVars, IInv, TypeOK
  <2> QED BY <2>1, <2>2, <2>3, OverInTurn
<1>2. CASE SpawnFails(r) \/ WorkerFails(r)
  <2>1. /\ pc[r] \in InTurn /\ pc[r] \in HasWorker
        /\ PassTurn(r, "none") /\ JobOver(r) /\ owing' = [owing EXCEPT ![r] = {}]
        /\ limit' = saved[r] /\ saved' = [saved EXCEPT ![r] = "full"]
        /\ indexLock' \in {indexLock, NoRoot} /\ UNCHANGED <<ready, gone>>
    BY <1>2 DEF SpawnFails, WorkerFails, InTurn, HasWorker
  <2>2. limit' = "full"
    BY <2>1 DEF IInv, LimitInv
  <2>3. /\ indexLock' \in Roots \cup {NoRoot, Loader} /\ saved' \in [Roots -> {"full", "reserve"}]
        /\ \A s \in Roots \ {r} : saved'[s] = saved[s]
        /\ ready' \subseteq Roots
    BY <2>1 DEF IInv, TypeOK
  <2> QED BY <2>1, <2>2, <2>3, OverInTurn
<1>3. CASE CancelWaiting(r)
  <2>1. /\ pc[r] \in {"begin", "queued", "turn", "locking"}
        /\ JobOver(r) /\ owing' = [owing EXCEPT ![r] = {}]
        /\ UNCHANGED <<limitVars, ready, gone>>
    BY <1>3 DEF CancelWaiting
  <2>2. CASE pc[r] \in {"turn", "locking"}
    <3>1. PassTurn(r, "none") /\ pc[r] \in InTurn /\ pc[r] \notin HasWorker
      BY <1>3, <2>2 DEF CancelWaiting, InTurn, HasWorker
    <3>2. /\ indexLock' \in Roots \cup {NoRoot, Loader} /\ saved' \in [Roots -> {"full", "reserve"}]
          /\ limit' = limit /\ \A s \in Roots \ {r} : saved'[s] = saved[s] /\ ready' \subseteq Roots
      BY <2>1 DEF limitVars, IInv, TypeOK
    <3>3. ready' \subseteq Roots
      BY <2>1 DEF IInv, TypeOK
    <3> QED BY <2>1, <3>1, <3>2, <3>3, OverInTurn
  <2>3. CASE pc[r] \in {"begin", "queued"}
    <3>1. /\ pc' = [pc EXCEPT ![r] = "none"] /\ UNCHANGED turnHeld
          /\ ticket' \in {Without(r), ticket}
      BY <1>3, <2>3 DEF CancelWaiting
    <3>2. ticket' \in [Roots -> Nat]
      BY <3>1, WithoutTyped DEF IInv, TypeOK
    <3>3. pc'[r] = "none" /\ \A s \in Roots \ {r} : pc'[s] = pc[s]
      BY <3>1 DEF IInv, TypeOK
    <3>4. /\ DebtInv'
          /\ paths' \in [Roots -> ChangeSets] /\ pending' \in [Roots -> ChangeSets]
          /\ owing' \in [Roots -> SUBSET Files] /\ taken' \in [Roots -> SUBSET Files]
          /\ pass' \in [Passes -> {"idle", "indexing", "joined", "landed"}]
          /\ announced' \subseteq Roots /\ asks' \in 0..MaxAsks /\ closing' \in BOOLEAN
          /\ cancelled' \subseteq Roots
      BY <2>1, <3>3, JobOverKeeps DEF IInv
    <3>5. TypeOK'
      BY <2>1, <3>1, <3>2, <3>4 DEF IInv, TypeOK, limitVars
    <3>6. TurnInv'
      BY <2>3, <3>1 DEF IInv, TypeOK, TurnInv, InTurn
    <3>7. LimitInv'
      BY <2>1, <2>3, <3>3 DEF IInv, LimitInv, HasWorker, limitVars
    <3> QED BY <3>4, <3>5, <3>6, <3>7 DEF IInv
  <2> QED BY <2>1, <2>2, <2>3
<1> QED BY <1>1, <1>2, <1>3

\* IInv is inductive: it holds at first and every step keeps it.
THEOREM Inductive == Spec => []IInv
<1>1. Init => IInv
  BY InitHolds
<1>2. IInv /\ [Next]_vars => IInv'
  <2> SUFFICES ASSUME IInv, [Next]_vars PROVE IInv'
    OBVIOUS
  <2>1. ASSUME NEW r \in Roots, JobStep(r) PROVE IInv'
    BY <2>1, TurnStep, FinishStep, OverStep DEF JobStep
  <2>2. ASSUME NEW r \in Roots, Ask(r) \/ RemoveRoot(r) PROVE IInv'
    BY <2>2, AskStep, UserStep
  <2>3. ASSUME NEW p \in Passes, BeginPass(p) \/ RefuseRefresh(p) \/ EndPass(p) PROVE IInv'
    BY <2>3, UserStep
  <2>4. ASSUME NEW p \in Passes, Refresh(p, All) PROVE IInv'
    BY <2>4, RefreshStep, ChangeSetFacts
  <2>5. ASSUME NEW p \in Passes, NEW F \in SUBSET Files, Refresh(p, Named(F)) PROVE IInv'
    BY <2>5, RefreshStep, ChangeSetFacts
  <2>6. CASE TakeLoad \/ EndLoad \/ Close
    BY <2>6, UserStep
  <2>7. CASE UNCHANGED vars
    <3>1. UNCHANGED <<turnVars, limitVars, workVars, ready, gone, userVars, closing, cancelled>>
      BY <2>7 DEF vars
    <3>2. TypeOK' /\ TurnInv' /\ LimitInv'
      BY <3>1 DEF IInv, TypeOK, TurnInv, LimitInv, turnVars, limitVars, workVars, userVars
    <3>3. DebtInv'
      BY <3>1 DEF IInv, DebtInv, turnVars, workVars, Covered, FilesOf
    <3> QED BY <3>2, <3>3 DEF IInv
  <2> QED BY <2>1, <2>2, <2>3, <2>4, <2>5, <2>6, <2>7 DEF Next
<1> QED BY <1>1, <1>2, PTL DEF Spec

\* The variables of the jobs keep their types.
THEOREM TypeCorrect == Spec => []TypeOK
<1>1. IInv => TypeOK
  BY DEF IInv
<1> QED BY <1>1, Inductive, PTL

\* Mutual exclusion of the worker turn, for any number of roots.
THEOREM OneWorkerAlways == Spec => []OneWorker
<1>1. IInv => OneWorker
  BY DEF IInv, TurnInv, OneWorker
<1> QED BY <1>1, Inductive, PTL

\* The daemon's memory limit is never left lowered without a worker.
THEOREM LimitAlwaysBack == Spec => []LimitComesBack
<1>1. IInv => LimitComesBack
  BY DEF IInv, LimitInv, LimitComesBack
<1> QED BY <1>1, Inductive, PTL

\* No change set that was joined to a job is lost by coalescing.
THEOREM AsksAlwaysLand == Spec => []AsksLand
<1>1. IInv => AsksLand
  BY DEF IInv, DebtInv, AsksLand
<1> QED BY <1>1, Inductive, PTL

-----------------------------------------------------------------------------
(* Who is granted the turn. *)

\* A queued job gets the turn only from its owner, as the first of the heap.
LEMMA GrantedIsNext ==
  ASSUME IInv, [Next]_vars, NEW l \in Roots, pc[l] = "queued", pc'[l] = "turn"
  PROVE  IsNext(l)
<1>1. ASSUME NEW r \in Roots, JobStep(r) PROVE IsNext(l)
  <2>1. ASSUME pc[r] \in InTurn, NEW next \in {"none", "begin"}, PassTurn(r, next)
        PROVE  IsNext(l)
    <3>1. l # r
      BY <2>1 DEF InTurn
    <3>2. pc'[l] = pc[l] \/ IsNext(l)
      BY <2>1, <3>1, PassTurnKeeps DEF IInv
    <3> QED BY <3>2
  <2>2. CASE Settle(r) \/ CheckRoot(r) \/ LowerLimit(r) \/ Spawn(r) \/ CancelWorker(r)
    <3>1. pc[r] # "queued"
      BY <2>2 DEF Settle, CheckRoot, LowerLimit, Spawn, CancelWorker
    <3>2. \E q \in InTurn \cup {"queued"} : pc' = [pc EXCEPT ![r] = q]
      BY <2>2 DEF Settle, CheckRoot, LowerLimit, Spawn, CancelWorker, InTurn
    <3> QED BY <3>1, <3>2 DEF IInv, TypeOK
  <2>3. CASE DropJob(r) \/ RefuseWorker(r) \/ SpawnFails(r) \/ WorkerFails(r)
    BY <2>3, <2>1 DEF DropJob, RefuseWorker, SpawnFails, WorkerFails, InTurn
  <2>4. CASE Finish(r)
    BY <2>4, <2>1 DEF Finish, InTurn
  <2>5. CASE CancelWaiting(r)
    <3>1. CASE pc[r] \in {"turn", "locking"}
      BY <2>5, <3>1, <2>1 DEF CancelWaiting, InTurn
    <3>2. CASE pc[r] \notin {"turn", "locking"}
      BY <2>5, <3>2 DEF CancelWaiting, IInv, TypeOK
    <3> QED BY <3>1, <3>2
  <2> QED BY <1>1, <2>2, <2>3, <2>4, <2>5 DEF JobStep
<1>2. ASSUME NEW r \in Roots, Ask(r) \/ RemoveRoot(r) PROVE IsNext(l)
  BY <1>2 DEF Ask, StartJob, RemoveRoot, turnVars, IInv, TypeOK
<1>3. ASSUME NEW p \in Passes, NEW c \in ChangeSets, Refresh(p, c) PROVE IsNext(l)
  BY <1>3, RootsAssumption DEF Refresh, StartJob, turnVars, IInv, TypeOK
<1>4. ASSUME NEW p \in Passes, BeginPass(p) \/ RefuseRefresh(p) \/ EndPass(p) PROVE IsNext(l)
  BY <1>4 DEF BeginPass, RefuseRefresh, EndPass, turnVars
<1>5. CASE TakeLoad \/ EndLoad \/ Close \/ UNCHANGED vars
  BY <1>5 DEF TakeLoad, EndLoad, Close, turnVars, vars
<1> QED BY <1>1, <1>2, <1>3, <1>4, <1>5, ChangeSetFacts DEF Next

\* A lane never overtakes a base that is queued for the turn.
THEOREM BaseAlwaysFirst == Spec => BaseGoesFirst
<1>1. IInv /\ [Next]_vars =>
        [\A l \in Lanes : pc[l] = "queued" /\ pc'[l] = "turn" =>
            \A b \in Roots \ Lanes : pc[b] # "queued"]_vars
  <2> SUFFICES ASSUME IInv, [Next]_vars, NEW l \in Lanes, pc[l] = "queued", pc'[l] = "turn",
                      NEW b \in Roots \ Lanes
               PROVE  pc[b] # "queued"
    OBVIOUS
  <2>1. IsNext(l)
    BY GrantedIsNext, RootsAssumption
  <2> QED BY <2>1 DEF IsNext, Priority
<1> QED BY <1>1, Inductive, PTL DEF Spec, BaseGoesFirst

-----------------------------------------------------------------------------
(* The admission of reads. *)

AdmissionInv ==
  /\ AdmissionTypeOK
  /\ PermitsKept
  /\ QueuedCounted
  /\ active = In({"running"})
  /\ NoLostWakeup

-----------------------------------------------------------------------------
(* Counting. *)

\* Sets of requests are finite and counted by naturals.
LEMMA Counted ==
  ASSUME NEW S \in SUBSET Requests
  PROVE IsFiniteSet(S) /\ Cardinality(S) \in Nat
BY RequestsAssumption, FS_Subset, FS_CardinalityType

\* One request more, one less, and a disjoint set of them more.
LEMMA OneMore ==
  ASSUME NEW S \in SUBSET Requests, NEW r \in Requests, r \notin S
  PROVE Cardinality(S \cup {r}) = Cardinality(S) + 1
BY Counted, FS_AddElement

LEMMA OneLess ==
  ASSUME NEW S \in SUBSET Requests, NEW r \in S
  PROVE Cardinality(S \ {r}) = Cardinality(S) - 1
BY Counted, FS_RemoveElement

LEMMA SomeMore ==
  ASSUME NEW S \in SUBSET Requests, NEW W \in SUBSET Requests, S \cap W = {}
  PROVE Cardinality(S \cup W) = Cardinality(S) + Cardinality(W)
<1>1. Cardinality(S \cup W) = Cardinality(S) + Cardinality(W) - Cardinality(S \cap W)
  BY Counted, FS_Union
<1>2. Cardinality({}) = 0
  BY FS_EmptySet
<1> QED BY <1>1, <1>2, Counted

\* The first waiters are waiters, and all of them when permits are left over.
LEMMA Woken ==
  ASSUME NEW W \in SUBSET Requests, NEW permits \in Nat, FirstWaiters(W, permits)
  PROVE /\ W \subseteq Waiting
        /\ permits - Cardinality(W) \in Nat
        /\ permits - Cardinality(W) > 0 => W = Waiting
BY Counted DEF FirstWaiters

\* Leaving the line keeps the line's type.
LEMMA LineTyped ==
  ASSUME AdmissionTypeOK, NEW W, LeaveLine(W)
  PROVE ahead' \in [Requests -> SUBSET Requests]
BY DEF AdmissionTypeOK, LeaveLine

-----------------------------------------------------------------------------
(* Initially. *)

LEMMA AdmissionInitInv == AdmissionInit => AdmissionInv
<1> SUFFICES ASSUME AdmissionInit PROVE AdmissionInv
  OBVIOUS
<1>1. AdmissionTypeOK
  BY SlotsAssumption DEF AdmissionInit, AdmissionTypeOK
<1>2. Holders = {} /\ InRoom = {} /\ In({"running"}) = {} /\ Waiting = {}
  BY DEF AdmissionInit, Holders, HoldersIn, InRoom, In, Waiting
<1>3. Cardinality({}) = 0
  BY FS_EmptySet
<1> QED BY <1>1, <1>2, <1>3, SlotsAssumption DEF AdmissionInv, PermitsKept, QueuedCounted, NoLostWakeup, AdmissionInit

-----------------------------------------------------------------------------
(* A step that hands permits to waiters: Start, GiveUp and EndRead. *)

\* Request r goes on at next; W, the first waiters, are granted.
Moved(r, W, next) ==
  place' = [s \in Requests |-> IF s = r THEN next ELSE IF s \in W THEN "granted" ELSE place[s]]

\* What it does to the sets that are counted.
LEMMA MovedSets ==
  ASSUME AdmissionTypeOK, NEW r \in Requests, NEW W \in SUBSET Requests,
         NEW next \in {"idle", "running"}, W \subseteq Waiting, r \notin Waiting, Moved(r, W, next)
  PROVE /\ place' \in [Requests -> {"idle", "preparing", "waiting", "granted", "late", "cancelled", "running"}]
        /\ Holders' = IF next = "running" THEN Holders \cup {r} \cup W ELSE (Holders \ {r}) \cup W
        /\ InRoom' = InRoom \ {r}
        /\ In({"running"})' = IF next = "running" THEN In({"running"}) \cup {r} ELSE In({"running"}) \ {r}
        /\ Waiting' = Waiting \ W
        /\ W # {} => In({"granted", "late"})' # {}
        /\ Holders \cap W = {}
<1>1. \A s \in W : place[s] = "waiting" /\ s # r
  BY DEF Waiting, In
<1>2. place' \in [Requests -> {"idle", "preparing", "waiting", "granted", "late", "cancelled", "running"}]
  BY DEF Moved, AdmissionTypeOK
<1>3. Holders' = IF next = "running" THEN Holders \cup {r} \cup W ELSE (Holders \ {r}) \cup W
  BY <1>1 DEF Moved, Holders, HoldersIn, AdmissionTypeOK
<1>4. InRoom' = InRoom \ {r}
  BY <1>1 DEF Moved, InRoom, In, AdmissionTypeOK
<1>5. In({"running"})' = IF next = "running" THEN In({"running"}) \cup {r} ELSE In({"running"}) \ {r}
  BY <1>1 DEF Moved, In, AdmissionTypeOK
<1>6. Waiting' = Waiting \ W
  BY <1>1 DEF Moved, In, Waiting, AdmissionTypeOK
<1>7. W # {} => In({"granted", "late"})' # {}
  BY <1>1 DEF Moved, In, AdmissionTypeOK
<1>8. Holders \cap W = {}
  BY <1>1 DEF Holders, HoldersIn
<1> QED BY <1>2, <1>3, <1>4, <1>5, <1>6, <1>7, <1>8

LEMMA StartInv ==
  ASSUME AdmissionInv, NEW r \in Requests, Start(r)
  PROVE AdmissionInv'
<1>1. PICK W \in SUBSET Requests :
        FirstWaiters(W, value) /\ Moved(r, W, "running") /\ value' = value - Cardinality(W) /\ LeaveLine(W)
  BY DEF Start, Moved
<1>2. /\ AdmissionTypeOK /\ value \in Nat /\ queued \in Nat /\ place[r] = "granted"
      /\ queued' = queued - 1 /\ active' = active \cup {r} /\ left' = left
  BY DEF Start, AdmissionInv, AdmissionTypeOK
<1>3. /\ W \subseteq Waiting /\ value' \in Nat /\ (value' > 0 => W = Waiting)
  BY <1>1, <1>2, Woken
<1>4. r \notin Waiting /\ r \in Holders /\ r \in InRoom
  BY <1>2 DEF Waiting, In, Holders, HoldersIn, InRoom
<1>5. /\ Holders' = Holders \cup W /\ Holders \cap W = {} /\ InRoom' = InRoom \ {r}
      /\ In({"running"})' = In({"running"}) \cup {r} /\ Waiting' = Waiting \ W
      /\ place' \in [Requests -> {"idle", "preparing", "waiting", "granted", "late", "cancelled", "running"}]
  <2>1. Holders \cup {r} \cup W = Holders \cup W
    BY <1>4
  <2> QED BY <1>1, <1>2, <1>3, <1>4, <2>1, MovedSets
<1>6. Holders \in SUBSET Requests /\ InRoom \in SUBSET Requests
  BY DEF Holders, HoldersIn, InRoom, In
<1>7. PermitsKept'
  BY <1>1, <1>2, <1>5, <1>6, SomeMore, Counted, SlotsAssumption DEF AdmissionInv, PermitsKept
<1>8. QueuedCounted' /\ queued' \in Nat
  BY <1>2, <1>4, <1>5, <1>6, OneLess, Counted DEF AdmissionInv, QueuedCounted
<1>9. AdmissionTypeOK'
  BY <1>1, <1>2, <1>3, <1>5, <1>8, LineTyped DEF AdmissionTypeOK
<1>10. NoLostWakeup'
  BY <1>3, <1>5 DEF NoLostWakeup
<1> QED BY <1>2, <1>5, <1>7, <1>8, <1>9, <1>10 DEF AdmissionInv

LEMMA GiveUpInv ==
  ASSUME AdmissionInv, NEW r \in Requests, GiveUp(r)
  PROVE AdmissionInv'
<1> DEFINE permits == IF place[r] = "late" THEN value + 1 ELSE value
<1>1. PICK W \in SUBSET Requests :
        FirstWaiters(W, permits) /\ Moved(r, W, "idle") /\ value' = permits - Cardinality(W) /\ LeaveLine(W)
  BY DEF GiveUp, Moved
<1>2. /\ AdmissionTypeOK /\ value \in Nat /\ queued \in Nat /\ permits \in Nat /\ place[r] \in {"cancelled", "late"}
      /\ queued' = queued - 1 /\ active' = active /\ left' = left
  BY DEF GiveUp, AdmissionInv, AdmissionTypeOK
<1> HIDE DEF permits
<1>3. /\ W \subseteq Waiting /\ value' \in Nat /\ (value' > 0 => W = Waiting)
  BY <1>1, <1>2, Woken
<1>4. r \notin Waiting /\ r \in InRoom /\ r \notin In({"running"}) /\ (r \in Holders <=> place[r] = "late")
  BY <1>2 DEF Waiting, In, Holders, HoldersIn, InRoom
<1>5. /\ Holders' = (Holders \ {r}) \cup W /\ Holders \cap W = {} /\ InRoom' = InRoom \ {r}
      /\ In({"running"})' = In({"running"}) \ {r} /\ Waiting' = Waiting \ W
      /\ place' \in [Requests -> {"idle", "preparing", "waiting", "granted", "late", "cancelled", "running"}]
  BY <1>1, <1>2, <1>3, <1>4, MovedSets
<1>6. Holders \in SUBSET Requests /\ InRoom \in SUBSET Requests /\ Holders \ {r} \in SUBSET Requests
  BY DEF Holders, HoldersIn, InRoom, In
<1>7. permits = value + Cardinality(Holders) - Cardinality(Holders \ {r})
  <2>1. CASE place[r] = "late"
    BY <1>2, <1>4, <1>6, <2>1, OneLess, Counted DEF permits
  <2>2. CASE place[r] # "late"
    <3>1. Holders \ {r} = Holders
      BY <1>4, <2>2
    <3> QED BY <1>2, <1>6, <2>2, <3>1, Counted DEF permits
  <2> QED BY <2>1, <2>2
<1>8. PermitsKept'
  <2>1. Cardinality(Holders') = Cardinality(Holders \ {r}) + Cardinality(W)
    BY <1>5, <1>6, SomeMore
  <2> QED BY <1>1, <1>2, <1>6, <1>7, <2>1, Counted, SlotsAssumption DEF AdmissionInv, PermitsKept
<1>9. QueuedCounted' /\ queued' \in Nat
  BY <1>2, <1>4, <1>5, <1>6, OneLess, Counted DEF AdmissionInv, QueuedCounted
<1>10. AdmissionTypeOK'
  BY <1>1, <1>2, <1>3, <1>5, <1>9, LineTyped DEF AdmissionTypeOK
<1>11. NoLostWakeup'
  BY <1>3, <1>5 DEF NoLostWakeup
<1>12. active' = In({"running"})'
  BY <1>2, <1>4, <1>5 DEF AdmissionInv
<1> QED BY <1>8, <1>9, <1>10, <1>11, <1>12 DEF AdmissionInv

LEMMA EndReadInv ==
  ASSUME AdmissionInv, NEW r \in Requests, EndRead(r)
  PROVE AdmissionInv'
<1>1. PICK W \in SUBSET Requests :
        FirstWaiters(W, 1) /\ Moved(r, W, "idle") /\ value' = value + 1 - Cardinality(W) /\ LeaveLine(W)
  BY DEF EndRead, Moved
<1>2. /\ AdmissionTypeOK /\ value \in Nat /\ queued \in Nat /\ place[r] = "running"
      /\ queued' = queued /\ active' = active \ {r} /\ left' = left \ {r}
  BY DEF EndRead, AdmissionInv, AdmissionTypeOK
<1>3. /\ W \subseteq Waiting /\ 1 - Cardinality(W) \in Nat /\ (1 - Cardinality(W) > 0 => W = Waiting)
  BY <1>1, Woken
<1>4. r \notin Waiting /\ r \notin InRoom /\ r \in Holders
  BY <1>2 DEF Waiting, In, Holders, HoldersIn, InRoom
<1>5. /\ Holders' = (Holders \ {r}) \cup W /\ Holders \cap W = {} /\ InRoom' = InRoom \ {r}
      /\ In({"running"})' = In({"running"}) \ {r} /\ Waiting' = Waiting \ W
      /\ (W # {} => In({"granted", "late"})' # {})
      /\ place' \in [Requests -> {"idle", "preparing", "waiting", "granted", "late", "cancelled", "running"}]
  BY <1>1, <1>2, <1>3, <1>4, MovedSets
<1>6. Holders \in SUBSET Requests /\ InRoom \in SUBSET Requests /\ Holders \ {r} \in SUBSET Requests
  BY DEF Holders, HoldersIn, InRoom, In
<1>7. PermitsKept'
  <2>1. Cardinality(Holders') = Cardinality(Holders \ {r}) + Cardinality(W)
    BY <1>5, <1>6, SomeMore
  <2>2. Cardinality(Holders \ {r}) = Cardinality(Holders) - 1
    BY <1>4, <1>6, OneLess
  <2> QED BY <1>1, <1>2, <1>6, <2>1, <2>2, Counted, SlotsAssumption DEF AdmissionInv, PermitsKept
<1>8. QueuedCounted'
  <2>1. InRoom' = InRoom
    BY <1>4, <1>5
  <2> QED BY <1>2, <2>1 DEF AdmissionInv, QueuedCounted
<1>9. AdmissionTypeOK'
  <2>1. value' \in Nat
    BY <1>1, <1>2, <1>3, Counted
  <2> QED BY <1>1, <1>2, <1>5, <2>1, LineTyped DEF AdmissionTypeOK
<1>10. NoLostWakeup'
  <2>1. CASE W = {}
    <3>1. Cardinality(W) = 0
      BY <2>1, FS_EmptySet
    <3> QED BY <1>3, <1>5, <2>1, <3>1 DEF NoLostWakeup
  <2>2. CASE W # {}
    BY <1>5, <2>2 DEF NoLostWakeup
  <2> QED BY <2>1, <2>2
<1>11. active' = In({"running"})'
  BY <1>2, <1>5 DEF AdmissionInv
<1> QED BY <1>7, <1>8, <1>9, <1>10, <1>11 DEF AdmissionInv

-----------------------------------------------------------------------------
(* The steps of one request that hand out nothing. *)

LEMMA EnterInv ==
  ASSUME AdmissionInv, NEW r \in Requests, Enter(r)
  PROVE AdmissionInv'
<1>1. /\ AdmissionTypeOK /\ value \in Nat /\ queued \in Nat /\ place[r] = "preparing" /\ left' = left
  BY DEF Enter, AdmissionInv, AdmissionTypeOK
<1>2. Holders \in SUBSET Requests /\ InRoom \in SUBSET Requests /\ r \notin Holders /\ r \notin InRoom
  BY <1>1 DEF Holders, HoldersIn, InRoom, In
<1>3. CASE Free
  <2>1. /\ place' = [place EXCEPT ![r] = "running"] /\ value' = value - 1 /\ active' = active \cup {r}
        /\ ahead' = ahead /\ queued' = queued /\ value > 0
    BY <1>3 DEF Enter, Free
  <2>2. AdmissionTypeOK'
    BY <1>1, <2>1 DEF AdmissionTypeOK
  <2>3. /\ Holders' = Holders \cup {r} /\ InRoom' = InRoom /\ Waiting' = {}
        /\ In({"running"})' = In({"running"}) \cup {r}
    <3>1. /\ Holders' = Holders \cup {r} /\ InRoom' = InRoom
          /\ In({"running"})' = In({"running"}) \cup {r}
      BY <1>1, <2>1 DEF AdmissionTypeOK, Holders, HoldersIn, InRoom, In
    <3>2. Waiting' = {}
      BY <1>1, <1>3, <2>1 DEF AdmissionTypeOK, Free, Waiting, In
    <3> QED BY <3>1, <3>2
  <2>4. PermitsKept'
    BY <1>1, <1>2, <2>1, <2>3, OneMore, Counted, SlotsAssumption DEF AdmissionInv, PermitsKept
  <2>5. QueuedCounted' /\ NoLostWakeup' /\ active' = In({"running"})'
    BY <2>1, <2>3 DEF AdmissionInv, QueuedCounted, NoLostWakeup
  <2> QED BY <2>2, <2>4, <2>5 DEF AdmissionInv
<1>4. CASE ~Free
  <2>1. /\ place' = [place EXCEPT ![r] = "waiting"] /\ queued' = queued + 1
        /\ ahead' = [ahead EXCEPT ![r] = Waiting] /\ value' = value /\ active' = active
    BY <1>4 DEF Enter
  <2>2. AdmissionTypeOK'
    BY <1>1, <2>1 DEF AdmissionTypeOK, Waiting, In
  <2>3. /\ Holders' = Holders /\ InRoom' = InRoom \cup {r}
        /\ In({"running"})' = In({"running"}) /\ In({"granted", "late"})' = In({"granted", "late"})
    BY <1>1, <2>1 DEF AdmissionTypeOK, Holders, HoldersIn, InRoom, In
  <2>4. PermitsKept'
    BY <2>1, <2>3 DEF AdmissionInv, PermitsKept
  <2>5. QueuedCounted'
    BY <1>1, <1>2, <2>1, <2>3, OneMore, Counted DEF AdmissionInv, QueuedCounted
  <2>6. NoLostWakeup'
    <3>1. value > 0 => In({"granted", "late"}) # {}
      <4>1. value > 0 => Waiting # {} \/ In({"granted", "late"}) # {}
        BY <1>4 DEF Free, Waiting, In
      <4> QED BY <4>1 DEF AdmissionInv, NoLostWakeup
    <3> QED BY <2>1, <2>3, <3>1 DEF NoLostWakeup
  <2> QED BY <2>1, <2>2, <2>3, <2>4, <2>5, <2>6 DEF AdmissionInv
<1> QED BY <1>3, <1>4

LEMMA DeadlineInv ==
  ASSUME AdmissionInv, NEW r \in Requests, Deadline(r)
  PROVE AdmissionInv'
<1>1. /\ AdmissionTypeOK /\ place[r] \in {"waiting", "granted"}
      /\ place' = [place EXCEPT ![r] = IF @ = "waiting" THEN "cancelled" ELSE "late"]
      /\ LeaveLine({r}) /\ value' = value /\ queued' = queued /\ active' = active /\ left' = left
  BY DEF Deadline, AdmissionInv
<1>2. AdmissionTypeOK'
  BY <1>1, LineTyped DEF AdmissionTypeOK
<1>3. /\ Holders' = Holders /\ InRoom' = InRoom /\ In({"running"})' = In({"running"})
      /\ Waiting' \subseteq Waiting /\ In({"granted", "late"})' = In({"granted", "late"})
  BY <1>1 DEF AdmissionTypeOK, Holders, HoldersIn, InRoom, In, Waiting
<1>4. NoLostWakeup'
  BY <1>1, <1>3 DEF AdmissionInv, NoLostWakeup
<1> QED BY <1>1, <1>2, <1>3, <1>4 DEF AdmissionInv, PermitsKept, QueuedCounted

\* The steps outside the waiting room that take and give no permit.
LEMMA OutsideInv ==
  ASSUME AdmissionInv, NEW r \in Requests, Arrive(r) \/ Refuse(r) \/ LeaveRunning(r)
  PROVE AdmissionInv'
<1>1. /\ AdmissionTypeOK /\ ahead' = ahead /\ value' = value /\ queued' = queued /\ active' = active
      /\ left' \subseteq left \cup {r}
      /\ \/ place[r] = "idle" /\ place' = [place EXCEPT ![r] = "preparing"]
         \/ place[r] = "preparing" /\ place' = [place EXCEPT ![r] = "idle"]
         \/ place' = place
  BY DEF Arrive, Refuse, LeaveRunning, AdmissionInv
<1>2. AdmissionTypeOK'
  BY <1>1 DEF AdmissionTypeOK
<1>3. /\ Holders' = Holders /\ InRoom' = InRoom /\ In({"running"})' = In({"running"})
      /\ Waiting' = Waiting /\ In({"granted", "late"})' = In({"granted", "late"})
  BY <1>1 DEF AdmissionTypeOK, Holders, HoldersIn, InRoom, In, Waiting
<1> QED BY <1>1, <1>2, <1>3 DEF AdmissionInv, PermitsKept, QueuedCounted, NoLostWakeup

-----------------------------------------------------------------------------
(* The theorems. *)

THEOREM AdmissionInductive == AdmissionInv /\ [AdmissionNext]_admissionVars => AdmissionInv'
<1> SUFFICES ASSUME AdmissionInv, [AdmissionNext]_admissionVars PROVE AdmissionInv'
  OBVIOUS
<1>1. CASE UNCHANGED admissionVars
  BY <1>1 DEF AdmissionInv, AdmissionTypeOK, PermitsKept, QueuedCounted, NoLostWakeup, Holders, HoldersIn, InRoom, In, Waiting, admissionVars
<1>2. ASSUME NEW r \in Requests,
             \/ Arrive(r) \/ Refuse(r) \/ Enter(r) \/ Start(r) \/ Deadline(r)
             \/ GiveUp(r) \/ LeaveRunning(r) \/ EndRead(r)
      PROVE AdmissionInv'
  BY <1>2, OutsideInv, EnterInv, StartInv, DeadlineInv, GiveUpInv, EndReadInv
<1> QED BY <1>1, <1>2 DEF AdmissionNext

THEOREM AdmissionInvariance == AdmissionSpec => []AdmissionInv
BY AdmissionInitInv, AdmissionInductive, PTL DEF AdmissionSpec

\* The invariant implies that no more reads run than there are slots.
LEMMA OnlySlots == AdmissionInv => OnlySlotsRun
<1> SUFFICES ASSUME AdmissionInv PROVE OnlySlotsRun
  OBVIOUS
<1>1. active \in SUBSET Holders /\ Holders \in SUBSET Requests
  BY DEF AdmissionInv, In, Holders, HoldersIn
<1>2. /\ IsFiniteSet(Holders) /\ Cardinality(Holders) \in Nat /\ Cardinality(active) \in Nat
      /\ Cardinality(active) <= Cardinality(Holders)
  BY <1>1, Counted, FS_Subset
<1> QED BY <1>2, SlotsAssumption DEF AdmissionInv, OnlySlotsRun, PermitsKept, AdmissionTypeOK

\* Type correctness: whatever the order of deadlines, grants and releases, the
\* semaphore's value and the waiting room's count never fall below zero.
THEOREM AdmissionTypeCorrect == AdmissionSpec => []AdmissionTypeOK
BY AdmissionInvariance, PTL DEF AdmissionInv

\* No more reads run than there are slots, and active is what really runs,
\* with clients that stopped waiting included.
THEOREM SlotsAlwaysBound == AdmissionSpec => []OnlySlotsRun
BY AdmissionInvariance, OnlySlots, PTL

\* No permit is ever lost or made up.
THEOREM PermitsAlwaysKept == AdmissionSpec => []PermitsKept
BY AdmissionInvariance, PTL DEF AdmissionInv

\* A permit is free beside a waiter only until a waiter that was woken runs.
THEOREM WakeupNeverLost == AdmissionSpec => []NoLostWakeup
BY AdmissionInvariance, PTL DEF AdmissionInv

\* queued is the number of requests in the waiting room.
THEOREM QueuedAlwaysCounted == AdmissionSpec => []QueuedCounted
BY AdmissionInvariance, PTL DEF AdmissionInv
=============================================================================
