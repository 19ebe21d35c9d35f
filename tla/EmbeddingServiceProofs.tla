------------------------- MODULE EmbeddingServiceProofs -------------------------
(***************************************************************************)
(* PaidOnce and AnswersAreWhole of EmbeddingService, for every number of   *)
(* requests, texts, widths, failures and slices.                           *)
(*                                                                         *)
(* PaidOnce rests on three facts: what was paid for is stored or in the    *)
(* hand of the one who holds its claim (Owned); two requests never hold    *)
(* the same claim (Claims); and what a holder is still to buy was not      *)
(* found by a lookup it made under its claim, so nothing stored or in      *)
(* another hand can be it (Unpaid).                                        *)
(***************************************************************************)
EXTENDS EmbeddingService, TLAPS

Holding == {"again", "pay", "release", "abort"}

\* A claim names its holder, and only a holder has any.
Claims(r) ==
  /\ \A t \in mine[r] : claims[<<t, width[r]>>] = r
  /\ mine[r] # {} => pc[r] \in Holding

\* What a request looks up, lacks, hands over and has bought.
Nested(r) ==
  /\ pc[r] \in {"look", "again", "pay", "release"} => left[r] \cup missing[r] \subseteq round[r]
  /\ pc[r] \in {"again", "pay", "release"} => round[r] = mine[r] /\ bought[r] \subseteq missing[r]
  /\ slice[r] \subseteq missing[r] \ bought[r] /\ hand[r] \subseteq slice[r]
  /\ pc[r] # "pay" => slice[r] = {}
  /\ pc[r] \notin {"again", "pay", "release"} => bought[r] = {}

\* What a request answers is found, or still looked up, claimed or waited for.
Accounted(r) ==
  /\ pc[r] = "look" => asked[r] = got[r] \cup round[r]
  /\ pc[r] = "claim" => asked[r] = got[r] \cup missing[r]
  /\ pc[r] \in {"again", "pay", "release"} => asked[r] = got[r] \cup mine[r] \cup waits[r]
  /\ pc[r] = "release" => missing[r] = bought[r]
  /\ pc[r] = "wait" => asked[r] = got[r] \cup waits[r]
  /\ pc[r] = "done" => asked[r] = got[r]

\* What a holder is still to buy has not been paid for.
Unpaid(r) ==
  pc[r] \in {"again", "pay"} => \A t \in missing[r] \ (bought[r] \cup hand[r]) : <<t, width[r]>> \notin paid

Owned == paid \subseteq stored \cup InHand

IInv ==
  /\ TypeOK
  /\ \A r \in Requests : Claims(r) /\ Nested(r) /\ Accounted(r) /\ Unpaid(r)
  /\ Owned
  /\ PaidOnce

-----------------------------------------------------------------------------
(* Types. *)

\* Every step keeps the types.
LEMMA TypeStep == TypeOK /\ [Next]_vars => TypeOK'
<1> SUFFICES ASSUME TypeOK, [Next]_vars PROVE TypeOK'
  OBVIOUS
<1> USE ServiceAssumption
<1>1. ASSUME NEW r \in Requests, Ask(r) PROVE TypeOK'
  BY <1>1 DEF TypeOK, Ask, Live, buyVars, costVars
<1>2. ASSUME NEW r \in Requests, Look(r) PROVE TypeOK'
  BY <1>2 DEF TypeOK, Look, fileVars, claimVars, buyVars, costVars
<1>3. ASSUME NEW r \in Requests, Touch(r) PROVE TypeOK'
  BY <1>3 DEF TypeOK, Touch, Live, claimVars, buyVars, costVars
<1>4. ASSUME NEW r \in Requests, Claim(r) PROVE TypeOK'
  <2> USE <1>4 DEF Claim, Claimed
  <2>1. Free(r) \subseteq missing[r] /\ missing[r] \subseteq Texts
    BY DEF TypeOK, Free
  <2>2. claims' \in [Keys -> Requests \cup {Nobody}]
    BY DEF TypeOK
  <2>3. {<<t, claims[<<t, width[r]>>]>> : t \in missing[r] \ Free(r)} \subseteq Texts \X Requests
    <3>1. ASSUME NEW t \in missing[r] \ Free(r) PROVE claims[<<t, width[r]>>] \in Requests
      <4>1. <<t, width[r]>> \in Keys
        BY <2>1 DEF TypeOK, Keys
      <4> QED
        BY <4>1 DEF TypeOK, Free
    <3> HIDE <1>4 DEF Claim, Claimed
    <3>2. \A t \in missing[r] \ Free(r) : t \in Texts /\ claims[<<t, width[r]>>] \in Requests
      BY <2>1, <3>1
    <3> SUFFICES ASSUME NEW x \in {<<t, claims[<<t, width[r]>>]>> : t \in missing[r] \ Free(r)}
                 PROVE x \in Texts \X Requests
      OBVIOUS
    <3>3. PICK t \in missing[r] \ Free(r) : x = <<t, claims[<<t, width[r]>>]>>
      OBVIOUS
    <3> QED
      BY <3>2, <3>3
  <2>4. events' \in [Requests -> SUBSET (Texts \X Requests)]
    BY <2>3 DEF TypeOK
  <2> HIDE DEF Free
  <2> QED
    BY <2>1, <2>2, <2>4 DEF TypeOK, Live, fileVars, buyVars, costVars
<1>5. ASSUME NEW r \in Requests, Slice(r) PROVE TypeOK'
  BY <1>5 DEF TypeOK, Slice, Unbought, Live, fileVars, lookVars, claimVars, costVars
<1>6. ASSUME NEW r \in Requests, Pay(r) PROVE TypeOK'
  BY <1>6 DEF TypeOK, Pay, KeysOf, Keys, fileVars, lookVars, claimVars
<1>7. ASSUME NEW r \in Requests, Store(r) PROVE TypeOK'
  BY <1>7 DEF TypeOK, Store, KeysOf, Keys, Live, lookVars, claimVars, costVars
<1>8. ASSUME NEW r \in Requests, Stamp(r) PROVE TypeOK'
  BY <1>8 DEF TypeOK, Stamp, Live, lookVars, claimVars, buyVars, costVars
<1>9. ASSUME NEW r \in Requests, Release(r) PROVE TypeOK'
  BY <1>9 DEF TypeOK, Release, Freed, Live, fileVars, costVars
<1>10. ASSUME NEW r \in Requests, Wait(r) PROVE TypeOK'
  BY <1>10 DEF TypeOK, Wait, Live, fileVars, buyVars, costVars
<1>11. ASSUME NEW r \in Requests, Fail(r) PROVE TypeOK'
  BY <1>11 DEF TypeOK, Fail, Live, fileVars, claimVars
<1>12. ASSUME NEW k \in Keys, Push(k) PROVE TypeOK'
  BY <1>12 DEF TypeOK, Push, Keys, lookVars, claimVars, buyVars, costVars
<1>13. CASE Crash
  <2>1. pc' \in [Requests -> Live \cup {"idle", "done", "failed"}] /\ paid' \subseteq Keys
    BY <1>13 DEF TypeOK, Crash, Live
  <2>2. count' \in [asks : Nat, events : Nat]
    BY <1>13 DEF TypeOK, Crash
  <2> QED
    BY <1>13, <2>1, <2>2 DEF TypeOK, Crash, lookVars
<1>14. CASE SweepBegins
  BY <1>14 DEF TypeOK, SweepBegins, lookVars, claimVars, buyVars, costVars
<1>15. CASE Sweep
  BY <1>15 DEF TypeOK, Sweep, lookVars, claimVars, buyVars
<1>16. CASE UNCHANGED vars
  BY <1>16 DEF TypeOK, vars, fileVars, lookVars, claimVars, buyVars, costVars
<1> QED
  BY <1>1, <1>2, <1>3, <1>4, <1>5, <1>6, <1>7, <1>8, <1>9, <1>10, <1>11, <1>12, <1>13, <1>14, <1>15, <1>16
  DEF Next, Step

-----------------------------------------------------------------------------
(* The invariant. *)

\* Two requests never hold the same claim.
LEMMA OneHolder ==
  ASSUME NEW p \in Requests, NEW q \in Requests, Claims(p), Claims(q), width[p] = width[q],
         NEW t \in mine[p] \cap mine[q]
  PROVE  p = q
BY DEF Claims

LEMMA InvInit == Init => IInv
<1> SUFFICES ASSUME Init PROVE IInv
  OBVIOUS
<1> USE ServiceAssumption
<1>1. (CHOOSE w \in Widths : TRUE) \in Widths
  BY DEF ServiceAssumption
<1>2. TypeOK
  BY <1>1 DEF Init, TypeOK, Keys, Live
<1>3. \A r \in Requests : Claims(r) /\ Nested(r) /\ Accounted(r) /\ Unpaid(r)
  BY DEF Init, Claims, Nested, Accounted, Unpaid
<1> QED
  BY <1>2, <1>3 DEF Init, IInv, Owned, PaidOnce

\* Every step keeps the invariant.
LEMMA InvStep == IInv /\ [Next]_vars => IInv'
<1> SUFFICES ASSUME IInv, [Next]_vars PROVE IInv'
  OBVIOUS
<1> USE ServiceAssumption
<1>t. TypeOK /\ TypeOK'
  BY TypeStep DEF IInv
<1>i. \A q \in Requests : Claims(q) /\ Nested(q) /\ Accounted(q) /\ Unpaid(q)
  BY DEF IInv
<1>1. ASSUME NEW r \in Requests, Ask(r) PROVE IInv'
  <2>1. \A q \in Requests : Claims(q)'
    BY <1>1, <1>t, <1>i DEF Claims, TypeOK, Keys, Holding, Ask, Live, buyVars, costVars
  <2>2. \A q \in Requests : Nested(q)'
    BY <1>1, <1>t, <1>i DEF Nested, Claims, TypeOK, Ask, Live, buyVars, costVars
  <2>3. \A q \in Requests : Accounted(q)'
    BY <1>1, <1>t, <1>i DEF Accounted, Nested, TypeOK, Ask, Live, buyVars, costVars
  <2>4. \A q \in Requests : Unpaid(q)'
    BY <1>1, <1>t, <1>i DEF Unpaid, Nested, TypeOK, Ask, Live, buyVars, costVars
  <2>5. Owned'
    BY <1>1, <1>t, <1>i DEF IInv, Owned, InHand, KeysOf, Nested, TypeOK, Ask, Live, buyVars, costVars
  <2>6. PaidOnce'
    BY <1>1 DEF IInv, PaidOnce, Ask, Live, buyVars, costVars
  <2> QED
    BY <2>1, <2>2, <2>3, <2>4, <2>5, <2>6, <1>t DEF IInv
<1>2. ASSUME NEW r \in Requests, Look(r) PROVE IInv'
  <2>1. \A q \in Requests : Claims(q)'
    BY <1>2, <1>t, <1>i DEF Claims, TypeOK, Keys, Holding, Look, fileVars, claimVars, buyVars, costVars
  <2>2. \A q \in Requests : Nested(q)'
    BY <1>2, <1>t, <1>i DEF Nested, Claims, TypeOK, Look, fileVars, claimVars, buyVars, costVars
  <2>3. \A q \in Requests : Accounted(q)'
    BY <1>2, <1>t, <1>i DEF Accounted, Nested, TypeOK, Look, fileVars, claimVars, buyVars, costVars
  <2>4. \A q \in Requests : Unpaid(q)'
    <3>1. ASSUME NEW t \in left[r], pc[r] = "again", ~Covered(t, width[r]) PROVE <<t, width[r]>> \notin paid
      <4>t. t \in mine[r]
        BY <3>1, <1>t, <1>i DEF Nested, TypeOK
      <4>n. width[r] \in Widths /\ width[r] \in Nat
        BY <1>t, ServiceAssumption DEF TypeOK
      <4>w. width[r] \in Widths /\ width[r] >= width[r]
        BY <4>n
      <4>s. <<t, width[r]>> \notin stored
        BY <3>1, <4>w DEF Covered
      <4>1. <<t, width[r]>> \notin stored /\ t \in mine[r]
        BY <4>t, <4>s
      <4>2. ASSUME NEW q \in Requests, <<t, width[r]>> \in KeysOf(q, hand[q]) PROVE FALSE
        <5>1. t \in hand[q] /\ width[q] = width[r]
          BY <4>2 DEF KeysOf
        <5>2. pc[q] = "pay" /\ t \in mine[q]
          BY <5>1, <1>i, <1>t DEF Nested, TypeOK
        <5> QED
          BY <3>1, <4>1, <5>1, <5>2, <1>i, OneHolder
      <4> QED
        BY <4>1, <4>2 DEF IInv, Owned, InHand
    <3> QED
      BY <1>2, <3>1, <1>t, <1>i DEF Unpaid, TypeOK, Look, fileVars, claimVars, buyVars, costVars
  <2>5. Owned'
    BY <1>2, <1>t, <1>i DEF IInv, Owned, InHand, KeysOf, Nested, TypeOK, Look, fileVars, claimVars, buyVars, costVars
  <2>6. PaidOnce'
    BY <1>2 DEF IInv, PaidOnce, Look, fileVars, claimVars, buyVars, costVars
  <2> QED
    BY <2>1, <2>2, <2>3, <2>4, <2>5, <2>6, <1>t DEF IInv
<1>3. ASSUME NEW r \in Requests, Touch(r) PROVE IInv'
  <2>1. \A q \in Requests : Claims(q)'
    BY <1>3, <1>t, <1>i DEF Claims, TypeOK, Keys, Holding, Touch, claimVars, buyVars, costVars
  <2>2. \A q \in Requests : Nested(q)'
    BY <1>3, <1>t, <1>i DEF Nested, Claims, TypeOK, Touch, claimVars, buyVars, costVars
  <2>3. \A q \in Requests : Accounted(q)'
    BY <1>3, <1>t, <1>i DEF Accounted, Nested, TypeOK, Touch, claimVars, buyVars, costVars
  <2>4. \A q \in Requests : Unpaid(q)'
    BY <1>3, <1>t, <1>i DEF Unpaid, Nested, TypeOK, Touch, claimVars, buyVars, costVars
  <2>5. Owned'
    BY <1>3, <1>t, <1>i DEF IInv, Owned, InHand, KeysOf, Nested, TypeOK, Touch, claimVars, buyVars, costVars
  <2>6. PaidOnce'
    BY <1>3 DEF IInv, PaidOnce, Touch, claimVars, buyVars, costVars
  <2> QED
    BY <2>1, <2>2, <2>3, <2>4, <2>5, <2>6, <1>t DEF IInv
<1>4. ASSUME NEW r \in Requests, Claim(r) PROVE IInv'
  <2>1. \A q \in Requests : Claims(q)'
    <3>1. mine[r] = {} /\ Free(r) \subseteq Texts
      BY <1>4, <1>t, <1>i DEF Claim, Claimed, Claims, Holding, Free, TypeOK
    <3>2. \A t \in Texts : <<t, width[r]>> \in Keys /\ (t \in Free(r) => claims'[<<t, width[r]>>] = r)
      BY <1>4, <1>t DEF Claim, Claimed, KeysOf, Keys, TypeOK
    <3>3. Claims(r)'
      BY <1>4, <3>1, <3>2, <1>t DEF Claim, Claimed, Claims, Holding, TypeOK
    <3>4. ASSUME NEW q \in Requests, q # r, NEW t \in mine[q] PROVE claims'[<<t, width[q]>>] = q
      <4>1. claims[<<t, width[q]>>] = q /\ <<t, width[q]>> \in Keys
        BY <1>t, <1>i DEF Claims, TypeOK, Keys
      <4>2. <<t, width[q]>> \notin KeysOf(r, Free(r))
        BY <4>1 DEF KeysOf, Free
      <4> QED
        BY <1>4, <4>1, <4>2 DEF Claim, Claimed
    <3>5. ASSUME NEW q \in Requests, q # r PROVE Claims(q)'
      BY <1>4, <3>4, <3>5, <1>t, <1>i DEF Claim, Claimed, Claims, TypeOK
    <3> QED
      BY <3>3, <3>5
  <2>2. \A q \in Requests : Nested(q)'
    <3>1. slice[r] = {} /\ hand[r] = {} /\ bought[r] = {} /\ UNCHANGED <<slice, hand, bought>>
      BY <1>4, <1>t, <1>i DEF Claim, Claimed, Nested, buyVars
    <3>2. /\ pc' = [pc EXCEPT ![r] = IF Free(r) = {} THEN "wait" ELSE "again"]
          /\ round' = [round EXCEPT ![r] = Free(r)] /\ mine' = [mine EXCEPT ![r] = Free(r)]
          /\ left' = [left EXCEPT ![r] = Free(r)] /\ missing' = [missing EXCEPT ![r] = {}]
      BY <1>4 DEF Claim, Claimed
    <3>3. Nested(r)'
      BY <3>1, <3>2, <1>t DEF Nested, TypeOK
    <3>4. ASSUME NEW q \in Requests, q # r PROVE Nested(q)'
      BY <3>1, <3>2, <3>4, <1>t, <1>i DEF Nested, TypeOK
    <3> QED
      BY <3>3, <3>4
  <2>3. \A q \in Requests : Accounted(q)'
    BY <1>4, <1>t, <1>i DEF Accounted, Nested, TypeOK, Claim, Claimed, Free, KeysOf, fileVars, buyVars, costVars
  <2>4. \A q \in Requests : Unpaid(q)'
    BY <1>4, <1>t, <1>i DEF Unpaid, Nested, TypeOK, Claim, Claimed, Free, KeysOf, fileVars, buyVars, costVars
  <2>5. Owned'
    BY <1>4, <1>t, <1>i DEF IInv, Owned, InHand, Nested, TypeOK, Claim, Claimed, Free, KeysOf, fileVars, buyVars, costVars
  <2>6. PaidOnce'
    BY <1>4 DEF IInv, PaidOnce, Claim, Claimed, Free, KeysOf, fileVars, buyVars, costVars
  <2> QED
    BY <2>1, <2>2, <2>3, <2>4, <2>5, <2>6, <1>t DEF IInv
<1>5. ASSUME NEW r \in Requests, Slice(r) PROVE IInv'
  <2>1. \A q \in Requests : Claims(q)'
    BY <1>5, <1>t, <1>i DEF Claims, TypeOK, Keys, Holding, Slice, Unbought, fileVars, lookVars, claimVars, costVars
  <2>2. \A q \in Requests : Nested(q)'
    BY <1>5, <1>t, <1>i DEF Nested, Claims, TypeOK, Slice, Unbought, fileVars, lookVars, claimVars, costVars
  <2>3. \A q \in Requests : Accounted(q)'
    BY <1>5, <1>t, <1>i DEF Accounted, Nested, TypeOK, Slice, Unbought, fileVars, lookVars, claimVars, costVars
  <2>4. \A q \in Requests : Unpaid(q)'
    BY <1>5, <1>t, <1>i DEF Unpaid, Nested, TypeOK, Slice, Unbought, fileVars, lookVars, claimVars, costVars
  <2>5. Owned'
    BY <1>5, <1>t, <1>i DEF IInv, Owned, InHand, KeysOf, Nested, TypeOK, Slice, Unbought, fileVars, lookVars, claimVars, costVars
  <2>6. PaidOnce'
    BY <1>5 DEF IInv, PaidOnce, Slice, Unbought, fileVars, lookVars, claimVars, costVars
  <2> QED
    BY <2>1, <2>2, <2>3, <2>4, <2>5, <2>6, <1>t DEF IInv
<1>6. ASSUME NEW r \in Requests, Pay(r) PROVE IInv'
  <2>1. \A q \in Requests : Claims(q)'
    BY <1>6, <1>t, <1>i DEF Claims, TypeOK, Keys, Holding, Pay, KeysOf, fileVars, lookVars, claimVars
  <2>2. \A q \in Requests : Nested(q)'
    BY <1>6, <1>t, <1>i DEF Nested, Claims, TypeOK, Pay, KeysOf, fileVars, lookVars, claimVars
  <2>3. \A q \in Requests : Accounted(q)'
    BY <1>6, <1>t, <1>i DEF Accounted, Nested, TypeOK, Pay, KeysOf, fileVars, lookVars, claimVars
  <2>4. \A q \in Requests : Unpaid(q)'
    <3> PICK B \in (SUBSET (slice[r] \ hand[r])) \ {{}} :
            hand' = [hand EXCEPT ![r] = @ \cup B] /\ paid' = paid \cup KeysOf(r, B)
      BY <1>6 DEF Pay
    <3>1. ASSUME NEW q \in Requests, pc[q] \in {"again", "pay"}, NEW t \in missing[q] \ (bought[q] \cup hand'[q]),
                 <<t, width[q]>> \in KeysOf(r, B)
          PROVE  FALSE
      <4>1. t \in B /\ width[q] = width[r]
        BY <3>1 DEF KeysOf
      <4>2. t \in mine[r] /\ t \in mine[q]
        BY <1>6, <3>1, <4>1, <1>t, <1>i DEF Pay, Nested, TypeOK
      <4>3. q = r
        BY <4>1, <4>2, <1>i, OneHolder
      <4> QED
        BY <3>1, <4>1, <4>3, <1>t DEF TypeOK
    <3>2. \A q \in Requests : hand[q] \subseteq hand'[q]
      BY <1>t DEF TypeOK
    <3> QED
      BY <1>6, <3>1, <3>2, <1>t, <1>i DEF Unpaid, TypeOK, Pay, lookVars
  <2>5. Owned'
    BY <1>6, <1>t, <1>i DEF IInv, Owned, InHand, KeysOf, Nested, TypeOK, Pay, fileVars, lookVars, claimVars
  <2>6. PaidOnce'
    <3> PICK B \in (SUBSET (slice[r] \ hand[r])) \ {{}} : twice' = twice \cup (paid \cap KeysOf(r, B))
      BY <1>6 DEF Pay
    <3>1. \A t \in B : t \in missing[r] \ (bought[r] \cup hand[r])
      BY <1>i DEF Nested
    <3>2. paid \cap KeysOf(r, B) = {}
      BY <1>6, <3>1, <1>i DEF Pay, Unpaid, KeysOf
    <3> QED
      BY <3>2 DEF IInv, PaidOnce
  <2> QED
    BY <2>1, <2>2, <2>3, <2>4, <2>5, <2>6, <1>t DEF IInv
<1>7. ASSUME NEW r \in Requests, Store(r) PROVE IInv'
  <2>1. \A q \in Requests : Claims(q)'
    BY <1>7, <1>t, <1>i DEF Claims, TypeOK, Keys, Holding, Store, KeysOf, lookVars, claimVars, costVars
  <2>2. \A q \in Requests : Nested(q)'
    BY <1>7, <1>t, <1>i DEF Nested, Claims, TypeOK, Store, KeysOf, lookVars, claimVars, costVars
  <2>3. \A q \in Requests : Accounted(q)'
    BY <1>7, <1>t, <1>i DEF Accounted, Nested, TypeOK, Store, KeysOf, lookVars, claimVars, costVars
  <2>4. \A q \in Requests : Unpaid(q)'
    BY <1>7, <1>t, <1>i DEF Unpaid, Nested, TypeOK, Store, KeysOf, lookVars, claimVars, costVars
  <2>5. Owned'
    BY <1>7, <1>t, <1>i DEF IInv, Owned, InHand, KeysOf, Nested, TypeOK, Store, lookVars, claimVars, costVars
  <2>6. PaidOnce'
    BY <1>7 DEF IInv, PaidOnce, Store, KeysOf, lookVars, claimVars, costVars
  <2> QED
    BY <2>1, <2>2, <2>3, <2>4, <2>5, <2>6, <1>t DEF IInv
<1>8. ASSUME NEW r \in Requests, Stamp(r) PROVE IInv'
  <2>1. \A q \in Requests : Claims(q)'
    BY <1>8, <1>t, <1>i DEF Claims, TypeOK, Keys, Holding, Stamp, Unbought, lookVars, claimVars, buyVars, costVars
  <2>2. \A q \in Requests : Nested(q)'
    BY <1>8, <1>t, <1>i DEF Nested, Claims, TypeOK, Stamp, Unbought, lookVars, claimVars, buyVars, costVars
  <2>3. \A q \in Requests : Accounted(q)'
    <3>1. missing[r] = bought[r]
      BY <1>8, <1>i DEF Stamp, Nested, Unbought
    <3> QED
      BY <1>8, <3>1, <1>t, <1>i DEF Accounted, TypeOK, Stamp, lookVars, claimVars, buyVars
  <2>4. \A q \in Requests : Unpaid(q)'
    BY <1>8, <1>t, <1>i DEF Unpaid, Nested, TypeOK, Stamp, Unbought, lookVars, claimVars, buyVars, costVars
  <2>5. Owned'
    BY <1>8, <1>t, <1>i DEF IInv, Owned, InHand, KeysOf, Nested, TypeOK, Stamp, Unbought, lookVars, claimVars, buyVars, costVars
  <2>6. PaidOnce'
    BY <1>8 DEF IInv, PaidOnce, Stamp, Unbought, lookVars, claimVars, buyVars, costVars
  <2> QED
    BY <2>1, <2>2, <2>3, <2>4, <2>5, <2>6, <1>t DEF IInv
<1>9. ASSUME NEW r \in Requests, Release(r) PROVE IInv'
  <2>1. \A q \in Requests : Claims(q)'
    BY <1>9, <1>t, <1>i DEF Claims, TypeOK, Keys, Holding, Release, Freed, KeysOf, fileVars, costVars
  <2>2. \A q \in Requests : Nested(q)'
    BY <1>9, <1>t, <1>i DEF Nested, Claims, TypeOK, Release, Freed, KeysOf, fileVars, costVars
  <2>3. \A q \in Requests : Accounted(q)'
    BY <1>9, <1>t, <1>i DEF Accounted, Nested, TypeOK, Release, Freed, KeysOf, fileVars, costVars
  <2>4. \A q \in Requests : Unpaid(q)'
    BY <1>9, <1>t, <1>i DEF Unpaid, Nested, TypeOK, Release, Freed, KeysOf, fileVars, costVars
  <2>5. Owned'
    BY <1>9, <1>t, <1>i DEF IInv, Owned, InHand, KeysOf, Nested, TypeOK, Release, Freed, fileVars, costVars
  <2>6. PaidOnce'
    BY <1>9 DEF IInv, PaidOnce, Release, Freed, KeysOf, fileVars, costVars
  <2> QED
    BY <2>1, <2>2, <2>3, <2>4, <2>5, <2>6, <1>t DEF IInv
<1>10. ASSUME NEW r \in Requests, Wait(r) PROVE IInv'
  <2>1. \A q \in Requests : Claims(q)'
    BY <1>10, <1>t, <1>i DEF Claims, TypeOK, Keys, Holding, Wait, fileVars, buyVars, costVars
  <2>2. \A q \in Requests : Nested(q)'
    BY <1>10, <1>t, <1>i DEF Nested, Claims, TypeOK, Wait, fileVars, buyVars, costVars
  <2>3. \A q \in Requests : Accounted(q)'
    BY <1>10, <1>t, <1>i DEF Accounted, Nested, TypeOK, Wait, fileVars, buyVars, costVars
  <2>4. \A q \in Requests : Unpaid(q)'
    BY <1>10, <1>t, <1>i DEF Unpaid, Nested, TypeOK, Wait, fileVars, buyVars, costVars
  <2>5. Owned'
    BY <1>10, <1>t, <1>i DEF IInv, Owned, InHand, KeysOf, Nested, TypeOK, Wait, fileVars, buyVars, costVars
  <2>6. PaidOnce'
    BY <1>10 DEF IInv, PaidOnce, Wait, fileVars, buyVars, costVars
  <2> QED
    BY <2>1, <2>2, <2>3, <2>4, <2>5, <2>6, <1>t DEF IInv
<1>11. ASSUME NEW r \in Requests, Fail(r) PROVE IInv'
  <2>1. \A q \in Requests : Claims(q)'
    BY <1>11, <1>t, <1>i DEF Claims, TypeOK, Keys, Holding, Fail, KeysOf, fileVars, claimVars
  <2>2. \A q \in Requests : Nested(q)'
    BY <1>11, <1>t, <1>i DEF Nested, Claims, TypeOK, Fail, KeysOf, fileVars, claimVars
  <2>3. \A q \in Requests : Accounted(q)'
    BY <1>11, <1>t, <1>i DEF Accounted, Nested, TypeOK, Fail, KeysOf, fileVars, claimVars
  <2>4. \A q \in Requests : Unpaid(q)'
    BY <1>11, <1>t, <1>i DEF Unpaid, Nested, TypeOK, Fail, KeysOf, fileVars, claimVars
  <2>5. Owned'
    BY <1>11, <1>t, <1>i DEF IInv, Owned, InHand, KeysOf, Nested, TypeOK, Fail, fileVars, claimVars
  <2>6. PaidOnce'
    BY <1>11 DEF IInv, PaidOnce, Fail, KeysOf, fileVars, claimVars
  <2> QED
    BY <2>1, <2>2, <2>3, <2>4, <2>5, <2>6, <1>t DEF IInv
<1>12. ASSUME NEW k \in Keys, Push(k) PROVE IInv'
  <2>1. \A q \in Requests : Claims(q)' /\ Nested(q)' /\ Accounted(q)' /\ Unpaid(q)'
    BY <1>12, <1>t, <1>i DEF Claims, Nested, Accounted, Unpaid, Holding, TypeOK, Push, lookVars, claimVars, buyVars, costVars
  <2>2. Owned' /\ PaidOnce'
    BY <1>12, <1>t, <1>i DEF IInv, Owned, InHand, KeysOf, PaidOnce, TypeOK, Push, lookVars, claimVars, buyVars, costVars
  <2> QED
    BY <2>1, <2>2, <1>t DEF IInv
<1>13. CASE Crash
  <2>1. \A q \in Requests : Claims(q)' /\ Nested(q)' /\ Accounted(q)' /\ Unpaid(q)'
    BY <1>13, <1>t, <1>i DEF Claims, Nested, Accounted, Unpaid, Holding, TypeOK, Crash, Live, lookVars
  <2>2. Owned' /\ PaidOnce'
    BY <1>13, <1>t, <1>i DEF IInv, Owned, InHand, KeysOf, PaidOnce, TypeOK, Crash, Live, lookVars
  <2> QED
    BY <2>1, <2>2, <1>t DEF IInv
<1>14. CASE SweepBegins
  <2>1. \A q \in Requests : Claims(q)' /\ Nested(q)' /\ Accounted(q)' /\ Unpaid(q)'
    BY <1>14, <1>t, <1>i DEF Claims, Nested, Accounted, Unpaid, Holding, TypeOK, SweepBegins, lookVars, claimVars, buyVars, costVars
  <2>2. Owned' /\ PaidOnce'
    BY <1>14, <1>t, <1>i DEF IInv, Owned, InHand, KeysOf, PaidOnce, TypeOK, SweepBegins, lookVars, claimVars, buyVars, costVars
  <2> QED
    BY <2>1, <2>2, <1>t DEF IInv
<1>15. CASE Sweep
  <2>1. \A q \in Requests : Claims(q)' /\ Nested(q)' /\ Accounted(q)' /\ Unpaid(q)'
    BY <1>15, <1>t, <1>i DEF Claims, Nested, Accounted, Unpaid, Holding, TypeOK, Sweep, lookVars, claimVars, buyVars
  <2>2. Owned' /\ PaidOnce'
    BY <1>15, <1>t, <1>i DEF IInv, Owned, InHand, KeysOf, PaidOnce, TypeOK, Sweep, lookVars, claimVars, buyVars
  <2> QED
    BY <2>1, <2>2, <1>t DEF IInv
<1>16. CASE UNCHANGED vars
  <2>1. \A q \in Requests : Claims(q)' /\ Nested(q)' /\ Accounted(q)' /\ Unpaid(q)'
    BY <1>16, <1>t, <1>i DEF Claims, Nested, Accounted, Unpaid, Holding, TypeOK, vars, fileVars, lookVars, claimVars, buyVars, costVars
  <2>2. Owned' /\ PaidOnce'
    BY <1>16, <1>t, <1>i DEF IInv, Owned, InHand, KeysOf, PaidOnce, TypeOK, vars, fileVars, lookVars, claimVars, buyVars, costVars
  <2> QED
    BY <2>1, <2>2, <1>t DEF IInv
<1> QED
  BY <1>1, <1>2, <1>3, <1>4, <1>5, <1>6, <1>7, <1>8, <1>9, <1>10, <1>11, <1>12, <1>13, <1>14, <1>15, <1>16
  DEF Next, Step

-----------------------------------------------------------------------------
(* The theorems. *)

THEOREM Invariance == Spec => []IInv
<1>1. Init => IInv
  BY InvInit
<1>2. IInv /\ [Next]_vars => IInv'
  BY InvStep
<1> QED
  BY <1>1, <1>2, PTL DEF Spec

\* Whatever requests, pushes, failures, crashes and collections do, no text is paid for at a
\* width while an earlier payment for it is stored or on its way (EmbeddingService.documents).
THEOREM NothingIsPaidTwice == Spec => []PaidOnce
<1>1. IInv => PaidOnce
  BY DEF IInv
<1> QED
  BY <1>1, Invariance, PTL

\* A documents request that ends well has a vector for every text it was asked for.
THEOREM EveryAnswerIsWhole == Spec => []AnswersAreWhole
<1>1. IInv => AnswersAreWhole
  BY DEF IInv, Accounted, AnswersAreWhole
<1> QED
  BY <1>1, Invariance, PTL

\* Two requests never buy the same text at the same width at once (EmbeddingService._claim).
THEOREM OneBuyer ==
  Spec => [](\A p, q \in Requests : \A t \in slice[p] \cap slice[q] : width[p] = width[q] => p = q)
<1>1. ASSUME IInv, NEW p \in Requests, NEW q \in Requests, NEW t \in slice[p] \cap slice[q], width[p] = width[q]
      PROVE  p = q
  <2>1. t \in mine[p] \cap mine[q]
    BY <1>1 DEF IInv, Nested, TypeOK
  <2> QED
    BY <1>1, <2>1, OneHolder DEF IInv
<1>2. IInv => \A p, q \in Requests : \A t \in slice[p] \cap slice[q] : width[p] = width[q] => p = q
  BY <1>1
<1> QED
  BY <1>2, Invariance, PTL

=================================================================================
