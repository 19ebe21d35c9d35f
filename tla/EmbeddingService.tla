---------------------------- MODULE EmbeddingService ----------------------------
(***************************************************************************)
(* The embedding server's documents request (embedding/service.py) over    *)
(* the sqlite cache it shares with its own collection                      *)
(* (embedding/cache.py, embedding/gc.py), for one family of embedders.     *)
(*                                                                         *)
(* Every request is a thread.  It looks its texts up one by one, claims    *)
(* those nobody is buying, buys what it claimed through the caching        *)
(* embedder, which looks them up again, releases its claims, waits for     *)
(* those others held, and starts over with what it waited for.  Meanwhile  *)
(* clients push vectors, providers and the database fail, the server dies  *)
(* and comes back, and a collection sweeps the file.                       *)
(*                                                                         *)
(* What is abstracted: a text is its digest, a vector the text and width   *)
(* it is for; a stamp is whether it is of today.  An event is named by the *)
(* request that will set it: nobody else does, and who waits on it drops   *)
(* it for good.  A failed request's client may ask again: a slot of        *)
(* Requests is used again, and a client that gave up is another slot.      *)
(***************************************************************************)
EXTENDS Integers, FiniteSets

CONSTANTS
  Requests,    \* threads that answer a documents request
  Texts,       \* digests of texts
  Widths,      \* vector widths clients ask for
  Old,         \* rows of the cache file last used before the days a collection keeps
  FlushEvery,  \* texts handed to the provider before they are stored (512)
  Nobody,      \* who buys a text that is not claimed
  MaxAsks,     \* bound: requests
  MaxEvents    \* bound: vectors pushed, failures of the provider or the database, crashes, collections

Keys == Texts \X Widths

ASSUME ServiceAssumption ==
  /\ IsFiniteSet(Texts) /\ Widths \subseteq Nat /\ Widths # {} /\ Old \subseteq Keys
  /\ FlushEvery \in Nat \ {0} /\ Nobody \notin Requests
  /\ MaxAsks \in Nat /\ MaxEvents \in Nat

VARIABLES
  stored,   \* rows of the cache file
  fresh,    \* texts stamped as used today
  opened,   \* whether the server has the file open
  sweep,    \* a collection: "none", "checked" that nobody has the file open, "done"
  claims,   \* _claims: who buys a text at a width
  pc,       \* where each request is
  width,    \* the width it asks for
  asked,    \* its texts
  got,      \* those its answer has a vector for
  round,    \* the texts of its current lookup ...
  left,     \* ... those it still has to look up ...
  missing,  \* ... and those it did not find
  mine,     \* texts it claimed
  waits,    \* texts it waits for
  events,   \* <<text, who sets it>>: claims of others it still waits on
  slice,    \* texts handed to the provider
  hand,     \* those of them the provider has answered (and charged)
  bought,   \* texts it bought and stored
  paid,     \* history: vectors paid for and not lost since
  twice,    \* history: vectors paid for while they were in paid
  count     \* requests and other events so far

fileVars == <<stored, fresh, opened, sweep>>
lookVars == <<round, left, missing>>
claimVars == <<claims, mine, waits, events>>
buyVars == <<slice, hand, bought>>
costVars == <<paid, twice>>
vars == <<fileVars, lookVars, claimVars, buyVars, costVars, pc, width, asked, got, count>>

Live == {"look", "claim", "again", "pay", "release", "abort", "wait"}

KeysOf(r, texts) == {<<t, width[r]>> : t \in texts}
InHand == UNION {KeysOf(r, hand[r]) : r \in Requests}

\* A row of at least the width serves: a wider vector is cut.
Covered(t, w) == \E v \in Widths : v >= w /\ <<t, v>> \in stored

Init ==
  /\ stored = Old /\ fresh = {} /\ opened = FALSE /\ sweep = "none"
  /\ claims = [k \in Keys |-> Nobody]
  /\ pc = [r \in Requests |-> "idle"]
  /\ width = [r \in Requests |-> CHOOSE w \in Widths : TRUE]
  /\ asked = [r \in Requests |-> {}] /\ got = asked
  /\ round = asked /\ left = asked /\ missing = asked
  /\ mine = asked /\ waits = asked /\ events = asked
  /\ slice = asked /\ hand = asked /\ bought = asked
  /\ paid = {} /\ twice = {}
  /\ count = [asks |-> 0, events |-> 0]

-----------------------------------------------------------------------------
(* A request. *)

\* The first free slot will do.
Ask(r) ==
  /\ pc[r] \notin Live /\ count.asks < MaxAsks
  /\ r = CHOOSE q \in Requests : pc[q] \notin Live
  /\ \E w \in Widths, T \in (SUBSET Texts) \ {{}} :
       /\ width' = [width EXCEPT ![r] = w]
       /\ asked' = [asked EXCEPT ![r] = T]
       /\ round' = [round EXCEPT ![r] = T]
       /\ left' = [left EXCEPT ![r] = T]
  /\ got' = [got EXCEPT ![r] = {}]
  /\ missing' = [missing EXCEPT ![r] = {}]
  /\ waits' = [waits EXCEPT ![r] = {}]
  /\ pc' = [pc EXCEPT ![r] = "look"]
  /\ opened' = TRUE
  /\ count' = [count EXCEPT !.asks = @ + 1]
  /\ UNCHANGED <<stored, fresh, sweep, claims, mine, events, buyVars, costVars>>

\* One text of a lookup, the request's own ("look") or the caching embedder's ("again").
Look(r) ==
  /\ pc[r] \in {"look", "again"}
  /\ \E t \in left[r] :
       /\ left' = [left EXCEPT ![r] = @ \ {t}]
       /\ missing' = [missing EXCEPT ![r] = IF Covered(t, width[r]) THEN @ ELSE @ \cup {t}]
  /\ UNCHANGED <<fileVars, round, claimVars, buyVars, costVars, pc, width, asked, got, count>>

\* What a lookup served is stamped at its end, and is the answer's.
Touch(r) ==
  /\ pc[r] = "look" /\ left[r] = {}
  /\ fresh' = fresh \cup (round[r] \ missing[r])
  /\ got' = [got EXCEPT ![r] = @ \cup (round[r] \ missing[r])]
  /\ round' = [round EXCEPT ![r] = {}]
  /\ pc' = [pc EXCEPT ![r] = IF missing[r] = {} THEN "done" ELSE "claim"]
  /\ UNCHANGED <<stored, opened, sweep, left, missing, claimVars, buyVars, costVars, width, asked, count>>

Free(r) == {t \in missing[r] : claims[<<t, width[r]>>] = Nobody}

\* The claims are taken and read under one lock.
Claimed(r) ==
  /\ pc[r] = "claim"
  /\ claims' = [k \in Keys |-> IF k \in KeysOf(r, Free(r)) THEN r ELSE claims[k]]
  /\ mine' = [mine EXCEPT ![r] = Free(r)]
  /\ waits' = [waits EXCEPT ![r] = missing[r] \ Free(r)]
  /\ events' = [events EXCEPT ![r] = {<<t, claims[<<t, width[r]>>]>> : t \in missing[r] \ Free(r)}]
  /\ round' = [round EXCEPT ![r] = Free(r)]
  /\ pc' = [pc EXCEPT ![r] = IF Free(r) = {} THEN "wait" ELSE "again"]
  /\ UNCHANGED <<fileVars, buyVars, costVars, width, asked, got, count>>

\* What is claimed is bought as it is.
ClaimAndBuy(r) == Claimed(r) /\ missing' = [missing EXCEPT ![r] = Free(r)] /\ UNCHANGED left

\* The caching embedder looks up again what it is to buy.
Claim(r) ==
  /\ Claimed(r)
  /\ left' = [left EXCEPT ![r] = Free(r)]
  /\ missing' = [missing EXCEPT ![r] = {}]

Unbought(r) == missing[r] \ bought[r]

\* The next slice goes to the provider.
Slice(r) ==
  /\ pc[r] = "again" /\ left[r] = {}
  /\ \E S \in (SUBSET Unbought(r)) \ {{}} :
       /\ Cardinality(S) = FlushEvery \/ (S = Unbought(r) /\ Cardinality(S) < FlushEvery)
       /\ slice' = [slice EXCEPT ![r] = S]
  /\ pc' = [pc EXCEPT ![r] = "pay"]
  /\ UNCHANGED <<fileVars, lookVars, claimVars, hand, bought, costVars, width, asked, got, count>>

\* The provider answers, and charges, one batch of a slice.
Pay(r) ==
  /\ pc[r] = "pay"
  /\ \E B \in (SUBSET (slice[r] \ hand[r])) \ {{}} :
       /\ hand' = [hand EXCEPT ![r] = @ \cup B]
       /\ paid' = paid \cup KeysOf(r, B)
       /\ twice' = twice \cup (paid \cap KeysOf(r, B))
  /\ UNCHANGED <<fileVars, lookVars, claimVars, slice, bought, pc, width, asked, got, count>>

\* A whole slice is stored, and stamped.
Store(r) ==
  /\ pc[r] = "pay" /\ hand[r] = slice[r]
  /\ stored' = stored \cup KeysOf(r, hand[r])
  /\ fresh' = fresh \cup hand[r]
  /\ bought' = [bought EXCEPT ![r] = @ \cup hand[r]]
  /\ hand' = [hand EXCEPT ![r] = {}]
  /\ slice' = [slice EXCEPT ![r] = {}]
  /\ pc' = [pc EXCEPT ![r] = "again"]
  /\ UNCHANGED <<opened, sweep, lookVars, claimVars, costVars, width, asked, got, count>>

\* After the last slice, what the second lookup served is stamped.
Stamp(r) ==
  /\ pc[r] = "again" /\ left[r] = {} /\ Unbought(r) = {}
  /\ fresh' = fresh \cup (round[r] \ missing[r])
  /\ pc' = [pc EXCEPT ![r] = "release"]
  /\ UNCHANGED <<stored, opened, sweep, lookVars, claimVars, buyVars, costVars, width, asked, got, count>>

\* A purchase that failed keeps its claims.
FreedIfBought(r) ==
  IF pc[r] = "abort" THEN UNCHANGED <<claims, events, mine>>
  ELSE /\ claims' = [k \in Keys |-> IF k \in KeysOf(r, mine[r]) THEN Nobody ELSE claims[k]]
       /\ events' = [q \in Requests |-> events[q] \ {<<t, r>> : t \in mine[r]}]
       /\ mine' = [mine EXCEPT ![r] = {}]

\* The claims end and their events are set, whether the purchase stored or failed.
Freed(r) ==
  /\ claims' = [k \in Keys |-> IF k \in KeysOf(r, mine[r]) THEN Nobody ELSE claims[k]]
  /\ events' = [q \in Requests |-> events[q] \ {<<t, r>> : t \in mine[r]}]
  /\ mine' = [mine EXCEPT ![r] = {}]

Release(r) ==
  /\ pc[r] \in {"release", "abort"}
  /\ Freed(r)
  /\ got' = [got EXCEPT ![r] = IF pc[r] = "release" THEN @ \cup (round[r] \ missing[r]) \cup bought[r] ELSE @]
  /\ round' = [round EXCEPT ![r] = {}]
  /\ missing' = [missing EXCEPT ![r] = {}]
  /\ bought' = [bought EXCEPT ![r] = {}]
  /\ pc' = [pc EXCEPT ![r] = IF @ = "release" THEN "wait" ELSE "failed"]
  /\ UNCHANGED <<fileVars, left, waits, slice, hand, costVars, width, asked, count>>

\* What others bought is taken for stored, and answered without another round.
WaitOnce(r) ==
  /\ pc[r] = "wait" /\ events[r] = {}
  /\ got' = [got EXCEPT ![r] = @ \cup {t \in waits[r] : Covered(t, width[r])}]
  /\ pc' = [pc EXCEPT ![r] = "done"]
  /\ UNCHANGED <<fileVars, lookVars, claimVars, buyVars, costVars, width, asked, count>>

\* Every claim waited for has ended: what it was for is looked up again.
Wait(r) ==
  /\ pc[r] = "wait" /\ events[r] = {}
  /\ round' = [round EXCEPT ![r] = waits[r]]
  /\ waits' = [waits EXCEPT ![r] = {}]
  /\ left' = [left EXCEPT ![r] = waits[r]]
  /\ missing' = [missing EXCEPT ![r] = {}]
  /\ pc' = [pc EXCEPT ![r] = "look"]
  /\ UNCHANGED <<fileVars, claims, mine, events, buyVars, costVars, width, asked, got, count>>

-----------------------------------------------------------------------------
(* What else happens to the cache. *)

\* The provider gives up or the database stays locked: what is in hand is lost.
Fail(r) ==
  /\ count.events < MaxEvents
  /\ pc[r] \in {"look", "again", "pay"}
  /\ round' = [round EXCEPT ![r] = {}]
  /\ left' = [left EXCEPT ![r] = {}]
  /\ missing' = [missing EXCEPT ![r] = {}]
  /\ pc' = [pc EXCEPT ![r] = IF @ = "look" THEN "failed" ELSE "abort"]
  /\ paid' = paid \ KeysOf(r, hand[r])
  /\ hand' = [hand EXCEPT ![r] = {}]
  /\ bought' = [bought EXCEPT ![r] = {}]
  /\ slice' = [slice EXCEPT ![r] = {}]
  /\ count' = [count EXCEPT !.events = @ + 1]
  /\ UNCHANGED <<fileVars, claimVars, twice, width, asked, got>>

\* The server dies: its threads and claims go, its clients see an error.
Crash ==
  /\ count.events < MaxEvents /\ opened
  /\ pc' = [r \in Requests |-> IF pc[r] \in Live THEN "failed" ELSE pc[r]]
  /\ claims' = [k \in Keys |-> Nobody]
  /\ mine' = [r \in Requests |-> {}] /\ events' = [r \in Requests |-> {}]
  /\ paid' = paid \ InHand
  /\ bought' = [r \in Requests |-> {}]
  /\ hand' = [r \in Requests |-> {}] /\ slice' = [r \in Requests |-> {}]
  /\ opened' = FALSE
  /\ count' = [count EXCEPT !.events = @ + 1]
  /\ UNCHANGED <<stored, fresh, sweep, lookVars, waits, twice, width, asked, got>>

\* A client pushes a vector its own cache bought; one that is here is kept.
Push(k) ==
  /\ count.events < MaxEvents
  /\ stored' = stored \cup {k}
  /\ fresh' = fresh \cup {k[1]}
  /\ opened' = TRUE
  /\ count' = [count EXCEPT !.events = @ + 1]
  /\ UNCHANGED <<sweep, lookVars, claimVars, buyVars, costVars, pc, width, asked, got>>

\* A collection looks once whether anybody holds the file ...
SweepBegins ==
  /\ sweep = "none" /\ ~opened /\ count.events < MaxEvents
  /\ sweep' = "checked"
  /\ count' = [count EXCEPT !.events = @ + 1]
  /\ UNCHANGED <<stored, fresh, opened, lookVars, claimVars, buyVars, costVars, pc, width, asked, got>>

\* ... and then, in one transaction, deletes what its grace period does not keep: some days, or none.
Sweep ==
  /\ sweep = "checked"
  /\ sweep' = "done"
  /\ \E kept \in {fresh, {}} : stored' = {k \in stored : k[1] \in kept}
  /\ fresh' = fresh \cap {k[1] : k \in stored'}
  /\ paid' = paid \ (stored \ stored')
  /\ UNCHANGED <<opened, lookVars, claimVars, buyVars, twice, pc, width, asked, got, count>>

Step(r) ==
  Look(r) \/ Touch(r) \/ Claim(r) \/ Slice(r) \/ Pay(r) \/ Store(r) \/ Stamp(r) \/ Release(r) \/ Wait(r)

Next ==
  \/ \E r \in Requests : Ask(r) \/ Step(r) \/ Fail(r)
  \/ \E k \in Keys : Push(k)
  \/ Crash \/ SweepBegins \/ Sweep

Spec == Init /\ [][Next]_vars

\* Threads run, and a provider answers or gives up: its requests have a timeout and a number of tries.
FairSpec == Spec /\ \A r \in Requests : WF_vars(Step(r))

-----------------------------------------------------------------------------
(* Properties. *)

TypeOK ==
  /\ stored \subseteq Keys /\ fresh \subseteq Texts /\ opened \in BOOLEAN /\ sweep \in {"none", "checked", "done"}
  /\ claims \in [Keys -> Requests \cup {Nobody}]
  /\ pc \in [Requests -> Live \cup {"idle", "done", "failed"}]
  /\ width \in [Requests -> Widths]
  /\ asked \in [Requests -> SUBSET Texts] /\ got \in [Requests -> SUBSET Texts]
  /\ round \in [Requests -> SUBSET Texts] /\ left \in [Requests -> SUBSET Texts]
  /\ missing \in [Requests -> SUBSET Texts] /\ mine \in [Requests -> SUBSET Texts]
  /\ waits \in [Requests -> SUBSET Texts] /\ events \in [Requests -> SUBSET (Texts \X Requests)]
  /\ slice \in [Requests -> SUBSET Texts] /\ hand \in [Requests -> SUBSET Texts]
  /\ bought \in [Requests -> SUBSET Texts]
  /\ paid \subseteq Keys /\ twice \subseteq Keys
  /\ count \in [asks : Nat, events : Nat]

\* A text is bought again at a width only when what was paid for it was lost: the purchase or
\* its storing failed, the server died, or a collection swept it.  Neither a purchase that ends
\* between a request's lookup and its claim (service.py:166-168) nor two lookups at once do it.
PaidOnce == twice = {}

\* A request that ends well answers every text with a vector, also those whose buyer, another
\* request, failed or was swept away after it (service.py:178).
AnswersAreWhole == \A r \in Requests : pc[r] = "done" => got[r] = asked[r]

\* No request waits for ever: no two of them wait for each other, and no failed purchase leaves
\* its claim behind (service.py:168-181, :222).
RequestsEnd == \A r \in Requests : pc[r] \in Live ~> pc[r] \notin Live

===============================================================================
