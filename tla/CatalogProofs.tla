--------------------------- MODULE CatalogProofs ---------------------------
(***************************************************************************)
(* What the operator asks of the catalog holds for any bodies, classes and *)
(* cards, and any splits, merges and saves within PageAssumption: a card   *)
(* keeps its routes, a body goes where it was put, nothing goes to a class *)
(* that was withdrawn.  All three rest on Chosen: a shape is owned by the  *)
(* cards that the operator put it on, and by no other but the Laddered one *)
(* where a listing that was behind brought its routes back.                *)
(*                                                                         *)
(* And the books are right: each report is counted once.  The sum over the *)
(* table and what is left of a ring are recursive; what is needed of them  *)
(* is proved by induction on their size (AllNaturals).                     *)
(***************************************************************************)
EXTENDS ErrorCatalog, FiniteSetTheorems, WellFoundedInduction, TLAPS

Filing == {"classed", "again", "filed"}
Sighting == {"filed", "visible", "seed"}
Steps == {"idle", "classed", "again", "filed", "observed", "visible", "seed"}

Typed ==
  /\ cards \subseteq Keys /\ hidden \subseteq Keys /\ owns \in [Keys -> SUBSET Shapes]
  /\ usage \in [pc : Steps, shape : Shapes \cup {None}, key : Keys \cup {None}]
  /\ usage.pc # "idle" => usage.key \in Keys /\ usage.shape \in Shapes
  /\ splitting \in [to : Keys \cup {None}, shape : Shapes \cup {None}]
  /\ chosen \in [Shapes -> SUBSET Keys] /\ revived \subseteq Shapes
  /\ listing \in [on : BOOLEAN, routes : SUBSET Shapes]
  /\ withdrawn \in [Keys -> {"no", "quietly", "meanwhile"}]
  /\ since \in [kept : SUBSET Keys, chosen : SUBSET Keys]

\* What is no card owns no shape.
Owned == \A k \in Keys : k \notin cards => owns[k] = {}

Chosen ==
  \A s \in Shapes : Owners(s) = chosen[s] \cup (IF s \in revived THEN {Laddered} ELSE {})

\* The card of a split is there before it is saved.
Split ==
  splitting # NoSplit =>
    /\ splitting.to \in cards /\ splitting.shape \in owns[splitting.to]
    /\ ShapeOfKey[splitting.to] \in {None, splitting.shape}
    /\ withdrawn[splitting.to] = "no"

\* A class withdrawn while nothing was under way stays away, and neither the
\* report nor the listing under way is about it.  The bucket is not withdrawn.
Quiet ==
  /\ withdrawn[Unmatched] = "no"
  /\ \A k \in Keys : withdrawn[k] = "quietly" => k \in hidden /\ k \notin cards
  /\ usage.pc \in Sighting => withdrawn[usage.key] # "quietly"
  /\ listing.on => withdrawn[Laddered] # "quietly"

\* A report goes by the choice that it met, as long as that stands.
Going ==
  usage.pc \in Filing /\ since.chosen # {} =>
    /\ chosen[usage.shape] = since.chosen /\ usage.shape \notin revived
    /\ usage.pc # "again" => usage.key \in since.chosen

\* Only a strict class or the bucket is seeded.
Seeded == usage.pc = "seed" => usage.key \in Builtins \cup {Unmatched}

IInv == Seeded /\ Typed /\ Owned /\ Chosen /\ Split /\ Quiet /\ Going

-----------------------------------------------------------------------------
LEMMA Names ==
  /\ Unmatched \in Keys /\ Laddered \in Keys \ {Unmatched} /\ Builtins \subseteq Keys
  /\ None \notin Keys /\ None \notin Shapes
  /\ ClassOf \in [Shapes -> Keys] /\ ShapeOfKey \in [Keys -> Shapes \cup {None}]
  /\ Splits \subseteq Keys \X Keys \X Shapes /\ Merges \subseteq Keys \X Keys
  /\ \A p \in Merges : p[1] # p[2]
BY CatalogAssumption

LEMMA InitIInv == Init => IInv
<1> SUFFICES ASSUME Init PROVE IInv
  OBVIOUS
<1>1. Typed
  BY Names DEF Init, Typed, Steps, Idle, NoSplit, NoListing
<1>2. Owned /\ Chosen /\ Split /\ Going
  BY Names DEF Init, Owned, Owners, Chosen, Split, Going, Filing, Idle, NoSplit
<1>3. Quiet /\ Seeded
  BY Names DEF Init, Quiet, Seeded, Sighting, Idle, NoListing
<1> QED BY <1>1, <1>2, <1>3 DEF IInv

\* A card more, and the same routes: the same owners.
LEMMA SameOwners ==
  ASSUME IInv, cards \subseteq cards', cards' \subseteq Keys, owns' = owns,
         chosen' = chosen, revived' = revived
  PROVE  Owned' /\ Chosen'
<1>1. Owned'
  BY DEF IInv, Owned
<1>2. \A s \in Shapes : Owners(s)' = Owners(s)
  BY DEF IInv, Owned, Owners, Typed
<1>3. Chosen'
  BY <1>2 DEF IInv, Chosen
<1> QED BY <1>1, <1>3

\* A card that no shape names is saved without routes.
LEMMA PlainUpsert ==
  ASSUME IInv, NEW k \in Keys, ShapeOfKey[k] = None, UpsertErrorPolicy(k, {})
  PROVE  /\ owns' = owns /\ cards \subseteq cards' /\ cards' \subseteq Keys
         /\ hidden' = hidden \ {k} /\ cards' = cards \cup {k}
BY DEF UpsertErrorPolicy, IInv, Typed

-----------------------------------------------------------------------------
(* Reports.                                                                *)

LEMMA RouteSafe ==
  ASSUME IInv, NEW s \in Shapes, Route(s)
  PROVE  IInv'
<1>1. PICK k \in Routed(s, ClassOf[s]) :
        usage' = [pc |-> "classed", shape |-> s, key |-> k]
  BY DEF Route
<1>2. /\ since' = [kept |-> {j \in Keys : withdrawn[j] # "no"}, chosen |-> Choice(s)]
      /\ UNCHANGED <<policies, splitting, listing, history>>
  BY DEF Route
<1>3. k \in Keys
  BY Names, <1>1 DEF Routed, Owners, IInv, Typed
<1>9. Choice(s) # {} => Choice(s) = chosen[s] /\ s \notin revived /\ k \in chosen[s]
  BY <1>1 DEF Choice, Routed, IInv, Chosen
<1>10. Choice(s) \subseteq Keys
  BY DEF Choice, IInv, Typed
<1>4. Typed'
  BY <1>1, <1>2, <1>3, <1>10, Names DEF IInv, Typed, Steps, policies, history
<1>5. Owned' /\ Chosen'
  BY <1>2, SameOwners DEF policies, history, IInv, Typed
<1>6. Split'
  BY <1>2 DEF IInv, Split, policies, history
<1>7. Quiet'
  BY <1>1, <1>2 DEF IInv, Quiet, Sighting, policies, history
<1>8. Going' /\ Seeded'
  BY <1>1, <1>2, <1>9 DEF Going, Seeded, Filing, history
<1> QED BY <1>4, <1>5, <1>6, <1>7, <1>8 DEF IInv

\* A step of the report, with nothing else changed.
LEMMA ReportSafe ==
  ASSUME IInv, UNCHANGED <<policies, splitting, listing, history, since>>,
         usage' \in [pc : Steps, shape : Shapes \cup {None}, key : Keys \cup {None}],
         usage'.pc # "idle" => usage'.key \in Keys /\ usage'.shape \in Shapes,
         usage'.pc \in Sighting => withdrawn[usage'.key] # "quietly",
         Seeded', Going'
  PROVE  IInv'
<1>1. Typed'
  BY DEF IInv, Typed, policies, history
<1>2. Owned' /\ Chosen'
  BY SameOwners DEF policies, history, IInv, Typed
<1>3. Split'
  BY DEF IInv, Split, policies, history
<1>4. Quiet'
  BY DEF IInv, Quiet, policies, history
<1> QED BY <1>1, <1>2, <1>3, <1>4 DEF IInv

LEMMA HonourHiddenSafe ==
  ASSUME IInv, HonourHidden
  PROVE  IInv'
<1> DEFINE k == IF usage.key \in hidden THEN Unmatched ELSE usage.key
           pc == IF k = Unmatched THEN "again" ELSE "filed"
<1>1. /\ usage.pc = "classed" /\ usage' = [usage EXCEPT !.pc = pc, !.key = k]
      /\ UNCHANGED <<policies, splitting, listing, history, since>>
  BY DEF HonourHidden
<1>2. k \in Keys /\ usage.shape \in Shapes
  BY <1>1, Names DEF IInv, Typed
<1>3. k = Unmatched \/ (k \notin hidden /\ k = usage.key)
  OBVIOUS
<1> HIDE DEF k
<1>4. /\ usage' \in [pc : Steps, shape : Shapes \cup {None}, key : Keys \cup {None}]
      /\ usage'.pc = pc /\ usage'.key = k /\ usage'.shape = usage.shape
  BY <1>1, <1>2 DEF IInv, Typed, Steps
<1>5. usage'.pc \in Sighting => withdrawn[usage'.key] # "quietly"
  BY <1>2, <1>3, <1>4 DEF IInv, Quiet, Sighting
<1>6. Going' /\ Seeded'
  BY <1>1, <1>3, <1>4 DEF IInv, Going, Seeded, Filing, history
<1> QED BY <1>1, <1>2, <1>4, <1>5, <1>6, ReportSafe

LEMMA RouteAgainSafe ==
  ASSUME IInv, RouteAgain
  PROVE  IInv'
<1>1. PICK k \in Routed(usage.shape, Unmatched) :
        usage' = [usage EXCEPT !.pc = "filed", !.key = k]
  BY DEF RouteAgain
<1>2. /\ usage.pc = "again" /\ UNCHANGED <<policies, splitting, listing, history, since>>
      /\ usage.shape \in Shapes
  BY DEF RouteAgain, IInv, Typed
<1>3. k \in Keys /\ (k \in cards \/ k = Unmatched)
  BY <1>1, Names DEF Routed, Owners, IInv, Typed
<1>4. withdrawn[k] # "quietly"
  <2>1. CASE k \in cards
    BY <1>3, <2>1 DEF IInv, Quiet
  <2>2. CASE k = Unmatched
    BY <2>2 DEF IInv, Quiet
  <2> QED BY <1>3, <2>1, <2>2
<1>5. /\ usage' \in [pc : Steps, shape : Shapes \cup {None}, key : Keys \cup {None}]
      /\ usage'.pc = "filed" /\ usage'.key = k /\ usage'.shape = usage.shape
  BY <1>1, <1>3 DEF IInv, Typed, Steps
<1>6. chosen[usage.shape] # {} => k \in Owners(usage.shape) \/ usage.shape \notin Shapes
  BY <1>1, <1>2 DEF Routed, IInv, Chosen
<1>7. Going' /\ Seeded'
  BY <1>2, <1>5, <1>6 DEF IInv, Going, Chosen, Seeded, Filing, history
<1> QED BY <1>2, <1>3, <1>4, <1>5, <1>7, ReportSafe

LEMMA ObserveErrorSafe ==
  ASSUME IInv, ObserveError
  PROVE  IInv'
<1>1. /\ usage' = [usage EXCEPT !.pc = "observed"]
      /\ UNCHANGED <<policies, splitting, listing, history, since>>
      /\ usage.pc = "filed"
  BY DEF ObserveError
<1>2. /\ usage' \in [pc : Steps, shape : Shapes \cup {None}, key : Keys \cup {None}]
      /\ usage'.pc = "observed" /\ usage'.key \in Keys /\ usage'.shape \in Shapes
  BY <1>1 DEF IInv, Typed, Steps
<1>3. Going' /\ Seeded'
  BY <1>2 DEF Going, Seeded, Filing
<1> QED BY <1>1, <1>2, <1>3, ReportSafe DEF Sighting

\* What is looked up is not hidden, so it was not withdrawn quietly.
LEMMA LookUpSafe ==
  ASSUME IInv, LookUp \/ FindCard
  PROVE  IInv'
<1>1. /\ usage.pc \in {"observed", "visible"}
      /\ UNCHANGED <<policies, splitting, listing, history, since>>
  BY DEF LookUp, FindCard
<1>2. \/ usage' = Idle
      \/ /\ usage.pc = "observed" /\ usage' = [usage EXCEPT !.pc = "visible"]
         /\ usage.key \notin hidden
      \/ /\ usage.pc = "visible" /\ usage' = [usage EXCEPT !.pc = "seed"]
         /\ usage.key \in Builtins \cup {Unmatched}
  BY DEF LookUp, FindCard
<1>3. CASE usage' = Idle
  BY <1>1, <1>3, ReportSafe DEF Idle, Steps, Sighting, Going, Seeded, Filing
<1>4. CASE /\ usage.pc = "observed" /\ usage' = [usage EXCEPT !.pc = "visible"]
           /\ usage.key \notin hidden
  <2>1. /\ usage' \in [pc : Steps, shape : Shapes \cup {None}, key : Keys \cup {None}]
        /\ usage'.pc = "visible" /\ usage'.key = usage.key
        /\ usage'.key \in Keys /\ usage'.shape \in Shapes
    BY <1>4 DEF IInv, Typed, Steps
  <2>2. withdrawn[usage'.key] # "quietly"
    BY <1>4, <2>1 DEF IInv, Quiet
  <2>3. Going' /\ Seeded'
    BY <2>1 DEF Going, Seeded, Filing
  <2> QED BY <1>1, <2>1, <2>2, <2>3, ReportSafe
<1>5. CASE /\ usage.pc = "visible" /\ usage' = [usage EXCEPT !.pc = "seed"]
           /\ usage.key \in Builtins \cup {Unmatched}
  <2>1. /\ usage' \in [pc : Steps, shape : Shapes \cup {None}, key : Keys \cup {None}]
        /\ usage'.pc = "seed" /\ usage'.key = usage.key
        /\ usage'.key \in Keys /\ usage'.shape \in Shapes
    BY <1>5 DEF IInv, Typed, Steps
  <2>2. withdrawn[usage'.key] # "quietly"
    BY <1>5, <2>1 DEF IInv, Quiet, Sighting
  <2>3. Going' /\ Seeded'
    BY <1>5, <2>1 DEF Going, Seeded, Filing
  <2> QED BY <1>1, <2>1, <2>2, <2>3, ReportSafe
<1> QED BY <1>2, <1>3, <1>4, <1>5

-----------------------------------------------------------------------------
(* Cards that come without the operator.                                   *)

\* More cards and the same routes, none of them withdrawn quietly: whoever
\* reports or lists goes on.
LEMMA MoreCards ==
  ASSUME IInv, NEW K, K \subseteq Keys, cards' = cards \cup K, owns' = owns,
         hidden' \subseteq hidden, hidden \ K \subseteq hidden',
         \A k \in K : withdrawn[k] # "quietly",
         listing' \in [on : BOOLEAN, routes : SUBSET Shapes],
         UNCHANGED <<splitting, history, since>>,
         \/ usage' = usage
         \/ usage' = Idle,
         listing'.on => withdrawn[Laddered] # "quietly"
  PROVE  IInv'
<1>1. UNCHANGED <<chosen, revived, withdrawn, splitting, since>>
  BY DEF history
<1>2. Typed'
  BY <1>1 DEF IInv, Typed, Idle, Steps
<1>3. Owned' /\ Chosen'
  BY <1>1, SameOwners DEF IInv, Typed
<1>4. Split'
  BY <1>1 DEF IInv, Split
<1>5. Quiet'
  BY <1>1 DEF IInv, Quiet, Sighting, Idle
<1>6. Going' /\ Seeded'
  BY <1>1 DEF IInv, Going, Seeded, Filing, Idle
<1> QED BY <1>2, <1>3, <1>4, <1>5, <1>6 DEF IInv

LEMMA EnsureBuiltinSafe ==
  ASSUME IInv, ListErrors \/ NewGuard
  PROVE  IInv'
<1> DEFINE K == Builtins \ hidden
<1>1. /\ cards' = cards \cup K /\ owns' = owns /\ hidden' = hidden
      /\ usage' = usage /\ UNCHANGED <<splitting, history, since>>
  BY DEF ListErrors, NewGuard, EnsureBuiltinPolicies
<1>2. K \subseteq Keys
  BY Names
<1>3. \A k \in K : withdrawn[k] # "quietly"
  BY <1>2 DEF IInv, Quiet
<1>4. listing'.on => withdrawn[Laddered] # "quietly"
  <2>1. CASE ListErrors
    BY <2>1, Names DEF ListErrors, NoListing, IInv, Quiet
  <2>2. CASE NewGuard
    BY <2>2 DEF NewGuard, IInv, Quiet
  <2> QED BY <2>1, <2>2
<1>5. listing' \in [on : BOOLEAN, routes : SUBSET Shapes]
  <2>1. owns[Laddered] \in SUBSET Shapes /\ listing \in [on : BOOLEAN, routes : SUBSET Shapes]
    BY Names DEF IInv, Typed
  <2>2. listing' \in {[on |-> TRUE, routes |-> owns[Laddered]], NoListing, listing}
    BY DEF ListErrors, NewGuard
  <2>3. /\ [on |-> TRUE, routes |-> owns[Laddered]] \in [on : BOOLEAN, routes : SUBSET Shapes]
        /\ NoListing \in [on : BOOLEAN, routes : SUBSET Shapes]
    BY <2>1 DEF NoListing
  <2> QED BY <2>1, <2>2, <2>3
<1> HIDE DEF K
<1> QED BY <1>1, <1>2, <1>3, <1>4, <1>5, MoreCards

LEMMA PlainCardSafe ==
  ASSUME IInv, NEW k \in Keys, ShapeOfKey[k] = None, withdrawn[k] # "quietly",
         UpsertErrorPolicy(k, {}), UNCHANGED <<splitting, history, since>>,
         usage' = usage \/ usage' = Idle,
         listing' = listing
  PROVE  IInv'
<1>1. owns' = owns /\ cards' = cards \cup {k} /\ hidden' = hidden \ {k}
  BY PlainUpsert
<1>2. listing'.on => withdrawn[Laddered] # "quietly"
  BY DEF IInv, Quiet
<1> DEFINE K == {k}
<1>3. /\ K \subseteq Keys /\ cards' = cards \cup K /\ hidden' \subseteq hidden
      /\ hidden \ K \subseteq hidden' /\ \A j \in K : withdrawn[j] # "quietly"
  BY <1>1
<1> HIDE DEF K
<1>4. listing' \in [on : BOOLEAN, routes : SUBSET Shapes]
  BY DEF IInv, Typed
<1> QED BY <1>1, <1>2, <1>3, <1>4, MoreCards

LEMMA SeedSafe ==
  ASSUME IInv, Seed
  PROVE  IInv'
<1>1. usage.pc = "seed" /\ usage.key \in Keys /\ withdrawn[usage.key] # "quietly"
  BY DEF Seed, IInv, Typed, Quiet, Sighting
<1>2. ShapeOfKey[usage.key] = None
  BY <1>1, PageAssumption DEF IInv, Seeded
<1> QED BY <1>1, <1>2, PlainCardSafe DEF Seed

LEMMA EnsureUnmatchedSafe ==
  ASSUME IInv, EnsureUnmatched
  PROVE  IInv'
<1>1. ShapeOfKey[Unmatched] = None /\ withdrawn[Unmatched] # "quietly"
  BY PageAssumption DEF IInv, Quiet
<1> QED BY <1>1, Names, PlainCardSafe DEF EnsureUnmatched

-----------------------------------------------------------------------------
(* Routes that change.                                                     *)

\* A choice changes for the shapes that Touch names at most, others come back
\* for no more, and no report is moved: a report goes on by what it met.
LEMMA GoingOn ==
  ASSUME IInv, NEW K, NEW S, Touch(K, S), usage' = usage,
         \A s \in Shapes \ S : chosen'[s] = chosen[s] /\ (s \in revived' => s \in revived)
  PROVE  Going' /\ Seeded'
<1>1. since'.chosen = IF usage.shape \in S THEN {} ELSE since.chosen
  BY DEF Touch
<1>2. usage.pc # "idle" => usage.shape \in Shapes
  BY DEF IInv, Typed
<1>3. Going'
  BY <1>1, <1>2 DEF IInv, Going, Filing
<1>4. Seeded'
  BY DEF IInv, Seeded
<1> QED BY <1>3, <1>4

LEMMA TouchTyped ==
  ASSUME IInv, NEW K, NEW S, Touch(K, S)
  PROVE  since' \in [kept : SUBSET Keys, chosen : SUBSET Keys]
BY DEF Touch, IInv, Typed

\* The Laddered card gets the routes that it had when listed; those that it
\* had not any more are what comes back.
LEMMA GiveLadderSafe ==
  ASSUME IInv, GiveLadder
  PROVE  IInv'
<1> DEFINE back == listing.routes \ owns[Laddered]
<1>1. /\ cards' = cards \cup {Laddered} /\ hidden' = hidden \ {Laddered}
      /\ owns' = [owns EXCEPT ![Laddered] =
                    @ \cup listing.routes \cup ({ShapeOfKey[Laddered]} \ {None})]
      /\ listing.on /\ listing' = NoListing
      /\ revived' = revived \cup back /\ Touch({}, back)
      /\ UNCHANGED <<usage, splitting, chosen, withdrawn>>
  BY DEF GiveLadder, UpsertErrorPolicy
<1>2. /\ ShapeOfKey[Laddered] = None /\ withdrawn[Laddered] # "quietly"
      /\ listing.routes \subseteq Shapes /\ owns[Laddered] \subseteq Shapes
  BY <1>1, Names, PageAssumption DEF IInv, Quiet, Typed
<1>3. owns' = [owns EXCEPT ![Laddered] = @ \cup back]
  BY <1>1, <1>2
<1>4. back \subseteq Shapes
  BY <1>2
<1> HIDE DEF back
<1>5. Typed'
  <2>1. since' \in [kept : SUBSET Keys, chosen : SUBSET Keys]
    BY <1>1, TouchTyped
  <2>2. owns' \in [Keys -> SUBSET Shapes] /\ cards' \subseteq Keys /\ hidden' \subseteq Keys
    BY <1>1, <1>3, <1>4, Names DEF IInv, Typed
  <2>3. listing' \in [on : BOOLEAN, routes : SUBSET Shapes]
    BY <1>1 DEF NoListing
  <2> QED BY <1>1, <1>4, <2>1, <2>2, <2>3 DEF IInv, Typed
<1>6. Owned'
  BY <1>1, <1>3, Names DEF IInv, Owned, Typed
<1>7. Chosen'
  <2>1. ASSUME NEW s \in Shapes
        PROVE  Owners(s)' = Owners(s) \cup (IF s \in back THEN {Laddered} ELSE {})
    BY <1>1, <1>3, Names DEF Owners, IInv, Owned, Typed
  <2> QED BY <1>1, <2>1 DEF IInv, Chosen
<1>8. Split'
  BY <1>1, <1>3, Names DEF IInv, Split, Typed
<1>9. Quiet'
  BY <1>1, <1>2, Names DEF IInv, Quiet, NoListing
<1>10. Going' /\ Seeded'
  BY <1>1, GoingOn DEF IInv, Typed
<1> QED BY <1>5, <1>6, <1>7, <1>8, <1>9, <1>10 DEF IInv

\* The card of a split is saved with the route that it has.
LEMMA SaveSplitCardSafe ==
  ASSUME IInv, SaveSplitCard
  PROVE  IInv'
<1> DEFINE t == splitting.to
<1>1. /\ t \in cards /\ t \in Keys /\ splitting.shape \in owns[t]
      /\ ShapeOfKey[t] \in {None, splitting.shape} /\ withdrawn[t] = "no"
  BY DEF SaveSplitCard, IInv, Split, Typed
<1>2. /\ cards' = cards \cup {t} /\ hidden' = hidden \ {t}
      /\ owns' = [owns EXCEPT ![t] = @ \cup {splitting.shape} \cup ({ShapeOfKey[t]} \ {None})]
      /\ splitting' = NoSplit /\ UNCHANGED <<usage, listing, history, since>>
  BY DEF SaveSplitCard, UpsertErrorPolicy
<1>3. owns' = owns
  BY <1>1, <1>2 DEF IInv, Typed
<1>4. /\ cards' = cards /\ UNCHANGED <<chosen, revived, withdrawn>>
  BY <1>1, <1>2 DEF history
<1>5. Typed'
  BY <1>2, <1>3, <1>4 DEF IInv, Typed, NoSplit
<1>6. Owned' /\ Chosen'
  BY <1>3, <1>4, SameOwners DEF IInv, Typed
<1>7. Split'
  BY <1>2 DEF Split
<1>8. Quiet'
  BY <1>1, <1>2, <1>4 DEF IInv, Quiet
<1>9. Going' /\ Seeded'
  BY <1>2, <1>4 DEF IInv, Going, Seeded
<1> QED BY <1>5, <1>6, <1>7, <1>8, <1>9 DEF IInv

-----------------------------------------------------------------------------
(* What the operator asks for.                                             *)

\* What the operator asks for is not away, and no other class comes back.
LEMMA AskedQuiet ==
  ASSUME IInv, NEW k \in Keys, AskedFor(k), hidden \ {k} \subseteq hidden',
         cards' \subseteq cards \cup {k}, UNCHANGED <<usage, listing>>
  PROVE  /\ Quiet' /\ withdrawn' \in [Keys -> {"no", "quietly", "meanwhile"}]
         /\ withdrawn'[k] = "no"
BY Names DEF AskedFor, IInv, Typed, Quiet, Sighting

LEMMA SplitObservedSafe ==
  ASSUME IInv, NEW p \in Splits, SplitObservedByShape(p[1], p[2], p[3])
  PROVE  IInv'
<1> DEFINE k == p[2]
           s == p[3]
<1>1. k \in Keys /\ s \in Shapes /\ k # Unmatched /\ ShapeOfKey[k] \in {None, s}
  BY Names, PageAssumption
<1>2. /\ cards' = cards \cup {k} /\ owns' = [owns EXCEPT ![k] = @ \cup {s}]
      /\ splitting' = [to |-> k, shape |-> s]
      /\ chosen' = [chosen EXCEPT ![s] = @ \cup {k}]
      /\ AskedFor(k) /\ Touch({k}, {s})
      /\ UNCHANGED <<hidden, usage, listing, revived>>
  BY <1>1 DEF SplitObservedByShape
<1> HIDE DEF k, s
<1>3. chosen' \in [Shapes -> SUBSET Keys]
  BY <1>1, <1>2 DEF IInv, Typed
<1>4. Quiet' /\ withdrawn' \in [Keys -> {"no", "quietly", "meanwhile"}]
      /\ withdrawn'[k] = "no"
  BY <1>1, <1>2, AskedQuiet
<1>5. Typed'
  BY <1>1, <1>2, <1>3, <1>4, TouchTyped DEF IInv, Typed
<1>6. Owned'
  BY <1>1, <1>2 DEF IInv, Owned, Typed
<1>7. Chosen'
  <2>1. Owners(s)' = Owners(s) \cup {k}
    BY <1>1, <1>2 DEF Owners, IInv, Owned, Typed
  <2>2. \A o \in Shapes \ {s} : Owners(o)' = Owners(o)
    BY <1>1, <1>2 DEF Owners, IInv, Owned, Typed
  <2>3. chosen'[s] = chosen[s] \cup {k}
    BY <1>1, <1>2 DEF IInv, Typed
  <2>4. \A o \in Shapes \ {s} : chosen'[o] = chosen[o]
    BY <1>1, <1>2 DEF IInv, Typed
  <2> QED BY <1>1, <1>2, <2>1, <2>2, <2>3, <2>4 DEF Chosen, IInv
<1>8. Split'
  BY <1>1, <1>2, <1>4 DEF Split, IInv, Typed
<1>9. Going' /\ Seeded'
  BY <1>2, GoingOn DEF IInv, Typed
<1> QED BY <1>4, <1>5, <1>6, <1>7, <1>8, <1>9 DEF IInv

LEMMA WithdrawSafe ==
  ASSUME IInv, NEW k \in Keys, Withdraw(k)
  PROVE  IInv'
<1>1. /\ cards' = cards \ {k} /\ owns' = [owns EXCEPT ![k] = {}]
      /\ hidden' = hidden \cup {k}
      /\ chosen' = [s \in Shapes |-> chosen[s] \ {k}]
      /\ revived' = IF k = Laddered THEN {} ELSE revived
      /\ Withdrawn(k) /\ Touch({k}, owns[k])
      /\ UNCHANGED <<usage, splitting, listing>> /\ splitting = NoSplit
  BY DEF Withdraw
<1>2. k # Unmatched
  BY CatalogAssumption DEF Withdraw
<1>3. withdrawn' \in [Keys -> {"no", "quietly", "meanwhile"}]
  BY <1>1 DEF Withdrawn, IInv, Typed
<1>4. Typed'
  BY <1>1, <1>3, TouchTyped, Names DEF IInv, Typed
<1>5. Owned'
  BY <1>1 DEF IInv, Owned, Typed
<1>6. Chosen'
  <2>1. ASSUME NEW s \in Shapes PROVE Owners(s)' = Owners(s) \ {k}
    BY <1>1 DEF Owners, IInv, Typed
  <2> QED BY <1>1, <2>1 DEF IInv, Chosen
<1>7. Split'
  BY <1>1 DEF Split
<1>8. Quiet'
  <2>1. \A j \in Keys : withdrawn'[j] = "quietly" =>
          \/ j = k /\ usage.pc = "idle" /\ ~listing.on
          \/ j # k /\ withdrawn[j] = "quietly"
    BY <1>1 DEF Withdrawn, IInv, Typed
  <2>2. \A j \in Keys : withdrawn'[j] = "quietly" => j \in hidden' /\ j \notin cards'
    BY <1>1, <2>1 DEF IInv, Quiet
  <2>3. withdrawn'[Unmatched] = "no"
    BY <1>1, <1>2, Names DEF Withdrawn, IInv, Quiet, Typed
  <2>4. usage'.pc \in Sighting => withdrawn'[usage'.key] # "quietly"
    BY <1>1, <2>1 DEF IInv, Quiet, Typed, Sighting
  <2>5. listing'.on => withdrawn'[Laddered] # "quietly"
    BY <1>1, <2>1, Names DEF IInv, Quiet
  <2> QED BY <2>2, <2>3, <2>4, <2>5 DEF Quiet
<1>9. Going' /\ Seeded'
  <2>1. \A s \in Shapes : k \in chosen[s] => s \in owns[k]
    BY DEF IInv, Chosen, Owners
  <2>2. \A s \in Shapes \ owns[k] :
          chosen'[s] = chosen[s] /\ (s \in revived' => s \in revived)
    BY <1>1, <2>1
  <2> QED BY <1>1, <2>2, GoingOn
<1> QED BY <1>4, <1>5, <1>6, <1>7, <1>8, <1>9 DEF IInv

\* The card that takes the routes over owns them in the place of the other.
LEMMA MergeSafe ==
  ASSUME IInv, NEW p \in Merges, Merge(p[1], p[2])
  PROVE  IInv'
<1> DEFINE f == p[1]
           t == p[2]
<1>1. f \in Keys /\ t \in Keys /\ f # t /\ t # Unmatched
  BY Names DEF Merge
<1>2. /\ cards' = IF f \in cards THEN (cards \ {f}) \cup {t} ELSE cards
      /\ owns' = [owns EXCEPT ![f] = {}, ![t] = @ \cup owns[f]]
      /\ chosen' = [s \in Shapes |-> IF s \in owns[f] THEN (chosen[s] \ {f}) \cup {t}
                                     ELSE chosen[s]]
      /\ revived' = IF f = Laddered THEN {} ELSE revived
      /\ AskedFor(t) /\ Touch({t}, owns[f])
      /\ UNCHANGED <<hidden, usage, splitting, listing>> /\ splitting = NoSplit
  BY DEF Merge
<1> HIDE DEF f, t
<1>3. chosen' \in [Shapes -> SUBSET Keys]
  BY <1>1, <1>2 DEF IInv, Typed
<1>4. Quiet' /\ withdrawn' \in [Keys -> {"no", "quietly", "meanwhile"}]
  BY <1>1, <1>2, AskedQuiet
<1>5. Typed'
  BY <1>1, <1>2, <1>3, <1>4, TouchTyped DEF IInv, Typed
<1>6. Owned'
  BY <1>1, <1>2 DEF IInv, Owned, Typed
<1>7. Chosen'
  <2> SUFFICES ASSUME NEW s \in Shapes
               PROVE  Owners(s)' = chosen'[s] \cup (IF s \in revived' THEN {Laddered} ELSE {})
    BY DEF Chosen
  <2>1. Owners(s) = chosen[s] \cup (IF s \in revived THEN {Laddered} ELSE {})
    BY DEF IInv, Chosen
  <2>2. CASE s \in owns[f]
    <3>1. f \in cards /\ chosen'[s] = (chosen[s] \ {f}) \cup {t}
      BY <1>1, <1>2, <2>2 DEF IInv, Owned
    <3>2. Owners(s)' = (Owners(s) \ {f}) \cup {t}
      BY <1>1, <1>2, <2>2, <3>1 DEF Owners, IInv, Owned, Typed
    <3> QED BY <1>2, <2>1, <3>1, <3>2
  <2>3. CASE s \notin owns[f]
    <3>1. Owners(s)' = Owners(s) /\ f \notin Owners(s)
      BY <1>1, <1>2, <2>3 DEF Owners, IInv, Owned, Typed
    <3> QED BY <1>2, <2>1, <2>3, <3>1
  <2> QED BY <2>2, <2>3
<1>8. Split'
  BY <1>2 DEF Split
<1>9. Going' /\ Seeded'
  <2>1. \A s \in Shapes \ owns[f] :
          chosen'[s] = chosen[s] /\ (s \in revived' => s \in revived)
    BY <1>2
  <2> QED BY <1>2, <2>1, GoingOn
<1> QED BY <1>4, <1>5, <1>6, <1>7, <1>8, <1>9 DEF IInv

LEMMA HandleErrorPolicySafe ==
  ASSUME IInv, NEW p \in Saves, HandleErrorPolicy(p[1], p[2])
  PROVE  IInv'
<1> DEFINE k == p[1]
           sent == p[2] \cup {ShapeOfKey[k]}
<1>1. k \in Keys /\ p[2] \subseteq Shapes
  BY CatalogAssumption
<1>2. /\ sent \subseteq Shapes \cup {None} /\ None \notin Shapes
      /\ k = Unmatched => sent = {None}
      /\ sent \ {None} = p[2] \cup ({ShapeOfKey[k]} \ {None})
  <2>1. ShapeOfKey[k] \in Shapes \cup {None} /\ None \notin Shapes
    BY <1>1, Names
  <2>2. k = Unmatched => ShapeOfKey[k] = None /\ p[2] = {}
    BY PageAssumption
  <2> HIDE DEF k
  <2> QED BY <1>1, <2>1, <2>2
<1>3. /\ cards' = cards \cup {k} /\ hidden' = hidden \ {k}
      /\ owns' = [owns EXCEPT ![k] = @ \cup p[2] \cup ({ShapeOfKey[k]} \ {None})]
      /\ chosen' = [s \in Shapes |-> IF s \in sent THEN chosen[s] \cup {k} ELSE chosen[s]]
      /\ AskedFor(k) /\ Touch({k}, sent)
      /\ UNCHANGED <<usage, splitting, listing, revived>> /\ splitting = NoSplit
  BY DEF HandleErrorPolicy, UpsertErrorPolicy
<1>4. owns' = [owns EXCEPT ![k] = @ \cup (sent \ {None})]
  BY <1>2, <1>3
<1> HIDE DEF k, sent
<1>5. chosen' \in [Shapes -> SUBSET Keys]
  BY <1>1, <1>3 DEF IInv, Typed
<1>6. Quiet' /\ withdrawn' \in [Keys -> {"no", "quietly", "meanwhile"}]
  <2>1. /\ AskedFor(k) /\ UNCHANGED <<usage, listing>>
        /\ hidden \ {k} \subseteq hidden' /\ cards' \subseteq cards \cup {k}
    BY <1>3
  <2>2. k \in Keys
    BY <1>1
  <2> QED BY <2>1, <2>2, AskedQuiet
<1>7. Typed'
  <2>1. since' \in [kept : SUBSET Keys, chosen : SUBSET Keys]
    BY <1>3, TouchTyped
  <2>2. owns' \in [Keys -> SUBSET Shapes] /\ cards' \subseteq Keys /\ hidden' \subseteq Keys
    BY <1>1, <1>2, <1>3, <1>4 DEF IInv, Typed
  <2> QED BY <1>3, <1>5, <1>6, <2>1, <2>2 DEF IInv, Typed
<1>8. Owned'
  BY <1>1, <1>3, <1>4 DEF IInv, Owned, Typed
<1>9. Chosen'
  <2> SUFFICES ASSUME NEW s \in Shapes
               PROVE  Owners(s)' = chosen'[s] \cup (IF s \in revived THEN {Laddered} ELSE {})
    BY <1>3 DEF Chosen
  <2>1. CASE s \in sent
    <3>1. chosen'[s] = chosen[s] \cup {k} /\ k # Unmatched
      BY <1>2, <1>3, <2>1
    <3>2. Owners(s)' = Owners(s) \cup {k}
      BY <1>1, <1>2, <1>3, <1>4, <2>1, <3>1 DEF Owners, IInv, Owned, Typed
    <3> QED BY <3>1, <3>2 DEF IInv, Chosen
  <2>2. CASE s \notin sent
    <3>1. Owners(s)' = Owners(s)
      BY <1>1, <1>3, <1>4, <2>2 DEF Owners, IInv, Owned, Typed
    <3> QED BY <1>3, <2>2, <3>1 DEF IInv, Chosen
  <2> QED BY <2>1, <2>2
<1>10. Split'
  BY <1>3 DEF Split
<1>11. Going' /\ Seeded'
  <2>1. \A s \in Shapes \ sent :
          chosen'[s] = chosen[s] /\ (s \in revived' => s \in revived)
    BY <1>3
  <2> QED BY <1>3, <2>1, GoingOn
<1> QED BY <1>6, <1>7, <1>8, <1>9, <1>10, <1>11 DEF IInv

-----------------------------------------------------------------------------
LEMMA NextSafe == IInv /\ [Next]_vars => IInv'
<1> SUFFICES ASSUME IInv, [Next]_vars PROVE IInv'
  OBVIOUS
<1>1. CASE HandleUsage
  BY <1>1, RouteSafe, HonourHiddenSafe, RouteAgainSafe, ObserveErrorSafe, LookUpSafe,
     SeedSafe DEF HandleUsage
<1>2. CASE Panel
  BY <1>2, EnsureBuiltinSafe, EnsureUnmatchedSafe, GiveLadderSafe, SaveSplitCardSafe,
     SplitObservedSafe, WithdrawSafe, HandleErrorPolicySafe, MergeSafe DEF Panel
<1>3. CASE UNCHANGED vars
  <2>1. UNCHANGED <<policies, usage, splitting, listing, history, since>>
    BY <1>3 DEF vars
  <2>2. Typed' /\ Owned' /\ Split'
    BY <2>1 DEF IInv, Typed, Owned, Split, policies, history
  <2>3. Chosen'
    BY <2>1, SameOwners DEF IInv, Typed, policies, history
  <2>4. Quiet' /\ Going' /\ Seeded'
    BY <2>1 DEF IInv, Quiet, Going, Seeded, policies, history
  <2> QED BY <2>2, <2>3, <2>4 DEF IInv
<1> QED BY <1>1, <1>2, <1>3 DEF Next

LEMMA Invariant == Spec => []IInv
BY InitIInv, NextSafe, PTL DEF Spec

\* A card keeps the routes that the operator gave it, through every save,
\* seed, listing, split and merge, until it is withdrawn.
THEOREM RoutesStay == Spec => []RoutesKept
<1>1. IInv => RoutesKept
  BY DEF IInv, Chosen, Owners, RoutesKept
<1> QED BY <1>1, Invariant, PTL

\* What the operator split off is filed where the operator put it.
THEOREM SplitObeyed == Spec => SplitRoutesThere
<1>1. IInv /\ [Next]_vars =>
        [usage.pc = "filed" /\ usage'.pc = "observed" =>
           since.chosen = {} \/ usage.key \in since.chosen]_vars
  BY DEF IInv, Going, Filing
<1> QED BY <1>1, Invariant, PTL DEF Spec, SplitRoutesThere

\* Nothing goes to a class that was withdrawn while nothing was under way.
THEOREM WithdrawalObeyed == Spec => WithdrawnGetsNone
<1>1. IInv /\ [Next]_vars =>
        [usage.pc = "filed" /\ usage'.pc = "observed" /\ usage.key \in since.kept =>
           withdrawn[usage.key] # "quietly"]_vars
  BY DEF IInv, Quiet, Sighting
<1> QED BY <1>1, Invariant, PTL DEF Spec, WithdrawnGetsNone

-----------------------------------------------------------------------------
(* The books: sums over the table and rings, by induction on their size.   *)

\* A set of naturals that has 0 and with each number the next has them all.
LEMMA AllNaturals ==
  ASSUME NEW S, 0 \in S, \A n \in Nat : n \in S => n + 1 \in S
  PROVE  \A n \in Nat : n \in S
<1> DEFINE T == Nat \ S
<1> SUFFICES ASSUME T # {} PROVE FALSE
  OBVIOUS
<1>1. IsWellFoundedOn(OpToRel(<, Nat), Nat)
  BY NatLessThanWellFounded
<1>2. T \subseteq Nat
  OBVIOUS
<1>3. PICK m \in T : \A n \in T : <<n, m>> \notin OpToRel(<, Nat)
  <2> HIDE DEF T
  <2> QED BY <1>1, <1>2, WFMin
<1>4. m \in Nat /\ m - 1 \in Nat /\ m - 1 \notin T
  <2>1. m \in Nat /\ m # 0
    OBVIOUS
  <2>2. m - 1 \in Nat /\ m - 1 < m
    BY <2>1
  <2>3. <<m - 1, m>> \in OpToRel(<, Nat)
    BY <2>1, <2>2 DEF OpToRel
  <2> QED BY <1>3, <2>1, <2>2, <2>3
<1>5. m - 1 + 1 \in S
  BY <1>4
<1> QED BY <1>4, <1>5

-----------------------------------------------------------------------------
(* The sum over the table is a fold over its keys, one key of each set     *)
(* after the other.                                                        *)

Pick(s) == CHOOSE x \in s : TRUE
Rest(s) == s \ {Pick(s)}
Sums(f) ==
  CHOOSE iter : iter = [s \in SUBSET Keys |->
                          IF s = {} THEN 0 ELSE f[Pick(s)] + iter[Rest(s)]]

\* An operator of its own, since the provers take no operator as argument.
Total(f) == FoldFunction(+, 0, f)

\* The fold over the table is the last of these sums.
LEMMA SumIsFold ==
  ASSUME NEW f \in [Keys -> Nat]
  PROVE  Total(f) = Sums(f)[Keys]
BY DEF Total, FoldFunction, FoldFunctionOnSet, MapThenFoldSet, Sums, Pick, Rest

\* Sets of at most n keys.
Small(n) == {s \in SUBSET Keys : Cardinality(s) <= n}

\* The empty set is the least of them, taking a key away leads from one size to
\* the one below, and the table is among them.
LEMMA SmallSets ==
  /\ Small(0) = {{}}
  /\ \A n \in Nat : Small(n) \subseteq Small(n + 1)
  /\ \A n \in Nat : \A s \in Small(n + 1) :
       s # {} => Pick(s) \in s /\ Rest(s) \in Small(n) /\ Pick(s) \in Keys
  /\ \E n \in Nat : Small(n) = SUBSET Keys
<1>1. \A s \in SUBSET Keys : IsFiniteSet(s) /\ Cardinality(s) \in Nat
  BY FiniteAssumption, FS_Subset, FS_CardinalityType
<1>2. Small(0) = {{}}
  <2>1. ASSUME NEW s \in Small(0) PROVE s = {}
    <3>1. IsFiniteSet(s) /\ Cardinality(s) = 0
      BY <1>1 DEF Small
    <3> QED BY <3>1, FS_EmptySet
  <2>2. {} \in Small(0)
    BY FS_EmptySet DEF Small
  <2> QED BY <2>1, <2>2
<1>3. \A n \in Nat : Small(n) \subseteq Small(n + 1)
  BY <1>1 DEF Small
<1>4. ASSUME NEW n \in Nat, NEW s \in Small(n + 1), s # {}
      PROVE  Pick(s) \in s /\ Rest(s) \in Small(n) /\ Pick(s) \in Keys
  <2>1. Pick(s) \in s /\ s \subseteq Keys
    BY <1>4 DEF Pick, Small
  <2>2. IsFiniteSet(s) /\ Cardinality(s) \in Nat /\ Cardinality(s) <= n + 1
    BY <1>1 DEF Small
  <2>3. Cardinality(Rest(s)) = Cardinality(s) - 1
    BY <2>1, <2>2, FS_RemoveElement DEF Rest
  <2>4. Rest(s) \subseteq Keys
    BY <2>1 DEF Rest
  <2> QED BY <2>1, <2>2, <2>3, <2>4 DEF Small
<1>5. Small(Cardinality(Keys)) = SUBSET Keys /\ Cardinality(Keys) \in Nat
  <2>1. \A s \in SUBSET Keys : Cardinality(s) <= Cardinality(Keys)
    BY FiniteAssumption, FS_Subset
  <2> QED BY <1>1, <2>1 DEF Small
<1> QED BY <1>2, <1>3, <1>4, <1>5

\* The recursion has a solution, set by set.
LEMMA SumsDefined ==
  ASSUME NEW f \in [Keys -> Nat]
  PROVE  \A s \in SUBSET Keys :
           Sums(f)[s] = IF s = {} THEN 0 ELSE f[Pick(s)] + Sums(f)[Rest(s)]
<1> DEFINE Solves(g, n) ==
             \A s \in Small(n) : g[s] = IF s = {} THEN 0 ELSE f[Pick(s)] + g[Rest(s)]
           Solved == {n \in Nat : \E g : g = [s \in Small(n) |-> g[s]] /\ Solves(g, n)}
<1>1. 0 \in Solved
  <2> DEFINE g == [s \in Small(0) |-> 0]
  <2>1. g = [s \in Small(0) |-> g[s]] /\ Solves(g, 0)
    BY SmallSets
  <2> QED BY <2>1
<1>2. ASSUME NEW n \in Nat, n \in Solved PROVE n + 1 \in Solved
  <2>1. PICK g : g = [s \in Small(n) |-> g[s]] /\ Solves(g, n)
    BY <1>2
  <2> DEFINE h == [s \in Small(n + 1) |-> IF s = {} THEN 0 ELSE f[Pick(s)] + g[Rest(s)]]
  <2>2. h = [s \in Small(n + 1) |-> h[s]]
    OBVIOUS
  <2>3. \A s \in Small(n) : h[s] = g[s]
    BY <2>1, SmallSets
  <2>4. Solves(h, n + 1)
    BY <2>3, SmallSets
  <2> HIDE DEF h
  <2> QED BY <2>2, <2>4
<1>3. PICK n \in Nat : Small(n) = SUBSET Keys
  BY SmallSets
<1>4. n \in Solved
  <2> HIDE DEF Solved
  <2> QED BY <1>1, <1>2, AllNaturals
<1>5. PICK g : g = [s \in Small(n) |-> g[s]] /\ Solves(g, n)
  BY <1>4
<1>6. g = [s \in SUBSET Keys |-> IF s = {} THEN 0 ELSE f[Pick(s)] + g[Rest(s)]]
  BY <1>3, <1>5
<1>7. Sums(f) = [s \in SUBSET Keys |-> IF s = {} THEN 0 ELSE f[Pick(s)] + Sums(f)[Rest(s)]]
  BY <1>6 DEF Sums
<1> QED BY <1>7

\* An empty table has the sum 0.
LEMMA SumOfNothing ==
  Total([k \in Keys |-> 0]) = 0
<1> DEFINE f == [k \in Keys |-> 0]
           Zero == {n \in Nat : \A s \in Small(n) : Sums(f)[s] = 0}
<1>1. f \in [Keys -> Nat]
  OBVIOUS
<1>2. \A s \in SUBSET Keys :
        Sums(f)[s] = IF s = {} THEN 0 ELSE f[Pick(s)] + Sums(f)[Rest(s)]
  BY <1>1, SumsDefined
<1>3. 0 \in Zero
  BY <1>2, SmallSets
<1>4. ASSUME NEW n \in Nat, n \in Zero PROVE n + 1 \in Zero
  <2>1. ASSUME NEW s \in Small(n + 1), s # {} PROVE Sums(f)[s] = 0
    <3>1. Pick(s) \in Keys /\ Rest(s) \in Small(n) /\ s \in SUBSET Keys
      BY <2>1, SmallSets DEF Small
    <3> QED BY <1>2, <1>4, <2>1, <3>1
  <2>2. Sums(f)[{}] = 0
    BY <1>2
  <2> QED BY <2>1, <2>2
<1>5. \A n \in Nat : n \in Zero
  <2> HIDE DEF Zero
  <2> QED BY <1>3, <1>4, AllNaturals
<1>6. Sums(f)[Keys] = 0
  BY <1>5, SmallSets
<1> HIDE DEF f
<1>7. Total(f) = 0
  BY <1>1, <1>6, SumIsFold
<1> QED BY <1>7 DEF f

\* A sum of naturals is one, and at least each of its terms.
LEMMA SumBounds ==
  ASSUME NEW f \in [Keys -> Nat]
  PROVE  /\ Total(f) \in Nat
         /\ \A k \in Keys : f[k] <= Total(f)
<1> DEFINE Bounded(s) == Sums(f)[s] \in Nat /\ \A k \in s : f[k] <= Sums(f)[s]
           Good == {n \in Nat : \A s \in Small(n) : Bounded(s)}
<1>1. 0 \in Good
  BY SumsDefined, SmallSets
<1>2. ASSUME NEW n \in Nat, n \in Good PROVE n + 1 \in Good
  <2>1. ASSUME NEW s \in Small(n + 1), s # {} PROVE Bounded(s)
    <3>1. Pick(s) \in Keys /\ Rest(s) \in Small(n) /\ s \subseteq Keys
      BY <2>1, SmallSets DEF Small
    <3>2. Sums(f)[s] = f[Pick(s)] + Sums(f)[Rest(s)]
      BY <2>1, <3>1, SumsDefined
    <3>3. f[Pick(s)] \in Nat /\ Bounded(Rest(s))
      BY <1>2, <3>1
    <3>4. \A k \in s : k = Pick(s) \/ k \in Rest(s)
      BY DEF Rest
    <3>5. \A k \in s : f[k] \in Nat
      BY <3>1
    <3> QED BY <3>2, <3>3, <3>4, <3>5
  <2>2. Bounded({})
    BY SumsDefined
  <2> QED BY <2>1, <2>2
<1>3. \A n \in Nat : n \in Good
  <2> HIDE DEF Good
  <2> QED BY <1>1, <1>2, AllNaturals
<1>4. Bounded(Keys)
  BY <1>3, SmallSets
<1> QED BY <1>4, SumIsFold

\* One term changed changes the sum by as much.
LEMMA SumChange ==
  ASSUME NEW f \in [Keys -> Nat], NEW g \in [Keys -> Nat], NEW k \in Keys,
         \A i \in Keys \ {k} : g[i] = f[i]
  PROVE  Total(g) = Total(f) - f[k] + g[k]
<1> DEFINE Differ(s) == /\ Sums(f)[s] \in Nat
                        /\ Sums(g)[s] = Sums(f)[s] + (IF k \in s THEN g[k] - f[k] ELSE 0)
           Good == {n \in Nat : \A s \in Small(n) : Differ(s)}
<1>1. g[k] \in Nat /\ f[k] \in Nat
  OBVIOUS
<1>2. /\ \A s \in SUBSET Keys :
           Sums(f)[s] = IF s = {} THEN 0 ELSE f[Pick(s)] + Sums(f)[Rest(s)]
      /\ \A s \in SUBSET Keys :
           Sums(g)[s] = IF s = {} THEN 0 ELSE g[Pick(s)] + Sums(g)[Rest(s)]
  BY SumsDefined
<1>3. Differ({})
  <2>1. Sums(f)[{}] = 0 /\ Sums(g)[{}] = 0
    BY <1>2
  <2>2. k \notin {}
    OBVIOUS
  <2> QED BY <2>1, <2>2
<1>4. 0 \in Good
  BY <1>3, SmallSets
<1>5. ASSUME NEW n \in Nat, n \in Good PROVE n + 1 \in Good
  <2>1. ASSUME NEW s \in Small(n + 1), s # {} PROVE Differ(s)
    <3>1. Pick(s) \in s /\ Pick(s) \in Keys /\ Rest(s) \in Small(n) /\ s \in SUBSET Keys
      BY <2>1, SmallSets DEF Small
    <3>2. /\ Sums(f)[s] = f[Pick(s)] + Sums(f)[Rest(s)]
          /\ Sums(g)[s] = g[Pick(s)] + Sums(g)[Rest(s)]
      BY <1>2, <2>1, <3>1
    <3>3. f[Pick(s)] \in Nat /\ Differ(Rest(s))
      BY <1>5, <3>1
    <3>4. CASE Pick(s) = k
      <4>1. k \in s /\ k \notin Rest(s)
        BY <3>1, <3>4 DEF Rest
      <4> QED BY <1>1, <3>2, <3>3, <3>4, <4>1
    <3>5. CASE Pick(s) # k
      <4>1. k \in s <=> k \in Rest(s)
        BY <3>5 DEF Rest
      <4>2. g[Pick(s)] = f[Pick(s)]
        BY <3>1, <3>5
      <4> QED BY <1>1, <3>2, <3>3, <4>1, <4>2
    <3> QED BY <3>4, <3>5
  <2>2. \A s \in Small(n + 1) : Differ(s)
    <3> HIDE DEF Differ
    <3> QED BY <1>3, <2>1
  <2> HIDE DEF Differ
  <2> QED BY <2>2
<1>6. \A n \in Nat : n \in Good
  <2> HIDE DEF Good
  <2> QED BY <1>4, <1>5, AllNaturals
<1>7. Differ(Keys)
  BY <1>6, SmallSets
<1> QED
  BY <1>1, <1>7, SumIsFold

\* What moves from one key to another stays in the sum.
LEMMA SumMove ==
  ASSUME NEW f \in [Keys -> Nat], NEW h \in [Keys -> Nat],
         NEW j \in Keys, NEW k \in Keys, j # k, h[j] + h[k] = f[j] + f[k],
         \A i \in Keys \ {j, k} : h[i] = f[i]
  PROVE  Total(h) = Total(f)
<1> DEFINE g == [f EXCEPT ![j] = h[j]]
<1>1. /\ g \in [Keys -> Nat] /\ g[j] = h[j] /\ g[k] = f[k]
      /\ \A i \in Keys \ {j} : g[i] = f[i]
  OBVIOUS
<1> HIDE DEF g
<1>2. Total(g) = Total(f) - f[j] + h[j]
  BY <1>1, SumChange
<1>3. Total(h) = Total(g) - f[k] + h[k]
  <2>1. \A i \in Keys \ {k} : h[i] = g[i]
    BY <1>1
  <2> QED BY <1>1, <2>1, SumChange
<1>4. Total(f) \in Nat /\ f[j] \in Nat /\ f[k] \in Nat /\ h[j] \in Nat /\ h[k] \in Nat
  BY SumBounds
<1> QED BY <1>2, <1>3, <1>4

-----------------------------------------------------------------------------
(* Rings.                                                                  *)

\* What is left of a ring is one, and not longer.
LEMMA WithoutType ==
  ASSUME NEW ring \in Seq(Shapes), NEW s
  PROVE  /\ WithoutShape(ring, s) \in Seq(Shapes)
         /\ Len(WithoutShape(ring, s)) <= Len(ring)
<1> DEFINE L == Len(ring)
           Next1(i, before) == IF ring[i] = s THEN before ELSE Append(before, ring[i])
           Ring(g, i) == g[i] \in Seq(Shapes) /\ Len(g[i]) <= i
           Solves(g, n) == \A i \in 0..n : g[i] = IF i = 0 THEN <<>> ELSE Next1(i, g[i - 1])
           Solved == {n \in Nat : n <= L =>
                        \E g : g = [i \in 0..n |-> g[i]] /\ Solves(g, n)}
<1>1. L \in Nat /\ \A i \in 1..L : ring[i] \in Shapes
  OBVIOUS
<1>2. 0 \in Solved
  <2> DEFINE g == [i \in 0..0 |-> <<>>]
  <2>1. g = [i \in 0..0 |-> g[i]] /\ Solves(g, 0)
    OBVIOUS
  <2> HIDE DEF g, Solves
  <2> QED BY <2>1
<1>3. ASSUME NEW n \in Nat, n \in Solved PROVE n + 1 \in Solved
  <2> SUFFICES ASSUME n + 1 <= L
               PROVE  \E g : g = [i \in 0..(n + 1) |-> g[i]] /\ Solves(g, n + 1)
    BY <1>3
  <2>1. PICK g : g = [i \in 0..n |-> g[i]] /\ Solves(g, n)
    BY <1>1, <1>3
  <2> DEFINE h == [i \in 0..(n + 1) |-> IF i = 0 THEN <<>> ELSE Next1(i, g[i - 1])]
  <2>2. h = [i \in 0..(n + 1) |-> h[i]]
    OBVIOUS
  <2>3. \A i \in 0..n : h[i] = g[i]
    <3> HIDE DEF Next1
    <3> QED BY <2>1
  <2>4. Solves(h, n + 1)
    <3>1. \A i \in 0..(n + 1) : h[i] = IF i = 0 THEN <<>> ELSE Next1(i, g[i - 1])
      OBVIOUS
    <3>2. \A i \in 0..(n + 1) : i # 0 => i - 1 \in 0..n
      OBVIOUS
    <3> HIDE DEF h, Next1
    <3> QED BY <2>3, <3>1, <3>2
  <2> HIDE DEF h, Solves
  <2> QED BY <2>2, <2>4
<1>4. L \in Solved
  <2> HIDE DEF Solved
  <2> QED BY <1>1, <1>2, <1>3, AllNaturals
<1>5. PICK g : g = [i \in 0..L |-> g[i]] /\ Solves(g, L)
  BY <1>1, <1>4
<1> DEFINE rest == CHOOSE r : r = [i \in 0..L |-> IF i = 0 THEN <<>> ELSE Next1(i, r[i - 1])]
<1>6. rest = [i \in 0..L |-> IF i = 0 THEN <<>> ELSE Next1(i, rest[i - 1])]
  <2>1. g = [i \in 0..L |-> IF i = 0 THEN <<>> ELSE Next1(i, g[i - 1])]
    <3> HIDE DEF Next1
    <3> QED BY <1>5
  <2> HIDE DEF Next1
  <2> QED BY <2>1
<1>7. WithoutShape(ring, s) = rest[L]
  BY DEF WithoutShape
<1> DEFINE Good == {n \in Nat : n <= L => Ring(rest, n)}
<1>8. \A i \in 0..L : rest[i] = IF i = 0 THEN <<>> ELSE Next1(i, rest[i - 1])
  BY <1>6
<1> HIDE DEF rest
<1>9. 0 \in Good
  <2>1. 0 \in 0..L
    BY <1>1
  <2>2. rest[0] = <<>>
    BY <1>8, <2>1
  <2>3. <<>> \in Seq(Shapes) /\ Len(<<>>) = 0
    OBVIOUS
  <2>4. Ring(rest, 0)
    BY <2>2, <2>3
  <2> HIDE DEF Ring
  <2> QED BY <2>4
<1>10. ASSUME NEW n \in Nat, n \in Good PROVE n + 1 \in Good
  <2> SUFFICES ASSUME n + 1 <= L PROVE Ring(rest, n + 1)
    BY <1>10
  <2>1. rest[n + 1] = Next1(n + 1, rest[n])
    BY <1>1, <1>8
  <2>2. Ring(rest, n) /\ ring[n + 1] \in Shapes
    BY <1>1, <1>10
  <2> QED BY <2>1, <2>2
<1>11. L \in Good
  <2> HIDE DEF Good
  <2> QED BY <1>1, <1>9, <1>10, AllNaturals
<1> QED BY <1>1, <1>7, <1>11

\* A ring that has been cut is one, and fits.
LEMMA LastOfType ==
  ASSUME NEW ring \in Seq(Shapes)
  PROVE  /\ LastOf(ring) \in Seq(Shapes)
         /\ Len(LastOf(ring)) <= MaxErrorHits /\ Len(LastOf(ring)) <= Len(ring)
<1>1. MaxErrorHits \in Nat \ {0}
  BY CatalogAssumption
<1>2. CASE Len(ring) > MaxErrorHits
  <2> DEFINE m == Len(ring) - MaxErrorHits + 1
  <2>1. /\ m \in 1..Len(ring) /\ LastOf(ring) = SubSeq(ring, m, Len(ring))
        /\ Len(ring) - m + 1 = MaxErrorHits
    BY <1>1, <1>2 DEF LastOf
  <2>2. /\ SubSeq(ring, m, Len(ring)) \in Seq(Shapes)
        /\ Len(SubSeq(ring, m, Len(ring))) = Len(ring) - m + 1
    <3> HIDE DEF m
    <3> QED BY <2>1
  <2> QED BY <1>2, <2>1, <2>2
<1>3. CASE ~(Len(ring) > MaxErrorHits)
  BY <1>1, <1>3 DEF LastOf
<1> QED BY <1>2, <1>3

\* Every report is counted under one key, and a ring shows some of its hits.
Filed ==
  /\ count \in [Keys -> Nat] /\ Total(count) = reports
  /\ hits \in [Keys -> Seq(Shapes)]
  /\ \A k \in Keys : Len(hits[k]) <= MaxErrorHits /\ Len(hits[k]) <= count[k]

Books ==
  /\ Filed
  /\ reports \in 0..MaxReports /\ (usage.pc \in Filing => reports < MaxReports)
  /\ bare \subseteq cards /\ Unmatched \notin hidden /\ listing.on \in BOOLEAN

\* The books begin empty.
LEMMA InitBooks == Init => Books
<1> SUFFICES ASSUME Init PROVE Books
  OBVIOUS
<1>1. count = [k \in Keys |-> 0] /\ hits = [k \in Keys |-> <<>>] /\ reports = 0
  BY DEF Init
<1>2. Total(count) = 0
  BY <1>1, SumOfNothing
<1>3. <<>> \in Seq(Shapes) /\ Len(<<>>) = 0 /\ {MaxErrorHits, MaxReports} \subseteq Nat \ {0}
  BY CatalogAssumption
<1>4. Filed
  BY <1>1, <1>2, <1>3 DEF Filed
<1>5. usage.pc = "idle" /\ cards = Builtins /\ bare \subseteq Builtins /\ hidden = {}
      /\ listing = NoListing
  BY DEF Init, Idle
<1>6. listing.on \in BOOLEAN
  BY <1>5 DEF NoListing
<1>7. reports \in 0..MaxReports /\ bare \subseteq cards
  BY <1>1, <1>3, <1>5
<1> QED BY <1>4, <1>5, <1>6, <1>7 DEF Books, Filing

\* Nothing is filed and nothing moved.
LEMMA NothingFiled ==
  ASSUME Books, UNCHANGED <<observed, reports>>,
         usage'.pc \in Filing => usage.pc \in Filing,
         bare' \subseteq cards', Unmatched \notin hidden', listing'.on \in BOOLEAN
  PROVE  Books'
BY DEF Books, Filed, observed

\* n of the reports counted under j are counted under k from now on.
LEMMA TableMove ==
  ASSUME count \in [Keys -> Nat], count' \in [Keys -> Nat],
         NEW j \in Keys, NEW k \in Keys, j # k, NEW n \in Nat,
         count'[j] = count[j] - n, count'[k] = count[k] + n,
         \A i \in Keys \ {j, k} : count'[i] = count[i]
  PROVE  Total(count') = Total(count)
<1>1. count'[j] + count'[k] = count[j] + count[k]
  <2>1. count[j] \in Nat /\ count[k] \in Nat
    OBVIOUS
  <2> QED BY <2>1
<1> QED BY <1>1, SumMove

\* n of the hits of j, the moved ones among them, go over to k.
LEMMA Moved ==
  ASSUME Books, NEW j \in Keys, NEW k \in Keys, j # k, NEW n \in Nat, n <= count[j],
         NEW kept \in Seq(Shapes), NEW moved \in Seq(Shapes),
         Len(kept) <= Len(hits[j]), Len(kept) <= count[j] - n, Len(moved) <= n,
         count' = [count EXCEPT ![j] = @ - n, ![k] = @ + n],
         hits' = [hits EXCEPT ![j] = kept, ![k] = LastOf(@ \o moved)], reports' = reports
  PROVE  Filed'
<1>1. /\ count \in [Keys -> Nat] /\ count[j] \in Nat /\ count[k] \in Nat
      /\ count[j] - n \in Nat /\ count[k] + n \in Nat
  BY DEF Books, Filed
<1>2. /\ count' \in [Keys -> Nat] /\ count'[j] = count[j] - n /\ count'[k] = count[k] + n
      /\ \A i \in Keys \ {j, k} : count'[i] = count[i]
  BY <1>1
<1>3. Total(count') = Total(count)
  BY <1>1, <1>2, TableMove
<1>4. /\ hits[k] \in Seq(Shapes) /\ hits[k] \o moved \in Seq(Shapes)
      /\ Len(hits[k] \o moved) = Len(hits[k]) + Len(moved)
  BY DEF Books, Filed
<1>5. /\ LastOf(hits[k] \o moved) \in Seq(Shapes)
      /\ Len(LastOf(hits[k] \o moved)) <= MaxErrorHits
      /\ Len(LastOf(hits[k] \o moved)) <= Len(hits[k] \o moved)
  BY <1>4, LastOfType
<1>6. hits' \in [Keys -> Seq(Shapes)] /\ hits'[j] = kept /\ hits'[k] = LastOf(hits[k] \o moved)
      /\ \A i \in Keys \ {j, k} : hits'[i] = hits[i]
  BY <1>5 DEF Books, Filed
<1>7. MaxErrorHits \in Nat /\ count[j] \in Nat /\ count[k] \in Nat
      /\ Len(hits[j]) \in Nat /\ Len(hits[k]) \in Nat /\ Len(kept) \in Nat /\ Len(moved) \in Nat
      /\ Len(LastOf(hits[k] \o moved)) \in Nat
  BY <1>5, CatalogAssumption DEF Books, Filed
<1>8. ASSUME NEW i \in Keys PROVE Len(hits'[i]) <= MaxErrorHits /\ Len(hits'[i]) <= count'[i]
  <2>1. CASE i = j
    BY <1>2, <1>6, <1>7, <2>1 DEF Books, Filed
  <2>2. CASE i = k
    <3>1. Len(hits[k]) <= count[k]
      BY DEF Books, Filed
    <3> QED BY <1>2, <1>4, <1>5, <1>6, <1>7, <2>2, <3>1
  <2>3. CASE i \notin {j, k}
    BY <1>2, <1>6, <2>3 DEF Books, Filed
  <2> QED BY <2>1, <2>2, <2>3
<1> QED BY <1>2, <1>6, <1>8, <1>3 DEF Filed, Books

\* A report adds one to one key and at most one to its ring.
LEMMA ObserveErrorBooks ==
  ASSUME IInv, Books, ObserveError
  PROVE  Books'
<1> DEFINE k == usage.key
<1>1. /\ usage.pc = "filed" /\ usage'.pc = "observed" /\ k \in Keys /\ usage.shape \in Shapes
      /\ count' = [count EXCEPT ![k] = @ + 1] /\ reports' = reports + 1
      /\ UNCHANGED <<policies, listing>>
  BY DEF ObserveError, IInv, Typed, Steps
<1>2. PICK old \in 0..Len(hits[k]) :
        hits' = [hits EXCEPT ![k] = LastOf(Append(SubSeq(@, old + 1, Len(@)), usage.shape))]
  BY DEF ObserveError
<1> HIDE DEF k
<1> DEFINE ring == Append(SubSeq(hits[k], old + 1, Len(hits[k])), usage.shape)
<1>3. ring \in Seq(Shapes) /\ Len(ring) \in Nat /\ Len(ring) <= Len(hits[k]) + 1
  <2>1. hits[k] \in Seq(Shapes) /\ Len(hits[k]) \in Nat
    BY <1>1 DEF Books, Filed
  <2>2. SubSeq(hits[k], old + 1, Len(hits[k])) \in Seq(Shapes)
        /\ Len(SubSeq(hits[k], old + 1, Len(hits[k]))) <= Len(hits[k])
    BY <2>1
  <2> QED BY <1>1, <2>1, <2>2
<1> HIDE DEF ring
<1>4. /\ LastOf(ring) \in Seq(Shapes) /\ Len(LastOf(ring)) \in Nat
      /\ Len(LastOf(ring)) <= MaxErrorHits /\ Len(LastOf(ring)) <= Len(ring)
  BY <1>3, LastOfType
<1>5. hits' = [hits EXCEPT ![k] = LastOf(ring)]
  BY <1>2 DEF ring
<1>6. count[k] + 1 \in Nat /\ count' = [count EXCEPT ![k] = count[k] + 1]
  BY <1>1 DEF Books, Filed
<1>7. Total(count') = reports'
  <2>1. /\ count \in [Keys -> Nat] /\ count' \in [Keys -> Nat] /\ count[k] \in Nat
        /\ count'[k] = count[k] + 1 /\ \A i \in Keys \ {k} : count'[i] = count[i]
    BY <1>1, <1>6 DEF Books, Filed
  <2>2. Total(count') = Total(count) - count[k] + count'[k]
    BY <1>1, <2>1, SumChange
  <2>3. Total(count) = reports /\ reports \in Nat
    BY DEF Books, Filed
  <2> QED BY <1>1, <2>1, <2>2, <2>3
<1>8. Filed'
  <2>1. count' \in [Keys -> Nat] /\ hits' \in [Keys -> Seq(Shapes)]
    BY <1>1, <1>4, <1>5, <1>6 DEF Books, Filed
  <2>2. ASSUME NEW i \in Keys PROVE Len(hits'[i]) <= MaxErrorHits /\ Len(hits'[i]) <= count'[i]
    <3>1. CASE i = k
      <4>1. hits'[i] = LastOf(ring) /\ count'[i] = count[k] + 1 /\ Len(hits[k]) <= count[k]
            /\ Len(hits[k]) \in Nat /\ count[k] \in Nat
        BY <1>1, <1>5, <1>6, <3>1 DEF Books, Filed
      <4> QED BY <1>3, <1>4, <4>1
    <3>2. CASE i # k
      BY <1>1, <1>5, <1>6, <3>2 DEF Books, Filed
    <3> QED BY <3>1, <3>2
  <2> QED BY <1>7, <2>1, <2>2 DEF Filed
<1>9. reports' \in 0..MaxReports
  BY <1>1, CatalogAssumption DEF Books, Filing
<1> QED BY <1>1, <1>8, <1>9 DEF Books, Filing, policies

\* A split moves as many as it takes out of the ring.
LEMMA SplitObservedBooks ==
  ASSUME IInv, Books, NEW p \in Splits, SplitObservedByShape(p[1], p[2], p[3])
  PROVE  Books'
<1> DEFINE j == p[1]
           k == p[2]
           s == p[3]
           kept == WithoutShape(hits[j], s)
           moved == OnlyShape(hits[j], s)
           n == Len(moved)
<1>1. j \in Keys /\ k \in Keys /\ s \in Shapes /\ j # k
  BY Names, PageAssumption
<1>2. /\ hits' = [hits EXCEPT ![j] = kept, ![k] = LastOf(@ \o moved)]
      /\ count' = [count EXCEPT ![j] = @ - n, ![k] = @ + n]
      /\ cards' = cards \cup {k} /\ bare' = IF k \in cards THEN bare ELSE bare \cup {k}
      /\ UNCHANGED <<hidden, usage, listing, reports>>
  BY DEF SplitObservedByShape
<1> HIDE DEF j, k, s
<1>3. /\ hits[j] \in Seq(Shapes) /\ Len(hits[j]) \in Nat /\ Len(hits[j]) <= count[j]
      /\ count[j] \in Nat
  BY <1>1 DEF Books, Filed
<1>4. kept \in Seq(Shapes) /\ Len(kept) \in Nat /\ Len(kept) <= Len(hits[j])
  BY <1>3, WithoutType
<1>5. moved \in Seq(Shapes) /\ n = Len(hits[j]) - Len(kept) /\ n \in Nat
  <2> DEFINE m == Len(hits[j]) - Len(kept)
  <2>1. m \in Nat /\ moved = [i \in 1..m |-> s]
    BY <1>3, <1>4 DEF OnlyShape
  <2> HIDE DEF m, moved
  <2>2. moved \in Seq(Shapes) /\ Len(moved) = m
    BY <1>1, <2>1
  <2> QED BY <2>1, <2>2 DEF m
<1> HIDE DEF kept, moved, n
<1>6. n <= count[j] /\ Len(kept) <= count[j] - n /\ Len(moved) <= n
  BY <1>3, <1>4, <1>5 DEF n
<1>7. Filed'
  BY <1>1, <1>2, <1>4, <1>5, <1>6, Moved
<1>8. bare' \subseteq cards' /\ Unmatched \notin hidden' /\ listing'.on \in BOOLEAN
  BY <1>2 DEF Books
<1> QED BY <1>2, <1>7, <1>8 DEF Books

\* A withdrawal and a merge move everything there is.
LEMMA AllMoved ==
  ASSUME Books, NEW j \in Keys, NEW k \in Keys, j # k, reports' = reports,
         count' = [count EXCEPT ![j] = 0, ![k] = @ + count[j]],
         hits' = [hits EXCEPT ![j] = <<>>, ![k] = LastOf(@ \o hits[j])]
  PROVE  Filed'
<1>1. /\ count[j] \in Nat /\ hits[j] \in Seq(Shapes) /\ Len(hits[j]) <= count[j]
      /\ Len(hits[j]) \in Nat
  BY DEF Books, Filed
<1>2. count' = [count EXCEPT ![j] = @ - count[j], ![k] = @ + count[j]]
  <2>1. count[j] - count[j] = 0
    BY <1>1
  <2> QED BY <2>1
<1>3. <<>> \in Seq(Shapes) /\ Len(<<>>) = 0
  OBVIOUS
<1>4. Len(<<>>) <= Len(hits[j]) /\ Len(<<>>) <= count[j] - count[j] /\ count[j] <= count[j]
  BY <1>1, <1>3
<1> QED BY <1>1, <1>2, <1>3, <1>4, Moved

\* Every step keeps the books.
LEMMA NextBooks == IInv /\ Books /\ [Next]_vars => Books'
<1> SUFFICES ASSUME IInv, Books, [Next]_vars PROVE Books'
  OBVIOUS
<1>1. CASE \E s \in Shapes : Route(s)
  <2>1. /\ UNCHANGED <<observed, policies, listing, reports>> /\ reports < MaxReports
    BY <1>1 DEF Route
  <2> QED BY <2>1 DEF Books, Filed, observed, policies
<1>2. CASE HonourHidden \/ RouteAgain \/ LookUp \/ FindCard
  <2>1. UNCHANGED <<observed, policies, listing, reports>>
    BY <1>2 DEF HonourHidden, RouteAgain, LookUp, FindCard
  <2>2. usage'.pc \in Filing => usage.pc \in Filing
    <3>1. CASE HonourHidden \/ RouteAgain
      BY <3>1 DEF HonourHidden, RouteAgain, Filing
    <3>2. CASE LookUp
      BY <3>2 DEF LookUp, Filing, Idle, IInv, Typed
    <3>3. CASE FindCard
      BY <3>3 DEF FindCard, Filing, Idle, IInv, Typed
    <3> QED BY <1>2, <3>1, <3>2, <3>3
  <2> QED BY <2>1, <2>2, NothingFiled DEF Books, policies
<1>3. CASE ObserveError
  BY <1>3, ObserveErrorBooks
<1>4. CASE Seed \/ EnsureUnmatched \/ GiveLadder \/ SaveSplitCard
  <2>1. UNCHANGED <<observed, reports>> /\ listing'.on \in BOOLEAN
    <3>1. UNCHANGED <<observed, reports>> /\ listing' \in {listing, NoListing}
      BY <1>4 DEF Seed, EnsureUnmatched, GiveLadder, SaveSplitCard
    <3>2. listing.on \in BOOLEAN /\ NoListing.on \in BOOLEAN
      BY DEF NoListing, Books
    <3> QED BY <3>1, <3>2
  <2>2. usage'.pc \in Filing => usage.pc \in Filing
    BY <1>4 DEF Seed, EnsureUnmatched, GiveLadder, SaveSplitCard, Filing, Idle
  <2>3. bare' \subseteq cards' /\ Unmatched \notin hidden'
    BY <1>4 DEF Seed, EnsureUnmatched, GiveLadder, SaveSplitCard, UpsertErrorPolicy, Books
  <2> QED BY <2>1, <2>2, <2>3, NothingFiled
<1>5. CASE ListErrors \/ NewGuard
  <2>1. /\ UNCHANGED <<observed, reports, usage, hidden>> /\ listing'.on \in BOOLEAN
        /\ bare' \subseteq bare \cup (cards' \ cards) /\ cards \subseteq cards'
    <3>1. CASE ListErrors
      BY <3>1 DEF ListErrors, EnsureBuiltinPolicies, NoListing
    <3>2. CASE NewGuard
      BY <3>2 DEF NewGuard, EnsureBuiltinPolicies, Books
    <3> QED BY <1>5, <3>1, <3>2
  <2> QED BY <2>1, NothingFiled DEF Books
<1>6. CASE \E p \in Splits : SplitObservedByShape(p[1], p[2], p[3])
  BY <1>6, SplitObservedBooks
<1>7. ASSUME NEW k \in Keys, Withdraw(k) PROVE Books'
  <2>1. k # Unmatched /\ Unmatched \in Keys
    BY <1>7, CatalogAssumption DEF Withdraw
  <2>2. Filed'
    BY <1>7, <2>1, AllMoved DEF Withdraw
  <2>3. /\ UNCHANGED <<usage, listing, reports>> /\ bare' \subseteq cards'
        /\ Unmatched \notin hidden'
    BY <1>7, <2>1 DEF Withdraw, Books
  <2> QED BY <2>2, <2>3 DEF Books
<1>8. ASSUME NEW p \in Saves, HandleErrorPolicy(p[1], p[2]) PROVE Books'
  <2>1. /\ UNCHANGED <<observed, reports, usage, listing>> /\ bare' \subseteq cards'
        /\ Unmatched \notin hidden'
    BY <1>8 DEF HandleErrorPolicy, UpsertErrorPolicy, Books
  <2> QED BY <2>1, NothingFiled DEF Books
<1>9. ASSUME NEW p \in Merges, Merge(p[1], p[2]) PROVE Books'
  <2>1. p[1] \in Keys /\ p[2] \in Keys /\ p[1] # p[2]
    BY Names
  <2>2. Filed'
    BY <1>9, <2>1, AllMoved DEF Merge
  <2>3. /\ UNCHANGED <<usage, listing, reports, hidden>> /\ bare' \subseteq cards'
    BY <1>9 DEF Merge, Books
  <2> QED BY <2>2, <2>3 DEF Books
<1>10. CASE UNCHANGED vars
  BY <1>10 DEF vars, observed, policies, Books, Filed
<1> QED BY <1>1, <1>2, <1>3, <1>4, <1>5, <1>6, <1>7, <1>8, <1>9, <1>10
        DEF Next, HandleUsage, Panel

LEMMA BooksKept == Spec => []Books
<1>1. Init => Books
  BY InitBooks
<1>2. IInv /\ Books /\ [Next]_vars => Books'
  BY NextBooks
<1> QED BY <1>1, <1>2, Invariant, PTL DEF Spec

\* However reports, splits, merges and withdrawals interleave, each report is
\* counted under exactly one key, and no ring shows more than its key counted.
THEOREM HitsAreConserved == Spec => []HitsConserved
<1>1. Books => HitsConserved
  BY DEF Books, Filed, HitsConserved, Total
<1> QED BY <1>1, BooksKept, PTL

\* The table, its rings, which are never longer than their limit, and every
\* report in progress are well typed.
THEOREM TypeCorrect == Spec => []TypeOK
<1>1. ASSUME IInv, Books PROVE TypeOK
  <2>1. count \in [Keys -> 0..MaxReports]
    <3>1. count \in [Keys -> Nat] /\ Total(count) <= MaxReports /\ Total(count) \in Nat
      BY <1>1 DEF Books, Filed
    <3>2. \A k \in Keys : count[k] <= Total(count)
      BY <3>1, SumBounds
    <3> QED BY <3>1, <3>2, CatalogAssumption
  <2> QED BY <1>1, <2>1 DEF IInv, Typed, Steps, Books, Filed, TypeOK
<1> QED BY <1>1, Invariant, BooksKept, PTL
=============================================================================
