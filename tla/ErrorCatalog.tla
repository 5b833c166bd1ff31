----------------------------- MODULE ErrorCatalog -----------------------------
(***************************************************************************)
(* The catalog of errors (state.go: Observed, ErrorPolicies,               *)
(* HiddenPolicyKeys): how the guard files a reported failure under a key,  *)
(* while the panel lists, splits, merges, withdraws and saves the cards.   *)
(* Each call takes the table's lock anew, so the two interleave between    *)
(* any two calls.  A body is its shape (errorfp); what a card decides is   *)
(* in SentryPolicy, what follows from it in Guard.                         *)
(***************************************************************************)
EXTENDS Integers, Sequences, FiniteSets, Functions

CONSTANTS
  Shapes,       \* fingerprints of bodies
  Keys,         \* keys of cards; any_error is not routed to and not merged
  Builtins,     \* the strict classes, whose cards are seeded
  Unmatched,
  ClassOf,      \* what KeyFromMatch makes of a body
  ShapeOfKey,   \* the shape that a key reason:fp_... names
  Laddered,     \* permission_403, whose card gets a ladder when listed
  Splits,       \* <<from, to, shape>> that the operator may ask for
  Merges,       \* <<from, to>> that the operator may ask for
  Saves,        \* <<key, shapes>> of the cards that the operator may save
  MaxErrorHits, \* length of a ring
  MaxReports,   \* bound: reports
  None

ASSUME CatalogAssumption ==
  /\ Builtins \cup {Unmatched, Laddered} \subseteq Keys
  /\ Unmatched \notin Builtins \cup {Laddered}
  /\ ClassOf \in [Shapes -> Builtins \cup {Unmatched}]
  /\ ShapeOfKey \in [Keys -> Shapes \cup {None}] /\ None \notin Shapes \cup Keys
  /\ Splits \subseteq Keys \X Keys \X Shapes
  /\ Merges \subseteq {p \in Keys \X Keys : p[1] # p[2]}
  /\ Saves \subseteq Keys \X SUBSET Shapes
  /\ {MaxErrorHits, MaxReports} \subseteq Nat \ {0}

\* A table is a finite map, and sums over it mean nothing otherwise.
ASSUME FiniteAssumption == IsFiniteSet(Keys)

\* Only keys that a split made name a shape, and the page splits that shape to
\* such a key; it splits from the bucket only and gives the bucket no shape.
ASSUME PageAssumption ==
  /\ \A k \in Builtins \cup {Unmatched, Laddered} : ShapeOfKey[k] = None
  /\ \A p \in Splits : p[1] = Unmatched /\ p[2] # Unmatched /\ ShapeOfKey[p[2]] \in {None, p[3]}
  /\ \A p \in Saves : p[1] = Unmatched => p[2] = {}

VARIABLES
  count,     \* Observed[k].Count, 0 if there is no such entry
  hits,      \* Observed[k].Hits, as shapes
  cards,     \* the keys of ErrorPolicies
  owns,      \* SplitShapeList of each card
  bare,      \* cards without escalations
  hidden,    \* HiddenPolicyKeys
  usage,     \* HandleUsage, one at a time under the guard's mutex
  splitting, \* a split of which the card is still to be saved
  listing,   \* the panel is about to give the Laddered card its ladder, with
             \* the routes that the card had when it was listed
  reports,   \* reports filed so far (history)
  chosen,    \* the cards that the operator has put a shape on (history)
  revived,   \* shapes whose routes the ladder brought back (history)
  withdrawn, \* keys the operator withdrew and did not ask for since (history)
  since      \* what held of both since the report in progress began (history)

observed == <<count, hits>>
policies == <<cards, owns, bare, hidden>>
history == <<chosen, revived, withdrawn>>
vars == <<observed, policies, usage, splitting, listing, reports, history, since>>

Idle == [pc |-> "idle", shape |-> None, key |-> None]
NoSplit == [to |-> None, shape |-> None]
NoListing == [on |-> FALSE, routes |-> {}]

-----------------------------------------------------------------------------
(* Calls on the table.                                                     *)

\* Mutant: the ring is not cut.
Uncut(s) == s

LastOf(s) == IF Len(s) > MaxErrorHits THEN SubSeq(s, Len(s) - MaxErrorHits + 1, Len(s)) ELSE s

\* routeBySplitShape: the cards are a map, the first that owns the shape wins.
Owners(s) == {k \in cards \ {Unmatched} : s \in owns[k]}
Routed(s, otherwise) == IF Owners(s) = {} THEN {otherwise} ELSE Owners(s)

\* Mutant: what is saved replaces what was there.
UpsertPlain(k, shapes) ==
  /\ cards' = cards \cup {k} /\ hidden' = hidden \ {k}
  /\ owns' = [owns EXCEPT ![k] = shapes]

UpsertErrorPolicy(k, shapes) ==
  /\ cards' = cards \cup {k} /\ hidden' = hidden \ {k}
  /\ owns' = [owns EXCEPT ![k] = @ \cup shapes \cup ({ShapeOfKey[k]} \ {None})]

EnsureBuiltinPolicies ==
  cards' = cards \cup (Builtins \ hidden)

-----------------------------------------------------------------------------
(* History: the operator asks for k, or withdraws it, or wants s under k.  *)

\* A report in progress may still go by what held before.
Touch(keys, shapes) ==
  since' = [kept |-> since.kept \ keys,
            chosen |-> IF usage.shape \in shapes THEN {} ELSE since.chosen]

\* What is known of a shape whose routes came back by themselves is nothing.
Choice(s) == IF s \in revived THEN {} ELSE chosen[s]

AskedFor(k) == withdrawn' = [withdrawn EXCEPT ![k] = "no"]

Withdrawn(k) ==
  withdrawn' = [withdrawn EXCEPT ![k] =
                  IF usage.pc = "idle" /\ ~listing.on THEN "quietly" ELSE "meanwhile"]

-----------------------------------------------------------------------------
(* HandleUsage, as far as the catalog goes.                                *)

\* Mutant: a saved mapping is for unmatched bodies only.
RouteUnmatched(s) ==
  /\ usage.pc = "idle" /\ reports < MaxReports
  /\ usage' = [pc |-> "classed", shape |-> s, key |-> ClassOf[s]]
  /\ since' = [kept |-> {k \in Keys : withdrawn[k] # "no"}, chosen |-> Choice(s)]
  /\ UNCHANGED <<observed, policies, splitting, listing, reports, history>>

Route(s) ==
  /\ usage.pc = "idle" /\ reports < MaxReports
  /\ \E k \in Routed(s, ClassOf[s]) :
       usage' = [pc |-> "classed", shape |-> s, key |-> k]
  /\ since' = [kept |-> {k \in Keys : withdrawn[k] # "no"}, chosen |-> Choice(s)]
  /\ UNCHANGED <<observed, policies, splitting, listing, reports, history>>

\* Mutant: the withdrawal is not looked at.
HonourCards ==
  /\ usage.pc = "classed"
  /\ usage' = [usage EXCEPT !.pc = IF usage.key = Unmatched THEN "again" ELSE "filed"]
  /\ UNCHANGED <<observed, policies, splitting, listing, reports, history, since>>

HonourHidden ==
  LET k == IF usage.key \in hidden THEN Unmatched ELSE usage.key IN
  /\ usage.pc = "classed"
  /\ usage' = [usage EXCEPT !.pc = IF k = Unmatched THEN "again" ELSE "filed", !.key = k]
  /\ UNCHANGED <<observed, policies, splitting, listing, reports, history, since>>

RouteAgain ==
  /\ usage.pc = "again"
  /\ \E k \in Routed(usage.shape, Unmatched) : usage' = [usage EXCEPT !.pc = "filed", !.key = k]
  /\ UNCHANGED <<observed, policies, splitting, listing, reports, history, since>>

\* Hits older than a week drop out of the ring, in order; the count stays.
ObserveError ==
  LET k == usage.key IN
  /\ usage.pc = "filed"
  /\ count' = [count EXCEPT ![k] = @ + 1]
  /\ \E old \in 0..Len(hits[k]) :
       hits' = [hits EXCEPT ![k] =
                  LastOf(Append(SubSeq(@, old + 1, Len(@)), usage.shape))]
  /\ reports' = reports + 1
  /\ usage' = [usage EXCEPT !.pc = "observed"]
  /\ UNCHANGED <<policies, splitting, listing, history, since>>

\* "Skip if user explicitly deleted (hid) this policy".
LookUp ==
  /\ usage.pc = "observed"
  /\ usage' = IF usage.key \in hidden THEN Idle ELSE [usage EXCEPT !.pc = "visible"]
  /\ UNCHANGED <<observed, policies, splitting, listing, reports, history, since>>

FindCard ==
  /\ usage.pc = "visible"
  /\ usage' = IF usage.key \in cards \/ usage.key \notin Builtins \cup {Unmatched}
              THEN Idle ELSE [usage EXCEPT !.pc = "seed"]
  /\ UNCHANGED <<observed, policies, splitting, listing, reports, history, since>>

Seed ==
  /\ usage.pc = "seed"
  /\ UpsertErrorPolicy(usage.key, {}) /\ bare' = bare \cup {usage.key}
  /\ usage' = Idle
  /\ UNCHANGED <<observed, splitting, listing, reports, history, since>>

-----------------------------------------------------------------------------
(* The panel.                                                              *)

\* handleErrors: builtin cards and the bucket exist; then, from a list that
\* was taken before, the ladder of a card that has none.
ListErrors ==
  /\ ~listing.on
  /\ EnsureBuiltinPolicies
  /\ bare' = bare \cup ((cards' \ cards) \ {Laddered})
  /\ listing' = IF Laddered \in cards \cap bare
                THEN [on |-> TRUE, routes |-> owns[Laddered]] ELSE NoListing
  /\ UNCHANGED <<observed, owns, hidden, usage, splitting, reports, history, since>>

\* guard.New, after a change of configuration.
NewGuard ==
  /\ EnsureBuiltinPolicies /\ cards' # cards
  /\ bare' = bare \cup (cards' \ cards)
  /\ UNCHANGED <<observed, owns, hidden, usage, splitting, listing, reports, history, since>>

EnsureUnmatched ==
  /\ Unmatched \notin cards
  /\ UpsertErrorPolicy(Unmatched, {}) /\ bare' = bare \cup {Unmatched}
  /\ UNCHANGED <<observed, usage, splitting, listing, reports, history, since>>

\* The listed copy is saved whole.  Where the card has gone meanwhile, or has
\* come anew, its old routes come back.
GiveLadder ==
  LET back == listing.routes \ owns[Laddered] IN
  /\ listing.on /\ listing' = NoListing
  /\ UpsertErrorPolicy(Laddered, listing.routes) /\ bare' = bare \ {Laddered}
  /\ revived' = revived \cup back /\ Touch({}, back)
  /\ UNCHANGED <<observed, usage, splitting, reports, chosen, withdrawn>>

\* A ring without the hits of one shape, in order, and those hits.
WithoutShape(ring, s) ==
  LET rest[i \in 0..Len(ring)] ==
        IF i = 0 THEN <<>>
        ELSE IF ring[i] = s THEN rest[i - 1] ELSE Append(rest[i - 1], ring[i])
  IN  rest[Len(ring)]

OnlyShape(ring, s) == [i \in 1..(Len(ring) - Len(WithoutShape(ring, s))) |-> s]

\* Mutant: the count of the source is left as it was.
SplitUncounted(from, to, s) ==
  LET moved == OnlyShape(hits[from], s) IN
  /\ splitting = NoSplit /\ moved # <<>>
  /\ hits' = [hits EXCEPT ![from] = WithoutShape(@, s), ![to] = LastOf(@ \o moved)]
  /\ count' = [count EXCEPT ![to] = @ + Len(moved)]
  /\ cards' = cards \cup {to} /\ owns' = [owns EXCEPT ![to] = @ \cup {s}]
  /\ bare' = IF to \in cards THEN bare ELSE bare \cup {to}
  /\ splitting' = IF to = Unmatched THEN NoSplit ELSE [to |-> to, shape |-> s]
  /\ chosen' = [chosen EXCEPT ![s] = @ \cup {to}] /\ AskedFor(to) /\ Touch({to}, {s})
  /\ UNCHANGED <<hidden, usage, listing, reports, revived>>

\* SplitObservedByShape.  (An entry that never had a ring, from an older
\* version's file, moves as a whole; such entries are not made any more.)
SplitObservedByShape(from, to, s) ==
  LET moved == OnlyShape(hits[from], s) IN
  /\ splitting = NoSplit /\ moved # <<>>
  /\ hits' = [hits EXCEPT ![from] = WithoutShape(@, s), ![to] = LastOf(@ \o moved)]
  /\ count' = [count EXCEPT ![from] = @ - Len(moved), ![to] = @ + Len(moved)]
  /\ cards' = cards \cup {to} /\ owns' = [owns EXCEPT ![to] = @ \cup {s}]
  /\ bare' = IF to \in cards THEN bare ELSE bare \cup {to}
  /\ splitting' = IF to = Unmatched THEN NoSplit ELSE [to |-> to, shape |-> s]
  /\ chosen' = [chosen EXCEPT ![s] = @ \cup {to}] /\ AskedFor(to) /\ Touch({to}, {s})
  /\ UNCHANGED <<hidden, usage, listing, reports, revived>>

SaveSplitCard ==
  /\ splitting # NoSplit
  /\ UpsertErrorPolicy(splitting.to, {splitting.shape})
  /\ splitting' = NoSplit
  /\ UNCHANGED <<observed, bare, usage, listing, reports, history, since>>

\* ReclassifyErrorKey to unmatched: the card goes, with its routes, and its
\* key is hidden, whether or not anything was observed.
Withdraw(k) ==
  /\ splitting = NoSplit /\ <<k, Unmatched>> \in Merges
  /\ count' = [count EXCEPT ![k] = 0, ![Unmatched] = @ + count[k]]
  /\ hits' = [hits EXCEPT ![k] = <<>>, ![Unmatched] = LastOf(@ \o hits[k])]
  /\ cards' = cards \ {k} /\ owns' = [owns EXCEPT ![k] = {}] /\ bare' = bare \ {k}
  /\ hidden' = hidden \cup {k}
  /\ chosen' = [s \in Shapes |-> chosen[s] \ {k}]
  /\ revived' = IF k = Laddered THEN {} ELSE revived
  /\ Withdrawn(k) /\ Touch({k}, owns[k])
  /\ UNCHANGED <<usage, splitting, listing, reports>>

\* ReclassifyErrorKey to another card, which takes the routes over.
Merge(from, to) ==
  /\ splitting = NoSplit /\ <<from, to>> \in Merges /\ to # Unmatched /\ count[from] > 0
  /\ count' = [count EXCEPT ![from] = 0, ![to] = @ + count[from]]
  /\ hits' = [hits EXCEPT ![from] = <<>>, ![to] = LastOf(@ \o hits[from])]
  /\ cards' = IF from \in cards THEN (cards \ {from}) \cup {to} ELSE cards
  /\ owns' = [owns EXCEPT ![from] = {}, ![to] = @ \cup owns[from]]
  /\ bare' = IF to \notin cards /\ from \in bare THEN (bare \ {from}) \cup {to} ELSE bare \ {from}
  /\ chosen' = [s \in Shapes |-> IF s \in owns[from] THEN (chosen[s] \ {from}) \cup {to}
                               ELSE chosen[s]]
  /\ revived' = IF from = Laddered THEN {} ELSE revived
  /\ AskedFor(to) /\ Touch({to}, owns[from])
  /\ UNCHANGED <<hidden, usage, splitting, listing, reports>>

\* handleErrorPolicy.  The page sends the routes that it shows, which may be
\* fewer, or more, than the card has by now.
HandleErrorPolicy(k, shapes) ==
  LET sent == shapes \cup {ShapeOfKey[k]} IN
  /\ splitting = NoSplit
  /\ UpsertErrorPolicy(k, shapes) /\ bare' = bare \ {k}
  /\ chosen' = [s \in Shapes |-> IF s \in sent THEN chosen[s] \cup {k} ELSE chosen[s]]
  /\ AskedFor(k) /\ Touch({k}, sent)
  /\ UNCHANGED <<observed, usage, splitting, listing, reports, revived>>

-----------------------------------------------------------------------------
Init ==
  /\ count = [k \in Keys |-> 0] /\ hits = [k \in Keys |-> <<>>]
  /\ cards = Builtins /\ owns = [k \in Keys |-> {}] /\ bare = {Laddered} \cap Builtins
  /\ hidden = {} /\ usage = Idle /\ splitting = NoSplit /\ listing = NoListing
  /\ reports = 0 /\ chosen = [s \in Shapes |-> {}] /\ revived = {}
  /\ withdrawn = [k \in Keys |-> "no"] /\ since = [kept |-> {}, chosen |-> {}]

HandleUsage ==
  \/ \E s \in Shapes : Route(s)
  \/ HonourHidden \/ RouteAgain \/ ObserveError \/ LookUp \/ FindCard \/ Seed

Panel ==
  \/ ListErrors \/ NewGuard \/ EnsureUnmatched \/ GiveLadder \/ SaveSplitCard
  \/ \E p \in Splits : SplitObservedByShape(p[1], p[2], p[3])
  \/ \E k \in Keys : Withdraw(k)
  \/ \E p \in Saves : HandleErrorPolicy(p[1], p[2])
  \/ \E p \in Merges : Merge(p[1], p[2])

Next == HandleUsage \/ Panel

Spec == Init /\ [][Next]_vars

-----------------------------------------------------------------------------
TypeOK ==
  /\ count \in [Keys -> 0..MaxReports]
  /\ \A k \in Keys : hits[k] \in Seq(Shapes) /\ Len(hits[k]) <= MaxErrorHits
  /\ cards \subseteq Keys /\ owns \in [Keys -> SUBSET Shapes] /\ bare \subseteq cards
  /\ hidden \subseteq Keys \ {Unmatched}
  /\ usage \in [pc : {"idle", "classed", "again", "filed", "observed", "visible", "seed"},
                shape : Shapes \cup {None}, key : Keys \cup {None}]
  /\ splitting \in [to : Keys \cup {None}, shape : Shapes \cup {None}]
  /\ listing \in [on : BOOLEAN, routes : SUBSET Shapes] /\ reports \in 0..MaxReports
  /\ chosen \in [Shapes -> SUBSET Keys] /\ revived \subseteq Shapes
  /\ withdrawn \in [Keys -> {"no", "quietly", "meanwhile"}]
  /\ since \in [kept : SUBSET Keys, chosen : SUBSET Keys]

\* Splitting, merging and withdrawing lose no report and count none twice,
\* and a ring never shows more hits than its key has counted.
HitsConserved ==
  /\ FoldFunction(+, 0, count) = reports
  /\ \A k \in Keys : Len(hits[k]) <= count[k]

\* A card keeps the routes the operator gave it, through saves that leave
\* them out, ladders, seeds and merges, until it is withdrawn or merged away.
RoutesKept ==
  \A s \in Shapes : \A k \in chosen[s] : k \in cards /\ s \in owns[k]

\* The shape of a body that the operator split off is filed where the
\* operator put it, and nowhere else: under the card of the split or merge, or
\* one of them where the operator put it on several.  Two exceptions: what
\* the operator changed while the report was under way, and shapes whose
\* routes a ladder brought back to a card that was merged away or withdrawn.
SplitRoutesThere ==
  [][usage.pc = "filed" /\ usage'.pc = "observed" =>
       since.chosen = {} \/ usage.key \in since.chosen]_vars

\* "User withdrew a class -> new hits go to unmatched until explicitly
\* merged/split again": nothing is filed under a key withdrawn while no
\* report and no listing was under way.
WithdrawnGetsNone ==
  [][usage.pc = "filed" /\ usage'.pc = "observed" /\ usage.key \in since.kept =>
       withdrawn[usage.key] # "quietly"]_vars
=============================================================================
