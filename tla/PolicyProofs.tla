---------------------------- MODULE PolicyProofs ----------------------------
(***************************************************************************)
(* What the policy engine decides holds for ladders of any length and runs *)
(* of any length: the loop of decidePolicy ends on the strongest rung that *)
(* the run has reached, one more failure never makes it do less, and no    *)
(* ladder gets round a veto.                                               *)
(*                                                                         *)
(* The loop is a fold over the ladder; its invariant (Best) is proved by   *)
(* induction on the rungs that it has seen.                                *)
(***************************************************************************)
EXTENDS MCPolicy, WellFoundedInduction, TLAPS

\* What FailAgain leaves alone is what Init has chosen.
IInv ==
  /\ sw \in Switches /\ sw.sentry
  /\ policy.enabled /\ policy.never \in BOOLEAN /\ policy.ladder \in Ladders
  /\ tier \in {"free", "super"}
  /\ streak \in Nat

-----------------------------------------------------------------------------
(* The ladders.                                                            *)

\* Severities are numbers, and tell the actions of a rung apart.
LEMMA Severities ==
  /\ \A act : ActionSeverity(act) \in Nat
  /\ \A a, b \in PolicyActions : ActionSeverity(a) = ActionSeverity(b) => a = b
<1>1. ASSUME NEW act PROVE ActionSeverity(act) \in Nat
  BY DEF ActionSeverity
<1>2. ASSUME NEW a \in PolicyActions, NEW b \in PolicyActions,
             ActionSeverity(a) = ActionSeverity(b)
      PROVE  a = b
  BY <1>2 DEF ActionSeverity, PolicyActions
<1> QED BY <1>1, <1>2

\* Normalizing a ladder fills every rung in.
LEMMA LaddersAre ==
  ASSUME NEW ladder \in Ladders
  PROVE  ladder \in Seq(Rule) /\ Untied(ladder)
<1>1. PICK raw \in RawLadders : ladder = NormalizedEscalations(raw, raw[1])
  BY DEF Ladders
<1>2. PICK n \in 1..RungBound :
        /\ raw \in [1..n -> UNION {RawRungs(i) : i \in 1..n}]
        /\ \A i \in 1..n : raw[i].sec = i
  BY <1>1 DEF RawLadders
<1>3. n \in Nat /\ 1 \in 1..n
  BY BoundAssumption
<1>4. raw # <<>>
  BY <1>2, <1>3
<1>5. ladder = [i \in 1..n |-> Filled(raw[i])]
  BY <1>1, <1>2, <1>4 DEF NormalizedEscalations
<1>6. ASSUME NEW i \in 1..n PROVE Filled(raw[i]) \in Rule
  <2>1. PICK j \in 1..n : raw[i] \in RawRungs(j)
    BY <1>2
  <2>2. j \in Nat
    OBVIOUS
  <2>3. PICK rung : rung = raw[i]
    OBVIOUS
  <2>4. rung \in [streak : Nat, action : PolicyActions \cup {""}, sec : Nat]
    <3>1. 0..StreakBound \subseteq Nat
      BY BoundAssumption
    <3> QED BY <2>1, <2>2, <2>3, <3>1 DEF RawRungs
  <2>5. Filled(rung) \in [streak : Nat \ {0}, action : PolicyActions, sec : Nat]
    <3>1. "observe" \in PolicyActions
      BY DEF PolicyActions
    <3>2. ASSUME NEW st \in Nat \ {0}, NEW act \in PolicyActions
          PROVE  [rung EXCEPT !.streak = st, !.action = act] \in
                   [streak : Nat \ {0}, action : PolicyActions, sec : Nat]
      BY <2>4
    <3>3. /\ (IF rung.streak = 0 THEN 1 ELSE rung.streak) \in Nat \ {0}
          /\ (IF rung.action = "" THEN "observe" ELSE rung.action) \in PolicyActions
      <4>1. rung.action \in PolicyActions \cup {""}
        BY <2>4
      <4>2. (IF rung.streak = 0 THEN 1 ELSE rung.streak) \in Nat \ {0}
        <5>1. rung.streak \in Nat
          BY <2>4
        <5> QED BY <5>1
      <4>3. (IF rung.action = "" THEN "observe" ELSE rung.action) \in PolicyActions
        BY <3>1, <4>1, Zenon
      <4> QED BY <4>2, <4>3
    <3> QED BY <3>2, <3>3 DEF Filled
  <2> QED BY <2>3, <2>5 DEF Rule
<1>7. ladder \in Seq(Rule)
  BY <1>3, <1>5, <1>6
<1> QED BY <1>7 DEF Ladders

\* Its rungs are rules.
LEMMA RungType ==
  ASSUME NEW ladder \in Seq(Rule), NEW i \in DOMAIN ladder
  PROVE  /\ ladder[i] \in Rule
         /\ ladder[i].streak \in Nat /\ ladder[i].action \in PolicyActions
         /\ ActionSeverity(ladder[i].action) \in Nat
<1>1. ladder[i] \in Rule
  OBVIOUS
<1> QED BY <1>1, Severities DEF Rule

-----------------------------------------------------------------------------
(* The loop.                                                               *)

\* A set of naturals that has 0 and with each number the next has them all.
LEMMA AllNaturals ==
  ASSUME NEW S, 0 \in S, \A n \in Nat : n \in S => n + 1 \in S
  PROVE  \A n \in Nat : n \in S
<1> DEFINE T == Nat \ S
<1> SUFFICES ASSUME T # {} PROVE FALSE
  OBVIOUS
<1>1. IsWellFoundedOn(OpToRel(<, Nat), Nat)
  BY NatLessThanWellFounded
<1>2. T \subseteq Nat
  OBVIOUS
<1>3. PICK m \in T : \A n \in T : <<n, m>> \notin OpToRel(<, Nat)
  <2> HIDE DEF T
  <2> QED BY <1>1, <1>2, WFMin
<1>4. m \in Nat /\ m - 1 \in Nat /\ m - 1 \notin T
  <2>1. m \in Nat /\ m # 0
    OBVIOUS
  <2>2. m - 1 \in Nat /\ m - 1 < m
    BY <2>1
  <2>3. <<m - 1, m>> \in OpToRel(<, Nat)
    BY <2>1, <2>2 DEF OpToRel
  <2> QED BY <1>3, <2>1, <2>2, <2>3
<1>5. m - 1 + 1 \in S
  BY <1>4
<1> QED BY <1>4, <1>5

\* One turn of the loop: the rung is taken unless it is not reached, or not
\* stronger than the best so far.
Kept(best, rung, n) ==
  IF n < rung.streak THEN best
  ELSE IF \E old \in best :
            \/ ActionSeverity(rung.action) < ActionSeverity(old.action)
            \/ /\ ActionSeverity(rung.action) = ActionSeverity(old.action)
               /\ rung.streak <= old.streak
       THEN best
       ELSE {rung}

\* The best rung of each set of rungs, seen in the order of the ladder.
Loop(ladder, n) ==
  CHOOSE iter : iter = [s \in SUBSET DOMAIN ladder |->
                          IF s = {} THEN {}
                          ELSE Kept(iter[s \ {Max(s)}], ladder[Max(s)], n)]

\* The fold over the ladder is the last of them.
LEMMA LoopIsFold ==
  ASSUME NEW ladder, NEW n
  PROVE  LoopMatched(ladder, n) = Loop(ladder, n)[DOMAIN ladder]
BY DEF LoopMatched, FoldLeft, MapThenFoldSet, Loop, Kept

\* The last rung of a set of rungs, and what comes before it.
LEMMA LastRungOf ==
  ASSUME NEW m \in Nat, NEW s \in SUBSET (1..(m + 1)), s # {}
  PROVE  /\ Max(s) \in s /\ Max(s) \in 1..(m + 1)
         /\ s \ {Max(s)} \in SUBSET (1..m)
<1> DEFINE Has == {k \in Nat : \A t \in SUBSET (1..k) :
                     t # {} => \E x \in t : \A y \in t : x >= y}
<1>1. 0 \in Has
  <2>1. 1..0 = {}
    OBVIOUS
  <2> QED BY <2>1
<1>2. ASSUME NEW k \in Nat, k \in Has PROVE k + 1 \in Has
  <2> SUFFICES ASSUME NEW t \in SUBSET (1..(k + 1)), t # {}
               PROVE  \E x \in t : \A y \in t : x >= y
    OBVIOUS
  <2>1. CASE k + 1 \in t
    <3>1. \A y \in t : k + 1 >= y
      OBVIOUS
    <3> QED BY <2>1, <3>1
  <2>2. CASE k + 1 \notin t
    <3>1. t \in SUBSET (1..k)
      BY <2>2
    <3> QED BY <3>1, <1>2
  <2> QED BY <2>1, <2>2
<1>3. m + 1 \in Has
  <2> HIDE DEF Has
  <2> QED BY <1>1, <1>2, AllNaturals
<1>4. Max(s) \in s /\ \A y \in s : Max(s) >= y
  BY <1>3 DEF Max
<1>5. ASSUME NEW y \in s, y # Max(s) PROVE y \in 1..m
  <2>1. Max(s) \in 1..(m + 1) /\ y \in 1..(m + 1) /\ Max(s) >= y
    BY <1>4
  <2> QED BY <2>1, <1>5
<1> QED BY <1>4, <1>5

\* The recursion has a solution, prefix by prefix.
LEMMA LoopDefined ==
  ASSUME NEW ladder \in Seq(Rule), NEW n
  PROVE  \A s \in SUBSET DOMAIN ladder :
           /\ s = {} => Loop(ladder, n)[s] = {}
           /\ s # {} => Loop(ladder, n)[s] =
                          Kept(Loop(ladder, n)[s \ {Max(s)}], ladder[Max(s)], n)
<1> DEFINE Turn(g, s) == IF s = {} THEN {} ELSE Kept(g[s \ {Max(s)}], ladder[Max(s)], n)
           Solves(g, m) == g = [s \in SUBSET (1..m) |-> Turn(g, s)]
           Solved == {m \in Nat : \E g : Solves(g, m)}
<1>1. 0 \in Solved
  <2> DEFINE g == [s \in SUBSET (1..0) |-> {}]
  <2>1. \A s \in SUBSET (1..0) : s = {}
    OBVIOUS
  <2>2. Solves(g, 0)
    BY <2>1
  <2> QED BY <2>2
<1>2. ASSUME NEW m \in Nat, m \in Solved PROVE m + 1 \in Solved
  <2>1. PICK g : Solves(g, m)
    BY <1>2
  <2> DEFINE h == [s \in SUBSET (1..(m + 1)) |-> Turn(g, s)]
  <2>2. \A s \in SUBSET (1..m) : s \in SUBSET (1..(m + 1))
    OBVIOUS
  <2>3. \A s \in SUBSET (1..m) : h[s] = g[s]
    BY <2>1, <2>2
  <2>4. \A s \in SUBSET (1..(m + 1)) : Turn(g, s) = Turn(h, s)
    <3> SUFFICES ASSUME NEW s \in SUBSET (1..(m + 1)), s # {}
                 PROVE  g[s \ {Max(s)}] = h[s \ {Max(s)}]
      OBVIOUS
    <3> HIDE DEF h
    <3> QED BY <2>3, LastRungOf
  <2>5. Solves(h, m + 1)
    <3>1. h = [s \in SUBSET (1..(m + 1)) |-> Turn(g, s)]
      OBVIOUS
    <3> HIDE DEF h, Turn
    <3> QED BY <2>4, <3>1
  <2> HIDE DEF h, Solves
  <2> QED BY <2>5
<1>3. PICK len \in Nat : DOMAIN ladder = 1..len
  OBVIOUS
<1>4. len \in Solved
  <2> HIDE DEF Solved
  <2> QED BY <1>1, <1>2, AllNaturals
<1>5. PICK g : Solves(g, len)
  BY <1>4
<1>6. Solves(Loop(ladder, n), len)
  BY <1>3, <1>5 DEF Loop
<1> QED BY <1>3, <1>6

\* A best rung of the set R: none if R is empty, else one that no other in R
\* is stronger than.
BestOf(ladder, R, best) ==
  IF R = {} THEN best = {}
  ELSE \E i \in R : /\ best = {ladder[i]}
                    /\ \A j \in R : ~Stronger(ladder[j], ladder[i])

\* A turn of the loop leads from the best rung so far to the best with one
\* rung more.
LEMMA TurnKeepsBest ==
  ASSUME NEW ladder \in Seq(Rule), NEW n \in Nat, NEW m \in Nat,
         m + 1 \in DOMAIN ladder, NEW R, R \subseteq 1..m,
         NEW best, BestOf(ladder, R, best),
         NEW S, S = IF n >= ladder[m + 1].streak THEN R \cup {m + 1} ELSE R
  PROVE  BestOf(ladder, S, Kept(best, ladder[m + 1], n))
<1> DEFINE rung == ladder[m + 1]
           sev(i) == ActionSeverity(ladder[i].action)
           new == Kept(best, rung, n)
<1>1. ASSUME NEW i \in R \cup {m + 1}
      PROVE  sev(i) \in Nat /\ ladder[i].streak \in Nat
  <2>1. i \in DOMAIN ladder
    <3>1. Len(ladder) \in Nat /\ DOMAIN ladder = 1..Len(ladder)
      OBVIOUS
    <3>2. i \in 1..(m + 1) /\ m + 1 <= Len(ladder)
      BY <3>1
    <3> QED BY <3>1, <3>2
  <2> QED BY <2>1, RungType
<1>2. CASE n < rung.streak
  <2>1. S = R /\ new = best
    BY <1>1, <1>2 DEF Kept
  <2> QED BY <2>1
<1>3. CASE ~(n < rung.streak) /\ R = {}
  <2>1. S = {m + 1}
    BY <1>1, <1>3
  <2>2. best = {} /\ new = {ladder[m + 1]}
    BY <1>3 DEF Kept, BestOf
  <2>3. ~Stronger(ladder[m + 1], ladder[m + 1])
    BY <1>1 DEF Stronger
  <2> QED BY <2>1, <2>2, <2>3 DEF BestOf
<1>4. CASE ~(n < rung.streak) /\ R # {}
  <2>1. PICK i \in R : best = {ladder[i]} /\ \A j \in R : ~Stronger(ladder[j], ladder[i])
    BY <1>4 DEF BestOf
  <2>2. S = R \cup {m + 1}
    BY <1>1, <1>4
  <2>3. /\ sev(i) \in Nat /\ ladder[i].streak \in Nat
        /\ sev(m + 1) \in Nat /\ rung.streak \in Nat
    BY <1>1
  <2>4. Stronger(rung, ladder[i]) <=>
          ~(\/ sev(m + 1) < sev(i)
            \/ sev(m + 1) = sev(i) /\ rung.streak <= ladder[i].streak)
    BY <2>3 DEF Stronger
  <2>5. new = IF Stronger(rung, ladder[i]) THEN {rung} ELSE best
    BY <1>4, <2>1, <2>4 DEF Kept
  <2>6. CASE ~Stronger(rung, ladder[i])
    BY <2>1, <2>2, <2>5, <2>6 DEF BestOf
  <2>7. CASE Stronger(rung, ladder[i])
    <3>1. ASSUME NEW j \in S PROVE ~Stronger(ladder[j], rung)
      <4>1. j \in R \cup {m + 1} /\ (j = m + 1 \/ ~Stronger(ladder[j], ladder[i]))
        BY <2>1, <2>2
      <4>2. sev(j) \in Nat /\ ladder[j].streak \in Nat
        BY <1>1, <4>1
      <4>3. \/ sev(m + 1) > sev(i)
            \/ sev(m + 1) = sev(i) /\ rung.streak > ladder[i].streak
        BY <2>7 DEF Stronger
      <4>4. CASE j = m + 1
        BY <2>3, <4>4 DEF Stronger
      <4>5. CASE ~Stronger(ladder[j], ladder[i])
        <5>1. /\ ~(sev(j) > sev(i))
              /\ ~(sev(j) = sev(i) /\ ladder[j].streak > ladder[i].streak)
          BY <4>5 DEF Stronger
        <5>2. /\ ~(sev(j) > sev(m + 1))
              /\ ~(sev(j) = sev(m + 1) /\ ladder[j].streak > rung.streak)
          <6> HIDE DEF sev, rung
          <6> QED BY <2>3, <4>2, <4>3, <5>1
        <5> QED BY <5>2 DEF Stronger
      <4> QED BY <4>1, <4>4, <4>5
    <3>2. new = {ladder[m + 1]} /\ m + 1 \in S
      BY <2>2, <2>5, <2>7
    <3> QED BY <3>1, <3>2 DEF BestOf
  <2> QED BY <2>6, <2>7
<1> QED BY <1>2, <1>3, <1>4

\* The loop ends on a rung that the run has reached and no reached one is
\* stronger than.
LEMMA LoopEndsOnStrongest ==
  ASSUME NEW ladder \in Seq(Rule), NEW n \in Nat
  PROVE  BestOf(ladder, Reached(ladder, n), LoopMatched(ladder, n))
<1> DEFINE len == Len(ladder)
           Seen(m) == {i \in 1..m : n >= ladder[i].streak}
           Best(m) == BestOf(ladder, Seen(m), Loop(ladder, n)[1..m])
           Good == {m \in Nat : m <= len => Best(m)}
<1>1. len \in Nat /\ DOMAIN ladder = 1..len
  OBVIOUS
<1>2. ASSUME NEW s \in SUBSET (1..len)
      PROVE  /\ s = {} => Loop(ladder, n)[s] = {}
             /\ s # {} => Loop(ladder, n)[s] =
                            Kept(Loop(ladder, n)[s \ {Max(s)}], ladder[Max(s)], n)
  <2>1. s \in SUBSET DOMAIN ladder
    BY <1>1
  <2> QED BY <2>1, LoopDefined, Zenon
<1>3. 0 \in Good
  <2>1. 1..0 = {} /\ Seen(0) = {}
    OBVIOUS
  <2>2. Loop(ladder, n)[{}] = {}
    BY <1>2
  <2> QED BY <2>1, <2>2 DEF BestOf
<1>4. ASSUME NEW m \in Nat, m \in Good, m + 1 <= len PROVE Best(m + 1)
  <2>1. Best(m)
    BY <1>1, <1>4
  <2>2. Max(1..(m + 1)) = m + 1
    <3>1. m + 1 \in 1..(m + 1) /\ \A y \in 1..(m + 1) : m + 1 >= y
      OBVIOUS
    <3>2. \A x \in 1..(m + 1) : (\A y \in 1..(m + 1) : x >= y) => x = m + 1
      OBVIOUS
    <3> QED BY <3>1, <3>2 DEF Max
  <2>3. (1..(m + 1)) \ {m + 1} = 1..m /\ 1..(m + 1) # {}
    <3>1. ASSUME NEW x PROVE x \in (1..(m + 1)) \ {m + 1} <=> x \in 1..m
      OBVIOUS
    <3>2. m + 1 \in 1..(m + 1)
      OBVIOUS
    <3> QED BY <3>1, <3>2
  <2>4. 1..(m + 1) \in SUBSET (1..len) /\ m + 1 \in DOMAIN ladder
    BY <1>1, <1>4
  <2>5. Loop(ladder, n)[1..(m + 1)] = Kept(Loop(ladder, n)[1..m], ladder[m + 1], n)
    <3> DEFINE s == 1..(m + 1)
    <3>1. Loop(ladder, n)[s] = Kept(Loop(ladder, n)[s \ {Max(s)}], ladder[Max(s)], n)
      BY <1>2, <2>3, <2>4
    <3> QED BY <3>1, <2>2, <2>3
  <2>6. PICK best : best = Loop(ladder, n)[1..m]
    OBVIOUS
  <2>7. Seen(m) \subseteq 1..m
    OBVIOUS
  <2>8. Seen(m + 1) = IF n >= ladder[m + 1].streak THEN Seen(m) \cup {m + 1} ELSE Seen(m)
    <3>1. ASSUME NEW x PROVE x \in 1..(m + 1) <=> x \in 1..m \/ x = m + 1
      OBVIOUS
    <3> QED BY <3>1
  <2>9. BestOf(ladder, Seen(m + 1), Kept(best, ladder[m + 1], n))
    <3> HIDE DEF Seen
    <3>1. BestOf(ladder, Seen(m), best)
      BY <2>1, <2>6
    <3> QED BY <2>4, <2>7, <2>8, <3>1, TurnKeepsBest
  <2> HIDE DEF Seen
  <2> QED BY <2>5, <2>6, <2>9
<1>5. Best(len)
  <2>1. ASSUME NEW m \in Nat, m \in Good PROVE m + 1 \in Good
    <3> HIDE DEF Best
    <3>1. m + 1 \in Nat
      OBVIOUS
    <3> QED BY <1>4, <2>1, <3>1
  <2>2. len \in Good
    <3> HIDE DEF Good
    <3> QED BY <1>1, <1>3, <2>1, AllNaturals
  <2> HIDE DEF Best
  <2> QED BY <1>1, <2>2
<1>6. Seen(len) = Reached(ladder, n)
  BY <1>1 DEF Reached
<1>7. LoopMatched(ladder, n) = Loop(ladder, n)[1..len]
  BY <1>1, LoopIsFold
<1> QED
  <2> HIDE DEF Seen
  <2> QED BY <1>5, <1>6, <1>7

\* The rule that decidePolicy acts on is one that the run has reached, and no
\* reached rule is stronger: inverting a ladder never demotes an account.
THEOREM MatchedRuleStrongest ==
  ASSUME NEW ladder \in Seq(Rule), NEW n \in Nat, Reached(ladder, n) # {}
  PROVE  \E i \in Reached(ladder, n) :
           /\ MatchedRule(ladder, n) = ladder[i]
           /\ \A j \in Reached(ladder, n) : ~Stronger(ladder[j], ladder[i])
BY LoopEndsOnStrongest DEF MatchedRule, BestOf

\* Without a tie no other rung will do.
LEMMA LoopFindsMatched ==
  ASSUME NEW ladder \in Ladders, NEW n \in Nat, Reached(ladder, n) # {}
  PROVE  LoopMatched(ladder, n) = {MatchedRule(ladder, n)}
<1>1. ladder \in Seq(Rule) /\ Untied(ladder)
  BY LaddersAre
<1>2. PICK i \in Reached(ladder, n) :
        /\ LoopMatched(ladder, n) = {ladder[i]}
        /\ \A j \in Reached(ladder, n) : ~Stronger(ladder[j], ladder[i])
  BY <1>1, LoopEndsOnStrongest DEF BestOf
<1>3. PICK c \in Reached(ladder, n) :
        /\ MatchedRule(ladder, n) = ladder[c]
        /\ \A j \in Reached(ladder, n) : ~Stronger(ladder[j], ladder[c])
  BY <1>1, MatchedRuleStrongest
<1>4. /\ i \in DOMAIN ladder /\ c \in DOMAIN ladder
      /\ ladder[i].streak \in Nat /\ ladder[c].streak \in Nat
  <2>1. i \in DOMAIN ladder /\ c \in DOMAIN ladder
    BY DEF Reached
  <2> QED BY <1>1, <2>1, RungType
<1>5. /\ ActionSeverity(ladder[i].action) \in Nat
      /\ ActionSeverity(ladder[c].action) \in Nat
  BY Severities
<1>6. ~Stronger(ladder[c], ladder[i]) /\ ~Stronger(ladder[i], ladder[c])
  BY <1>2, <1>3
<1>7. i = c
  BY <1>1, <1>4, <1>5, <1>6 DEF Stronger, Untied
<1> QED BY <1>2, <1>3, <1>7

-----------------------------------------------------------------------------
(* The outcomes.                                                           *)

\* A card without a trash switch never trashes, and neither does a card that
\* vetoes it or an account whose plan is protected, whatever its ladder says;
\* what is trashed is parked and cooled down meanwhile.
THEOREM TrashVetoed ==
  ASSUME NEW switches \in Switches, NEW card, NEW n, NEW plan,
         DecidePolicy(switches, card, n, plan).trash
  PROVE  LET out == DecidePolicy(switches, card, n, plan)
         IN  /\ switches.delete /\ ~card.never /\ ~ProtectFromAutoTrash(plan)
             /\ out.candidate /\ out.cooldown
<1>1. ASSUME NEW sec
      PROVE  ~Cooling(switches, sec).trash /\ ~Parking(switches, sec).trash
  BY DEF Cooling, Parking, NoOutcome
<1>2. ~NoOutcome.trash
  BY DEF NoOutcome
<1>3. ASSUME NEW rule, ApplyActionTier(switches, rule, card.never, plan).trash
      PROVE  /\ ApplyActionTier(switches, rule, card.never, plan) =
                  TrashOutcome(switches, rule, card.never, plan)
             /\ TrashOutcome(switches, rule, card.never, plan).trash
  BY <1>1, <1>3 DEF ApplyActionTier, NoOutcome
<1>4. ASSUME NEW rule, TrashOutcome(switches, rule, card.never, plan).trash
      PROVE  /\ switches.delete /\ ~card.never /\ ~ProtectFromAutoTrash(plan)
             /\ TrashOutcome(switches, rule, card.never, plan).candidate
             /\ TrashOutcome(switches, rule, card.never, plan).cooldown
  BY <1>1, <1>4 DEF TrashOutcome, TrashUnvetoed, Parking, Cooling, NoOutcome
<1> QED
  BY <1>2, <1>3, <1>4 DEF DecidePolicy

\* How far a rung goes, where the sentry is on and the card vetoes nothing.
RungRank(switches, act, plan) ==
  CASE act = "disable"   -> 50
    [] act = "trash"     -> IF switches.delete /\ ~ProtectFromAutoTrash(plan) THEN 40
                            ELSE IF switches.candidate THEN 20
                            ELSE IF switches.cooldown THEN 10 ELSE 0
    [] act = "candidate" -> IF switches.candidate THEN 20
                            ELSE IF switches.cooldown THEN 10 ELSE 0
    [] act = "cooldown"  -> IF switches.cooldown THEN 10 ELSE 0
    [] OTHER             -> 0

LEMMA RankOfRung ==
  ASSUME NEW switches \in Switches, switches.sentry, NEW rule \in Rule, NEW plan
  PROVE  ActionRank(ApplyActionTier(switches, rule, FALSE, plan)) =
           RungRank(switches, rule.action, plan)
<1>1. rule.action \in PolicyActions
  BY DEF Rule
<1>2. CASE rule.action = "disable"
  BY <1>2 DEF ApplyActionTier, RungRank, ActionRank, NoOutcome
<1>3. CASE rule.action = "trash"
  BY <1>3 DEF ApplyActionTier, TrashOutcome, TrashUnvetoed, Parking, Cooling,
     RungRank, ActionRank, NoOutcome, Switches
<1>4. CASE rule.action = "candidate"
  BY <1>4 DEF ApplyActionTier, Parking, Cooling, RungRank, ActionRank, NoOutcome, Switches
<1>5. CASE rule.action = "cooldown"
  BY <1>5 DEF ApplyActionTier, Cooling, RungRank, ActionRank, NoOutcome, Switches
<1>6. CASE rule.action = "observe"
  BY <1>6 DEF ApplyActionTier, RungRank, ActionRank, NoOutcome
<1> QED BY <1>1, <1>2, <1>3, <1>4, <1>5, <1>6 DEF PolicyActions

\* A severer rung goes at least as far.
LEMMA SevererGoesFurther ==
  ASSUME NEW switches \in Switches, NEW plan,
         NEW a \in PolicyActions, NEW b \in PolicyActions,
         ActionSeverity(a) <= ActionSeverity(b)
  PROVE  /\ RungRank(switches, a, plan) <= RungRank(switches, b, plan)
         /\ RungRank(switches, a, plan) \in Nat /\ RungRank(switches, b, plan) \in Nat
BY DEF RungRank, ActionSeverity, PolicyActions

\* A longer run does at least as much.
LEMMA LongerRunGoesFurther ==
  ASSUME NEW switches \in Switches, switches.sentry, NEW card, card.enabled,
         card.never = FALSE, card.ladder \in Seq(Rule), NEW plan,
         NEW n \in Nat, NEW k \in Nat, n <= k
  PROVE  ActionRank(DecidePolicy(switches, card, k, plan)) >=
         ActionRank(DecidePolicy(switches, card, n, plan))
<1> DEFINE ladder == card.ladder
<1>1. ASSUME NEW m \in Nat, Reached(ladder, m) # {}
      PROVE  /\ MatchedRule(ladder, m) \in Rule
             /\ ActionRank(DecidePolicy(switches, card, m, plan)) =
                  RungRank(switches, MatchedRule(ladder, m).action, plan)
             /\ RungRank(switches, MatchedRule(ladder, m).action, plan) \in Nat
  <2>1. MatchedRule(ladder, m) \in Rule
    <3>1. PICK i \in Reached(ladder, m) : MatchedRule(ladder, m) = ladder[i]
      BY <1>1, MatchedRuleStrongest
    <3>2. i \in DOMAIN ladder
      BY DEF Reached
    <3> QED BY <3>1, <3>2, RungType
  <2>2. MatchedRule(ladder, m).action \in PolicyActions
    BY <2>1 DEF Rule
  <2>3. DecidePolicy(switches, card, m, plan) =
          ApplyActionTier(switches, MatchedRule(ladder, m), FALSE, plan)
    BY <1>1 DEF DecidePolicy
  <2>4. RungRank(switches, MatchedRule(ladder, m).action, plan) \in Nat
    BY <2>2 DEF RungRank
  <2> QED BY <2>1, <2>3, <2>4, RankOfRung
<1>2. ASSUME NEW m \in Nat, Reached(ladder, m) = {}
      PROVE  ActionRank(DecidePolicy(switches, card, m, plan)) = 0
  BY <1>2 DEF DecidePolicy, NoOutcome, ActionRank
<1>3. \A i \in DOMAIN ladder : ladder[i].streak \in Nat
  BY RungType
<1>4. Reached(ladder, n) \subseteq Reached(ladder, k)
  BY <1>3 DEF Reached
<1>5. CASE Reached(ladder, n) = {}
  <2>1. ActionRank(DecidePolicy(switches, card, n, plan)) = 0
    BY <1>2, <1>5
  <2>2. ActionRank(DecidePolicy(switches, card, k, plan)) \in Nat
    BY <1>1, <1>2
  <2> QED BY <2>1, <2>2
<1>6. CASE Reached(ladder, n) # {}
  <2>1. PICK i \in Reached(ladder, n) : MatchedRule(ladder, n) = ladder[i]
    BY <1>6, MatchedRuleStrongest
  <2>2. ~Stronger(MatchedRule(ladder, n), MatchedRule(ladder, k))
    BY <1>4, <2>1, MatchedRuleStrongest
  <2>3. ActionSeverity(MatchedRule(ladder, n).action) <=
        ActionSeverity(MatchedRule(ladder, k).action)
    BY <2>2, Severities DEF Stronger
  <2>4. /\ MatchedRule(ladder, n).action \in PolicyActions
        /\ MatchedRule(ladder, k).action \in PolicyActions
    BY <1>1, <1>4, <1>6 DEF Rule
  <2>5. RungRank(switches, MatchedRule(ladder, n).action, plan) <=
        RungRank(switches, MatchedRule(ladder, k).action, plan)
    BY <2>3, <2>4, SevererGoesFurther
  <2> QED BY <1>1, <1>4, <1>6, <2>5
<1> QED BY <1>5, <1>6

-----------------------------------------------------------------------------
(* The theorems.                                                           *)

LEMMA Invariant == Spec => []IInv
<1>1. Init => IInv
  <2> SUFFICES ASSUME Init PROVE IInv
    OBVIOUS
  <2>1. sw \in Switches /\ sw.sentry
    BY DEF Init
  <2>2. /\ policy.enabled \in {TRUE} /\ policy.never \in BOOLEAN
        /\ policy.ladder \in Ladders
    BY DEF Init
  <2>3. policy.enabled
    BY <2>2
  <2> QED BY <2>1, <2>2, <2>3 DEF Init, IInv
<1>2. IInv /\ [Next]_vars => IInv'
  BY DEF IInv, Next, FailAgain, vars
<1> QED BY <1>1, <1>2, PTL DEF Spec

\* The rung that the loop of decidePolicy ends on is the strongest one that
\* the run has reached, however the ladder orders its actions.
THEOREM LoopIsRight == Spec => []LoopFindsStrongest
<1>1. IInv => LoopFindsStrongest
  <2> SUFFICES ASSUME IInv PROVE LoopFindsStrongest
    OBVIOUS
  <2>1. policy.ladder \in Ladders /\ streak \in Nat
    BY DEF IInv
  <2>2. policy.ladder \in Seq(Rule)
    BY <2>1, LaddersAre
  <2>3. CASE Reached(policy.ladder, streak) = {}
    BY <2>1, <2>2, <2>3, LoopEndsOnStrongest DEF LoopFindsStrongest, BestOf
  <2>4. CASE Reached(policy.ladder, streak) # {}
    BY <2>1, <2>4, LoopFindsMatched DEF LoopFindsStrongest
  <2> QED BY <2>3, <2>4
<1> QED BY <1>1, Invariant, PTL

\* One more failure in a row never makes the sentry do less, unless the card
\* vetoes the trash.
THEOREM NeverWeakens == Spec => EscalationNeverWeakens
<1>1. IInv /\ [Next]_vars =>
        [~policy.never =>
           ActionRank(DecidePolicy(sw, policy, streak', tier)) >=
           ActionRank(DecidePolicy(sw, policy, streak, tier))]_vars
  <2> SUFFICES ASSUME IInv, Next, ~policy.never
               PROVE  ActionRank(DecidePolicy(sw, policy, streak', tier)) >=
                      ActionRank(DecidePolicy(sw, policy, streak, tier))
    OBVIOUS
  <2>1. streak \in Nat /\ streak' \in Nat /\ streak <= streak'
    BY DEF IInv, Next, FailAgain
  <2>2. /\ sw \in Switches /\ sw.sentry /\ policy.enabled
        /\ policy.never = FALSE /\ policy.ladder \in Seq(Rule)
    BY LaddersAre DEF IInv
  <2> QED BY <2>1, <2>2, LongerRunGoesFurther
<1> QED BY <1>1, Invariant, PTL DEF Spec, EscalationNeverWeakens

\* No card with a veto and no account with a protected plan is trashed, and
\* what is trashed is parked and cooled down meanwhile.
THEOREM Vetoes == Spec => []VetoHolds
<1>1. IInv => VetoHolds
  BY TrashVetoed DEF IInv, VetoHolds, ProtectFromAutoTrash
<1> QED BY <1>1, Invariant, PTL
=============================================================================
