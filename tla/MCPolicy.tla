------------------------------ MODULE MCPolicy ------------------------------
(***************************************************************************)
(* Checks SentryPolicy on every small card: one account fails again and    *)
(* again under one policy, and each failure asks DecidePolicy.             *)
(***************************************************************************)
EXTENDS SentryPolicy, SequencesExt

CONSTANTS
  StreakBound,  \* failures counted, and the highest rung
  RungBound     \* rungs on a ladder

ASSUME BoundAssumption == {StreakBound, RungBound} \subseteq Nat

VARIABLES sw, policy, tier, streak
vars == <<sw, policy, tier, streak>>

\* Rung i cools for i seconds, so that the outcome names its rung.  The
\* streak 0 and the blank action of an old card are among the inputs.
RawRungs(i) ==
  [streak : 0..StreakBound, action : PolicyActions \cup {""}, sec : {i}]

RawLadders ==
  UNION {{l \in [1..n -> UNION {RawRungs(i) : i \in 1..n}] :
            \A i \in 1..n : /\ l[i].sec = i
                            /\ i < n => l[i].streak <= l[i+1].streak} :
         n \in 1..RungBound}

\* Two rungs of one streak and one severity tie, and the sort of the code
\* does not say which one comes first.
Untied(ladder) ==
  \A i, j \in DOMAIN ladder :
    i # j => \/ ladder[i].streak # ladder[j].streak
             \/ ActionSeverity(ladder[i].action) # ActionSeverity(ladder[j].action)

Ladders ==
  {l \in {NormalizedEscalations(raw, raw[1]) : raw \in RawLadders} : Untied(l)}

Init ==
  /\ sw \in {s \in Switches : s.sentry}
  /\ policy \in [enabled : {TRUE}, never : BOOLEAN, sec : {0}, ladder : Ladders]
  /\ tier \in {"free", "super"}
  /\ streak = 0

FailAgain ==
  /\ streak < StreakBound + 1
  /\ streak' = streak + 1
  /\ UNCHANGED <<sw, policy, tier>>

Next == FailAgain
Spec == Init /\ [][Next]_vars

-----------------------------------------------------------------------------
\* The loop of decidePolicy over the sorted ladder, rung by rung.
LoopMatched(ladder, n) ==
  FoldLeft(LAMBDA best, rung :
             IF n < rung.streak THEN best
             ELSE IF \E old \in best :
                       \/ ActionSeverity(rung.action) < ActionSeverity(old.action)
                       \/ /\ ActionSeverity(rung.action) = ActionSeverity(old.action)
                          /\ rung.streak <= old.streak
                  THEN best
                  ELSE {rung},
           {}, ladder)

\* The rung that decidePolicy's loop ends on is the strongest one reached,
\* whatever the order in which the ladder lists its actions.
LoopFindsStrongest ==
  LET found == LoopMatched(policy.ladder, streak)
  IN IF Reached(policy.ladder, streak) = {}
     THEN found = {}
     ELSE found = {MatchedRule(policy.ladder, streak)}

\* One more consecutive failure never makes the sentry do less, unless the
\* card vetoes the trash: a vetoed trash falls below a candidate.
EscalationNeverWeakens ==
  [][~policy.never =>
       ActionRank(DecidePolicy(sw, policy, streak', tier)) >=
       ActionRank(DecidePolicy(sw, policy, streak, tier))]_vars

\* No ladder, switch or streak trashes an account whose card or whose plan
\* forbids it, and what is trashed is also parked and cooled meanwhile.
VetoHolds ==
  LET out == DecidePolicy(sw, policy, streak, tier)
  IN out.trash => /\ ~policy.never
                  /\ tier = "free"
                  /\ sw.delete
                  /\ out.candidate /\ out.cooldown
=============================================================================
