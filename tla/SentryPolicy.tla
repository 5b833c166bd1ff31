---------------------------- MODULE SentryPolicy ----------------------------
(***************************************************************************)
(* internal/policy: what one more failure of a class makes the guard do.   *)
(*                                                                         *)
(* A class has a policy card: a switch, a never_trash veto and a ladder of *)
(* tiers <<streak, action, cooldown seconds>>.  The outcome is a set of    *)
(* flags, because a trash or a candidate also cools the account down.      *)
(***************************************************************************)
EXTENDS Integers, Sequences

PolicyActions == {"observe", "cooldown", "candidate", "trash", "disable"}
Tiers == {"free", "super", "heavy", "unknown"}
BuiltinKeys ==
  {"free_usage_429", "spending_limit_402", "permission_403", "auth_401"}

Switches ==
  [sentry : BOOLEAN, cooldown : BOOLEAN, candidate : BOOLEAN, delete : BOOLEAN]

Rule == [streak : Nat \ {0}, action : PolicyActions, sec : Nat]
Policy == [enabled : BOOLEAN, never : BOOLEAN, sec : Nat, ladder : Seq(Rule)]

\* CooldownSec of the matched rule, 0 for the defaults of the class.
Outcome == [disable : BOOLEAN, trash : BOOLEAN, candidate : BOOLEAN,
            cooldown : BOOLEAN, sec : Nat]
NoOutcome == [disable |-> FALSE, trash |-> FALSE, candidate |-> FALSE,
              cooldown |-> FALSE, sec |-> 0]

\* A card without rungs acts by its legacy threshold; blanks are filled in.
\* The sort of the code is left out: MatchedRule does not look at the order.
Filled(rung) ==
  [rung EXCEPT !.streak = IF @ = 0 THEN 1 ELSE @,
               !.action = IF @ = "" THEN "observe" ELSE @]

NormalizedEscalations(rungs, legacy) ==
  IF rungs = <<>> THEN <<Filled(legacy)>>
                  ELSE [i \in DOMAIN rungs |-> Filled(rungs[i])]

ActionSeverity(act) ==
  CASE act = "disable"   -> 50
    [] act = "trash"     -> 40
    [] act = "candidate" -> 30
    [] act = "cooldown"  -> 20
    [] act = "observe"   -> 10
    [] OTHER             -> 0

\* The rank that lets any_error override the policy of the class.
ActionRank(out) ==
  IF out.disable THEN 50
  ELSE IF out.trash THEN 40
  ELSE IF out.candidate THEN 20
  ELSE IF out.cooldown THEN 10
  ELSE 0

\* Mutants, here and below: the plan of the account is not looked at; the
\* highest rung reached wins whatever it does.
NoTierIsProtected(tier) == FALSE
LastRung(r1, r2) == r1.streak > r2.streak

\* Super and Heavy always, and Unknown for caution.
ProtectFromAutoTrash(tier) == tier # "free"

Stronger(r1, r2) ==
  \/ ActionSeverity(r1.action) > ActionSeverity(r2.action)
  \/ /\ ActionSeverity(r1.action) = ActionSeverity(r2.action)
     /\ r1.streak > r2.streak

Reached(ladder, streak) == {i \in DOMAIN ladder : streak >= ladder[i].streak}

\* The most severe rule among those the streak has reached, so that an
\* inverted ladder never demotes.
MatchedRule(ladder, streak) ==
  ladder[CHOOSE i \in Reached(ladder, streak) :
           \A j \in Reached(ladder, streak) : ~Stronger(ladder[j], ladder[i])]

\* A closing action that a switch or a veto forbids falls back to the
\* strongest one still allowed.
Cooling(sw, sec) == [NoOutcome EXCEPT !.cooldown = sw.cooldown, !.sec = sec]
Parking(sw, sec) ==
  IF sw.candidate
  THEN [NoOutcome EXCEPT !.candidate = TRUE, !.cooldown = TRUE, !.sec = sec]
  ELSE Cooling(sw, sec)

\* The veto of the card is left to this operator's caller.
TrashUnvetoed(sw, rule, never, tier) ==
  IF sw.delete /\ ~ProtectFromAutoTrash(tier)
  THEN [Parking(sw, rule.sec) EXCEPT
          !.trash = TRUE, !.candidate = TRUE, !.cooldown = TRUE]
  ELSE Parking(sw, rule.sec)

TrashOutcome(sw, rule, never, tier) ==
  IF never THEN Cooling(sw, rule.sec)
           ELSE TrashUnvetoed(sw, rule, never, tier)

ApplyActionTier(sw, rule, never, tier) ==
  CASE rule.action = "cooldown"  -> Cooling(sw, rule.sec)
    [] rule.action = "candidate" -> Parking(sw, rule.sec)
    [] rule.action = "disable"   ->
         [NoOutcome EXCEPT !.disable = sw.sentry, !.sec = rule.sec]
    [] rule.action = "trash"     -> TrashOutcome(sw, rule, never, tier)
    [] OTHER                     -> [NoOutcome EXCEPT !.sec = rule.sec]

DecidePolicy(sw, policy, streak, tier) ==
  IF policy.enabled /\ Reached(policy.ladder, streak) # {}
  THEN ApplyActionTier(sw, MatchedRule(policy.ladder, streak), policy.never, tier)
  ELSE NoOutcome
=============================================================================
