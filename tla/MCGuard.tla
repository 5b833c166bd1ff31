------------------------------ MODULE MCGuard ------------------------------
(***************************************************************************)
(* The values of Guard's constants on small instances.                     *)
(***************************************************************************)
EXTENDS GuardHistory, TLC

MCKeys == {"auth_401", "free_usage_429"}
QuotaKeys == MCKeys \cup {"spending_limit_402"}
MCPlan == [a \in Auth |-> "free"]
MCSw == [sentry |-> TRUE, cooldown |-> TRUE, candidate |-> TRUE, delete |-> FALSE]
ObserveSw == [MCSw EXCEPT !.cooldown = FALSE, !.candidate = FALSE]

Rung(n, act) == [streak |-> n, action |-> act, sec |-> 0]
Card(enabled, ladder) ==
  [enabled |-> enabled, never |-> FALSE, sec |-> 0, ladder |-> ladder]

MCCards ==
  [k \in MCKeys \cup {"any_error"} |->
     CASE k = "auth_401"       -> Card(TRUE, <<Rung(1, "candidate"), Rung(2, "disable")>>)
       [] k = "free_usage_429" -> Card(TRUE, <<Rung(1, "cooldown")>>)
       [] OTHER                -> Card(TRUE, <<Rung(2, "candidate")>>)]
QuotaCards ==
  [k \in {"free_usage_429", "spending_limit_402", "any_error"} |->
     Card(k # "any_error", <<Rung(1, "cooldown")>>)]

Fail(key, reset) ==
  [signal |-> key, raw |-> key, key |-> key, coded |-> TRUE, reset |-> reset]
MCErrors == {Fail("auth_401", Unset), Fail("free_usage_429", 1), Fail("free_usage_429", 2)}
FreeErrors == {Fail("free_usage_429", 1)}
MCHints == {Unset}
ResetHints == {Unset, 1}
=============================================================================
