---------------------------- MODULE MCGuardLive ----------------------------
(***************************************************************************)
(* Guard in the long run: from any muddle that failures, clicks, faults    *)
(* and outside changes can make, the loop comes to rest.                   *)
(*                                                                         *)
(* One account meets everything; two accounts share the limit of one       *)
(* recovery a tick and the fuse of the listings, with nobody at the panel. *)
(***************************************************************************)
EXTENDS Guard, TLC

MCKeys == {"auth_401", "permission_403"}
MCPlan == [a \in Auth |-> "free"]
MCSw == [sentry |-> TRUE, cooldown |-> TRUE, candidate |-> TRUE, delete |-> FALSE]

Rung(n, act) == [streak |-> n, action |-> act, sec |-> 0]
Card(ladder) == [enabled |-> TRUE, never |-> FALSE, sec |-> 0, ladder |-> ladder]
MCCards ==
  [k \in MCKeys \cup {"any_error"} |->
     CASE k = "auth_401"       -> Card(<<Rung(1, "candidate")>>)
       [] k = "permission_403" -> Card(<<Rung(1, "cooldown")>>)
       [] OTHER                -> Card(<<Rung(1, "observe")>>)]

Fail(key) ==
  [signal |-> key, raw |-> key, key |-> key, coded |-> TRUE, reset |-> Unset]
MCErrors == {Fail("auth_401"), Fail("permission_403")}
MCHints == {Unset, 1}
PairErrors == {Fail("permission_403")}
PairHints == {Unset}

PairNext ==
  \/ (TickStep /\ ~manual') \/ Elapse \/ Quieten
  \/ \E a \in Auth, e \in Errors : HandleFailure(a, e)
PairSpec == Init /\ [][PairNext]_vars /\ Fairness
=============================================================================
