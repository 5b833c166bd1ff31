---------------------------- MODULE GuardHistory ----------------------------
(***************************************************************************)
(* Guard with two history variables that its properties need: what the     *)
(* traffic really did to an account, and which files the tick in progress  *)
(* has opened.  They watch the steps of Guard and restrict none.           *)
(***************************************************************************)
EXTENDS Guard

VARIABLES
  run,     \* the unbroken run of failures: its length, its class, how often
  opened   \* files that the tick in progress has opened

NoRun == [key |-> "", n |-> 0, all |-> 0]
More(n) == IF n = MaxStreak THEN n ELSE n + 1

HInit == Init /\ run = [a \in Auth |-> NoRun] /\ opened = {}

HFailure(a, e) ==
  /\ HandleFailure(a, e)
  /\ run' = [run EXCEPT ![a] =
       [key |-> e.key, all |-> More(@.all),
        n |-> IF @.key = e.key THEN More(@.n) ELSE 1]]
  /\ opened' = {}

HSuccess(a, reset) ==
  /\ UsageSuccess(a, reset) \/ PatrolSuccess(a, reset)
  /\ run' = [run EXCEPT ![a] = NoRun]
  /\ opened' = {}

HTick ==
  /\ TickStep
  /\ opened' = IF phase' = "free" THEN {}
               ELSE opened \cup {a \in Auth : Visits(a) /\ Opens(a)}
  /\ UNCHANGED run

HRest ==
  /\ \/ PanelStep
     \/ \E a \in Auth : ExternalFlip(a)
     \/ Elapse
  /\ UNCHANGED <<run, opened>>

\* Quieten is left to the liveness run, and so are the marks of the replay:
\* all that a mark does is to suppress a heal, and so does a stale listing.
HNext ==
  \/ \E a \in Auth, e \in Errors : HFailure(a, e)
  \/ \E a \in Auth, reset \in Hints : HSuccess(a, reset)
  \/ HTick \/ HRest

HSpec == HInit /\ [][HNext]_<<vars, run, opened>>

\* All of Guard's steps, for the proofs.
HOther ==
  /\ \/ \E auths \in SUBSET Auth : MarkPendingBackfillAuths(auths)
     \/ ClearPendingBackfillAuths \/ Quieten
  /\ UNCHANGED <<run, opened>>
WholeNext == HNext \/ HOther
WholeSpec == HInit /\ [][WholeNext]_<<vars, run, opened>>

-----------------------------------------------------------------------------
\* A streak never counts more failures than came in a row: the ladder of a
\* class climbs on consecutive failures of that class only, and any_error's
\* on failures since the last success.
ConsecutiveFor(keys) ==
  \A a \in Auth :
    /\ \A k \in keys \ TotalKeys :
         acct[a].streak[k] <= IF run[a].key = k THEN run[a].n ELSE 0
    /\ "any_error" \notin TotalKeys => acct[a].streak["any_error"] <= run[a].all

\* The classes whose ladder ends in a candidate or a lock.
LadderRunConsecutive == ConsecutiveFor(Keys \ {"free_usage_429", "spending_limit_402"})

\* One tick does not close a file that it has itself opened: recovery and
\* reassertion do not fight over an account.
NoSameTickFight ==
  [][\A a \in Auth : Visits(a) /\ Closes(a) => a \notin opened]_<<vars, run, opened>>

\* tick does not close the file of an account that is serving.
TickNeverClosesServing ==
  [][\A a \in Auth : Visits(a) /\ Closes(a) => acct[a].state # "active"]_<<vars, run, opened>>
=============================================================================
