------------------------------- MODULE Guard -------------------------------
(***************************************************************************)
(* internal/guard: the closed loop between the sentry's account table and  *)
(* the auth files of CPA, the proxy that serves traffic with them.         *)
(*                                                                         *)
(*   HandleUsage    one request result: policy, cool-down, candidate, lock *)
(*   tick           recover what is due, re-close what is owned, open what *)
(*                  nobody owns, expire and scrub, one step per file       *)
(*   Manual*        the panel's lock, unlock and suggested cool-down       *)
(*                                                                         *)
(* HandleUsage, the panel's operations and tick exclude each other with    *)
(* Guard.mu.  The CPA is outside: its files change under the sentry's feet *)
(* and its answers may fail, come late or be stale, until calm says that   *)
(* nothing more goes wrong.  One row per auth file; automatic trash off.   *)
(***************************************************************************)
EXTENDS AccountStore, SentryPolicy

CONSTANTS
  Auth,               \* auth_index of each account, which names its file too
  Plan,               \* its plan, one of Tiers
  Sw,                 \* the global switches
  Cards,              \* policy card of each key that has one
  TotalKeys,          \* keys whose card counts in total mode
  Errors,             \* failures the traffic may bring
  Hints,              \* reset times a success body may name, Unset for none
  ReopenForeign,      \* cfg.ReopenForeignDisabled
  Relogin,            \* TryRelogin is installed
  MaxReset, Day,      \* cfg.MaxResetSeconds; 24 hours
  PermissionCooldown, Auth401Cooldown, ReloginCap,
  Dedupe,             \* usageFailDedupeWindow
  Settle,             \* reassertSettleAfterCool and healSettleAfterOpen
  Grace,              \* protection after a close
  HealCooldown,       \* healActiveFileCooldown
  PendingTTL,         \* pendingObserveIdleTTL
  HealStuckAfter, VerifyFuse, MaxRecoverPerTick

Signals == {"free_usage_429", "spending_limit_402", "permission_403",
            "auth_401", "none"}

\* A failure as the classifiers leave it: the signal of match.Classify, the
\* catalog key before and after the routing of split shapes, whether it has
\* an HTTP error status, and the reset time it names.
Failure == [signal : Signals, raw : STRING, key : Keys, coded : BOOLEAN,
            reset : Nat \cup {Unset}]

ASSUME AuthAssumption == IsFiniteSet(Auth) /\ Auth # {}
ASSUME PolicyAssumption ==
  /\ Plan \in [Auth -> Tiers]
  /\ Sw \in Switches /\ Sw.sentry /\ ~Sw.delete
  /\ "any_error" \in DOMAIN Cards /\ DOMAIN Cards \subseteq Counters
  /\ \A k \in DOMAIN Cards : Cards[k] \in Policy
  /\ TotalKeys \subseteq Counters
ASSUME TrafficAssumption == Errors \subseteq Failure /\ Hints \subseteq Timer
ASSUME ConfigAssumption ==
  /\ ReopenForeign \in BOOLEAN /\ Relogin \in BOOLEAN
  /\ {MaxReset, Day, PermissionCooldown, Auth401Cooldown, ReloginCap} \subseteq Nat
  /\ {Dedupe, Settle, Grace, HealCooldown, PendingTTL} \subseteq 0..AgeCap
  /\ HealStuckAfter \in 1..MaxStreak
  /\ VerifyFuse \in Nat \ {0, 1} /\ MaxRecoverPerTick \in Nat \ {0}

VARIABLES
  acct,       \* the account table
  off,        \* CPA's files: disabled or not
  fuse,       \* listVerifyFailStreak, saturating at VerifyFuse
  phase,      \* what tick is doing; "free" when nobody holds the mutex
  todo,       \* files the loop of this phase has still to visit
  manual,     \* this tick is the panel's TickManual
  recovered,  \* accounts this tick has recovered
  backfill,   \* pendingBackfillAuths
  calm        \* no more failures, faults, outside changes or panel clicks

vars == <<acct, off, fuse, phase, todo, manual, recovered, backfill, calm>>
tickVars == <<phase, todo, manual, recovered>>

Phases == {"free", "recover", "sync", "heal"}

TypeOK ==
  /\ acct \in [Auth -> Account]
  /\ off \in [Auth -> BOOLEAN]
  /\ fuse \in 0..VerifyFuse
  /\ phase \in Phases
  /\ todo \in SUBSET Auth
  /\ manual \in BOOLEAN
  /\ recovered \in 0..MaxRecoverPerTick
  /\ backfill \in SUBSET Auth
  /\ calm \in BOOLEAN

Init ==
  /\ acct = [a \in Auth |-> NewAccount]
  /\ off \in [Auth -> BOOLEAN]
  /\ fuse = 0
  /\ phase = "free" /\ todo = {} /\ manual = FALSE /\ recovered = 0
  /\ backfill = {}
  /\ calm = FALSE

-----------------------------------------------------------------------------
(* CPA, as the sentry sees it.                                             *)

\* A PATCH that reports an error may have been applied all the same.
Patch(want, file) ==
  {[ok |-> TRUE, off |-> want]} \cup
  IF calm THEN {} ELSE {[ok |-> FALSE, off |-> f] : f \in {want, file}}

\* A listing may fail, and may be older than the last change.
Listings == IF calm THEN {TRUE} ELSE BOOLEAN
Shown(a) == IF calm THEN {off[a]} ELSE BOOLEAN

\* ensureAuthDisabled and ensureAuthEnabled: PATCH, wait, list, and once more
\* if the list still shows the old value.  A list that fails is trusted to
\* agree, until the fuse of consecutive failures blows.  A list shows the old
\* value when it lags; a file that was changed back meanwhile is the same
\* step followed by ExternalFlip.
EnsureFile(want, file, fails) ==
  LET blown == fails + 1 >= VerifyFuse
      said(result, f, n) == [result |-> result, off |-> f, fuse |-> n]
  IN {said("ok", want, 0)} \cup
     IF calm THEN {} ELSE
       {said("err", f, fails) : f \in {want, file}} \cup
       {said(IF blown THEN "still" ELSE "ok", want,
             IF blown THEN VerifyFuse ELSE fails + 1)} \cup
       {said("err", want, 0), said("still", want, 0)} \cup
       {said("ok", want, 1)}

-----------------------------------------------------------------------------
(* Who owns a closed file.                                                 *)

Holds(acc) ==
  \/ acc.state \in {"trashed", "purged", "candidate_dead"}
  \/ IsCooldownState(acc.state)
  \/ acc.source \in {"user_manual", "plugin_auto"}
  \/ acc.state = "user_manual" /\ acc.source # "cpa_file_disabled"
  \/ RecoverAhead(acc)

\* A row that was closed a moment ago stays closed, even if it was wiped.
JustClosed(acc) ==
  /\ Within(acc.stamped, Grace)
  /\ acc.action \in {"cooldown", "candidate", "manual_disable",
                     "cooldown_failed", "candidate_disable_failed",
                     "cooldown_reassert"}

ShouldProtectDisable(acc) == Holds(acc) \/ JustClosed(acc)

InReassertSettleWindow(acc) ==
  /\ Within(acc.stamped, Settle)
  /\ acc.action \in {"cooldown", "candidate", "manual_disable",
                     "cooldown_failed", "candidate_disable_failed"}

InHealSettleWindow(acc) ==
  /\ Within(acc.stamped, Settle)
  /\ acc.action \in {"manual_enable", "reenable", "patrol_alive_open",
                     "patrol_alive", "reopen_foreign", "clear_cpa_disabled_tag"}

CooldownStateForSignal(signal) ==
  CASE signal = "free_usage_429"     -> "cooldown_quota"
    [] signal = "spending_limit_402" -> "cooldown_spending"
    [] signal = "permission_403"     -> "cooldown_permission"
    [] signal = "auth_401"           -> "cooldown_auth"
    [] OTHER                         -> "cooldown_policy"

-----------------------------------------------------------------------------
(* HandleUsage, a success.                                                 *)

IsPermanent(acc) == acc.state = "user_manual" \/ acc.source = "user_manual"
IsParked(acc) == IsCooldownState(acc.state) \/ acc.state = "candidate_dead"

\* A probe that was answered reopens the file and leaves any closed state but
\* the trash, even when the PATCH failed.
ReopenAfterProbeAlive(acc, opened) ==
  IF acc.state \in {"trashed", "purged"} THEN acc
  ELSE IF IsPermanent(acc)
       THEN StampLastAction(ResetToActive(ClearManualLock(acc)), "patrol_alive_reopen")
  ELSE IF IsParked(acc)
       THEN StampLastAction(ResetToActive(acc), "patrol_alive_reopen")
  ELSE StampLastAction(acc, IF opened THEN "patrol_alive_open" ELSE "patrol_alive")

EndErrorRun(acc) ==
  LET quiet == SetLastSignal(acc, "")
  IN IF quiet.pending THEN ClearPendingObserve(quiet) ELSE quiet

ClearStreaksByCountMode(acc) == ClearStreaksExcept(acc, TotalKeys)

UsageSuccess(a, reset) ==
  /\ phase = "free"
  /\ calm => reset = Unset
  /\ acct' = [acct EXCEPT ![a] =
                UpdateQuota(EndErrorRun(ClearStreaksByCountMode(@)), reset)]
  /\ UNCHANGED <<off, fuse, tickVars, backfill, calm>>

PatrolSuccess(a, reset) ==
  /\ phase = "free" /\ ~calm
  /\ \E p \in IF acct[a].state \in {"trashed", "purged"}
              THEN {[ok |-> FALSE, off |-> off[a]]}
              ELSE Patch(FALSE, off[a]) :
       /\ off' = [off EXCEPT ![a] = p.off]
       /\ acct' = [acct EXCEPT ![a] =
                     UpdateQuota(EndErrorRun(ReopenAfterProbeAlive(
                       ClearStreaksByCountMode(@), p.ok)), reset)]
  /\ UNCHANGED <<fuse, tickVars, backfill, calm>>

-----------------------------------------------------------------------------
(* HandleUsage, a failure.                                                 *)

ShouldDedupeFailUsage(acc, e) ==
  /\ e.coded
  /\ acc.stamped # Unset /\ acc.stamped <= Dedupe
  /\ e.raw = acc.sig \/ e.raw = "" \/ acc.sig = ""
  /\ \/ acc.action \in {"cooldown", "cooldown_failed", "candidate",
                        "manual_disable", "cooldown_file_still_open"}
     \/ IsParked(acc) /\ RecoverAhead(acc)

\* Mutant: a new class goes on with the old counts.
KeepRun(acc, key) == acc

\* Another class than last time ends the run of every class; only any_error
\* goes on counting.
BeginFingerprintRun(acc, key) ==
  IF acc.sig \in {"", key, "any_error"}
  THEN acc ELSE ClearStreaksExcept(acc, {"any_error"})

Counted(acc, e) ==
  LET hinted == IF e.signal = "free_usage_429" THEN UpdateQuota(acc, e.reset)
                                               ELSE acc
  IN IncStreak(IncStreak(BeginFingerprintRun(hinted, e.key), e.key), "any_error")

\* What the class's card says, unless the any_error card says something
\* stronger; "unmatched" is only ever observed.
Verdict(a, acc, e) ==
  LET ask(k) == DecidePolicy(Sw, Cards[k], acc.streak[k], Plan[a])
      own == IF e.key \in DOMAIN Cards \ {"unmatched"} THEN ask(e.key) ELSE NoOutcome
      any == ask("any_error")
  IN IF e.key # "unmatched" /\ ActionRank(any) > ActionRank(own)
     THEN [out |-> any, card |-> "any_error"]
     ELSE [out |-> own, card |-> e.key]

Capped(timer) == IF MaxReset > 0 /\ timer > MaxReset THEN MaxReset ELSE timer

RecoverTimer(e, v) ==
  Capped(IF e.reset # Unset THEN e.reset
         ELSE IF v.out.sec > 0 THEN v.out.sec
         ELSE IF v.card \in DOMAIN Cards /\ Cards[v.card].sec > 0 THEN Cards[v.card].sec
         ELSE IF e.signal = "permission_403" THEN PermissionCooldown
         ELSE IF e.signal = "auth_401" THEN Auth401Cooldown
         ELSE Day)

Result(acc, file, n, failed) ==
  [acc |-> acc, off |-> file, fuse |-> n, failed |-> failed]

\* Mutant: every failure is a new cool-down.
NeverCoolsAlready(acc, st) == FALSE

CoolsAlready(acc, st) ==
  acc.source = "plugin_auto" /\ acc.state = st /\ RecoverAhead(acc)

\* A row that already cools for the same family keeps its deadline.
ApplyCooldown(acc, file, e, v) ==
  LET st == IF v.card = "any_error" THEN "cooldown_policy"
                                    ELSE CooldownStateForSignal(e.signal)
      owned == StampLastAction(
                 SetRecoverAt(SetAccountState(acc, st, "plugin_auto"),
                              RecoverTimer(e, v)), "cooldown")
      noted(result) ==
        CASE result = "err"   -> StampLastAction(owned, "cooldown_failed")
          [] result = "still" -> StampLastAction(owned, "cooldown_file_still_open")
          [] OTHER            -> owned
  IN IF CoolsAlready(acc, st)
     THEN {Result(StampLastAction(acc, "cooldown"), x.off, x.fuse, FALSE) :
             x \in EnsureFile(TRUE, file, fuse)}
     ELSE {Result(noted(x.result), x.off, x.fuse, x.result = "err") :
             x \in EnsureFile(TRUE, file, fuse)}

\* Only a 401 keeps a deadline; every other candidate waits for the operator.
ApplyCandidate(r, e) ==
  LET dead == SetAccountState(r.acc, "candidate_dead", "plugin_auto")
      timer == IF e.signal # "auth_401" THEN Unset
               ELSE IF dead.recover # Unset THEN dead.recover
               ELSE IF Auth401Cooldown > 0 THEN Auth401Cooldown
               ELSE 2 * ReloginCap
      parked == StampLastAction(SetRecoverAt(dead, timer), "candidate")
  IN IF e.signal = "none"
     THEN {Result(parked, x.off, x.fuse, FALSE) : x \in EnsureFile(TRUE, r.off, r.fuse)}
     ELSE {Result(parked, p.off, r.fuse, FALSE) : p \in Patch(TRUE, r.off)}

\* A 401 whose password is known is cooled while the login is tried again.
TryReloginFirst(r) ==
  LET timer == IF Auth401Cooldown = 0 \/ Auth401Cooldown > ReloginCap
               THEN ReloginCap ELSE Auth401Cooldown
      cooling == SetRecoverAt(
                   SetAccountState(StampLastAction(r.acc, "relogin"),
                                   "cooldown_auth", "plugin_auto"), timer)
  IN {Result(SetLastSignal(cooling, "auth_401"), x.off, x.fuse, FALSE) :
        x \in EnsureFile(TRUE, r.off, r.fuse)}

ApplyPermanentDisable(acc, file) ==
  LET already == acc.state = "user_manual" /\ acc.source = "user_manual"
      locked == IF already THEN acc
                ELSE SetRecoverAt(
                       SetAccountState(acc, "user_manual", "user_manual"), Unset)
  IN {Result(StampLastAction(locked, "manual_disable"), p.off, fuse, ~p.ok) :
        p \in Patch(TRUE, file)}

FailureOutcomes(a, e) ==
  LET acc == Counted(acct[a], e)
      v == Verdict(a, acc, e)
      cooled == IF v.out.cooldown THEN ApplyCooldown(acc, off[a], e, v)
                ELSE {Result(acc, off[a], fuse, FALSE)}
      parked(r) ==
        IF r.failed \/ ~v.out.candidate THEN {r}
        ELSE ApplyCandidate(r, e) \cup
             IF Relogin /\ e.signal = "auth_401" THEN TryReloginFirst(r) ELSE {}
  IN IF v.out.disable THEN ApplyPermanentDisable(acc, off[a])
     ELSE UNION {parked(r) : r \in cooled}

HandleFailure(a, e) ==
  /\ phase = "free" /\ ~calm
  /\ ~ShouldDedupeFailUsage(acct[a], e)
  /\ \E r \in FailureOutcomes(a, e) :
       /\ acct' = [acct EXCEPT ![a] = r.acc]
       /\ off' = [off EXCEPT ![a] = r.off]
       /\ fuse' = r.fuse
  /\ UNCHANGED <<tickVars, backfill, calm>>
-----------------------------------------------------------------------------
(* tick.  Each loop visits the rows in any order; the mutex is held from    *)
(* TickStart to Hygiene, while the files go on changing outside.           *)

\* A candidate that is not a 401 must not come back by itself.
HoldCandidate(acc) ==
  IF /\ acc.state = "candidate_dead" /\ acc.recover # Unset
     /\ acc.sig \notin {"", "auth_401"}
  THEN StampLastAction(SetRecoverAt(acc, Unset), "candidate_hold")
  ELSE acc

TickStart ==
  /\ phase = "free"
  /\ phase' = "recover"
  /\ manual' \in IF calm THEN {FALSE} ELSE BOOLEAN
  /\ acct' = [a \in Auth |-> HoldCandidate(acct[a])]
  /\ todo' = {a \in Auth : Due(acct'[a])}
  /\ UNCHANGED <<off, fuse, recovered, backfill, calm>>

\* Mutants: a candidate whose signal is not known comes back as a 401 does;
\* a recovered row keeps the stamp of its close.
HeldIfKnown(acc) == acc.state = "candidate_dead" /\ acc.sig \notin {"", "auth_401"}
RecoveredUnstamped(acc) == ResetToActive(acc)

HeldForOperator(acc) == acc.state = "candidate_dead" /\ acc.sig # "auth_401"

Recovered(acc) == StampLastAction(ResetToActive(acc), "reenable")

RecoverOutcomes(acc, file) ==
  LET back(result) ==
        IF result = "err" THEN StampLastAction(acc, "reenable_failed")
                          ELSE Recovered(acc)
      skipped(row) == {Result(row, file, fuse, TRUE)}
  IN IF HeldForOperator(acc) THEN skipped(SetRecoverAt(acc, Unset))
     ELSE IF ~CanAutoReenable(acc) THEN skipped(acc)
     ELSE {Result(back(x.result), x.off, x.fuse, x.result = "err") :
             x \in EnsureFile(FALSE, file, fuse)}

RecoverOne(a) ==
  /\ phase = "recover" /\ a \in todo /\ recovered < MaxRecoverPerTick
  /\ \E r \in RecoverOutcomes(acct[a], off[a]) :
       /\ acct' = [acct EXCEPT ![a] = r.acc]
       /\ off' = [off EXCEPT ![a] = r.off]
       /\ fuse' = r.fuse
       /\ recovered' = IF r.failed THEN recovered ELSE recovered + 1
  /\ todo' = todo \ {a}
  /\ UNCHANGED <<phase, manual, backfill, calm>>

\* What is still due after the limit waits for the next tick.
ListForSync ==
  /\ phase = "recover" /\ (todo = {} \/ recovered = MaxRecoverPerTick)
  /\ phase' = "sync"
  /\ \E listed \in Listings : todo' = IF listed THEN Auth ELSE {}
  /\ UNCHANGED <<acct, off, fuse, manual, recovered, backfill, calm>>

\* The file of an owned row was seen open.
Reassert(acc, file) ==
  LET name(result) == CASE result = "err"   -> "cooldown_reassert_failed"
                        [] result = "still" -> "cooldown_file_still_open"
                        [] OTHER            -> "cooldown_reassert"
  IN {Result(StampLastAction(acc, name(x.result)), x.off, x.fuse, FALSE) :
        x \in EnsureFile(TRUE, file, fuse)}

\* The file of a row nobody owns was seen closed, on the panel's tick: open
\* the file only, or mark the row as closed by somebody else.
ReopenForeignFile(acc, file) ==
  LET freed == IF acc.source = "cpa_file_disabled" THEN ResetToActive(acc) ELSE acc
  IN {Result(StampLastAction(IF p.ok THEN freed ELSE acc,
                             IF p.ok THEN "reopen_foreign"
                                     ELSE "reopen_foreign_failed"),
             p.off, fuse, FALSE) : p \in Patch(FALSE, file)}

TagForeignFile(acc, file) ==
  {Result(StampLastAction(
            SetRecoverAt(SetAccountState(acc, "user_manual", "cpa_file_disabled"),
                         Unset), "file_disabled_sync"),
          file, fuse, FALSE)}

SyncFile(acc, file, shut) ==
  LET keep == {Result(acc, file, fuse, FALSE)}
  IN IF ShouldProtectDisable(acc)
     THEN IF \/ shut
             \/ Due(acc) /\ CanAutoReenable(acc)
             \/ InReassertSettleWindow(acc)
          THEN keep ELSE Reassert(acc, file)
     ELSE IF ~shut \/ ~manual THEN keep
          ELSE IF ReopenForeign THEN ReopenForeignFile(acc, file)
                                ELSE TagForeignFile(acc, file)

\* Mutants: any lock whose file is open is freed; none is.
DropAnyLock(acc, shut) ==
  IF acc.state = "user_manual" /\ ~shut
  THEN StampLastAction(ResetToActive(acc), "clear_cpa_disabled_tag")
  ELSE acc
KeepTag(acc, shut) == acc

\* After the loop over the files: a tagged row whose file is open is freed.
DropTag(acc, shut) ==
  IF acc.source = "cpa_file_disabled" /\ ~shut
  THEN StampLastAction(ResetToActive(acc), "clear_cpa_disabled_tag")
  ELSE acc

SyncOne(a) ==
  /\ phase = "sync" /\ a \in todo
  /\ \E shut \in Shown(a) : \E r \in SyncFile(acct[a], off[a], shut) :
       /\ acct' = [acct EXCEPT ![a] = DropTag(r.acc, shut)]
       /\ off' = [off EXCEPT ![a] = r.off]
       /\ fuse' = r.fuse
  /\ todo' = todo \ {a}
  /\ UNCHANGED <<phase, manual, recovered, backfill, calm>>

ListForHeal ==
  /\ phase = "sync" /\ todo = {}
  /\ phase' = "heal"
  /\ \E listed \in Listings : todo' = IF listed THEN Auth ELSE {}
  /\ UNCHANGED <<acct, off, fuse, manual, recovered, backfill, calm>>

MayHeal(acc) ==
  /\ acc.state = "active"
  /\ ~ShouldProtectDisable(acc)
  /\ ~Within(acc.healed, HealCooldown)
  /\ ~(/\ Within(acc.stamped, HealCooldown)
       /\ acc.action \in {"heal_active_file", "heal_active_file_failed",
                          "heal_active_file_stuck"})
  /\ ~InHealSettleWindow(acc)

\* A file that stays closed however often it is opened is somebody else's.
HealOutcomes(acc, file) ==
  LET tried == TouchLastHealAt(acc)
      failed == IncHealFailStreak(tried)
      after(result) ==
        CASE result = "ok" ->
               StampLastAction(ClearHealFailStreak(tried), "heal_active_file")
          [] result = "still" ->
               IF failed.healFail >= HealStuckAfter
               THEN StampLastAction(MarkCPAFileDisabled(failed), "heal_active_file_stuck")
               ELSE StampLastAction(failed, "heal_active_file_failed")
          [] OTHER -> StampLastAction(tried, "heal_active_file_failed")
  IN {Result(after(x.result), x.off, x.fuse, FALSE) :
        x \in EnsureFile(FALSE, file, fuse)}

HealOne(a) ==
  /\ phase = "heal" /\ a \in todo
  /\ \E shut \in Shown(a) :
     \E r \in IF shut /\ MayHeal(acct[a]) /\ a \notin backfill
             THEN HealOutcomes(acct[a], off[a])
             ELSE {Result(acct[a], off[a], fuse, FALSE)} :
       /\ acct' = [acct EXCEPT ![a] = r.acc]
       /\ off' = [off EXCEPT ![a] = r.off]
       /\ fuse' = r.fuse
  /\ todo' = todo \ {a}
  /\ UNCHANGED <<phase, manual, recovered, backfill, calm>>

HasLadderSignal(acc) ==
  \/ \E k \in Counters : acc.streak[k] > 0
  \/ acc.sig \in BuiltinKeys \cup {"code:invalid-argument"}

ExpireIdlePendingObserve(acc) ==
  LET since == IF acc.since = Unset THEN acc.stamped ELSE acc.since
  IN IF /\ acc.state = "active" /\ acc.pending
        /\ \/ acc.action = "heal_active_file" /\ ~HasLadderSignal(acc)
           \/ since # Unset /\ since >= PendingTTL
     THEN ExpireIdlePending(acc) ELSE acc

\* A live row keeps no deadline: a half-done recovery is cooled again, any
\* other deadline is dropped.
ScrubDirtyActive(acc) ==
  IF acc.state # "active" THEN acc
  ELSE IF acc.source = "plugin_auto" /\ RecoverAhead(acc)
       THEN StampLastAction(
              SetAccountState(acc, CooldownStateForSignal(acc.sig), "plugin_auto"),
              "repair_cooldown_state")
  ELSE IF acc.source # "plugin_auto" /\ acc.recover # Unset
       THEN StampLastAction(ClearCoolDownResidue(acc), "scrub_active")
  ELSE acc

\* Mutant: the limit on recoveries counts from the first tick on.
HygieneKeepsCount ==
  /\ phase = "heal" /\ todo = {}
  /\ acct' = [a \in Auth |-> ScrubDirtyActive(ExpireIdlePendingObserve(acct[a]))]
  /\ phase' = "free" /\ manual' = FALSE
  /\ UNCHANGED <<off, fuse, todo, recovered, backfill, calm>>

Hygiene ==
  /\ phase = "heal" /\ todo = {}
  /\ acct' = [a \in Auth |-> ScrubDirtyActive(ExpireIdlePendingObserve(acct[a]))]
  /\ phase' = "free" /\ manual' = FALSE /\ recovered' = 0
  /\ UNCHANGED <<off, fuse, todo, backfill, calm>>

-----------------------------------------------------------------------------
(* The panel.                                                              *)

ManualDisable(a) ==
  /\ phase = "free" /\ ~calm
  /\ LET locked == SetRecoverAt(
                     SetAccountState(acct[a], "user_manual", "user_manual"), Unset)
     IN \E p \in Patch(TRUE, off[a]) :
          /\ off' = [off EXCEPT ![a] = p.off]
          /\ acct' = [acct EXCEPT ![a] =
                        IF p.ok THEN StampLastAction(locked, "manual_disable")
                                ELSE locked]
  /\ UNCHANGED <<fuse, tickVars, backfill, calm>>

ManualEnable(a) ==
  /\ phase = "free" /\ ~calm
  /\ \E x \in EnsureFile(FALSE, off[a], fuse) :
       /\ off' = [off EXCEPT ![a] = x.off]
       /\ fuse' = x.fuse
       /\ acct' = [acct EXCEPT ![a] =
            CASE x.result = "err" -> StampLastAction(@, "manual_enable_failed")
              [] x.result = "still" ->
                   StampLastAction(ClearManualLock(@), "manual_enable_file_still_closed")
              [] OTHER -> StampLastAction(ClearManualLock(@), "manual_enable")]
  /\ UNCHANGED <<tickVars, backfill, calm>>

\* The one operation that closes the file before it owns the row.
ApplySuggestedCooldown(a) ==
  /\ phase = "free" /\ ~calm
  /\ \E p \in Patch(TRUE, off[a]) :
       /\ off' = [off EXCEPT ![a] = p.off]
       /\ acct' = [acct EXCEPT ![a] =
            IF p.ok
            THEN StampLastAction(
                   SetRecoverAt(
                     SetAccountState(@, CooldownStateForSignal(@.sig), "plugin_auto"),
                     Capped(Day)), "cooldown")
            ELSE StampLastAction(@, "cooldown_failed")]
  /\ UNCHANGED <<fuse, tickVars, backfill, calm>>

-----------------------------------------------------------------------------
(* The replay of missed failures marks its accounts before the tick.       *)

MarkPendingBackfillAuths(auths) ==
  /\ phase = "free" /\ ~calm
  /\ backfill' = auths
  /\ UNCHANGED <<acct, off, fuse, tickVars, calm>>

ClearPendingBackfillAuths ==
  /\ phase = "free" /\ backfill # {}
  /\ backfill' = {}
  /\ UNCHANGED <<acct, off, fuse, tickVars, calm>>

-----------------------------------------------------------------------------
(* The world outside.                                                      *)

ExternalFlip(a) ==
  /\ ~calm
  /\ off' = [off EXCEPT ![a] = ~@]
  /\ UNCHANGED <<acct, fuse, tickVars, backfill, calm>>

\* An operation is shorter than a unit of time.
Elapse ==
  /\ phase = "free"
  /\ acct' = [a \in Auth |-> OneUnitLater(acct[a])]
  /\ UNCHANGED <<off, fuse, tickVars, backfill, calm>>

Quieten ==
  /\ phase = "free" /\ ~calm
  /\ calm' = TRUE
  /\ UNCHANGED <<acct, off, fuse, tickVars, backfill>>

TickStep ==
  \/ TickStart \/ ListForSync \/ ListForHeal \/ Hygiene
  \/ \E a \in Auth : RecoverOne(a) \/ SyncOne(a) \/ HealOne(a)

UsageStep ==
  \E a \in Auth :
    \/ \E e \in Errors : HandleFailure(a, e)
    \/ \E reset \in Hints : UsageSuccess(a, reset) \/ PatrolSuccess(a, reset)

PanelStep ==
  \E a \in Auth :
    ManualDisable(a) \/ ManualEnable(a) \/ ApplySuggestedCooldown(a)

Next ==
  \/ TickStep \/ UsageStep \/ PanelStep
  \/ \E auths \in SUBSET Auth : MarkPendingBackfillAuths(auths)
  \/ ClearPendingBackfillAuths
  \/ \E a \in Auth : ExternalFlip(a)
  \/ Elapse \/ Quieten

Spec == Init /\ [][Next]_vars

-----------------------------------------------------------------------------
(* What must hold.                                                         *)

OperatorLocked(acc) == acc.state = "user_manual" /\ acc.source = "user_manual"

\* The fields that say who closed a row agree: a cool-down is owned by the
\* sentry and has a deadline, so it ends by itself; a lock has none, so
\* it does not; a live row is owned by nobody; only a live row is watched.
RowCoherent(acc) ==
  /\ IsCooldownState(acc.state) => acc.source = "plugin_auto" /\ acc.recover # Unset
  /\ acc.state = "candidate_dead" => acc.source = "plugin_auto"
  /\ acc.state = "user_manual" =>
       acc.source \in {"user_manual", "cpa_file_disabled"} /\ acc.recover = Unset
  /\ acc.state = "active" => acc.source = ""
  /\ acc.pending => acc.state = "active" /\ acc.since # Unset

OwnershipCoherent == \A a \in Auth : RowCoherent(acct[a])

\* tick works on the row and the file of a.
Visits(a) == phase' = phase /\ phase # "free" /\ a \in todo \ todo'

Opens(a) == off[a] /\ ~off'[a]
Closes(a) == ~off[a] /\ off'[a]

\* tick opens no file that the sentry or the operator keeps closed: only one
\* whose row is live, or was tagged as closed by somebody else, or whose
\* deadline has come.  A due candidate must be a 401.
OwnedNeverAutoOpened ==
  [][\A a \in Auth : Visits(a) /\ Opens(a) =>
       \/ acct[a].state = "active"
       \/ acct[a].source = "cpa_file_disabled"
       \/ /\ IsCooldownState(acct[a].state) /\ Due(acct[a])
       \/ /\ acct[a].state = "candidate_dead" /\ Due(acct[a])
          /\ acct[a].sig = "auth_401"]_vars

\* No pass of tick takes a row out of the operator's lock, whatever the file
\* of the row looks like.
TickKeepsOperatorLock ==
  [][phase' # phase \/ todo' # todo =>
       \A a \in Auth : OperatorLocked(acct[a]) => OperatorLocked(acct'[a])]_vars

\* Traffic on a row that already cools, more failures of the same family or
\* late successes that name a reset time, leaves its deadline alone (a relogin
\* sets a new one, so it is left out).
DeadlineNotStretched ==
  [][\A a \in Auth :
       /\ IsCooldownState(acct[a].state) /\ RecoverAhead(acct[a])
       /\ acct'[a].state = acct[a].state
       /\ acct'[a].recover # acct[a].recover
       => /\ \A e \in Errors : ~HandleFailure(a, e)
          /\ \A reset \in Hints : ~UsageSuccess(a, reset)]_vars

-----------------------------------------------------------------------------
(* What must happen in the end.                                            *)

\* The ticker and the clock go on.  Its goroutine clears the marks after every
\* tick.  tick holds the mutex again and again, so what waits for the mutex
\* needs strong fairness (sync.Mutex starves nobody), and so does the clock:
\* an operation ends before a unit is over.
Fairness ==
  /\ WF_vars(TickStep)
  /\ SF_vars(ClearPendingBackfillAuths)
  /\ SF_vars(Elapse)

LiveSpec == Spec /\ Fairness

\* Where a row may stay for ever: live and open with nothing pending, locked
\* or tagged and closed, or parked for the operator and closed.
Settled(a) ==
  \/ /\ acct[a].state = "active" /\ ~off[a]
     /\ acct[a].recover = Unset /\ ~acct[a].pending
  \/ acct[a].state = "user_manual" /\ off[a]
  \/ acct[a].state = "candidate_dead" /\ acct[a].recover = Unset /\ off[a]

\* Once nothing goes wrong any more, every row and its file come to agree and
\* stay so: cool-downs end, stray closes are healed, stray opens are closed.
EventuallySettled == <>calm => <>[](\A a \in Auth : Settled(a))
=============================================================================
