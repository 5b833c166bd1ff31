---------------------------- MODULE AccountStore ----------------------------
(***************************************************************************)
(* One row of the account table of internal/state and the setters of the   *)
(* store, as operators from a row to a row.  The store serialises each     *)
(* setter with its own mutex; what happens between two setters is up to    *)
(* the modules that call them.                                             *)
(*                                                                         *)
(* Time is kept relative: recover_at is the time still to run before it is *)
(* due (0 when due), and a stamp such as last_action_at is an age, which   *)
(* saturates at AgeCap because every window of the program is shorter.     *)
(* Unset stands for Go's zero time in both.                                *)
(***************************************************************************)
EXTENDS Integers, FiniteSets

CONSTANTS
  Keys,       \* error class keys other than "any_error"
  MaxStreak,  \* streak counters saturate here; every ladder threshold is below
  AgeCap      \* ages saturate here; every time window is at most this long

ASSUME KeysAssumption ==
  /\ Keys \subseteq STRING
  /\ "any_error" \notin Keys
  /\ "" \notin Keys
  /\ "auth_401" \in Keys

ASSUME BoundsAssumption == MaxStreak \in Nat \ {0} /\ AgeCap \in Nat \ {0}

Unset == -1

Cooldowns == {"cooldown_quota", "cooldown_spending", "cooldown_permission",
              "cooldown_policy", "cooldown_auth"}
States == Cooldowns \cup
  {"active", "candidate_dead", "user_manual", "trashed", "purged"}
Sources == {"", "plugin_auto", "user_manual", "cpa_file_disabled"}

\* Names of the log entries that stamp last_action.
Actions ==
  {"", "cooldown", "cooldown_failed", "cooldown_file_still_open", "candidate",
   "candidate_disable_failed", "candidate_hold", "manual_disable", "relogin",
   "reenable", "reenable_failed", "manual_enable", "manual_enable_failed",
   "manual_enable_file_still_closed", "patrol_alive", "patrol_alive_open",
   "patrol_alive_reopen", "cooldown_reassert", "cooldown_reassert_failed",
   "reopen_foreign", "reopen_foreign_failed", "file_disabled_sync",
   "clear_cpa_disabled_tag", "heal_active_file", "heal_active_file_failed",
   "heal_active_file_stuck", "repair_cooldown_state", "scrub_active", "trash",
   "trash_delete_failed", "trash_restore", "trash_purge"}

Counters == Keys \cup {"any_error"}
Timer == Nat \cup {Unset}
Age == 0..AgeCap \cup {Unset}

Account ==
  [state    : States,
   source   : Sources,                     \* disable_source
   sig      : Keys \cup {""},              \* last_signal
   streak   : [Counters -> 0..MaxStreak],  \* streaks
   recover  : Timer,                       \* recover_at
   pending  : BOOLEAN,                     \* pending_observe
   since    : Age,                         \* pending_since
   action   : Actions,                     \* last_action
   stamped  : Age,                         \* last_action_at
   healed   : Age,                         \* last_heal_at
   healFail : 0..MaxStreak]                \* heal_fail_streak

NewAccount ==
  [state |-> "active", source |-> "", sig |-> "",
   streak |-> [k \in Counters |-> 0], recover |-> Unset, pending |-> FALSE,
   since |-> Unset, action |-> "", stamped |-> Unset, healed |-> Unset,
   healFail |-> 0]

IsCooldownState(s) == s \in Cooldowns

-----------------------------------------------------------------------------
(* Time.                                                                   *)

Older(age) == IF age = Unset \/ age = AgeCap THEN age ELSE age + 1
Nearer(timer) == IF timer \in {Unset, 0} THEN timer ELSE timer - 1

\* A stamp is inside a window of length w (age < w in the code).
Within(age, w) == age # Unset /\ age < w

Due(acc) == acc.recover = 0
RecoverAhead(acc) == acc.recover > 0

OneUnitLater(acc) ==
  [acc EXCEPT !.recover = Nearer(@), !.since = Older(@),
              !.stamped = Older(@), !.healed = Older(@)]

-----------------------------------------------------------------------------
(* The setters.                                                            *)

StampLastAction(acc, name) == [acc EXCEPT !.action = name, !.stamped = 0]

SetRecoverAt(acc, timer) == [acc EXCEPT !.recover = timer]

SetLastSignal(acc, key) == [acc EXCEPT !.sig = key]

\* Mutants: a closed row is still watched; any_error is a signal like another.
SetAccountStateWatched(acc, s, src) ==
  [acc EXCEPT !.state = s, !.source = IF src # "" THEN src ELSE @]
IncAnyStreak(acc, key) ==
  [acc EXCEPT !.streak[key] = IF @ = MaxStreak THEN @ ELSE @ + 1, !.sig = key]

\* Entering any closed state leaves the watch that follows a recovery.
SetAccountState(acc, s, src) ==
  [acc EXCEPT !.state = s,
              !.source = IF src # "" THEN src ELSE @,
              !.pending = @ /\ s = "active",
              !.since = IF s = "active" THEN @ ELSE Unset]

\* "any_error" counts every failure and never becomes last_signal.
IncStreak(acc, key) ==
  [acc EXCEPT !.streak[key] = IF @ = MaxStreak THEN @ ELSE @ + 1,
              !.sig = IF key = "any_error" THEN @ ELSE key]

ClearStreaksExcept(acc, keep) ==
  [acc EXCEPT !.streak = [k \in Counters |-> IF k \in keep THEN @[k] ELSE 0]]

\* Streaks and last_signal survive, so a ladder goes on across cool-downs.
ResetToActive(acc) ==
  [acc EXCEPT !.state = "active", !.source = "", !.recover = Unset,
              !.pending = TRUE,
              !.since = IF acc.pending /\ @ # Unset THEN @ ELSE 0]

ClearCoolDownResidue(acc) ==
  [acc EXCEPT !.state = "active", !.recover = Unset,
              !.source = IF @ = "plugin_auto" THEN "" ELSE @,
              !.pending = TRUE,
              !.since = IF acc.pending THEN @ ELSE 0]

ClearPendingObserve(acc) ==
  [acc EXCEPT !.pending = FALSE, !.since = Unset, !.healFail = 0]

\* Only the quota-like signals are dropped with the watch.
ExpireIdlePending(acc) ==
  [acc EXCEPT !.pending = FALSE, !.since = Unset,
     !.sig = IF @ \in {"free_usage_429", "spending_limit_402"} THEN "" ELSE @]

ClearManualLock(acc) ==
  [ClearStreaksExcept(ResetToActive(acc), {}) EXCEPT
     !.sig = "", !.pending = FALSE, !.since = Unset, !.healFail = 0]

TouchLastHealAt(acc) == [acc EXCEPT !.healed = 0]

IncHealFailStreak(acc) ==
  [acc EXCEPT !.healFail = IF @ = MaxStreak THEN @ ELSE @ + 1]

ClearHealFailStreak(acc) == [acc EXCEPT !.healFail = 0]

MarkCPAFileDisabled(acc) ==
  [acc EXCEPT !.state = "user_manual", !.source = "cpa_file_disabled",
              !.pending = FALSE, !.since = Unset, !.recover = Unset]

\* A quota body may name its reset time; only an active row takes the hint,
\* and only one that comes sooner than what the row already holds.
UpdateQuota(acc, reset) ==
  IF /\ reset # Unset
     /\ acc.state = "active"
     /\ acc.recover = Unset \/ reset < acc.recover
  THEN SetRecoverAt(acc, reset)
  ELSE acc

CanAutoReenable(acc) ==
  /\ acc.state \notin {"user_manual", "trashed", "purged"}
  /\ acc.source \notin {"user_manual", "cpa_file_disabled"}
  /\ \/ acc.source = "plugin_auto"
     \/ /\ IsCooldownState(acc.state) \/ acc.state = "candidate_dead"
        /\ acc.recover # Unset
=============================================================================
