---------------------------- MODULE GuardProofs ----------------------------
(***************************************************************************)
(* What holds of Guard for every set of accounts, policy cards, traffic    *)
(* and windows: its table is well formed and its ownership fields agree,   *)
(* tick respects the operator's locks and what it has itself opened,       *)
(* traffic leaves deadlines alone, and streaks count failures in a row.    *)
(*                                                                         *)
(* The invariants are about one row at a time, so each argument goes from  *)
(* the bottom up: the changes that the handlers make to a row (a cool-down,*)
(* a lock, a recovery, ...) lead from rows to rows, hence the outcomes of  *)
(* a handler do, hence the actions preserve the invariant.                 *)
(***************************************************************************)
EXTENDS GuardHistory, WellFoundedInduction, TLAPS

-----------------------------------------------------------------------------
(* What Guard is built from: the setters of AccountStore lead from rows to *)
(* rows,                                                                   *)

\* The values that the setters put into fields.
LEMMA FieldValues ==
  /\ 0 \in Age /\ Unset \in Age
  /\ 0 \in Timer /\ Unset \in Timer
  /\ 0 \in 0..MaxStreak
BY BoundsAssumption DEF Age, Timer

\* One more, up to the bound.
LEMMA CountType ==
  ASSUME NEW n \in 0..MaxStreak
  PROVE  (IF n = MaxStreak THEN n ELSE n + 1) \in 0..MaxStreak
BY BoundsAssumption

\* A new row is a row.
LEMMA NewAccountType == NewAccount \in Account
BY FieldValues DEF NewAccount, Account, States, Sources, Actions

\* A stamp that is set stays set, and so does a deadline.
LEMMA OlderType ==
  ASSUME NEW age \in Age
  PROVE  Older(age) \in Age /\ (age # Unset => Older(age) # Unset)
BY BoundsAssumption DEF Older, Age, Unset

\* A deadline comes nearer, is never lost and never goes below due.
LEMMA NearerType ==
  ASSUME NEW timer \in Timer
  PROVE  Nearer(timer) \in Timer /\ (timer = Unset <=> Nearer(timer) = Unset)
BY DEF Nearer, Timer, Unset

\* Time keeps rows rows.
LEMMA OneUnitLaterType ==
  ASSUME NEW acc \in Account PROVE OneUnitLater(acc) \in Account
BY OlderType, NearerType DEF OneUnitLater, Account

\* The setters one by one: the stamp of the last action,
LEMMA StampType ==
  ASSUME NEW acc \in Account, NEW name \in Actions
  PROVE  StampLastAction(acc, name) \in Account
BY FieldValues DEF StampLastAction, Account

\* the deadline,
LEMMA SetRecoverAtType ==
  ASSUME NEW acc \in Account, NEW timer \in Timer
  PROVE  SetRecoverAt(acc, timer) \in Account
BY DEF SetRecoverAt, Account

\* the signal,
LEMMA SetLastSignalType ==
  ASSUME NEW acc \in Account, NEW key \in Keys \cup {""}
  PROVE  SetLastSignal(acc, key) \in Account
BY DEF SetLastSignal, Account

\* the state and its owner,
LEMMA SetAccountStateType ==
  ASSUME NEW acc \in Account, NEW s \in States, NEW src \in Sources
  PROVE  SetAccountState(acc, s, src) \in Account
BY FieldValues DEF SetAccountState, Account

\* a failure of a class,
LEMMA IncStreakType ==
  ASSUME NEW acc \in Account, NEW key \in Counters
  PROVE  IncStreak(acc, key) \in Account
BY CountType DEF IncStreak, Account, Counters

\* the end of the runs,
LEMMA ClearStreaksType ==
  ASSUME NEW acc \in Account, NEW keep
  PROVE  ClearStreaksExcept(acc, keep) \in Account
BY FieldValues DEF ClearStreaksExcept, Account

\* a recovery,
LEMMA ResetToActiveType ==
  ASSUME NEW acc \in Account PROVE ResetToActive(acc) \in Account
BY FieldValues DEF ResetToActive, Account, States, Sources

\* the scrub of a live row,
LEMMA ClearCoolDownResidueType ==
  ASSUME NEW acc \in Account PROVE ClearCoolDownResidue(acc) \in Account
BY FieldValues DEF ClearCoolDownResidue, Account, States, Sources

\* the end of the watch, by a success and by time,
LEMMA ClearPendingType ==
  ASSUME NEW acc \in Account
  PROVE  ClearPendingObserve(acc) \in Account /\ ExpireIdlePending(acc) \in Account
BY FieldValues DEF ClearPendingObserve, ExpireIdlePending, Account

\* the operator's unlock,
LEMMA ClearManualLockType ==
  ASSUME NEW acc \in Account PROVE ClearManualLock(acc) \in Account
<1>1. ClearStreaksExcept(ResetToActive(acc), {}) \in Account
  BY ResetToActiveType, ClearStreaksType
<1> QED
  BY <1>1, FieldValues DEF ClearManualLock, Account

\* the counters of the heal,
LEMMA HealFieldsType ==
  ASSUME NEW acc \in Account
  PROVE  /\ TouchLastHealAt(acc) \in Account
         /\ IncHealFailStreak(acc) \in Account
         /\ ClearHealFailStreak(acc) \in Account
BY FieldValues, CountType
DEF TouchLastHealAt, IncHealFailStreak, ClearHealFailStreak, Account

\* the tag of a file closed by somebody else,
LEMMA MarkCPAFileDisabledType ==
  ASSUME NEW acc \in Account PROVE MarkCPAFileDisabled(acc) \in Account
BY FieldValues DEF MarkCPAFileDisabled, Account, States, Sources

\* and the hint of a quota body.
LEMMA UpdateQuotaType ==
  ASSUME NEW acc \in Account, NEW reset \in Timer
  PROVE  UpdateQuota(acc, reset) \in Account
BY SetRecoverAtType DEF UpdateQuota

-----------------------------------------------------------------------------
(* and what SentryPolicy decides is an outcome.                            *)

\* A nonempty set on which f takes natural values has an element where f is
\* least.
LEMMA LeastBy ==
  ASSUME NEW T, T # {}, NEW f, \A i \in T : f[i] \in Nat
  PROVE  \E i \in T : \A j \in T : f[i] <= f[j]
<1> DEFINE image == {f[i] : i \in T}
<1>1. IsWellFoundedOn(OpToRel(<, Nat), Nat)
  BY NatLessThanWellFounded
<1>2. image \subseteq Nat /\ image # {}
  OBVIOUS
<1>3. PICK m \in image : \A n \in image : <<n, m>> \notin OpToRel(<, Nat)
  <2> HIDE DEF image
  <2> QED BY <1>1, <1>2, WFMin
<1>4. ASSUME NEW n \in image PROVE m <= n
  <2>1. m \in Nat /\ n \in Nat
    BY <1>2
  <2>2. ~(n < m)
    BY <1>3, <2>1 DEF OpToRel
  <2> QED BY <2>1, <2>2
<1> QED
  BY <1>4

\* Severities are bounded.
LEMMA SeverityType ==
  ASSUME NEW act PROVE ActionSeverity(act) \in 0..50
BY DEF ActionSeverity

\* Among the rungs a streak has reached one is not surpassed by another.
LEMMA StrongestExists ==
  ASSUME NEW ladder \in Seq(Rule), NEW streak \in Nat,
         Reached(ladder, streak) # {}
  PROVE  \E i \in Reached(ladder, streak) :
           \A j \in Reached(ladder, streak) : ~Stronger(ladder[j], ladder[i])
<1> DEFINE R == Reached(ladder, streak)
           mild == [i \in R |-> 50 - ActionSeverity(ladder[i].action)]
<1>1. ASSUME NEW i \in R
      PROVE  ladder[i].streak \in Nat /\ ladder[i].streak <= streak
  <2>1. ladder[i] \in Rule /\ streak >= ladder[i].streak
    BY DEF Reached
  <2>2. ladder[i].streak \in Nat
    BY <2>1 DEF Rule
  <2> QED BY <2>1, <2>2
<1>2. ASSUME NEW i \in R
      PROVE  /\ mild[i] \in Nat
             /\ ActionSeverity(ladder[i].action) = 50 - mild[i]
  <2>1. ActionSeverity(ladder[i].action) \in 0..50
    BY SeverityType
  <2>2. mild[i] = 50 - ActionSeverity(ladder[i].action)
    OBVIOUS
  <2>3. \A n \in 0..50 : 50 - n \in Nat /\ n = 50 - (50 - n)
    OBVIOUS
  <2> QED BY <2>1, <2>2, <2>3, Zenon
<1>3. PICK i1 \in R : \A j \in R : mild[i1] <= mild[j]
  <2> HIDE DEF mild, R
  <2> QED BY <1>2, LeastBy DEF R
<1> DEFINE S == {j \in R : mild[j] = mild[i1]}
           early == [i \in S |-> streak - ladder[i].streak]
<1>4. S # {} /\ \A i \in S : early[i] \in Nat
  BY <1>1
<1>5. PICK i2 \in S : \A j \in S : early[i2] <= early[j]
  <2> HIDE DEF early, S
  <2> QED BY <1>4, LeastBy
<1>6. ASSUME NEW j \in R PROVE ~Stronger(ladder[j], ladder[i2])
  <2>1. ActionSeverity(ladder[j].action) <= ActionSeverity(ladder[i2].action)
    <3>1. mild[i2] <= mild[j]
      BY <1>3, <1>2
    <3> QED BY <3>1, <1>2
  <2>2. CASE ActionSeverity(ladder[j].action) = ActionSeverity(ladder[i2].action)
    <3>1. j \in S
      BY <2>2, <1>2
    <3>2. ladder[j].streak <= ladder[i2].streak
      BY <3>1, <1>1, <1>5
    <3>3. ~(ladder[j].streak > ladder[i2].streak)
      BY <3>2, <1>1
    <3>4. ~(ActionSeverity(ladder[j].action) > ActionSeverity(ladder[i2].action))
      BY <2>1, <1>2
    <3> QED BY <3>3, <3>4 DEF Stronger
  <2>3. CASE ActionSeverity(ladder[j].action) # ActionSeverity(ladder[i2].action)
    BY <2>1, <2>3, <1>2 DEF Stronger
  <2> QED BY <2>2, <2>3
<1> QED
  BY <1>6

\* The rule that decidePolicy acts on is one that the streak has reached, and
\* no reached rule is stronger: inverting a ladder never demotes an account.
LEMMA MatchedRuleStrongest ==
  ASSUME NEW ladder \in Seq(Rule), NEW streak \in Nat,
         Reached(ladder, streak) # {}
  PROVE  /\ \E i \in Reached(ladder, streak) : MatchedRule(ladder, streak) = ladder[i]
         /\ \A j \in Reached(ladder, streak) :
              ~Stronger(ladder[j], MatchedRule(ladder, streak))
BY StrongestExists DEF MatchedRule

\* A matched rule is a rule.
LEMMA MatchedRuleType ==
  ASSUME NEW ladder \in Seq(Rule), NEW streak \in Nat,
         Reached(ladder, streak) # {}
  PROVE  MatchedRule(ladder, streak) \in Rule
BY MatchedRuleStrongest DEF Reached

\* Every action of a rung gives a well formed outcome, whatever is forbidden.
LEMMA OutcomesOfTiers ==
  ASSUME NEW sw \in Switches, NEW rule \in Rule, NEW never \in BOOLEAN, NEW tier
  PROVE  ApplyActionTier(sw, rule, never, tier) \in Outcome
<1>1. Cooling(sw, rule.sec) \in Outcome /\ Parking(sw, rule.sec) \in Outcome
  BY DEF Cooling, Parking, NoOutcome, Outcome, Switches, Rule
<1>2. TrashOutcome(sw, rule, never, tier) \in Outcome
  BY <1>1 DEF TrashOutcome, TrashUnvetoed, Outcome
<1>3. [NoOutcome EXCEPT !.disable = sw.sentry, !.sec = rule.sec] \in Outcome
  BY DEF NoOutcome, Outcome, Switches, Rule
<1>4. [NoOutcome EXCEPT !.sec = rule.sec] \in Outcome
  BY DEF NoOutcome, Outcome, Rule
<1> QED
  BY <1>1, <1>2, <1>3, <1>4 DEF ApplyActionTier

\* A card asked about a streak gives a well formed outcome.
LEMMA DecidePolicyType ==
  ASSUME NEW sw \in Switches, NEW policy \in Policy, NEW streak \in Nat, NEW tier
  PROVE  DecidePolicy(sw, policy, streak, tier) \in Outcome
<1>1. NoOutcome \in Outcome
  BY DEF NoOutcome, Outcome
<1>2. policy.ladder \in Seq(Rule) /\ policy.never \in BOOLEAN
  BY DEF Policy
<1> QED
  BY <1>1, <1>2, MatchedRuleType, OutcomesOfTiers DEF DecidePolicy

-----------------------------------------------------------------------------
(* The invariant.                                                          *)

Row(acc) == acc \in Account /\ RowCoherent(acc)

IInv == TypeOK /\ OwnershipCoherent

-----------------------------------------------------------------------------
(* Changes of a row.                                                       *)

\* RowCoherent looks at five fields only.
LEMMA SameOwner ==
  ASSUME NEW acc \in Account, RowCoherent(acc), NEW new \in Account,
         new.state = acc.state, new.source = acc.source,
         new.recover = acc.recover, new.pending = acc.pending,
         new.since = acc.since
  PROVE  Row(new)
BY DEF Row, RowCoherent

\* A new row is live and nobody's.
LEMMA NewRow == Row(NewAccount)
BY NewAccountType DEF Row, RowCoherent, NewAccount, IsCooldownState, Cooldowns

\* A stamp says nothing about the owner.
LEMMA StampRow ==
  ASSUME NEW acc, Row(acc), NEW name \in Actions
  PROVE  Row(StampLastAction(acc, name))
<1>1. StampLastAction(acc, name) \in Account
  BY StampType DEF Row
<1> QED
  BY <1>1, SameOwner DEF Row, StampLastAction, Account

\* Time changes no owner, and leaves a cool-down its deadline.
LEMMA LaterRow ==
  ASSUME NEW acc, Row(acc) PROVE Row(OneUnitLater(acc))
<1>1. OneUnitLater(acc) \in Account
  BY OneUnitLaterType DEF Row
<1>2. acc.recover = Unset <=> Nearer(acc.recover) = Unset
  BY NearerType DEF Row, Account
<1>3. acc.since # Unset => Older(acc.since) # Unset
  BY OlderType DEF Row, Account
<1>4. /\ OneUnitLater(acc).state = acc.state
      /\ OneUnitLater(acc).source = acc.source
      /\ OneUnitLater(acc).recover = Nearer(acc.recover)
      /\ OneUnitLater(acc).pending = acc.pending
      /\ OneUnitLater(acc).since = Older(acc.since)
  BY DEF Row, OneUnitLater, Account
<1> QED
  BY <1>1, <1>2, <1>3, <1>4 DEF Row, RowCoherent

\* A cool-down has an owner and a deadline.
LEMMA CoolRow ==
  ASSUME NEW acc \in Account, NEW st \in Cooldowns, NEW timer \in Nat
  PROVE  Row(SetRecoverAt(SetAccountState(acc, st, "plugin_auto"), timer))
<1> DEFINE new == SetRecoverAt(SetAccountState(acc, st, "plugin_auto"), timer)
<1>1. new \in Account
  BY SetAccountStateType, SetRecoverAtType DEF States, Sources, Timer
<1>2. /\ new.state = st /\ new.source = "plugin_auto"
      /\ new.recover = timer /\ new.pending = FALSE
  BY DEF SetRecoverAt, SetAccountState, Account, Cooldowns
<1>3. timer # Unset
  BY DEF Unset
<1> HIDE DEF new
<1>4. Row(new)
  BY <1>1, <1>2, <1>3 DEF Row, RowCoherent, IsCooldownState, Cooldowns
<1> QED
  BY <1>4 DEF new

\* A candidate has an owner, with or without a deadline.
LEMMA DeadRow ==
  ASSUME NEW acc \in Account, NEW timer \in Timer
  PROVE  Row(SetRecoverAt(SetAccountState(acc, "candidate_dead", "plugin_auto"), timer))
<1> DEFINE new == SetRecoverAt(
                    SetAccountState(acc, "candidate_dead", "plugin_auto"), timer)
<1>1. new \in Account
  BY SetAccountStateType, SetRecoverAtType DEF States, Sources
<1>2. /\ new.state = "candidate_dead" /\ new.source = "plugin_auto"
      /\ new.pending = FALSE
  BY DEF SetRecoverAt, SetAccountState, Account
<1> HIDE DEF new
<1>3. Row(new)
  BY <1>1, <1>2 DEF Row, RowCoherent, IsCooldownState, Cooldowns
<1> QED
  BY <1>3 DEF new

\* A lock or a tag has no deadline.
LEMMA LockRow ==
  ASSUME NEW acc \in Account, NEW src \in {"user_manual", "cpa_file_disabled"}
  PROVE  Row(SetRecoverAt(SetAccountState(acc, "user_manual", src), Unset))
<1> DEFINE new == SetRecoverAt(SetAccountState(acc, "user_manual", src), Unset)
<1>1. new \in Account
  BY SetAccountStateType, SetRecoverAtType, FieldValues DEF States, Sources
<1>2. /\ new.state = "user_manual" /\ new.source = src
      /\ new.recover = Unset /\ new.pending = FALSE
  BY DEF SetRecoverAt, SetAccountState, Account
<1> HIDE DEF new
<1>3. Row(new)
  BY <1>1, <1>2 DEF Row, RowCoherent, IsCooldownState, Cooldowns
<1> QED
  BY <1>3 DEF new

\* A file that resists the heal is tagged.
LEMMA TagRow ==
  ASSUME NEW acc \in Account PROVE Row(MarkCPAFileDisabled(acc))
<1>1. MarkCPAFileDisabled(acc) \in Account
  BY MarkCPAFileDisabledType
<1> QED
  BY <1>1 DEF Row, RowCoherent, MarkCPAFileDisabled, Account, IsCooldownState, Cooldowns

\* A recovered row is owned by nobody and watched from now on.
LEMMA ResetRow ==
  ASSUME NEW acc \in Account PROVE Row(ResetToActive(acc))
<1>1. ResetToActive(acc) \in Account
  BY ResetToActiveType
<1>2. ResetToActive(acc).since # Unset
  <2>1. 0 # Unset
    BY DEF Unset
  <2> QED BY <2>1 DEF ResetToActive, Account
<1>3. /\ ResetToActive(acc).state = "active" /\ ResetToActive(acc).source = ""
  BY DEF ResetToActive, Account
<1> QED
  BY <1>1, <1>2, <1>3 DEF Row, RowCoherent, IsCooldownState, Cooldowns

\* The operator's unlock.
LEMMA UnlockRow ==
  ASSUME NEW acc \in Account PROVE Row(ClearManualLock(acc))
<1> DEFINE r == ClearStreaksExcept(ResetToActive(acc), {})
<1>1. r \in Account /\ ClearManualLock(acc) \in Account
  BY ResetToActiveType, ClearStreaksType, ClearManualLockType
<1>2. r.state = "active" /\ r.source = ""
  BY ResetToActiveType DEF ClearStreaksExcept, ResetToActive, Account
<1>3. ClearManualLock(acc) = [r EXCEPT !.sig = "", !.pending = FALSE,
                                       !.since = Unset, !.healFail = 0]
  BY DEF ClearManualLock
<1>4. /\ ClearManualLock(acc).state = "active" /\ ClearManualLock(acc).source = ""
      /\ ClearManualLock(acc).pending = FALSE
  <2> HIDE DEF r
  <2> QED BY <1>1, <1>2, <1>3 DEF Account
<1> QED
  BY <1>1, <1>4 DEF Row, RowCoherent, IsCooldownState, Cooldowns

\* The signal is not about the owner,
LEMMA SignalRow ==
  ASSUME NEW acc, Row(acc), NEW key \in Keys \cup {""}
  PROVE  Row(SetLastSignal(acc, key))
<1>1. SetLastSignal(acc, key) \in Account
  BY SetLastSignalType DEF Row
<1> QED
  BY <1>1, SameOwner DEF Row, SetLastSignal, Account

\* nor is a streak that grows,
LEMMA CountRow ==
  ASSUME NEW acc, Row(acc), NEW key \in Counters
  PROVE  Row(IncStreak(acc, key))
<1>1. IncStreak(acc, key) \in Account
  BY IncStreakType DEF Row
<1> QED
  BY <1>1, SameOwner DEF Row, IncStreak, Account

\* nor one that is cleared,
LEMMA ForgetRow ==
  ASSUME NEW acc, Row(acc), NEW keep
  PROVE  Row(ClearStreaksExcept(acc, keep))
<1>1. ClearStreaksExcept(acc, keep) \in Account
  BY ClearStreaksType DEF Row
<1> QED
  BY <1>1, SameOwner DEF Row, ClearStreaksExcept, Account

\* nor the counters of the heal.
LEMMA HealRow ==
  ASSUME NEW acc, Row(acc)
  PROVE  /\ Row(TouchLastHealAt(acc))
         /\ Row(IncHealFailStreak(acc))
         /\ Row(ClearHealFailStreak(acc))
<1>1. /\ TouchLastHealAt(acc) \in Account
      /\ IncHealFailStreak(acc) \in Account
      /\ ClearHealFailStreak(acc) \in Account
  BY HealFieldsType DEF Row
<1>2. Row(TouchLastHealAt(acc))
  BY <1>1, SameOwner DEF Row, TouchLastHealAt, Account
<1>3. Row(IncHealFailStreak(acc))
  BY <1>1, SameOwner DEF Row, IncHealFailStreak, Account
<1>4. Row(ClearHealFailStreak(acc))
  BY <1>1, SameOwner DEF Row, ClearHealFailStreak, Account
<1> QED
  BY <1>2, <1>3, <1>4

\* The end of the watch.
LEMMA UnwatchedRow ==
  ASSUME NEW acc, Row(acc)
  PROVE  Row(ClearPendingObserve(acc)) /\ Row(ExpireIdlePending(acc))
<1>1. ClearPendingObserve(acc) \in Account /\ ExpireIdlePending(acc) \in Account
  BY ClearPendingType DEF Row
<1>2. Row(ClearPendingObserve(acc))
  BY <1>1 DEF Row, RowCoherent, ClearPendingObserve, Account
<1>3. Row(ExpireIdlePending(acc))
  BY <1>1 DEF Row, RowCoherent, ExpireIdlePending, Account
<1> QED
  BY <1>2, <1>3

\* Only a live row takes a hint, and it may have any deadline.
LEMMA HintRow ==
  ASSUME NEW acc, Row(acc), NEW reset \in Timer
  PROVE  Row(UpdateQuota(acc, reset))
<1>1. CASE acc.state # "active"
  BY <1>1 DEF UpdateQuota
<1>2. CASE acc.state = "active"
  <2>1. SetRecoverAt(acc, reset) \in Account
    BY SetRecoverAtType DEF Row
  <2>2. Row(SetRecoverAt(acc, reset))
    BY <2>1, <1>2
    DEF Row, RowCoherent, SetRecoverAt, Account, IsCooldownState, Cooldowns
  <2> QED
    BY <2>2 DEF UpdateQuota
<1> QED
  BY <1>1, <1>2

-----------------------------------------------------------------------------
(* What CPA answers, and what the policy decides.                          *)

\* A PATCH leaves a file open or closed.
LEMMA PatchType ==
  ASSUME NEW want \in BOOLEAN, NEW file \in BOOLEAN, NEW p \in Patch(want, file)
  PROVE  p.off \in BOOLEAN
<1>1. \/ p = [ok |-> TRUE, off |-> want]
      \/ \E f \in {want, file} : p = [ok |-> FALSE, off |-> f]
  BY Zenon DEF Patch
<1> QED
  BY <1>1

\* A verified change leaves a file open or closed, and the fuse in its range.
LEMMA EnsureType ==
  ASSUME NEW want \in BOOLEAN, NEW file \in BOOLEAN, NEW n \in 0..VerifyFuse,
         NEW x \in EnsureFile(want, file, n)
  PROVE  x.off \in BOOLEAN /\ x.fuse \in 0..VerifyFuse
<1>1. /\ 0 \in 0..VerifyFuse /\ 1 \in 0..VerifyFuse /\ VerifyFuse \in 0..VerifyFuse
      /\ ~(n + 1 >= VerifyFuse) => n + 1 \in 0..VerifyFuse
  BY ConfigAssumption
<1> QED
  BY <1>1 DEF EnsureFile

\* The card of the class or any_error's gives a well formed outcome.
LEMMA VerdictType ==
  ASSUME NEW a \in Auth, NEW acc \in Account, NEW e \in Errors
  PROVE  Verdict(a, acc, e).out \in Outcome
<1>1. ASSUME NEW k \in DOMAIN Cards
      PROVE  DecidePolicy(Sw, Cards[k], acc.streak[k], Plan[a]) \in Outcome
  <2>1. acc.streak[k] \in Nat
    <3>1. k \in Counters
      BY PolicyAssumption
    <3>2. acc.streak \in [Counters -> 0..MaxStreak]
      BY DEF Account
    <3> QED BY <3>1, <3>2, BoundsAssumption
  <2> QED
    BY <2>1, PolicyAssumption, DecidePolicyType
<1>2. NoOutcome \in Outcome
  BY DEF NoOutcome, Outcome
<1> QED
  BY <1>1, <1>2, PolicyAssumption DEF Verdict

\* Every cool-down has a deadline, wherever its length comes from.
LEMMA RecoverTimerType ==
  ASSUME NEW e \in Errors, NEW v, v.out \in Outcome
  PROVE  RecoverTimer(e, v) \in Nat
<1>1. e.reset # Unset => e.reset \in Nat
  BY TrafficAssumption DEF Failure
<1>2. v.out.sec \in Nat
  BY DEF Outcome
<1>3. v.card \in DOMAIN Cards => Cards[v.card].sec \in Nat
  BY PolicyAssumption DEF Policy
<1>4. {MaxReset, Day, PermissionCooldown, Auth401Cooldown} \subseteq Nat
  BY ConfigAssumption
<1>5. ASSUME NEW timer \in Nat PROVE Capped(timer) \in Nat
  BY <1>4 DEF Capped
<1> DEFINE T == IF e.reset # Unset THEN e.reset
                ELSE IF v.out.sec > 0 THEN v.out.sec
                ELSE IF v.card \in DOMAIN Cards /\ Cards[v.card].sec > 0
                     THEN Cards[v.card].sec
                ELSE IF e.signal = "permission_403" THEN PermissionCooldown
                ELSE IF e.signal = "auth_401" THEN Auth401Cooldown
                ELSE Day
<1>6. T \in Nat
  BY <1>1, <1>2, <1>3, <1>4
<1> HIDE DEF T
<1>7. Capped(T) \in Nat
  BY <1>5, <1>6
<1> QED
  BY <1>7 DEF RecoverTimer, T

\* Every signal has a cool-down state.
LEMMA CooldownState ==
  ASSUME NEW signal PROVE CooldownStateForSignal(signal) \in Cooldowns
BY DEF CooldownStateForSignal, Cooldowns

-----------------------------------------------------------------------------
(* What the handlers may leave.                                            *)

Good(r) == Row(r.acc) /\ r.off \in BOOLEAN /\ r.fuse \in 0..VerifyFuse

\* An outcome is good when its parts are.
LEMMA GoodResult ==
  ASSUME NEW acc, Row(acc), NEW file \in BOOLEAN, NEW n \in 0..VerifyFuse, NEW failed
  PROVE  Good(Result(acc, file, n, failed))
BY DEF Good, Result

\* HandleUsage, a failure: counting it,
LEMMA CountedRow ==
  ASSUME NEW acc, Row(acc), NEW e \in Errors PROVE Row(Counted(acc, e))
<1> DEFINE hinted == IF e.signal = "free_usage_429" THEN UpdateQuota(acc, e.reset)
                                                    ELSE acc
           begun == BeginFingerprintRun(hinted, e.key)
<1>1. e.reset \in Timer /\ e.key \in Counters /\ "any_error" \in Counters
  BY TrafficAssumption DEF Failure, Timer, Counters
<1>2. Row(hinted)
  BY <1>1, HintRow
<1> HIDE DEF hinted
<1>3. Row(begun)
  BY <1>2, ForgetRow DEF BeginFingerprintRun
<1> HIDE DEF begun
<1>4. Row(IncStreak(IncStreak(begun, e.key), "any_error"))
  BY <1>1, <1>3, CountRow
<1> QED
  BY <1>4 DEF Counted, begun, hinted

\* cooling the account down,
LEMMA ApplyCooldownGood ==
  ASSUME TypeOK, NEW acc, Row(acc), NEW file \in BOOLEAN, NEW e \in Errors,
         NEW v, v.out \in Outcome, NEW r \in ApplyCooldown(acc, file, e, v)
  PROVE  Good(r)
<1> DEFINE st == IF v.card = "any_error" THEN "cooldown_policy"
                                         ELSE CooldownStateForSignal(e.signal)
           cooled == SetRecoverAt(SetAccountState(acc, st, "plugin_auto"),
                                  RecoverTimer(e, v))
           owned == StampLastAction(cooled, "cooldown")
<1>1. st \in Cooldowns
  BY CooldownState DEF Cooldowns
<1> HIDE DEF st
<1>2. Row(cooled)
  BY <1>1, RecoverTimerType, CoolRow DEF Row
<1> HIDE DEF cooled
<1>3. {"cooldown", "cooldown_failed", "cooldown_file_still_open"} \subseteq Actions
  BY DEF Actions
<1>4. Row(owned)
  BY <1>2, <1>3, StampRow
<1> HIDE DEF owned
<1>5. /\ Row(StampLastAction(acc, "cooldown"))
      /\ Row(StampLastAction(owned, "cooldown_failed"))
      /\ Row(StampLastAction(owned, "cooldown_file_still_open"))
  BY <1>3, <1>4, StampRow
<1>6. fuse \in 0..VerifyFuse
  BY DEF TypeOK
<1> DEFINE noted(result) ==
             CASE result = "err"   -> StampLastAction(owned, "cooldown_failed")
               [] result = "still" -> StampLastAction(owned, "cooldown_file_still_open")
               [] OTHER            -> owned
<1>7. ASSUME NEW result PROVE Row(noted(result))
  BY <1>4, <1>5
<1>8. ApplyCooldown(acc, file, e, v) =
        IF CoolsAlready(acc, st)
        THEN {Result(StampLastAction(acc, "cooldown"), x.off, x.fuse, FALSE) :
                x \in EnsureFile(TRUE, file, fuse)}
        ELSE {Result(noted(x.result), x.off, x.fuse, x.result = "err") :
                x \in EnsureFile(TRUE, file, fuse)}
  BY DEF ApplyCooldown, owned, cooled, st
<1> HIDE DEF noted
<1>9. PICK x \in EnsureFile(TRUE, file, fuse) :
        \/ r = Result(StampLastAction(acc, "cooldown"), x.off, x.fuse, FALSE)
        \/ r = Result(noted(x.result), x.off, x.fuse, x.result = "err")
  BY <1>8
<1>10. x.off \in BOOLEAN /\ x.fuse \in 0..VerifyFuse
  BY <1>6, <1>9, EnsureType
<1>11. Row(noted(x.result))
  BY <1>7
<1>12. CASE r = Result(StampLastAction(acc, "cooldown"), x.off, x.fuse, FALSE)
  BY <1>5, <1>10, <1>12, GoodResult
<1>13. CASE r = Result(noted(x.result), x.off, x.fuse, x.result = "err")
  <2> DEFINE new == noted(x.result)
             err == x.result = "err"
  <2>1. Row(new) /\ r = Result(new, x.off, x.fuse, err)
    BY <1>11, <1>13
  <2> HIDE DEF new, err
  <2> QED BY <1>10, <2>1, GoodResult
<1> QED
  BY <1>9, <1>12, <1>13

\* parking it,
LEMMA ApplyCandidateGood ==
  ASSUME NEW q, Good(q), NEW e \in Errors, NEW r \in ApplyCandidate(q, e)
  PROVE  Good(r)
<1> DEFINE dead == SetAccountState(q.acc, "candidate_dead", "plugin_auto")
           timer == IF e.signal # "auth_401" THEN Unset
                    ELSE IF dead.recover # Unset THEN dead.recover
                    ELSE IF Auth401Cooldown > 0 THEN Auth401Cooldown
                    ELSE 2 * ReloginCap
           cooled == SetRecoverAt(dead, timer)
           parked == StampLastAction(cooled, "candidate")
<1>1. q.acc \in Account
  BY DEF Good, Row
<1>2. dead \in Account
  BY <1>1, SetAccountStateType DEF States, Sources
<1> HIDE DEF dead
<1>3. timer \in Timer
  <2>1. Auth401Cooldown \in Timer /\ 2 * ReloginCap \in Timer
    BY ConfigAssumption DEF Timer
  <2>2. dead.recover \in Timer
    BY <1>2 DEF Account
  <2> QED BY <2>1, <2>2, FieldValues
<1> HIDE DEF timer
<1>4. Row(cooled)
  BY <1>1, <1>3, DeadRow DEF dead
<1> HIDE DEF cooled
<1>5. Row(parked)
  BY <1>4, StampRow DEF Actions
<1> HIDE DEF parked
<1>6. \/ \E x \in EnsureFile(TRUE, q.off, q.fuse) : r = Result(parked, x.off, x.fuse, FALSE)
      \/ \E p \in Patch(TRUE, q.off) : r = Result(parked, p.off, q.fuse, FALSE)
  BY DEF ApplyCandidate, parked, cooled, timer, dead
<1>7. q.off \in BOOLEAN /\ q.fuse \in 0..VerifyFuse
  BY DEF Good
<1>8. CASE \E x \in EnsureFile(TRUE, q.off, q.fuse) :
             r = Result(parked, x.off, x.fuse, FALSE)
  BY <1>5, <1>7, <1>8, EnsureType, GoodResult
<1>9. CASE \E p \in Patch(TRUE, q.off) : r = Result(parked, p.off, q.fuse, FALSE)
  BY <1>5, <1>7, <1>9, PatchType, GoodResult
<1> QED
  BY <1>6, <1>8, <1>9

\* trying its login again,
LEMMA TryReloginGood ==
  ASSUME NEW q, Good(q), NEW r \in TryReloginFirst(q) PROVE Good(r)
<1> DEFINE timer == IF Auth401Cooldown = 0 \/ Auth401Cooldown > ReloginCap
                    THEN ReloginCap ELSE Auth401Cooldown
           stamped == StampLastAction(q.acc, "relogin")
           cooling == SetRecoverAt(
                        SetAccountState(stamped, "cooldown_auth", "plugin_auto"), timer)
           new == SetLastSignal(cooling, "auth_401")
<1>1. stamped \in Account
  BY StampType DEF Good, Row, Actions
<1>2. timer \in Nat
  BY ConfigAssumption
<1> HIDE DEF timer, stamped
<1>3. Row(cooling)
  BY <1>1, <1>2, CoolRow DEF Cooldowns
<1> HIDE DEF cooling
<1>4. Row(new)
  BY <1>3, SignalRow, KeysAssumption
<1> HIDE DEF new
<1>5. PICK x \in EnsureFile(TRUE, q.off, q.fuse) : r = Result(new, x.off, x.fuse, FALSE)
  BY DEF TryReloginFirst, new, cooling, stamped, timer
<1> QED
  BY <1>4, <1>5, EnsureType, GoodResult DEF Good

\* locking it,
LEMMA ApplyPermanentGood ==
  ASSUME TypeOK, NEW acc, Row(acc), NEW file \in BOOLEAN,
         NEW r \in ApplyPermanentDisable(acc, file)
  PROVE  Good(r)
<1> DEFINE fresh == SetRecoverAt(
                      SetAccountState(acc, "user_manual", "user_manual"), Unset)
           already == acc.state = "user_manual" /\ acc.source = "user_manual"
           locked == IF already THEN acc ELSE fresh
<1>1. Row(fresh)
  BY LockRow DEF Row
<1> HIDE DEF fresh
<1>2. Row(locked)
  BY <1>1
<1> HIDE DEF locked
<1>3. Row(StampLastAction(locked, "manual_disable"))
  BY <1>2, StampRow DEF Actions
<1>4. PICK p \in Patch(TRUE, file) :
        r = Result(StampLastAction(locked, "manual_disable"), p.off, fuse, ~p.ok)
  BY DEF ApplyPermanentDisable, locked, fresh
<1> QED
  BY <1>3, <1>4, PatchType, GoodResult DEF TypeOK

\* and all of it in the order of the policy.
LEMMA FailureGood ==
  ASSUME IInv, NEW a \in Auth, NEW e \in Errors, NEW r \in FailureOutcomes(a, e)
  PROVE  Good(r)
<1> DEFINE acc == Counted(acct[a], e)
           v == Verdict(a, acc, e)
           cooled == IF v.out.cooldown THEN ApplyCooldown(acc, off[a], e, v)
                     ELSE {Result(acc, off[a], fuse, FALSE)}
<1>1. TypeOK /\ Row(acct[a]) /\ off[a] \in BOOLEAN /\ fuse \in 0..VerifyFuse
  BY DEF IInv, TypeOK, OwnershipCoherent, Row
<1>2. Row(acc)
  BY <1>1, CountedRow
<1> HIDE DEF acc
<1>3. v.out \in Outcome
  BY <1>2, VerdictType DEF Row
<1> HIDE DEF v
<1>4. ASSUME NEW q \in cooled PROVE Good(q)
  BY <1>1, <1>2, <1>3, ApplyCooldownGood, GoodResult
<1> HIDE DEF cooled
<1>5. \/ r \in ApplyPermanentDisable(acc, off[a])
      \/ \E q \in cooled : \/ r = q
                           \/ r \in ApplyCandidate(q, e)
                           \/ r \in TryReloginFirst(q)
  BY DEF FailureOutcomes, cooled, v, acc
<1> QED
  BY <1>1, <1>2, <1>4, <1>5, ApplyPermanentGood, ApplyCandidateGood, TryReloginGood

\* tick: the candidate that must wait for the operator.
LEMMA HoldRow ==
  ASSUME NEW acc, Row(acc) PROVE Row(HoldCandidate(acc))
<1>1. CASE acc.state = "candidate_dead"
  <2>1. SetRecoverAt(acc, Unset) \in Account
    BY SetRecoverAtType, FieldValues DEF Row
  <2>2. Row(SetRecoverAt(acc, Unset))
    BY <2>1, <1>1
    DEF Row, RowCoherent, SetRecoverAt, Account, IsCooldownState, Cooldowns
  <2>3. Row(StampLastAction(SetRecoverAt(acc, Unset), "candidate_hold"))
    BY <2>2, StampRow DEF Actions
  <2> QED
    BY <2>3 DEF HoldCandidate
<1> QED
  BY <1>1 DEF HoldCandidate

\* A recovery, done, failed or refused.
LEMMA RecoverGood ==
  ASSUME TypeOK, NEW acc, Row(acc), NEW file \in BOOLEAN,
         NEW r \in RecoverOutcomes(acc, file)
  PROVE  Good(r)
<1> DEFINE back(result) ==
             IF result = "err" THEN StampLastAction(acc, "reenable_failed")
                               ELSE Recovered(acc)
<1>1. fuse \in 0..VerifyFuse
  BY DEF TypeOK
<1>2. CASE HeldForOperator(acc)
  <2>1. SetRecoverAt(acc, Unset) \in Account
    BY SetRecoverAtType, FieldValues DEF Row
  <2>2. Row(SetRecoverAt(acc, Unset))
    BY <2>1, <1>2 DEF HeldForOperator,
       Row, RowCoherent, SetRecoverAt, Account, IsCooldownState, Cooldowns
  <2>3. RecoverOutcomes(acc, file) = {Result(SetRecoverAt(acc, Unset), file, fuse, TRUE)}
    BY <1>2, Zenon DEF RecoverOutcomes
  <2> QED
    BY <1>1, <2>2, <2>3, GoodResult
<1>3. CASE ~HeldForOperator(acc) /\ ~CanAutoReenable(acc)
  <2>1. r = Result(acc, file, fuse, TRUE)
    BY <1>3 DEF RecoverOutcomes
  <2> QED
    BY <1>1, <2>1, GoodResult
<1>4. CASE ~HeldForOperator(acc) /\ CanAutoReenable(acc)
  <2>1. PICK x \in EnsureFile(FALSE, file, fuse) :
          r = Result(back(x.result), x.off, x.fuse, x.result = "err")
    BY <1>4 DEF RecoverOutcomes
  <2>2. Row(Recovered(acc))
    BY ResetRow, StampRow DEF Recovered, Row, Actions
  <2>3. Row(StampLastAction(acc, "reenable_failed"))
    BY StampRow DEF Actions
  <2> DEFINE new == back(x.result)
             err == x.result = "err"
  <2>4. Row(new) /\ r = Result(new, x.off, x.fuse, err)
    BY <2>1, <2>2, <2>3
  <2> HIDE DEF new, err
  <2>5. x.off \in BOOLEAN /\ x.fuse \in 0..VerifyFuse
    BY <1>1, <2>1, EnsureType
  <2> QED
    BY <2>4, <2>5, GoodResult
<1> QED
  BY <1>2, <1>3, <1>4

\* Closing an owned file again.
LEMMA ReassertGood ==
  ASSUME TypeOK, NEW acc, Row(acc), NEW file \in BOOLEAN, NEW r \in Reassert(acc, file)
  PROVE  Good(r)
<1> DEFINE name(result) == CASE result = "err"   -> "cooldown_reassert_failed"
                             [] result = "still" -> "cooldown_file_still_open"
                             [] OTHER            -> "cooldown_reassert"
<1>1. PICK x \in EnsureFile(TRUE, file, fuse) :
        r = Result(StampLastAction(acc, name(x.result)), x.off, x.fuse, FALSE)
  BY DEF Reassert
<1>2. name(x.result) \in Actions
  BY DEF Actions
<1> HIDE DEF name
<1>3. Row(StampLastAction(acc, name(x.result)))
  BY <1>2, StampRow
<1>4. x.off \in BOOLEAN /\ x.fuse \in 0..VerifyFuse
  BY <1>1, EnsureType DEF TypeOK
<1> QED
  BY <1>1, <1>3, <1>4, GoodResult

\* Opening a file that nobody owns.
LEMMA ReopenForeignGood ==
  ASSUME TypeOK, NEW acc, Row(acc), NEW file \in BOOLEAN,
         NEW r \in ReopenForeignFile(acc, file)
  PROVE  Good(r)
<1> DEFINE freed == IF acc.source = "cpa_file_disabled" THEN ResetToActive(acc) ELSE acc
<1>1. Row(freed)
  BY ResetRow DEF Row
<1> HIDE DEF freed
<1>2. /\ Row(StampLastAction(freed, "reopen_foreign"))
      /\ Row(StampLastAction(acc, "reopen_foreign_failed"))
  BY <1>1, StampRow DEF Actions
<1>3. PICK p \in Patch(FALSE, file) :
        r = Result(StampLastAction(IF p.ok THEN freed ELSE acc,
                                   IF p.ok THEN "reopen_foreign"
                                           ELSE "reopen_foreign_failed"),
                   p.off, fuse, FALSE)
  BY DEF ReopenForeignFile, freed
<1>4. p.off \in BOOLEAN /\ fuse \in 0..VerifyFuse
  BY <1>3, PatchType DEF TypeOK
<1>5. CASE p.ok
  BY <1>2, <1>3, <1>4, <1>5, GoodResult
<1>6. CASE ~p.ok
  BY <1>2, <1>3, <1>4, <1>6, GoodResult
<1> QED
  BY <1>5, <1>6

\* Tagging a file that nobody owns.
LEMMA TagForeignGood ==
  ASSUME TypeOK, NEW acc, Row(acc), NEW file \in BOOLEAN,
         NEW r \in TagForeignFile(acc, file)
  PROVE  Good(r)
<1> DEFINE tagged == SetRecoverAt(
                       SetAccountState(acc, "user_manual", "cpa_file_disabled"), Unset)
<1>1. Row(tagged)
  BY LockRow DEF Row
<1> HIDE DEF tagged
<1>2. Row(StampLastAction(tagged, "file_disabled_sync"))
  BY <1>1, StampRow DEF Actions
<1>3. r = Result(StampLastAction(tagged, "file_disabled_sync"), file, fuse, FALSE)
  BY DEF TagForeignFile, tagged
<1> QED
  BY <1>2, <1>3, GoodResult DEF TypeOK

\* One file of the synchronisation.
LEMMA SyncGood ==
  ASSUME TypeOK, NEW acc, Row(acc), NEW file \in BOOLEAN, NEW shut,
         NEW r \in SyncFile(acc, file, shut)
  PROVE  Good(r)
<1>1. \/ r = Result(acc, file, fuse, FALSE)
      \/ r \in Reassert(acc, file)
      \/ r \in ReopenForeignFile(acc, file)
      \/ r \in TagForeignFile(acc, file)
  BY DEF SyncFile
<1>2. fuse \in 0..VerifyFuse
  BY DEF TypeOK
<1> QED
  BY <1>1, <1>2, GoodResult, ReassertGood, ReopenForeignGood, TagForeignGood

\* Freeing a tagged row.
LEMMA DropTagRow ==
  ASSUME NEW acc, Row(acc), NEW shut PROVE Row(DropTag(acc, shut))
BY ResetRow, StampRow DEF DropTag, Row, Actions

\* Healing the closed file of a live row.
LEMMA HealGood ==
  ASSUME TypeOK, NEW acc, Row(acc), NEW file \in BOOLEAN,
         NEW r \in HealOutcomes(acc, file)
  PROVE  Good(r)
<1> DEFINE tried == TouchLastHealAt(acc)
           failed == IncHealFailStreak(tried)
           after(result) ==
             CASE result = "ok" ->
                    StampLastAction(ClearHealFailStreak(tried), "heal_active_file")
               [] result = "still" ->
                    IF failed.healFail >= HealStuckAfter
                    THEN StampLastAction(MarkCPAFileDisabled(failed),
                                         "heal_active_file_stuck")
                    ELSE StampLastAction(failed, "heal_active_file_failed")
               [] OTHER -> StampLastAction(tried, "heal_active_file_failed")
<1>1. PICK x \in EnsureFile(FALSE, file, fuse) :
        r = Result(after(x.result), x.off, x.fuse, FALSE)
  BY DEF HealOutcomes
<1>2. Row(tried)
  BY HealRow
<1> HIDE DEF tried
<1>3. Row(ClearHealFailStreak(tried)) /\ Row(failed)
  BY <1>2, HealRow
<1> HIDE DEF failed
<1>4. Row(MarkCPAFileDisabled(failed))
  BY <1>3, TagRow DEF Row
<1>5. /\ Row(StampLastAction(ClearHealFailStreak(tried), "heal_active_file"))
      /\ Row(StampLastAction(MarkCPAFileDisabled(failed), "heal_active_file_stuck"))
      /\ Row(StampLastAction(failed, "heal_active_file_failed"))
      /\ Row(StampLastAction(tried, "heal_active_file_failed"))
  BY <1>2, <1>3, <1>4, StampRow DEF Actions
<1> DEFINE new == after(x.result)
<1>6. Row(new) /\ r = Result(new, x.off, x.fuse, FALSE)
  BY <1>1, <1>5
<1> HIDE DEF new
<1>7. x.off \in BOOLEAN /\ x.fuse \in 0..VerifyFuse
  BY <1>1, EnsureType DEF TypeOK
<1> QED
  BY <1>6, <1>7, GoodResult

\* The watch that has lasted too long.
LEMMA ExpireRow ==
  ASSUME NEW acc, Row(acc) PROVE Row(ExpireIdlePendingObserve(acc))
<1>1. Row(ExpireIdlePending(acc))
  BY UnwatchedRow
<1>2. ExpireIdlePendingObserve(acc) \in {acc, ExpireIdlePending(acc)}
  BY DEF ExpireIdlePendingObserve
<1> QED
  BY <1>1, <1>2

\* The repair of a half-done recovery never fires: a live row has no owner.
LEMMA ScrubRow ==
  ASSUME NEW acc, Row(acc) PROVE Row(ScrubDirtyActive(acc))
<1>1. ClearCoolDownResidue(acc) \in Account
  BY ClearCoolDownResidueType DEF Row
<1>2. CASE acc.state = "active"
  <2>1. acc.source = ""
    BY <1>2 DEF Row, RowCoherent
  <2>2. /\ ClearCoolDownResidue(acc).state = "active"
        /\ ClearCoolDownResidue(acc).source = ""
    BY <2>1 DEF ClearCoolDownResidue, Row, Account
  <2>3. ClearCoolDownResidue(acc).since # Unset
    <3>1. 0 # Unset
      BY DEF Unset
    <3> QED BY <3>1 DEF ClearCoolDownResidue, Row, RowCoherent, Account
  <2>4. Row(ClearCoolDownResidue(acc))
    BY <1>1, <2>2, <2>3 DEF Row, RowCoherent, IsCooldownState, Cooldowns
  <2>5. Row(StampLastAction(ClearCoolDownResidue(acc), "scrub_active"))
    BY <2>4, StampRow DEF Actions
  <2> QED
    BY <1>2, <2>1, <2>5 DEF ScrubDirtyActive
<1>3. CASE acc.state # "active"
  BY <1>3 DEF ScrubDirtyActive
<1> QED
  BY <1>2, <1>3

\* The success that ends a run of errors.
LEMMA EndErrorRunRow ==
  ASSUME NEW acc, Row(acc) PROVE Row(EndErrorRun(acc))
<1>1. Row(SetLastSignal(acc, ""))
  BY SignalRow
<1>2. Row(ClearPendingObserve(SetLastSignal(acc, "")))
  BY <1>1, UnwatchedRow
<1> QED
  BY <1>1, <1>2 DEF EndErrorRun

\* The probe that was answered.
LEMMA ReopenRow ==
  ASSUME NEW acc, Row(acc), NEW answered
  PROVE  Row(ReopenAfterProbeAlive(acc, answered))
<1>1. Row(ResetToActive(acc)) /\ Row(ClearManualLock(acc))
  BY ResetRow, UnlockRow DEF Row
<1>2. Row(ResetToActive(ClearManualLock(acc)))
  BY <1>1, ResetRow DEF Row
<1>3. {"patrol_alive_reopen", "patrol_alive_open", "patrol_alive"} \subseteq Actions
  BY DEF Actions
<1>4. /\ Row(StampLastAction(ResetToActive(ClearManualLock(acc)), "patrol_alive_reopen"))
      /\ Row(StampLastAction(ResetToActive(acc), "patrol_alive_reopen"))
      /\ Row(StampLastAction(acc, "patrol_alive_open"))
      /\ Row(StampLastAction(acc, "patrol_alive"))
  BY <1>1, <1>2, <1>3, StampRow
<1> QED
  BY <1>4 DEF ReopenAfterProbeAlive

-----------------------------------------------------------------------------
(* The actions.                                                            *)

\* The counters may start from nothing.
LEMMA Zeroes == 0 \in 0..MaxRecoverPerTick /\ 0 \in 0..VerifyFuse
BY ConfigAssumption

\* What a proof about one action starts from.
LEMMA Given ==
  ASSUME IInv
  PROVE  /\ TypeOK /\ fuse \in 0..VerifyFuse
         /\ \A a \in Auth : Row(acct[a]) /\ off[a] \in BOOLEAN
BY DEF IInv, TypeOK, OwnershipCoherent, Row

\* An action that changes one row at most, its file and the fuse.
LEMMA OneRow ==
  ASSUME IInv, NEW a \in Auth, NEW acc, Row(acc),
         acct' = [acct EXCEPT ![a] = acc],
         off' \in [Auth -> BOOLEAN], fuse' \in 0..VerifyFuse,
         phase' \in Phases, todo' \in SUBSET Auth, manual' \in BOOLEAN,
         recovered' \in 0..MaxRecoverPerTick, backfill' \in SUBSET Auth,
         calm' \in BOOLEAN
  PROVE  IInv'
<1>1. acct' \in [Auth -> Account]
  BY DEF IInv, TypeOK, Row
<1>2. \A b \in Auth : RowCoherent(acct'[b])
  BY DEF IInv, TypeOK, OwnershipCoherent, Row
<1>3. TypeOK'
  BY <1>1 DEF TypeOK, Phases
<1>4. OwnershipCoherent'
  BY <1>2 DEF OwnershipCoherent
<1> QED
  BY <1>3, <1>4 DEF IInv

\* An action that changes every row.
LEMMA EveryRow ==
  ASSUME acct' \in [Auth -> Account], \A a \in Auth : RowCoherent(acct'[a]),
         off' \in [Auth -> BOOLEAN], fuse' \in 0..VerifyFuse,
         phase' \in Phases, todo' \in SUBSET Auth, manual' \in BOOLEAN,
         recovered' \in 0..MaxRecoverPerTick, backfill' \in SUBSET Auth,
         calm' \in BOOLEAN
  PROVE  IInv'
<1>1. TypeOK'
  BY DEF TypeOK, Phases
<1>2. OwnershipCoherent'
  BY DEF OwnershipCoherent
<1> QED
  BY <1>1, <1>2 DEF IInv

\* HandleUsage keeps the invariant: a success,
LEMMA UsageSuccessKeeps ==
  ASSUME IInv, NEW a \in Auth, NEW reset \in Hints, UsageSuccess(a, reset)
  PROVE  IInv'
<1> DEFINE forgot == ClearStreaksByCountMode(acct[a])
           ended == EndErrorRun(forgot)
           new == UpdateQuota(ended, reset)
<1>1. Row(forgot)
  BY Given, ForgetRow DEF ClearStreaksByCountMode
<1> HIDE DEF forgot
<1>2. Row(ended)
  BY <1>1, EndErrorRunRow
<1> HIDE DEF ended
<1>3. Row(new)
  BY <1>2, HintRow, TrafficAssumption
<1> HIDE DEF new
<1>4. acct' = [acct EXCEPT ![a] = new]
  BY DEF UsageSuccess, new, ended, forgot
<1> QED
  BY <1>3, <1>4, OneRow DEF UsageSuccess, tickVars, IInv, TypeOK

\* a success of the patrol,
LEMMA PatrolSuccessKeeps ==
  ASSUME IInv, NEW a \in Auth, NEW reset \in Hints, PatrolSuccess(a, reset)
  PROVE  IInv'
<1>1. PICK p \in IF acct[a].state \in {"trashed", "purged"}
                 THEN {[ok |-> FALSE, off |-> off[a]]}
                 ELSE Patch(FALSE, off[a]) :
        /\ off' = [off EXCEPT ![a] = p.off]
        /\ acct' = [acct EXCEPT ![a] =
                      UpdateQuota(EndErrorRun(ReopenAfterProbeAlive(
                        ClearStreaksByCountMode(@), p.ok)), reset)]
  BY DEF PatrolSuccess
<1>2. p.off \in BOOLEAN
  <2>1. off[a] \in BOOLEAN
    BY Given
  <2>2. CASE p \in Patch(FALSE, off[a])
    BY <2>1, <2>2, PatchType
  <2>3. CASE p = [ok |-> FALSE, off |-> off[a]]
    BY <2>1, <2>3
  <2> QED
    BY <1>1, <2>2, <2>3
<1> DEFINE forgot == ClearStreaksByCountMode(acct[a])
           probed == ReopenAfterProbeAlive(forgot, p.ok)
           ended == EndErrorRun(probed)
           new == UpdateQuota(ended, reset)
<1>3. Row(forgot)
  BY Given, ForgetRow DEF ClearStreaksByCountMode
<1> HIDE DEF forgot
<1>4. Row(probed)
  BY <1>3, ReopenRow
<1> HIDE DEF probed
<1>5. Row(ended)
  BY <1>4, EndErrorRunRow
<1> HIDE DEF ended
<1>6. Row(new)
  BY <1>5, HintRow, TrafficAssumption
<1> HIDE DEF new
<1>7. acct' = [acct EXCEPT ![a] = new]
  BY <1>1 DEF new, ended, probed, forgot
<1>8. off' \in [Auth -> BOOLEAN]
  BY <1>1, <1>2 DEF IInv, TypeOK
<1> QED
  BY <1>6, <1>7, <1>8, OneRow DEF PatrolSuccess, tickVars, IInv, TypeOK

\* a failure.
LEMMA HandleFailureKeeps ==
  ASSUME IInv, NEW a \in Auth, NEW e \in Errors, HandleFailure(a, e)
  PROVE  IInv'
<1>1. PICK r \in FailureOutcomes(a, e) :
        /\ acct' = [acct EXCEPT ![a] = r.acc]
        /\ off' = [off EXCEPT ![a] = r.off]
        /\ fuse' = r.fuse
  BY DEF HandleFailure
<1>2. Row(r.acc) /\ r.off \in BOOLEAN /\ r.fuse \in 0..VerifyFuse
  BY FailureGood DEF Good
<1>3. off' \in [Auth -> BOOLEAN] /\ fuse' \in 0..VerifyFuse
  BY <1>1, <1>2 DEF IInv, TypeOK
<1> QED
  BY <1>1, <1>2, <1>3, OneRow DEF HandleFailure, tickVars, IInv, TypeOK

\* tick keeps it: its start,
LEMMA TickStartKeeps ==
  ASSUME IInv, TickStart PROVE IInv'
<1>1. ASSUME NEW a \in Auth PROVE Row(HoldCandidate(acct[a]))
  BY Given, HoldRow
<1>2. acct' \in [Auth -> Account] /\ \A a \in Auth : RowCoherent(acct'[a])
  BY <1>1 DEF TickStart, Row
<1>3. manual' \in BOOLEAN /\ phase' \in Phases /\ todo' \in SUBSET Auth
  BY DEF TickStart, Phases
<1> QED
  BY <1>2, <1>3, EveryRow DEF TickStart, IInv, TypeOK

\* a recovery,
LEMMA RecoverOneKeeps ==
  ASSUME IInv, NEW a \in Auth, RecoverOne(a) PROVE IInv'
<1>1. PICK r \in RecoverOutcomes(acct[a], off[a]) :
        /\ acct' = [acct EXCEPT ![a] = r.acc]
        /\ off' = [off EXCEPT ![a] = r.off]
        /\ fuse' = r.fuse
        /\ recovered' = IF r.failed THEN recovered ELSE recovered + 1
  BY DEF RecoverOne
<1>2. Row(r.acc) /\ r.off \in BOOLEAN /\ r.fuse \in 0..VerifyFuse
  BY Given, RecoverGood DEF Good
<1>3. off' \in [Auth -> BOOLEAN] /\ fuse' \in 0..VerifyFuse
  BY <1>1, <1>2 DEF IInv, TypeOK
<1>4. recovered' \in 0..MaxRecoverPerTick
  <2>1. /\ recovered \in 0..MaxRecoverPerTick /\ recovered < MaxRecoverPerTick
        /\ MaxRecoverPerTick \in Nat
    BY ConfigAssumption DEF IInv, TypeOK, RecoverOne
  <2> QED BY <1>1, <2>1
<1>5. todo' \in SUBSET Auth /\ phase' = phase /\ manual' = manual
      /\ backfill' = backfill /\ calm' = calm
  BY DEF RecoverOne, IInv, TypeOK
<1> QED
  BY <1>1, <1>2, <1>3, <1>4, <1>5, OneRow DEF IInv, TypeOK

\* a file of the synchronisation,
LEMMA SyncOneKeeps ==
  ASSUME IInv, NEW a \in Auth, SyncOne(a) PROVE IInv'
<1>1. PICK shut \in Shown(a) : \E r \in SyncFile(acct[a], off[a], shut) :
        /\ acct' = [acct EXCEPT ![a] = DropTag(r.acc, shut)]
        /\ off' = [off EXCEPT ![a] = r.off]
        /\ fuse' = r.fuse
  BY DEF SyncOne
<1>2. PICK r \in SyncFile(acct[a], off[a], shut) :
        /\ acct' = [acct EXCEPT ![a] = DropTag(r.acc, shut)]
        /\ off' = [off EXCEPT ![a] = r.off]
        /\ fuse' = r.fuse
  BY <1>1
<1>3. Row(r.acc) /\ r.off \in BOOLEAN /\ r.fuse \in 0..VerifyFuse
  BY Given, SyncGood DEF Good
<1>4. Row(DropTag(r.acc, shut))
  BY <1>3, DropTagRow
<1>5. off' \in [Auth -> BOOLEAN] /\ fuse' \in 0..VerifyFuse
  BY <1>2, <1>3 DEF IInv, TypeOK
<1>6. todo' \in SUBSET Auth /\ phase' = phase /\ manual' = manual
      /\ recovered' = recovered /\ backfill' = backfill /\ calm' = calm
  BY DEF SyncOne, IInv, TypeOK
<1> QED
  BY <1>2, <1>4, <1>5, <1>6, OneRow DEF IInv, TypeOK

\* a heal,
LEMMA HealOneKeeps ==
  ASSUME IInv, NEW a \in Auth, HealOne(a) PROVE IInv'
<1>1. PICK shut \in Shown(a) :
        \E r \in IF shut /\ MayHeal(acct[a]) /\ a \notin backfill
                 THEN HealOutcomes(acct[a], off[a])
                 ELSE {Result(acct[a], off[a], fuse, FALSE)} :
          /\ acct' = [acct EXCEPT ![a] = r.acc]
          /\ off' = [off EXCEPT ![a] = r.off]
          /\ fuse' = r.fuse
  BY DEF HealOne
<1>2. PICK r \in HealOutcomes(acct[a], off[a]) \cup {Result(acct[a], off[a], fuse, FALSE)} :
        /\ acct' = [acct EXCEPT ![a] = r.acc]
        /\ off' = [off EXCEPT ![a] = r.off]
        /\ fuse' = r.fuse
  BY <1>1
<1>3. Row(r.acc) /\ r.off \in BOOLEAN /\ r.fuse \in 0..VerifyFuse
  <2>1. Row(acct[a]) /\ off[a] \in BOOLEAN /\ fuse \in 0..VerifyFuse /\ TypeOK
    BY Given
  <2>2. CASE r \in HealOutcomes(acct[a], off[a])
    BY <2>1, <2>2, HealGood DEF Good
  <2>3. CASE r = Result(acct[a], off[a], fuse, FALSE)
    <3>1. Good(r)
      BY <2>1, <2>3, GoodResult
    <3> QED BY <3>1 DEF Good
  <2> QED
    BY <2>2, <2>3
<1>4. off' \in [Auth -> BOOLEAN] /\ fuse' \in 0..VerifyFuse
  BY <1>2, <1>3 DEF IInv, TypeOK
<1>5. todo' \in SUBSET Auth /\ phase' = phase /\ manual' = manual
      /\ recovered' = recovered /\ backfill' = backfill /\ calm' = calm
  BY DEF HealOne, IInv, TypeOK
<1> QED
  BY <1>2, <1>3, <1>4, <1>5, OneRow DEF IInv, TypeOK

\* the hygiene at the end.
LEMMA HygieneKeeps ==
  ASSUME IInv, Hygiene PROVE IInv'
<1>1. ASSUME NEW a \in Auth
      PROVE  Row(ScrubDirtyActive(ExpireIdlePendingObserve(acct[a])))
  BY Given, ExpireRow, ScrubRow
<1>2. acct' \in [Auth -> Account] /\ \A a \in Auth : RowCoherent(acct'[a])
  BY <1>1 DEF Hygiene, Row
<1>3. /\ phase' \in Phases /\ manual' \in BOOLEAN
      /\ recovered' \in 0..MaxRecoverPerTick
  BY Zeroes DEF Hygiene, Phases
<1> QED
  BY <1>2, <1>3, EveryRow DEF Hygiene, IInv, TypeOK

\* The panel keeps it: the lock,
LEMMA ManualDisableKeeps ==
  ASSUME IInv, NEW a \in Auth, ManualDisable(a) PROVE IInv'
<1> DEFINE locked == SetRecoverAt(
                       SetAccountState(acct[a], "user_manual", "user_manual"), Unset)
<1>1. PICK p \in Patch(TRUE, off[a]) :
        /\ off' = [off EXCEPT ![a] = p.off]
        /\ acct' = [acct EXCEPT ![a] =
                      IF p.ok THEN StampLastAction(locked, "manual_disable")
                              ELSE locked]
  BY DEF ManualDisable
<1>2. Row(locked)
  BY Given, LockRow DEF Row
<1> HIDE DEF locked
<1> DEFINE new == IF p.ok THEN StampLastAction(locked, "manual_disable") ELSE locked
<1>3. Row(new)
  BY <1>2, StampRow DEF Actions
<1> HIDE DEF new
<1>4. off' \in [Auth -> BOOLEAN]
  BY <1>1, Given, PatchType DEF IInv, TypeOK
<1>5. acct' = [acct EXCEPT ![a] = new]
  BY <1>1 DEF new
<1> QED
  BY <1>3, <1>4, <1>5, OneRow DEF ManualDisable, tickVars, IInv, TypeOK

\* the unlock,
LEMMA ManualEnableKeeps ==
  ASSUME IInv, NEW a \in Auth, ManualEnable(a) PROVE IInv'
<1>1. PICK x \in EnsureFile(FALSE, off[a], fuse) :
        /\ off' = [off EXCEPT ![a] = x.off]
        /\ fuse' = x.fuse
        /\ acct' = [acct EXCEPT ![a] =
             CASE x.result = "err" -> StampLastAction(@, "manual_enable_failed")
               [] x.result = "still" ->
                    StampLastAction(ClearManualLock(@), "manual_enable_file_still_closed")
               [] OTHER -> StampLastAction(ClearManualLock(@), "manual_enable")]
  BY DEF ManualEnable
<1>2. Row(ClearManualLock(acct[a]))
  BY Given, UnlockRow DEF Row
<1>3. /\ Row(StampLastAction(acct[a], "manual_enable_failed"))
      /\ Row(StampLastAction(ClearManualLock(acct[a]), "manual_enable_file_still_closed"))
      /\ Row(StampLastAction(ClearManualLock(acct[a]), "manual_enable"))
  BY <1>2, Given, StampRow DEF Actions
<1> DEFINE new ==
      CASE x.result = "err" -> StampLastAction(acct[a], "manual_enable_failed")
        [] x.result = "still" ->
             StampLastAction(ClearManualLock(acct[a]), "manual_enable_file_still_closed")
        [] OTHER -> StampLastAction(ClearManualLock(acct[a]), "manual_enable")
<1>4. Row(new) /\ acct' = [acct EXCEPT ![a] = new]
  BY <1>1, <1>3
<1> HIDE DEF new
<1>5. off' \in [Auth -> BOOLEAN] /\ fuse' \in 0..VerifyFuse
  BY <1>1, Given, EnsureType DEF IInv, TypeOK
<1> QED
  BY <1>4, <1>5, OneRow DEF ManualEnable, tickVars, IInv, TypeOK

\* the suggested cool-down.
LEMMA SuggestedKeeps ==
  ASSUME IInv, NEW a \in Auth, ApplySuggestedCooldown(a) PROVE IInv'
<1> DEFINE st == CooldownStateForSignal(acct[a].sig)
           timer == Capped(Day)
           cooled == SetRecoverAt(SetAccountState(acct[a], st, "plugin_auto"), timer)
           new(ok) == IF ok THEN StampLastAction(cooled, "cooldown")
                            ELSE StampLastAction(acct[a], "cooldown_failed")
<1>1. PICK p \in Patch(TRUE, off[a]) :
        off' = [off EXCEPT ![a] = p.off] /\ acct' = [acct EXCEPT ![a] = new(p.ok)]
  BY DEF ApplySuggestedCooldown
<1>2. st \in Cooldowns /\ timer \in Nat
  BY CooldownState, ConfigAssumption DEF Capped
<1> HIDE DEF st, timer
<1>3. Row(cooled)
  BY <1>2, Given, CoolRow DEF Row
<1> HIDE DEF cooled
<1>4. Row(StampLastAction(cooled, "cooldown")) /\ Row(StampLastAction(acct[a], "cooldown_failed"))
  BY <1>3, Given, StampRow DEF Actions
<1> DEFINE row == new(p.ok)
<1>5. Row(row) /\ acct' = [acct EXCEPT ![a] = row]
  BY <1>1, <1>4
<1> HIDE DEF row
<1>6. off' \in [Auth -> BOOLEAN]
  BY <1>1, Given, PatchType DEF IInv, TypeOK
<1> QED
  BY <1>5, <1>6, OneRow DEF ApplySuggestedCooldown, tickVars, IInv, TypeOK

\* Time keeps it.
LEMMA ElapseKeeps ==
  ASSUME IInv, Elapse PROVE IInv'
<1>1. ASSUME NEW a \in Auth PROVE Row(OneUnitLater(acct[a]))
  BY Given, LaterRow
<1>2. acct' \in [Auth -> Account] /\ \A a \in Auth : RowCoherent(acct'[a])
  BY <1>1 DEF Elapse, Row
<1> QED
  BY <1>2, EveryRow DEF Elapse, tickVars, IInv, TypeOK

\* The actions that touch no row.
LEMMA RowsUntouched ==
  ASSUME IInv, acct' = acct, off' \in [Auth -> BOOLEAN], fuse' = fuse,
         phase' \in Phases, todo' \in SUBSET Auth, manual' = manual,
         recovered' = recovered, backfill' \in SUBSET Auth, calm' \in BOOLEAN
  PROVE  IInv'
BY DEF IInv, TypeOK, OwnershipCoherent, Phases

-----------------------------------------------------------------------------
\* The invariant holds of an empty table,
LEMMA InitIInv == Init => IInv
<1> SUFFICES ASSUME Init PROVE IInv
  OBVIOUS
<1>1. TypeOK
  BY NewRow, Zeroes DEF Init, TypeOK, Phases, Row
<1>2. OwnershipCoherent
  BY NewRow DEF Init, OwnershipCoherent, Row
<1> QED
  BY <1>1, <1>2 DEF IInv

\* and every step preserves it.
LEMMA NextIInv == IInv /\ [Next]_vars => IInv'
<1> SUFFICES ASSUME IInv, [Next]_vars PROVE IInv'
  OBVIOUS
<1>1. CASE TickStep
  <2>1. CASE ListForSync
    BY <2>1, RowsUntouched DEF ListForSync, IInv, TypeOK, Phases
  <2>2. CASE ListForHeal
    BY <2>2, RowsUntouched DEF ListForHeal, IInv, TypeOK, Phases
  <2> QED
    BY <1>1, <2>1, <2>2, TickStartKeeps, HygieneKeeps, RecoverOneKeeps,
       SyncOneKeeps, HealOneKeeps DEF TickStep
<1>2. CASE UsageStep
  BY <1>2, HandleFailureKeeps, UsageSuccessKeeps, PatrolSuccessKeeps DEF UsageStep
<1>3. CASE PanelStep
  BY <1>3, ManualDisableKeeps, ManualEnableKeeps, SuggestedKeeps DEF PanelStep
<1>4. CASE \E auths \in SUBSET Auth : MarkPendingBackfillAuths(auths)
  BY <1>4, RowsUntouched DEF MarkPendingBackfillAuths, tickVars, IInv, TypeOK
<1>5. CASE ClearPendingBackfillAuths
  BY <1>5, RowsUntouched DEF ClearPendingBackfillAuths, tickVars, IInv, TypeOK
<1>6. CASE \E a \in Auth : ExternalFlip(a)
  BY <1>6, RowsUntouched DEF ExternalFlip, tickVars, IInv, TypeOK
<1>7. CASE Elapse
  BY <1>7, ElapseKeeps
<1>8. CASE Quieten
  BY <1>8, RowsUntouched DEF Quieten, tickVars, IInv, TypeOK
<1>9. CASE UNCHANGED vars
  BY <1>9, RowsUntouched DEF vars, IInv, TypeOK
<1> QED
  BY <1>1, <1>2, <1>3, <1>4, <1>5, <1>6, <1>7, <1>8, <1>9 DEF Next

\* Whatever the traffic, the panel, the faults of CPA and the clock do, every
\* variable keeps its type: no setter of the store and no handler writes a
\* value outside its field, for every policy and every window.
THEOREM TypeCorrect == Spec => []TypeOK
<1>1. IInv => TypeOK
  BY DEF IInv
<1> QED
  BY <1>1, InitIInv, NextIInv, PTL DEF Spec

\* The fields that say who closed a row never disagree: every cool-down is the
\* sentry's and ends, every lock has no deadline, no live row has an owner.
THEOREM OwnershipNeverDisagrees == Spec => []OwnershipCoherent
<1>1. IInv => OwnershipCoherent
  BY DEF IInv
<1> QED
  BY <1>1, InitIInv, NextIInv, PTL DEF Spec

-----------------------------------------------------------------------------
(* tick and the operator's lock.                                           *)

\* What tick may do to a row, it does not do to a locked one.
LEMMA LockedRows ==
  ASSUME NEW acc, OperatorLocked(acc)
  PROVE  /\ HoldCandidate(acc) = acc
         /\ ~HeldForOperator(acc) /\ ~CanAutoReenable(acc)
         /\ ShouldProtectDisable(acc) /\ ~MayHeal(acc)
         /\ ExpireIdlePendingObserve(acc) = acc /\ ScrubDirtyActive(acc) = acc
<1>1. acc.state = "user_manual" /\ acc.source = "user_manual"
  BY DEF OperatorLocked
<1>2. HoldCandidate(acc) = acc
  BY <1>1 DEF HoldCandidate
<1>3. ExpireIdlePendingObserve(acc) = acc /\ ScrubDirtyActive(acc) = acc
  BY <1>1 DEF ExpireIdlePendingObserve, ScrubDirtyActive
<1>4. ~HeldForOperator(acc) /\ ~CanAutoReenable(acc)
  BY <1>1 DEF HeldForOperator, CanAutoReenable
<1>5. ShouldProtectDisable(acc) /\ ~MayHeal(acc)
  BY <1>1 DEF ShouldProtectDisable, Holds, MayHeal
<1> QED
  BY <1>2, <1>3, <1>4, <1>5

\* A stamp does not unlock.
LEMMA StampLocked ==
  ASSUME NEW acc \in Account, OperatorLocked(acc), NEW name
  PROVE  OperatorLocked(StampLastAction(acc, name))
BY DEF OperatorLocked, StampLastAction, Account

\* A locked row stays locked when its file is synchronised, freed tags included.
LEMMA SyncLocked ==
  ASSUME NEW acc \in Account, OperatorLocked(acc), NEW file, NEW shut,
         NEW r \in SyncFile(acc, file, shut)
  PROVE  OperatorLocked(DropTag(r.acc, shut))
<1>1. r = Result(acc, file, fuse, FALSE) \/ r \in Reassert(acc, file)
  BY LockedRows DEF SyncFile
<1>2. ASSUME r = Result(acc, file, fuse, FALSE) PROVE r.acc = acc
  BY <1>2 DEF Result
<1>3. ASSUME r \in Reassert(acc, file)
      PROVE  \E name : r.acc = StampLastAction(acc, name)
  <2> DEFINE name(result) == CASE result = "err"   -> "cooldown_reassert_failed"
                               [] result = "still" -> "cooldown_file_still_open"
                               [] OTHER            -> "cooldown_reassert"
  <2>1. PICK x \in EnsureFile(TRUE, file, fuse) :
          r = Result(StampLastAction(acc, name(x.result)), x.off, x.fuse, FALSE)
    BY <1>3 DEF Reassert
  <2> HIDE DEF name
  <2> QED
    BY <2>1 DEF Result
<1>4. OperatorLocked(r.acc)
  BY <1>1, <1>2, <1>3, StampLocked
<1>5. r.acc.source # "cpa_file_disabled"
  BY <1>4 DEF OperatorLocked
<1>6. DropTag(r.acc, shut) = r.acc
  BY <1>5 DEF DropTag
<1> QED
  BY <1>4, <1>6

\* No step of tick unlocks.
LEMMA TickStepKeepsLock ==
  ASSUME IInv, TickStep, NEW a \in Auth, OperatorLocked(acct[a])
  PROVE  OperatorLocked(acct'[a])
<1>1. acct \in [Auth -> Account] /\ acct[a] \in Account
  BY DEF IInv, TypeOK
<1>2. CASE TickStart
  BY <1>2, LockedRows DEF TickStart
<1>3. CASE ListForSync \/ ListForHeal
  BY <1>3 DEF ListForSync, ListForHeal
<1>4. CASE Hygiene
  BY <1>4, LockedRows DEF Hygiene
<1>5. ASSUME NEW b \in Auth, RecoverOne(b) PROVE OperatorLocked(acct'[a])
  <2>1. PICK r \in RecoverOutcomes(acct[b], off[b]) :
          acct' = [acct EXCEPT ![b] = r.acc]
    BY <1>5 DEF RecoverOne
  <2>2. CASE b # a
    BY <1>1, <2>1, <2>2
  <2>3. CASE b = a
    <3>1. RecoverOutcomes(acct[a], off[a]) = {Result(acct[a], off[a], fuse, TRUE)}
      BY LockedRows, Zenon DEF RecoverOutcomes
    <3>2. r.acc = acct[a]
      BY <2>1, <2>3, <3>1 DEF Result
    <3> QED BY <1>1, <2>1, <2>3, <3>2
  <2> QED BY <2>2, <2>3
<1>6. ASSUME NEW b \in Auth, SyncOne(b) PROVE OperatorLocked(acct'[a])
  <2>1. PICK shut \in Shown(b) : \E r \in SyncFile(acct[b], off[b], shut) :
          acct' = [acct EXCEPT ![b] = DropTag(r.acc, shut)]
    BY <1>6 DEF SyncOne
  <2>2. PICK r \in SyncFile(acct[b], off[b], shut) :
          acct' = [acct EXCEPT ![b] = DropTag(r.acc, shut)]
    BY <2>1
  <2>3. CASE b # a
    BY <1>1, <2>2, <2>3
  <2>4. CASE b = a
    BY <1>1, <2>2, <2>4, SyncLocked
  <2> QED BY <2>3, <2>4
<1>7. ASSUME NEW b \in Auth, HealOne(b) PROVE OperatorLocked(acct'[a])
  <2>1. PICK shut \in Shown(b) :
          \E r \in IF shut /\ MayHeal(acct[b]) /\ b \notin backfill
                   THEN HealOutcomes(acct[b], off[b])
                   ELSE {Result(acct[b], off[b], fuse, FALSE)} :
            acct' = [acct EXCEPT ![b] = r.acc]
    BY <1>7 DEF HealOne
  <2>2. CASE b # a
    BY <1>1, <2>1, <2>2
  <2>3. CASE b = a
    <3>1. acct' = [acct EXCEPT ![a] = Result(acct[a], off[a], fuse, FALSE).acc]
      BY <2>1, <2>3, LockedRows
    <3> QED BY <1>1, <3>1 DEF Result
  <2> QED BY <2>2, <2>3
<1> QED
  BY <1>2, <1>3, <1>4, <1>5, <1>6, <1>7 DEF TickStep

\* No tick, automatic or the panel's, ends a lock that the operator set: the
\* locked row is neither recovered, freed, tagged, healed nor scrubbed,
\* whatever the listings show.
THEOREM TickRespectsLock == Spec => TickKeepsOperatorLock
<1> DEFINE Keeps == phase' # phase \/ todo' # todo =>
             \A a \in Auth : OperatorLocked(acct[a]) => OperatorLocked(acct'[a])
<1>1. IInv /\ [Next]_vars => [Keeps]_vars
  <2> SUFFICES ASSUME IInv, Next PROVE Keeps
    OBVIOUS
  <2>1. CASE TickStep
    BY <2>1, TickStepKeepsLock
  <2>2. CASE UsageStep
    BY <2>2 DEF UsageStep, HandleFailure, UsageSuccess, PatrolSuccess, tickVars
  <2>3. CASE PanelStep
    BY <2>3 DEF PanelStep, ManualDisable, ManualEnable, ApplySuggestedCooldown, tickVars
  <2>4. CASE \/ \E auths \in SUBSET Auth : MarkPendingBackfillAuths(auths)
             \/ ClearPendingBackfillAuths
             \/ \E a \in Auth : ExternalFlip(a)
             \/ Elapse \/ Quieten
    BY <2>4 DEF MarkPendingBackfillAuths, ClearPendingBackfillAuths, ExternalFlip,
       Elapse, Quieten, tickVars
  <2> QED
    BY <2>1, <2>2, <2>3, <2>4 DEF Next
<1> QED
  BY <1>1, InitIInv, NextIInv, PTL DEF Spec, TickKeepsOperatorLock

-----------------------------------------------------------------------------
(* tick and the files of the rows that somebody owns.                      *)

\* Between two passes of the recovery loop nothing touches the rows that are
\* still to be recovered, so they are still due when their turn comes.
DueTodo == phase = "recover" => \A a \in todo : Due(acct[a])

\* The strengthening that the next theorem needs.
LEMMA DueTodoHolds == Spec => []DueTodo
<1>1. Init => DueTodo
  BY DEF Init, DueTodo
<1>2. IInv /\ DueTodo /\ [Next]_vars => DueTodo'
  <2> SUFFICES ASSUME IInv, DueTodo, [Next]_vars PROVE DueTodo'
    OBVIOUS
  <2>0. acct \in [Auth -> Account] /\ todo \subseteq Auth
    BY DEF IInv, TypeOK
  <2>1. CASE TickStart
    BY <2>1, <2>0 DEF TickStart, DueTodo
  <2>2. ASSUME NEW a \in Auth, RecoverOne(a) PROVE DueTodo'
    <3>1. PICK r \in RecoverOutcomes(acct[a], off[a]) :
            acct' = [acct EXCEPT ![a] = r.acc]
      BY <2>2 DEF RecoverOne
    <3>2. phase = "recover" /\ todo' = todo \ {a}
      BY <2>2 DEF RecoverOne
    <3>3. ASSUME NEW b \in todo' PROVE Due(acct'[b])
      BY <2>0, <3>1, <3>2, <3>3 DEF DueTodo
    <3> QED BY <3>3 DEF DueTodo
  <2>3. CASE ListForSync \/ ListForHeal \/ Hygiene
    BY <2>3 DEF ListForSync, ListForHeal, Hygiene, DueTodo
  <2>4. ASSUME NEW a \in Auth, SyncOne(a) \/ HealOne(a) PROVE DueTodo'
    BY <2>4 DEF SyncOne, HealOne, DueTodo
  <2>5. CASE UsageStep
    BY <2>5 DEF UsageStep, HandleFailure, UsageSuccess, PatrolSuccess, tickVars, DueTodo
  <2>6. CASE PanelStep
    BY <2>6 DEF PanelStep, ManualDisable, ManualEnable, ApplySuggestedCooldown,
       tickVars, DueTodo
  <2>7. CASE \/ \E auths \in SUBSET Auth : MarkPendingBackfillAuths(auths)
             \/ ClearPendingBackfillAuths \/ Elapse \/ Quieten
    BY <2>7 DEF MarkPendingBackfillAuths, ClearPendingBackfillAuths, Elapse, Quieten,
       tickVars, DueTodo
  <2>8. CASE (\E a \in Auth : ExternalFlip(a)) \/ UNCHANGED vars
    BY <2>8 DEF ExternalFlip, vars, tickVars, DueTodo
  <2> QED
    BY <2>1, <2>2, <2>3, <2>4, <2>5, <2>6, <2>7, <2>8 DEF Next, TickStep
<1> QED
  BY <1>1, <1>2, InitIInv, NextIInv, PTL DEF Spec

\* What OwnedNeverAutoOpened allows tick to open.
MayOpen(acc) ==
  \/ acc.state = "active"
  \/ acc.source = "cpa_file_disabled"
  \/ IsCooldownState(acc.state) /\ Due(acc)
  \/ acc.state = "candidate_dead" /\ Due(acc) /\ acc.sig = "auth_401"

\* A recovery opens only what may be opened.
LEMMA RecoverOpens ==
  ASSUME NEW acc \in Account, Due(acc), NEW file,
         NEW r \in RecoverOutcomes(acc, file), r.off # file
  PROVE  MayOpen(acc)
<1>1. ~HeldForOperator(acc) /\ CanAutoReenable(acc)
  <2>1. CASE HeldForOperator(acc)
    <3>1. RecoverOutcomes(acc, file) = {Result(SetRecoverAt(acc, Unset), file, fuse, TRUE)}
      BY <2>1, Zenon DEF RecoverOutcomes
    <3> QED BY <3>1 DEF Result
  <2>2. CASE ~HeldForOperator(acc) /\ ~CanAutoReenable(acc)
    <3>1. RecoverOutcomes(acc, file) = {Result(acc, file, fuse, TRUE)}
      BY <2>2, Zenon DEF RecoverOutcomes
    <3> QED BY <3>1 DEF Result
  <2> QED BY <2>1, <2>2
<1> QED
  BY <1>1 DEF MayOpen, HeldForOperator, CanAutoReenable, Account, States, IsCooldownState

\* Reassertion never opens a file: it closes an open one.
LEMMA CloseNeverOpens ==
  ASSUME NEW n, NEW x \in EnsureFile(TRUE, TRUE, n) PROVE x.off = TRUE
BY DEF EnsureFile

\* So does the synchronisation.
LEMMA SyncOpens ==
  ASSUME NEW acc \in Account, NEW shut,
         NEW r \in SyncFile(acc, TRUE, shut), ~r.off
  PROVE  MayOpen(acc)
<1>1. r # Result(acc, TRUE, fuse, FALSE)
  BY DEF Result
<1>2. r \notin Reassert(acc, TRUE)
  <2> DEFINE name(result) == CASE result = "err"   -> "cooldown_reassert_failed"
                               [] result = "still" -> "cooldown_file_still_open"
                               [] OTHER            -> "cooldown_reassert"
  <2> SUFFICES ASSUME r \in Reassert(acc, TRUE) PROVE FALSE
    OBVIOUS
  <2>1. PICK x \in EnsureFile(TRUE, TRUE, fuse) :
          r = Result(StampLastAction(acc, name(x.result)), x.off, x.fuse, FALSE)
    BY DEF Reassert
  <2> HIDE DEF name
  <2> QED
    BY <2>1, CloseNeverOpens DEF Result
<1>3. ~ShouldProtectDisable(acc)
  BY <1>1, <1>2 DEF SyncFile
<1> QED
  BY <1>3 DEF ShouldProtectDisable, Holds, MayOpen, Account, States, IsCooldownState

\* tick opens no file that the sentry or the operator keeps closed, except at
\* the end of its cool-down, whatever the listings show and however the
\* commands to CPA fail.
THEOREM OwnedStaysClosed == Spec => OwnedNeverAutoOpened
<1> DEFINE Respects == \A a \in Auth : Visits(a) /\ Opens(a) =>
       \/ acct[a].state = "active"
       \/ acct[a].source = "cpa_file_disabled"
       \/ /\ IsCooldownState(acct[a].state) /\ Due(acct[a])
       \/ /\ acct[a].state = "candidate_dead" /\ Due(acct[a])
          /\ acct[a].sig = "auth_401"
<1>1. IInv /\ DueTodo /\ [Next]_vars => [Respects]_vars
  <2> SUFFICES ASSUME IInv, DueTodo, Next, NEW a \in Auth, Visits(a), Opens(a)
               PROVE  MayOpen(acct[a])
    BY DEF MayOpen
  <2>1. /\ acct[a] \in Account /\ off \in [Auth -> BOOLEAN]
        /\ off[a] = TRUE /\ off'[a] # TRUE
        /\ phase' = phase /\ phase # "free" /\ a \in todo /\ a \notin todo'
    BY DEF IInv, TypeOK, Visits, Opens
  <2>2. ASSUME NEW b \in Auth, RecoverOne(b) PROVE MayOpen(acct[a])
    <3>1. a = b /\ Due(acct[a])
      BY <2>1, <2>2 DEF RecoverOne, DueTodo
    <3>2. PICK r \in RecoverOutcomes(acct[a], off[a]) : off' = [off EXCEPT ![a] = r.off]
      BY <2>2, <3>1 DEF RecoverOne
    <3> QED BY <2>1, <3>1, <3>2, RecoverOpens
  <2>3. ASSUME NEW b \in Auth, SyncOne(b) PROVE MayOpen(acct[a])
    <3>1. a = b
      BY <2>1, <2>3 DEF SyncOne
    <3>2. PICK shut \in Shown(a) : \E r \in SyncFile(acct[a], off[a], shut) :
            off' = [off EXCEPT ![a] = r.off]
      BY <2>3, <3>1 DEF SyncOne
    <3>3. PICK r \in SyncFile(acct[a], off[a], shut) : off' = [off EXCEPT ![a] = r.off]
      BY <3>2
    <3>4. ~r.off
      BY <2>1, <3>3 DEF IInv, TypeOK, Opens
    <3> QED BY <2>1, <3>3, <3>4, SyncOpens
  <2>4. ASSUME NEW b \in Auth, HealOne(b) PROVE MayOpen(acct[a])
    <3>1. a = b
      BY <2>1, <2>4 DEF HealOne
    <3>2. CASE MayHeal(acct[a])
      BY <3>2 DEF MayHeal, MayOpen
    <3>3. CASE ~MayHeal(acct[a])
      <4>1. off' = [off EXCEPT ![a] = Result(acct[a], off[a], fuse, FALSE).off]
        BY <2>4, <3>1, <3>3 DEF HealOne
      <4> QED BY <2>1, <4>1 DEF Result
    <3> QED BY <3>2, <3>3
  <2>5. CASE TickStart \/ ListForSync \/ ListForHeal \/ Hygiene
    BY <2>1, <2>5 DEF TickStart, ListForSync, ListForHeal, Hygiene
  <2>6. CASE UsageStep
    BY <2>1, <2>6 DEF UsageStep, HandleFailure, UsageSuccess, PatrolSuccess
  <2>7. CASE PanelStep
    BY <2>1, <2>7 DEF PanelStep, ManualDisable, ManualEnable, ApplySuggestedCooldown
  <2>8. CASE \/ \E auths \in SUBSET Auth : MarkPendingBackfillAuths(auths)
             \/ ClearPendingBackfillAuths
             \/ \E b \in Auth : ExternalFlip(b)
             \/ Elapse \/ Quieten
    BY <2>1, <2>8 DEF MarkPendingBackfillAuths, ClearPendingBackfillAuths,
       ExternalFlip, Elapse, Quieten, tickVars
  <2> QED
    BY <2>2, <2>3, <2>4, <2>5, <2>6, <2>7, <2>8 DEF Next, TickStep
<1> QED
  BY <1>1, InitIInv, NextIInv, DueTodoHolds, PTL DEF Spec, OwnedNeverAutoOpened

-----------------------------------------------------------------------------
(* Traffic and the deadline of a row that cools.                           *)

\* What a stamp or a signal leaves of a row.
LEMMA StampFields ==
  ASSUME NEW acc \in Account, NEW name
  PROVE  /\ StampLastAction(acc, name).state = acc.state
         /\ StampLastAction(acc, name).source = acc.source
         /\ StampLastAction(acc, name).recover = acc.recover
         /\ StampLastAction(acc, name).streak = acc.streak
         /\ StampLastAction(acc, name).sig = acc.sig
BY DEF StampLastAction, Account

\* Counting a failure is not about the owner, and the hint is for live rows.
LEMMA CountedFields ==
  ASSUME NEW acc, Row(acc), NEW e \in Errors, acc.state # "active"
  PROVE  /\ Counted(acc, e).state = acc.state
         /\ Counted(acc, e).source = acc.source
         /\ Counted(acc, e).recover = acc.recover
<1> DEFINE hinted == IF e.signal = "free_usage_429" THEN UpdateQuota(acc, e.reset)
                                                    ELSE acc
           begun == BeginFingerprintRun(hinted, e.key)
           once == IncStreak(begun, e.key)
<1>1. hinted = acc
  BY DEF UpdateQuota
<1>2. begun \in Account /\ begun.state = acc.state /\ begun.source = acc.source
      /\ begun.recover = acc.recover
  <2>1. BeginFingerprintRun(acc, e.key) \in {acc, ClearStreaksExcept(acc, {"any_error"})}
    BY DEF BeginFingerprintRun
  <2>2. ClearStreaksExcept(acc, {"any_error"}) \in Account
    BY ClearStreaksType DEF Row
  <2>3. /\ ClearStreaksExcept(acc, {"any_error"}).state = acc.state
        /\ ClearStreaksExcept(acc, {"any_error"}).source = acc.source
        /\ ClearStreaksExcept(acc, {"any_error"}).recover = acc.recover
    BY DEF ClearStreaksExcept, Row, Account
  <2> QED BY <1>1, <2>1, <2>2, <2>3 DEF Row
<1> HIDE DEF begun
<1>3. e.key \in Counters /\ "any_error" \in Counters
  BY TrafficAssumption DEF Failure, Counters
<1>4. once \in Account /\ once.state = acc.state /\ once.source = acc.source
      /\ once.recover = acc.recover
  BY <1>2, <1>3, IncStreakType DEF IncStreak, Account
<1> HIDE DEF once
<1>5. /\ IncStreak(once, "any_error").state = once.state
      /\ IncStreak(once, "any_error").source = once.source
      /\ IncStreak(once, "any_error").recover = once.recover
  BY <1>4 DEF IncStreak, Account
<1> QED BY <1>4, <1>5 DEF Counted, once, begun, hinted

\* A failure leaves the deadline of a row that goes on cooling for the same
\* family.
LEMMA FailureKeepsDeadline ==
  ASSUME IInv, ~Relogin, NEW a \in Auth, NEW e \in Errors, NEW r \in FailureOutcomes(a, e),
         IsCooldownState(acct[a].state), RecoverAhead(acct[a]),
         r.acc.state = acct[a].state
  PROVE  r.acc.recover = acct[a].recover
<1> DEFINE acc == Counted(acct[a], e)
           v == Verdict(a, acc, e)
           cooled == IF v.out.cooldown THEN ApplyCooldown(acc, off[a], e, v)
                     ELSE {Result(acc, off[a], fuse, FALSE)}
<1>1. Row(acct[a]) /\ acct[a].state \in Cooldowns /\ acct[a].source = "plugin_auto"
      /\ off[a] \in BOOLEAN /\ TypeOK
  BY Given DEF Row, RowCoherent, IsCooldownState
<1>2. acct[a].state \notin {"active", "user_manual", "candidate_dead"}
  BY <1>1 DEF Cooldowns
<1>3. /\ Row(acc) /\ acc.state = acct[a].state /\ acc.source = "plugin_auto"
      /\ acc.recover = acct[a].recover
  BY <1>1, <1>2, CountedRow, CountedFields
<1>4. acc \in Account
  BY <1>3 DEF Row
<1>5. \/ r \in ApplyPermanentDisable(acc, off[a])
      \/ \E q \in cooled : r = q \/ r \in ApplyCandidate(q, e)
  BY DEF FailureOutcomes
<1> HIDE DEF acc
<1>6. v.out \in Outcome
  BY <1>4, VerdictType
<1> HIDE DEF v
<1>7. r \notin ApplyPermanentDisable(acc, off[a])
  <2> SUFFICES ASSUME r \in ApplyPermanentDisable(acc, off[a]) PROVE FALSE
    OBVIOUS
  <2> DEFINE already == acc.state = "user_manual" /\ acc.source = "user_manual"
             fresh == SetRecoverAt(SetAccountState(acc, "user_manual", "user_manual"), Unset)
  <2>1. Row(fresh) /\ fresh.state = "user_manual"
    BY <1>4, LockRow DEF SetRecoverAt, SetAccountState, Account
  <2>2. ~already
    BY <1>2, <1>3
  <2>3. PICK p \in Patch(TRUE, off[a]) :
          r = Result(StampLastAction(fresh, "manual_disable"), p.off, fuse, ~p.ok)
    BY <2>2 DEF ApplyPermanentDisable
  <2> HIDE DEF fresh
  <2>4. r.acc.state = "user_manual"
    BY <2>1, <2>3, StampFields DEF Result, Row
  <2> QED BY <1>2, <2>4
<1>8. PICK q \in cooled : r = q \/ r \in ApplyCandidate(q, e)
  BY <1>5, <1>7
<1>9. Good(q)
  BY <1>1, <1>3, <1>6, ApplyCooldownGood, GoodResult, Given
<1>10. r \notin ApplyCandidate(q, e)
  <2> SUFFICES ASSUME r \in ApplyCandidate(q, e) PROVE FALSE
    OBVIOUS
  <2> DEFINE dead == SetAccountState(q.acc, "candidate_dead", "plugin_auto")
             timer == IF e.signal # "auth_401" THEN Unset
                      ELSE IF dead.recover # Unset THEN dead.recover
                      ELSE IF Auth401Cooldown > 0 THEN Auth401Cooldown
                      ELSE 2 * ReloginCap
             parked == StampLastAction(SetRecoverAt(dead, timer), "candidate")
  <2>0. q.acc \in Account
    BY <1>9 DEF Good, Row
  <2>1. dead \in Account /\ dead.state = "candidate_dead"
    <3>1. dead \in Account
      BY <2>0, SetAccountStateType DEF States, Sources
    <3>2. dead.state = "candidate_dead"
      BY <2>0 DEF SetAccountState, Account
    <3> QED BY <3>1, <3>2
  <2> HIDE DEF dead
  <2>2. parked.state = "candidate_dead"
    BY <2>1 DEF StampLastAction, SetRecoverAt, Account
  <2>3. \E f, n : r = Result(parked, f, n, FALSE)
    BY DEF ApplyCandidate, dead
  <2>4. r.acc.state = "candidate_dead"
    BY <2>2, <2>3 DEF Result
  <2> QED BY <1>2, <2>4
<1>11. CASE ~v.out.cooldown
  BY <1>3, <1>8, <1>10, <1>11 DEF Result
<1>12. CASE v.out.cooldown
  <2> DEFINE st == IF v.card = "any_error" THEN "cooldown_policy"
                                           ELSE CooldownStateForSignal(e.signal)
             fresh == SetRecoverAt(SetAccountState(acc, st, "plugin_auto"),
                                   RecoverTimer(e, v))
             owned == StampLastAction(fresh, "cooldown")
             noted(result) ==
               CASE result = "err"   -> StampLastAction(owned, "cooldown_failed")
                 [] result = "still" -> StampLastAction(owned, "cooldown_file_still_open")
                 [] OTHER            -> owned
  <2>1. ApplyCooldown(acc, off[a], e, v) =
          IF CoolsAlready(acc, st)
          THEN {Result(StampLastAction(acc, "cooldown"), x.off, x.fuse, FALSE) :
                  x \in EnsureFile(TRUE, off[a], fuse)}
          ELSE {Result(noted(x.result), x.off, x.fuse, x.result = "err") :
                  x \in EnsureFile(TRUE, off[a], fuse)}
    BY DEF ApplyCooldown
  <2>2. st \in Cooldowns
    BY CooldownState DEF Cooldowns
  <2> HIDE DEF st
  <2>3. Row(fresh) /\ fresh.state = st
    BY <1>4, <1>6, <2>2, RecoverTimerType, CoolRow DEF SetRecoverAt, SetAccountState, Account
  <2> HIDE DEF fresh
  <2>4. Row(owned) /\ owned.state = st
    BY <2>3, StampRow, StampFields DEF Row, Actions
  <2> HIDE DEF owned
  <2>5. ASSUME NEW result PROVE noted(result).state = st
    BY <2>4, StampFields DEF Row
  <2> HIDE DEF noted
  <2>6. r \in ApplyCooldown(acc, off[a], e, v)
    BY <1>8, <1>10, <1>12
  <2>7. CASE CoolsAlready(acc, st)
    <3>1. PICK x : r = Result(StampLastAction(acc, "cooldown"), x.off, x.fuse, FALSE)
      BY <2>1, <2>6, <2>7
    <3> QED BY <1>3, <1>4, <3>1, StampFields DEF Result
  <2>8. CASE ~CoolsAlready(acc, st)
    <3>1. PICK x : r = Result(noted(x.result), x.off, x.fuse, x.result = "err")
      BY <2>1, <2>6, <2>8
    <3>2. r.acc.state = st
      BY <2>5, <3>1 DEF Result
    <3>3. CoolsAlready(acc, st)
      BY <1>3, <3>2 DEF CoolsAlready, RecoverAhead
    <3> QED BY <2>8, <3>3
  <2> QED BY <2>7, <2>8
<1> QED BY <1>11, <1>12

\* A late success neither.
LEMMA SuccessKeepsDeadline ==
  ASSUME NEW acc, Row(acc), acc.state # "active", NEW reset
  PROVE  UpdateQuota(EndErrorRun(ClearStreaksByCountMode(acc)), reset).recover = acc.recover
<1> DEFINE forgot == ClearStreaksByCountMode(acc)
           quiet == SetLastSignal(forgot, "")
           ended == EndErrorRun(forgot)
<1>1. Row(forgot) /\ forgot.state = acc.state /\ forgot.recover = acc.recover
  <2>1. Row(forgot)
    BY ForgetRow DEF ClearStreaksByCountMode
  <2>2. forgot.state = acc.state /\ forgot.recover = acc.recover
    BY DEF ClearStreaksByCountMode, ClearStreaksExcept, Row, Account
  <2> QED BY <2>1, <2>2
<1> HIDE DEF forgot
<1>2. Row(quiet) /\ quiet.state = acc.state /\ quiet.recover = acc.recover
  BY <1>1, SignalRow DEF SetLastSignal, Row, Account
<1> HIDE DEF quiet
<1>3. ended \in {quiet, ClearPendingObserve(quiet)}
  BY DEF EndErrorRun, quiet
<1>4. ended.state = acc.state /\ ended.recover = acc.recover
  BY <1>2, <1>3 DEF ClearPendingObserve, Row, Account
<1> HIDE DEF ended
<1>5. UpdateQuota(ended, reset) = ended
  BY <1>4 DEF UpdateQuota
<1> QED BY <1>4, <1>5 DEF ended, forgot

\* Where no relogin is installed, traffic that leaves a cooling row in its state
\* (another class may give it another, and a deadline of its own) never moves its
\* deadline, whatever the cards say: further failures of the family meet a row
\* that already cools, and only a live row takes a hint.
THEOREM DeadlineStands == ASSUME ~Relogin PROVE Spec => DeadlineNotStretched
<1> DEFINE Stands == \A a \in Auth :
       /\ IsCooldownState(acct[a].state) /\ RecoverAhead(acct[a])
       /\ acct'[a].state = acct[a].state
       /\ acct'[a].recover # acct[a].recover
       => /\ \A e \in Errors : ~HandleFailure(a, e)
          /\ \A reset \in Hints : ~UsageSuccess(a, reset)
<1>1. IInv /\ [Next]_vars => [Stands]_vars
  <2> SUFFICES ASSUME IInv, NEW a \in Auth,
                      IsCooldownState(acct[a].state), RecoverAhead(acct[a]),
                      acct'[a].state = acct[a].state,
                      acct'[a].recover # acct[a].recover
               PROVE  /\ \A e \in Errors : ~HandleFailure(a, e)
                      /\ \A reset \in Hints : ~UsageSuccess(a, reset)
    OBVIOUS
  <2>1. acct \in [Auth -> Account] /\ Row(acct[a]) /\ acct[a].state # "active"
    BY Given DEF IInv, TypeOK, IsCooldownState, Cooldowns
  <2>2. ASSUME NEW e \in Errors, HandleFailure(a, e) PROVE FALSE
    <3>1. PICK r \in FailureOutcomes(a, e) : acct' = [acct EXCEPT ![a] = r.acc]
      BY <2>2 DEF HandleFailure
    <3>2. acct'[a] = r.acc
      BY <2>1, <3>1
    <3> QED BY <3>1, <3>2, FailureKeepsDeadline
  <2>3. ASSUME NEW reset \in Hints, UsageSuccess(a, reset) PROVE FALSE
    BY <2>1, <2>3, SuccessKeepsDeadline DEF UsageSuccess
  <2> QED BY <2>2, <2>3
<1> QED BY <1>1, InitIInv, NextIInv, PTL DEF Spec, DeadlineNotStretched

-----------------------------------------------------------------------------
(* What was watched (GuardHistory).                                        *)

\* Watching restricts nothing and adds nothing.
LEMMA WatchedStep ==
  [WholeNext]_<<vars, run, opened>> => [Next]_vars
<1> SUFFICES ASSUME WholeNext PROVE Next
  BY DEF vars
<1>1. CASE \E a \in Auth, e \in Errors : HFailure(a, e)
  BY <1>1 DEF HFailure, Next, UsageStep
<1>2. CASE \E a \in Auth, reset \in Hints : HSuccess(a, reset)
  BY <1>2 DEF HSuccess, Next, UsageStep
<1>3. CASE HTick \/ HRest \/ HOther
  BY <1>3 DEF HTick, HRest, HOther, Next
<1> QED BY <1>1, <1>2, <1>3 DEF WholeNext, HNext

LEMMA WatchedIInv == WholeSpec => []IInv
<1>1. HInit => Init
  BY DEF HInit
<1> QED BY <1>1, WatchedStep, InitIInv, NextIInv, PTL DEF WholeSpec

-----------------------------------------------------------------------------
(* What a tick opens it does not close.                                    *)

\* The synchronisation leaves the file of such a row alone.
Quiet(acc) == ~ShouldProtectDisable(acc) \/ (Due(acc) /\ CanAutoReenable(acc))

\* A file that the recovery has opened has been visited, and its row is left
\* alone when the synchronisation comes to it.
OpenedQuiet ==
  /\ phase = "free" => opened = {}
  /\ opened \subseteq Auth
  /\ phase = "recover" => \A a \in opened : a \notin todo /\ Quiet(acct[a])
  /\ phase = "sync" => \A a \in opened \cap todo : Quiet(acct[a])

\* Opening a file closes none.
LEMMA OpenNeverCloses ==
  ASSUME NEW n, NEW x \in EnsureFile(FALSE, FALSE, n) PROVE x.off = FALSE
BY DEF EnsureFile

\* What the recovery opens is live afterwards, or still due when the answer was
\* an error.
LEMMA RecoverQuiet ==
  ASSUME NEW acc \in Account, Due(acc), NEW file,
         NEW r \in RecoverOutcomes(acc, file), r.off # file
  PROVE  Quiet(r.acc)
<1> DEFINE back(result) ==
             IF result = "err" THEN StampLastAction(acc, "reenable_failed")
                               ELSE Recovered(acc)
<1>1. ~HeldForOperator(acc) /\ CanAutoReenable(acc)
  <2>1. CASE HeldForOperator(acc)
    <3>1. RecoverOutcomes(acc, file) = {Result(SetRecoverAt(acc, Unset), file, fuse, TRUE)}
      BY <2>1, Zenon DEF RecoverOutcomes
    <3> QED BY <3>1 DEF Result
  <2>2. CASE ~HeldForOperator(acc) /\ ~CanAutoReenable(acc)
    <3>1. RecoverOutcomes(acc, file) = {Result(acc, file, fuse, TRUE)}
      BY <2>2, Zenon DEF RecoverOutcomes
    <3> QED BY <3>1 DEF Result
  <2> QED BY <2>1, <2>2
<1>2. PICK x \in EnsureFile(FALSE, file, fuse) :
        r = Result(back(x.result), x.off, x.fuse, x.result = "err")
  BY <1>1 DEF RecoverOutcomes
<1>3. CASE x.result = "err"
  <2>1. r.acc = StampLastAction(acc, "reenable_failed")
    BY <1>2, <1>3 DEF Result
  <2>2. Due(r.acc) /\ CanAutoReenable(r.acc)
    BY <1>1, <2>1, StampFields DEF Due, CanAutoReenable
  <2> QED BY <2>2 DEF Quiet
<1>4. CASE x.result # "err"
  <2>1. r.acc = StampLastAction(ResetToActive(acc), "reenable")
    BY <1>2, <1>4 DEF Result, Recovered
  <2>2. /\ r.acc.state = "active" /\ r.acc.source = "" /\ r.acc.recover = Unset
        /\ r.acc.action = "reenable"
    BY <2>1 DEF StampLastAction, ResetToActive, Account
  <2>3. ~(Unset > 0)
    BY DEF Unset
  <2>4. ~RecoverAhead(r.acc)
    BY <2>2, <2>3 DEF RecoverAhead
  <2>5. ~Holds(r.acc)
    BY <2>2, <2>4 DEF Holds, IsCooldownState, Cooldowns
  <2>6. ~JustClosed(r.acc)
    BY <2>2 DEF JustClosed
  <2> QED BY <2>5, <2>6 DEF Quiet, ShouldProtectDisable
<1> QED BY <1>3, <1>4

\* The synchronisation closes no file of a row that is to be left alone.
LEMMA QuietNotClosed ==
  ASSUME NEW acc, Quiet(acc), NEW file, file = FALSE, NEW shut,
         NEW r \in SyncFile(acc, file, shut)
  PROVE  r.off = FALSE
<1>1. \/ r = Result(acc, file, fuse, FALSE)
      \/ r \in ReopenForeignFile(acc, file) \/ r \in TagForeignFile(acc, file)
  BY DEF SyncFile, Quiet
<1>2. ASSUME r \in ReopenForeignFile(acc, file) PROVE r.off = FALSE
  <2>1. PICK p \in Patch(FALSE, file) : \E new : r = Result(new, p.off, fuse, FALSE)
    BY <1>2 DEF ReopenForeignFile
  <2>2. p.off = FALSE
    BY DEF Patch
  <2> QED BY <2>1, <2>2 DEF Result
<1>3. ASSUME r \in TagForeignFile(acc, file) PROVE r.off = FALSE
  <2>1. PICK new : r = Result(new, file, fuse, FALSE)
    BY <1>3 DEF TagForeignFile
  <2> QED BY <2>1 DEF Result
<1>4. ASSUME r = Result(acc, file, fuse, FALSE) PROVE r.off = FALSE
  BY <1>4 DEF Result
<1> QED BY <1>1, <1>2, <1>3, <1>4

\* Nothing is open by tick at first, and every step of the loop keeps it so
\* that what is open is left alone.
LEMMA InitOpenedQuiet == HInit => OpenedQuiet
BY DEF HInit, Init, OpenedQuiet

LEMMA NextOpenedQuiet ==
  IInv /\ DueTodo /\ OpenedQuiet /\ [WholeNext]_<<vars, run, opened>> => OpenedQuiet'
<1> SUFFICES ASSUME IInv, DueTodo, OpenedQuiet, [WholeNext]_<<vars, run, opened>>
             PROVE  OpenedQuiet'
  OBVIOUS
<1>0. acct \in [Auth -> Account] /\ off \in [Auth -> BOOLEAN] /\ todo \subseteq Auth
  BY DEF IInv, TypeOK
<1>1. CASE \E a \in Auth, e \in Errors : HFailure(a, e)
  BY <1>1 DEF HFailure, HandleFailure, tickVars, OpenedQuiet
<1>2. CASE \E a \in Auth, reset \in Hints : HSuccess(a, reset)
  BY <1>2 DEF HSuccess, UsageSuccess, PatrolSuccess, tickVars, OpenedQuiet
<1>3. CASE HTick
  <2>0. opened' = IF phase' = "free" THEN {}
                  ELSE opened \cup {a \in Auth : Visits(a) /\ Opens(a)}
    BY <1>3 DEF HTick
  <2>1. CASE TickStart
    BY <2>0, <2>1 DEF TickStart, Visits, OpenedQuiet
  <2>2. ASSUME NEW b \in Auth, RecoverOne(b) PROVE OpenedQuiet'
    <3>1. PICK r \in RecoverOutcomes(acct[b], off[b]) :
            acct' = [acct EXCEPT ![b] = r.acc] /\ off' = [off EXCEPT ![b] = r.off]
      BY <2>2 DEF RecoverOne
    <3>2. phase = "recover" /\ phase' = "recover" /\ b \in todo /\ todo' = todo \ {b}
      BY <2>2 DEF RecoverOne
    <3>3. {a \in Auth : Visits(a) /\ Opens(a)} \subseteq {b}
      BY <3>2 DEF Visits
    <3>4. ASSUME NEW a \in opened, a # b PROVE a \notin todo' /\ Quiet(acct'[a])
      BY <1>0, <3>1, <3>2, <3>4 DEF OpenedQuiet
    <3>5. b \notin opened
      BY <3>2 DEF OpenedQuiet
    <3>6. ASSUME Opens(b) PROVE Quiet(acct'[b])
      <4>1. r.off # off[b] /\ acct'[b] = r.acc
        BY <1>0, <3>1, <3>6 DEF Opens
      <4>2. Due(acct[b]) /\ acct[b] \in Account
        BY <1>0, <3>2 DEF DueTodo
      <4> QED BY <3>1, <4>1, <4>2, RecoverQuiet
    <3>7. ASSUME NEW a \in opened' PROVE a \in Auth /\ a \notin todo' /\ Quiet(acct'[a])
      <4>1. a \in opened \/ (a = b /\ Opens(b))
        BY <2>0, <3>2, <3>3, <3>7
      <4>2. opened \subseteq Auth
        BY DEF OpenedQuiet
      <4> QED BY <3>2, <3>4, <3>5, <3>6, <4>1, <4>2
    <3> QED BY <3>2, <3>7 DEF OpenedQuiet
  <2>3. CASE ListForSync
    BY <2>0, <2>3 DEF ListForSync, Visits, OpenedQuiet
  <2>4. ASSUME NEW b \in Auth, SyncOne(b) PROVE OpenedQuiet'
    <3>1. PICK shut \in Shown(b) : \E r \in SyncFile(acct[b], off[b], shut) :
            acct' = [acct EXCEPT ![b] = DropTag(r.acc, shut)]
      BY <2>4 DEF SyncOne
    <3>2. phase = "sync" /\ phase' = "sync" /\ b \in todo /\ todo' = todo \ {b}
      BY <2>4 DEF SyncOne
    <3>3. opened' \subseteq opened \cup {b} /\ opened' \subseteq Auth
      BY <2>0, <3>2 DEF Visits, OpenedQuiet
    <3>4. ASSUME NEW a \in opened' \cap todo' PROVE Quiet(acct'[a])
      <4>1. a \in opened \cap todo /\ a # b /\ a \in Auth
        BY <1>0, <3>2, <3>3
      <4>2. acct'[a] = acct[a]
        BY <1>0, <3>1, <4>1
      <4> QED BY <3>2, <4>1, <4>2 DEF OpenedQuiet
    <3> QED BY <3>2, <3>3, <3>4 DEF OpenedQuiet
  <2>5. CASE ListForHeal
    BY <2>0, <2>5 DEF ListForHeal, Visits, OpenedQuiet
  <2>6. ASSUME NEW b \in Auth, HealOne(b) PROVE OpenedQuiet'
    BY <2>0, <2>6 DEF HealOne, Visits, OpenedQuiet
  <2>7. CASE Hygiene
    BY <2>0, <2>7 DEF Hygiene, OpenedQuiet
  <2> QED BY <1>3, <2>1, <2>2, <2>3, <2>4, <2>5, <2>6, <2>7 DEF HTick, TickStep
<1>4. CASE HRest
  <2>1. CASE \E a \in Auth : ExternalFlip(a)
    BY <1>4, <2>1 DEF HRest, ExternalFlip, tickVars, OpenedQuiet
  <2>2. CASE PanelStep
    BY <1>4, <2>2 DEF HRest, PanelStep, ManualDisable, ManualEnable,
       ApplySuggestedCooldown, tickVars, OpenedQuiet
  <2>3. CASE Elapse
    BY <1>4, <2>3 DEF HRest, Elapse, tickVars, OpenedQuiet
  <2> QED BY <1>4, <2>1, <2>2, <2>3 DEF HRest
<1>5. CASE HOther
  BY <1>5 DEF HOther, MarkPendingBackfillAuths, ClearPendingBackfillAuths, Quieten,
     tickVars, OpenedQuiet
<1>6. CASE UNCHANGED <<vars, run, opened>>
  BY <1>6 DEF vars, OpenedQuiet
<1> QED BY <1>1, <1>2, <1>3, <1>4, <1>5, <1>6 DEF WholeNext, HNext

LEMMA WatchedDueTodo == WholeSpec => []DueTodo
<1>1. WholeSpec => Spec
  <2>1. HInit => Init
    BY DEF HInit
  <2> QED BY <2>1, WatchedStep, PTL DEF WholeSpec, Spec
<1> QED BY <1>1, DueTodoHolds, PTL

\* One tick closes no file that it has itself opened, for every number of
\* accounts and whatever CPA answers: what the recovery opens is live, or still
\* due, when the reassertion comes to it, and each loop visits a file once.
THEOREM NoTickFights == WholeSpec => NoSameTickFight
<1> DEFINE Peace == \A a \in Auth : Visits(a) /\ Closes(a) => a \notin opened
<1>1. IInv /\ DueTodo /\ OpenedQuiet /\ [WholeNext]_<<vars, run, opened>>
        => [Peace]_<<vars, run, opened>>
  <2> SUFFICES ASSUME IInv, OpenedQuiet, WholeNext, NEW a \in Auth,
                      Visits(a), Closes(a), a \in opened
               PROVE  FALSE
    OBVIOUS
  <2>0. /\ acct \in [Auth -> Account] /\ off \in [Auth -> BOOLEAN]
        /\ off[a] = FALSE /\ off'[a] # FALSE
        /\ phase' = phase /\ phase # "free" /\ a \in todo /\ a \notin todo'
    BY DEF IInv, TypeOK, Visits, Closes
  <2>1. phase # "recover"
    BY <2>0 DEF OpenedQuiet
  <2>2. Next
    BY <2>0, WatchedStep DEF vars
  <2>3. TickStep
    BY <2>0, <2>2 DEF Next, UsageStep, PanelStep, HandleFailure, UsageSuccess, PatrolSuccess,
       ManualDisable, ManualEnable, ApplySuggestedCooldown, MarkPendingBackfillAuths,
       ClearPendingBackfillAuths, ExternalFlip, Elapse, Quieten, tickVars
  <2>4. PICK b \in Auth : SyncOne(b) \/ HealOne(b)
    BY <2>0, <2>1, <2>3
    DEF TickStep, TickStart, ListForSync, ListForHeal, Hygiene, RecoverOne
  <2>5. b = a
    BY <2>0, <2>4 DEF SyncOne, HealOne
  <2>6. CASE SyncOne(b)
    <3>1. PICK shut \in Shown(a) : \E r \in SyncFile(acct[a], off[a], shut) :
            off' = [off EXCEPT ![a] = r.off]
      BY <2>5, <2>6 DEF SyncOne
    <3>2. PICK r \in SyncFile(acct[a], off[a], shut) : off' = [off EXCEPT ![a] = r.off]
      BY <3>1
    <3>3. Quiet(acct[a])
      BY <2>0, <2>5, <2>6 DEF SyncOne, OpenedQuiet
    <3>4. r.off = FALSE
      BY <2>0, <3>2, <3>3, QuietNotClosed
    <3> QED BY <2>0, <3>2, <3>4
  <2>7. CASE HealOne(b)
    <3>1. PICK r \in HealOutcomes(acct[a], off[a]) \cup {Result(acct[a], off[a], fuse, FALSE)} :
            off' = [off EXCEPT ![a] = r.off]
      BY <2>5, <2>7 DEF HealOne
    <3>2. ASSUME r \in HealOutcomes(acct[a], off[a]) PROVE r.off = FALSE
      <4>1. PICK x \in EnsureFile(FALSE, FALSE, fuse) : \E new : r = Result(new, x.off, x.fuse, FALSE)
        BY <2>0, <3>2 DEF HealOutcomes
      <4>2. x.off = FALSE
        BY OpenNeverCloses
      <4> QED BY <4>1, <4>2 DEF Result
    <3>3. ASSUME r = Result(acct[a], off[a], fuse, FALSE) PROVE r.off = FALSE
      BY <2>0, <3>3 DEF Result
    <3> QED BY <2>0, <3>1, <3>2, <3>3
  <2> QED BY <2>4, <2>6, <2>7
<1> QED BY <1>1, WatchedIInv, WatchedDueTodo, InitOpenedQuiet, NextOpenedQuiet, PTL
      DEF WholeSpec, NoSameTickFight

-----------------------------------------------------------------------------
(* The streaks of a row and the failures that really came in a row.        *)

Quota == {"free_usage_429", "spending_limit_402"}
Ladders == (Keys \ Quota) \ TotalKeys
Runs == [key : Keys \cup {""}, n : 0..MaxStreak, all : 0..MaxStreak]

\* A 401 may be routed to a class of its own, and a relogin then leaves
\* auth_401 as the signal of a row that counts for that class: its count is
\* stale, and cleared by the next failure of the class.
Split == Relogin /\ \E e \in Errors : e.signal = "auth_401" /\ e.key # "auth_401"
Stale(acc, k) == Split /\ acc.sig = "auth_401" /\ k # "auth_401"

\* Only the class of the last signal has a count, and no higher one than the
\* run: when another class fails the counts of the last one are cleared.
RunRow(acc, r) ==
  /\ \A k \in Ladders : ~Stale(acc, k) =>
       /\ acc.streak[k] <= IF r.key = k THEN r.n ELSE 0
       /\ acc.streak[k] > 0 => acc.sig = k
  /\ "any_error" \notin TotalKeys => acc.streak["any_error"] <= r.all

RunsMatch == run \in [Auth -> Runs] /\ \A a \in Auth : RunRow(acct[a], run[a])

\* Neither the counts nor the signal change, or a quota signal is dropped.
Same(acc, new) == new.streak = acc.streak /\ new.sig = acc.sig
SameRun(acc, new) ==
  new.streak = acc.streak /\ (new.sig = acc.sig \/ (acc.sig \in Quota /\ new.sig = ""))
Forgot(new) == \A k \in Counters \ TotalKeys : new.streak[k] = 0

LEMMA LadderKeys ==
  /\ Ladders \subseteq Keys /\ Ladders \subseteq Counters
  /\ "any_error" \in Counters /\ "any_error" \notin Keys /\ "" \notin Keys
  /\ \A k \in Ladders : k \notin Quota /\ k \notin TotalKeys /\ k # "any_error" /\ k # ""
BY KeysAssumption DEF Ladders, Counters

LEMMA StreakType ==
  ASSUME NEW acc \in Account, NEW k \in Counters PROVE acc.streak[k] \in 0..MaxStreak
BY DEF Account

LEMMA SameRunRow ==
  ASSUME NEW acc \in Account, NEW new, SameRun(acc, new), NEW r, RunRow(acc, r)
  PROVE  RunRow(new, r)
<1>1. ASSUME NEW k \in Ladders, ~Stale(new, k)
      PROVE  /\ new.streak[k] <= IF r.key = k THEN r.n ELSE 0
             /\ new.streak[k] > 0 => new.sig = k
  <2>1. CASE new.sig = acc.sig
    BY <1>1, <2>1 DEF RunRow, Stale, SameRun
  <2>2. CASE acc.sig \in Quota
    <3>1. ~Stale(acc, k) /\ acc.sig # k
      BY <1>1, <2>2, LadderKeys DEF Stale, Quota
    <3> QED BY <1>1, <3>1 DEF RunRow, SameRun
  <2> QED BY <2>1, <2>2 DEF SameRun
<1> QED BY <1>1 DEF RunRow, SameRun

LEMMA ForgotRunRow ==
  ASSUME NEW new, Forgot(new), NEW r \in Runs PROVE RunRow(new, r)
<1>1. ASSUME NEW k \in Ladders PROVE new.streak[k] = 0
  BY LadderKeys DEF Forgot
<1>2. r.n \in Nat /\ r.all \in Nat
  <2>1. r.n \in 0..MaxStreak /\ r.all \in 0..MaxStreak
    BY DEF Runs
  <2> QED BY <2>1, BoundsAssumption
<1>3. "any_error" \notin TotalKeys => new.streak["any_error"] = 0
  BY LadderKeys DEF Forgot
<1> QED BY <1>1, <1>2, <1>3 DEF RunRow

\* The setters that are about something else.
LEMMA SameSetters ==
  ASSUME NEW acc \in Account
  PROVE  /\ \A name : Same(acc, StampLastAction(acc, name))
         /\ \A timer : Same(acc, SetRecoverAt(acc, timer))
         /\ \A s, src : Same(acc, SetAccountState(acc, s, src))
         /\ Same(acc, ResetToActive(acc)) /\ Same(acc, ClearCoolDownResidue(acc))
         /\ Same(acc, ClearPendingObserve(acc)) /\ Same(acc, TouchLastHealAt(acc))
         /\ Same(acc, IncHealFailStreak(acc)) /\ Same(acc, ClearHealFailStreak(acc))
         /\ Same(acc, MarkCPAFileDisabled(acc)) /\ Same(acc, OneUnitLater(acc))
<1>1. /\ \A name : Same(acc, StampLastAction(acc, name))
      /\ \A timer : Same(acc, SetRecoverAt(acc, timer))
  BY DEF Same, StampLastAction, SetRecoverAt, Account
<1>2. \A s, src : Same(acc, SetAccountState(acc, s, src))
  BY DEF Same, SetAccountState, Account
<1>3. Same(acc, ResetToActive(acc)) /\ Same(acc, ClearCoolDownResidue(acc))
  BY DEF Same, ResetToActive, ClearCoolDownResidue, Account
<1>4. Same(acc, ClearPendingObserve(acc)) /\ Same(acc, TouchLastHealAt(acc))
  BY DEF Same, ClearPendingObserve, TouchLastHealAt, Account
<1>5. Same(acc, IncHealFailStreak(acc)) /\ Same(acc, ClearHealFailStreak(acc))
  BY DEF Same, IncHealFailStreak, ClearHealFailStreak, Account
<1>6. Same(acc, MarkCPAFileDisabled(acc)) /\ Same(acc, OneUnitLater(acc))
  BY DEF Same, MarkCPAFileDisabled, OneUnitLater, Account
<1> QED BY <1>1, <1>2, <1>3, <1>4, <1>5, <1>6

\* A change of owner, with its deadline and its stamp.
LEMMA SameStamped ==
  ASSUME NEW acc \in Account, NEW new \in Account, Same(acc, new), NEW name
  PROVE  Same(acc, StampLastAction(new, name))
BY SameSetters DEF Same

LEMMA SameTaken ==
  ASSUME NEW acc \in Account, NEW s \in States, NEW src \in Sources, NEW timer \in Timer
  PROVE  /\ Same(acc, SetRecoverAt(SetAccountState(acc, s, src), timer))
         /\ SetRecoverAt(SetAccountState(acc, s, src), timer) \in Account
<1>1. SetAccountState(acc, s, src) \in Account
  BY SetAccountStateType
<1> QED BY <1>1, SameSetters, SetRecoverAtType DEF Same

-----------------------------------------------------------------------------
(* tick counts nothing.                                                    *)

LEMMA HoldRun ==
  ASSUME NEW acc, Row(acc) PROVE Same(acc, HoldCandidate(acc))
<1>1. SetRecoverAt(acc, Unset) \in Account /\ Same(acc, SetRecoverAt(acc, Unset))
  BY SetRecoverAtType, FieldValues, SameSetters DEF Row
<1>2. Same(acc, StampLastAction(SetRecoverAt(acc, Unset), "candidate_hold"))
  BY <1>1, SameStamped DEF Row
<1> QED BY <1>2 DEF HoldCandidate, Same

LEMMA RecoverRun ==
  ASSUME NEW acc, Row(acc), NEW file, NEW r \in RecoverOutcomes(acc, file)
  PROVE  Same(acc, r.acc)
<1> DEFINE back(result) ==
             IF result = "err" THEN StampLastAction(acc, "reenable_failed")
                               ELSE Recovered(acc)
<1>0. acc \in Account
  BY DEF Row
<1>1. Same(acc, SetRecoverAt(acc, Unset)) /\ Same(acc, StampLastAction(acc, "reenable_failed"))
  BY <1>0, SameSetters
<1>2. Same(acc, Recovered(acc))
  BY <1>0, SameSetters, SameStamped, ResetToActiveType DEF Recovered
<1>3. CASE HeldForOperator(acc)
  <2>1. RecoverOutcomes(acc, file) = {Result(SetRecoverAt(acc, Unset), file, fuse, TRUE)}
    BY <1>3, Zenon DEF RecoverOutcomes
  <2> QED BY <1>1, <2>1 DEF Result
<1>4. CASE ~HeldForOperator(acc) /\ ~CanAutoReenable(acc)
  <2>1. RecoverOutcomes(acc, file) = {Result(acc, file, fuse, TRUE)}
    BY <1>4, Zenon DEF RecoverOutcomes
  <2> QED BY <2>1 DEF Result, Same
<1>5. CASE ~HeldForOperator(acc) /\ CanAutoReenable(acc)
  <2>1. PICK x \in EnsureFile(FALSE, file, fuse) :
          r = Result(back(x.result), x.off, x.fuse, x.result = "err")
    BY <1>5 DEF RecoverOutcomes
  <2>2. Same(acc, back(x.result))
    BY <1>1, <1>2
  <2> HIDE DEF back
  <2> QED BY <2>1, <2>2 DEF Result
<1> QED BY <1>3, <1>4, <1>5

LEMMA SyncRun ==
  ASSUME TypeOK, NEW acc, Row(acc), NEW file \in BOOLEAN, NEW shut,
         NEW r \in SyncFile(acc, file, shut)
  PROVE  Same(acc, DropTag(r.acc, shut))
<1>0. acc \in Account
  BY DEF Row
<1>1. \/ r = Result(acc, file, fuse, FALSE)
      \/ r \in Reassert(acc, file)
      \/ r \in ReopenForeignFile(acc, file)
      \/ r \in TagForeignFile(acc, file)
  BY DEF SyncFile
<1>2. ASSUME r \in Reassert(acc, file) PROVE Same(acc, r.acc)
  <2>1. PICK name, f, n : r = Result(StampLastAction(acc, name), f, n, FALSE)
    BY <1>2 DEF Reassert
  <2> QED BY <1>0, <2>1, SameSetters DEF Result
<1>3. ASSUME r \in ReopenForeignFile(acc, file) PROVE Same(acc, r.acc)
  <2> DEFINE freed == IF acc.source = "cpa_file_disabled" THEN ResetToActive(acc) ELSE acc
  <2>1. freed \in Account /\ Same(acc, freed)
    BY <1>0, SameSetters, ResetToActiveType DEF Same
  <2>2. PICK p \in Patch(FALSE, file) : 
          r = Result(StampLastAction(IF p.ok THEN freed ELSE acc,
                                     IF p.ok THEN "reopen_foreign"
                                             ELSE "reopen_foreign_failed"),
                     p.off, fuse, FALSE)
    BY <1>3 DEF ReopenForeignFile
  <2> DEFINE row == IF p.ok THEN freed ELSE acc
             name == IF p.ok THEN "reopen_foreign" ELSE "reopen_foreign_failed"
  <2>3. row \in Account /\ Same(acc, row)
    BY <1>0, <2>1 DEF Same
  <2>4. r = Result(StampLastAction(row, name), p.off, fuse, FALSE)
    BY <2>2
  <2> HIDE DEF freed, row, name
  <2>5. Same(acc, StampLastAction(row, name))
    BY <1>0, <2>3, SameStamped
  <2> QED BY <2>4, <2>5 DEF Result
<1>4. ASSUME r \in TagForeignFile(acc, file) PROVE Same(acc, r.acc)
  <2> DEFINE tagged == SetRecoverAt(SetAccountState(acc, "user_manual", "cpa_file_disabled"), Unset)
  <2>1. tagged \in Account /\ Same(acc, tagged)
    BY <1>0, SameTaken, FieldValues DEF States, Sources
  <2>2. r = Result(StampLastAction(tagged, "file_disabled_sync"), file, fuse, FALSE)
    BY <1>4 DEF TagForeignFile
  <2> HIDE DEF tagged
  <2> QED BY <1>0, <2>1, <2>2, SameStamped DEF Result
<1>5. Same(acc, r.acc)
  BY <1>1, <1>2, <1>3, <1>4 DEF Result, Same
<1>6. r.acc \in Account
  BY SyncGood DEF Good, Row
<1>7. Same(acc, StampLastAction(ResetToActive(r.acc), "clear_cpa_disabled_tag"))
  <2>1. ResetToActive(r.acc) \in Account /\ Same(r.acc, ResetToActive(r.acc))
    BY <1>6, SameSetters, ResetToActiveType
  <2> QED BY <1>0, <1>5, <2>1, SameStamped DEF Same
<1> QED BY <1>5, <1>7 DEF DropTag

LEMMA HealRun ==
  ASSUME NEW acc, Row(acc), NEW file, NEW r \in HealOutcomes(acc, file)
  PROVE  Same(acc, r.acc)
<1> DEFINE tried == TouchLastHealAt(acc)
           failed == IncHealFailStreak(tried)
           after(result) ==
             CASE result = "ok" ->
                    StampLastAction(ClearHealFailStreak(tried), "heal_active_file")
               [] result = "still" ->
                    IF failed.healFail >= HealStuckAfter
                    THEN StampLastAction(MarkCPAFileDisabled(failed),
                                         "heal_active_file_stuck")
                    ELSE StampLastAction(failed, "heal_active_file_failed")
               [] OTHER -> StampLastAction(tried, "heal_active_file_failed")
<1>1. PICK x \in EnsureFile(FALSE, file, fuse) :
        r = Result(after(x.result), x.off, x.fuse, FALSE)
  BY DEF HealOutcomes
<1>2. acc \in Account /\ tried \in Account /\ Same(acc, tried)
  BY HealFieldsType, SameSetters DEF Row
<1> HIDE DEF tried
<1>3. /\ ClearHealFailStreak(tried) \in Account /\ Same(acc, ClearHealFailStreak(tried))
      /\ failed \in Account /\ Same(acc, failed)
  BY <1>2, HealFieldsType, SameSetters DEF Same
<1> HIDE DEF failed
<1>4. MarkCPAFileDisabled(failed) \in Account /\ Same(acc, MarkCPAFileDisabled(failed))
  BY <1>3, MarkCPAFileDisabledType, SameSetters DEF Same
<1>5. /\ Same(acc, StampLastAction(ClearHealFailStreak(tried), "heal_active_file"))
      /\ Same(acc, StampLastAction(MarkCPAFileDisabled(failed), "heal_active_file_stuck"))
      /\ Same(acc, StampLastAction(failed, "heal_active_file_failed"))
      /\ Same(acc, StampLastAction(tried, "heal_active_file_failed"))
  BY <1>2, <1>3, <1>4, SameStamped
<1>6. Same(acc, after(x.result))
  BY <1>5
<1> HIDE DEF after
<1> QED BY <1>1, <1>6 DEF Result

\* Expiry may drop a quota signal.
LEMMA HygieneRun ==
  ASSUME NEW acc, Row(acc)
  PROVE  SameRun(acc, ScrubDirtyActive(ExpireIdlePendingObserve(acc)))
<1> DEFINE quiet == ExpireIdlePendingObserve(acc)
<1>1. Row(quiet) /\ SameRun(acc, quiet)
  <2>1. SameRun(acc, ExpireIdlePending(acc))
    BY DEF SameRun, ExpireIdlePending, Quota, Row, Account
  <2> QED BY <2>1, ExpireRow DEF ExpireIdlePendingObserve, SameRun
<1> HIDE DEF quiet
<1>2. ASSUME quiet.state = "active" PROVE quiet.source # "plugin_auto"
  BY <1>1, <1>2 DEF Row, RowCoherent
<1>3. ScrubDirtyActive(quiet) \in {quiet, StampLastAction(ClearCoolDownResidue(quiet), "scrub_active")}
  BY <1>2 DEF ScrubDirtyActive
<1>4. Same(quiet, StampLastAction(ClearCoolDownResidue(quiet), "scrub_active"))
  BY <1>1, ClearCoolDownResidueType, SameSetters, SameStamped DEF Row
<1>5. SameRun(acc, ScrubDirtyActive(quiet))
  BY <1>1, <1>3, <1>4 DEF SameRun, Same
<1> QED BY <1>5 DEF quiet

-----------------------------------------------------------------------------
(* A success, an unlock and the panel's other operations.                  *)

LEMMA ForgetForgets ==
  ASSUME NEW acc \in Account
  PROVE  /\ Forgot(ClearStreaksByCountMode(acc)) /\ Forgot(ClearStreaksExcept(acc, {}))
         /\ ClearStreaksByCountMode(acc) \in Account /\ ClearStreaksExcept(acc, {}) \in Account
<1>1. /\ ClearStreaksByCountMode(acc) \in Account /\ ClearStreaksExcept(acc, {}) \in Account
  BY ClearStreaksType DEF ClearStreaksByCountMode
<1>2. /\ Forgot(ClearStreaksByCountMode(acc)) /\ Forgot(ClearStreaksExcept(acc, {}))
  BY DEF Forgot, ClearStreaksByCountMode, ClearStreaksExcept, Account
<1> QED BY <1>1, <1>2

LEMMA SameForgot ==
  ASSUME NEW acc, NEW new, Forgot(acc), Same(acc, new) PROVE Forgot(new)
BY DEF Forgot, Same

LEMMA UnlockForgets ==
  ASSUME NEW acc \in Account PROVE Forgot(ClearManualLock(acc))
<1> DEFINE r == ClearStreaksExcept(ResetToActive(acc), {})
<1>1. r \in Account /\ Forgot(r)
  BY ResetToActiveType, ForgetForgets
<1>2. ClearManualLock(acc) = [r EXCEPT !.sig = "", !.pending = FALSE,
                                       !.since = Unset, !.healFail = 0]
  BY DEF ClearManualLock
<1> HIDE DEF r
<1>3. ClearManualLock(acc).streak = r.streak
  BY <1>1, <1>2 DEF Account
<1> QED BY <1>1, <1>3 DEF Forgot

\* A success: whatever the probe finds, no streak is left.
LEMMA EndForgets ==
  ASSUME NEW acc, Row(acc), Forgot(acc), NEW reset
  PROVE  Forgot(UpdateQuota(EndErrorRun(acc), reset))
<1> DEFINE quiet == SetLastSignal(acc, "")
           ended == EndErrorRun(acc)
<1>1. Row(quiet) /\ quiet.streak = acc.streak
  BY SignalRow DEF SetLastSignal, Row, Account
<1> HIDE DEF quiet
<1>2. ended \in {quiet, ClearPendingObserve(quiet)}
  BY DEF EndErrorRun, quiet
<1>3. ended.streak = acc.streak /\ Row(ended)
  BY <1>1, <1>2, SameSetters, UnwatchedRow DEF Same, Row
<1> HIDE DEF ended
<1>4. UpdateQuota(ended, reset) \in {ended, SetRecoverAt(ended, reset)}
  BY DEF UpdateQuota
<1>5. UpdateQuota(ended, reset).streak = acc.streak
  BY <1>3, <1>4, SameSetters DEF Same, Row
<1> QED BY <1>5 DEF Forgot, ended

LEMMA ReopenForgets ==
  ASSUME NEW acc, Row(acc), Forgot(acc), NEW answered
  PROVE  Forgot(ReopenAfterProbeAlive(acc, answered))
<1>1. acc \in Account /\ ResetToActive(acc) \in Account /\ ClearManualLock(acc) \in Account
  BY ResetToActiveType, ClearManualLockType DEF Row
<1>2. Forgot(ClearManualLock(acc)) /\ Forgot(ResetToActive(acc))
  BY <1>1, UnlockForgets, SameSetters, SameForgot
<1>3. /\ Forgot(ResetToActive(ClearManualLock(acc)))
      /\ ResetToActive(ClearManualLock(acc)) \in Account
  BY <1>1, <1>2, SameSetters, SameForgot, ResetToActiveType
<1>4. ASSUME NEW new \in Account, Forgot(new), NEW name PROVE Forgot(StampLastAction(new, name))
  BY <1>4, SameSetters, SameForgot
<1> QED BY <1>1, <1>2, <1>3, <1>4 DEF ReopenAfterProbeAlive

\* Which rows a success, or the panel, leaves.
LEMMA SuccessForgets ==
  ASSUME IInv, NEW a \in Auth, NEW reset \in Hints,
         UsageSuccess(a, reset) \/ PatrolSuccess(a, reset)
  PROVE  \E new : Forgot(new) /\ acct' = [acct EXCEPT ![a] = new]
<1> DEFINE forgot == ClearStreaksByCountMode(acct[a])
<1>1. Row(acct[a]) /\ Row(forgot) /\ Forgot(forgot)
  BY Given, ForgetRow, ForgetForgets DEF ClearStreaksByCountMode, Row
<1>2. CASE UsageSuccess(a, reset)
  <2> DEFINE new == UpdateQuota(EndErrorRun(forgot), reset)
  <2>1. Forgot(new)
    BY <1>1, EndForgets
  <2>2. acct' = [acct EXCEPT ![a] = new]
    BY <1>2 DEF UsageSuccess
  <2> HIDE DEF new
  <2> QED BY <2>1, <2>2
<1>3. CASE PatrolSuccess(a, reset)
  <2>1. PICK p : acct' = [acct EXCEPT ![a] =
                   UpdateQuota(EndErrorRun(ReopenAfterProbeAlive(
                     ClearStreaksByCountMode(@), p.ok)), reset)]
    BY <1>3 DEF PatrolSuccess
  <2> DEFINE alive == ReopenAfterProbeAlive(forgot, p.ok)
             new == UpdateQuota(EndErrorRun(alive), reset)
  <2>2. Row(alive) /\ Forgot(alive)
    BY <1>1, ReopenRow, ReopenForgets
  <2>3. acct' = [acct EXCEPT ![a] = new]
    BY <2>1
  <2> HIDE DEF alive
  <2>4. Forgot(new)
    BY <2>2, EndForgets
  <2> HIDE DEF new
  <2> QED BY <2>3, <2>4
<1> QED BY <1>2, <1>3

LEMMA PanelCounts ==
  ASSUME IInv, NEW a \in Auth,
         ManualDisable(a) \/ ManualEnable(a) \/ ApplySuggestedCooldown(a)
  PROVE  \E new : (Same(acct[a], new) \/ Forgot(new)) /\ acct' = [acct EXCEPT ![a] = new]
<1>0. acct[a] \in Account
  BY DEF IInv, TypeOK
<1>1. CASE ManualDisable(a)
  <2> DEFINE locked == SetRecoverAt(
                     SetAccountState(acct[a], "user_manual", "user_manual"), Unset)
  <2>1. locked \in Account /\ Same(acct[a], locked)
    BY <1>0, SameTaken, FieldValues DEF States, Sources
  <2>2. Same(acct[a], StampLastAction(locked, "manual_disable"))
    BY <1>0, <2>1, SameStamped
  <2>3. \/ acct' = [acct EXCEPT ![a] = StampLastAction(locked, "manual_disable")]
        \/ acct' = [acct EXCEPT ![a] = locked]
    BY <1>1 DEF ManualDisable
  <2> HIDE DEF locked
  <2> QED BY <2>1, <2>2, <2>3
<1>2. CASE ManualEnable(a)
  <2>1. \/ acct' = [acct EXCEPT ![a] = StampLastAction(acct[a], "manual_enable_failed")]
        \/ \E name : acct' = [acct EXCEPT ![a] = StampLastAction(ClearManualLock(acct[a]), name)]
    BY <1>2 DEF ManualEnable
  <2>2. Same(acct[a], StampLastAction(acct[a], "manual_enable_failed"))
    BY <1>0, SameSetters
  <2>3. ASSUME NEW name PROVE Forgot(StampLastAction(ClearManualLock(acct[a]), name))
    BY <1>0, UnlockForgets, ClearManualLockType, SameSetters, SameForgot
  <2> QED BY <2>1, <2>2, <2>3
<1>3. CASE ApplySuggestedCooldown(a)
  <2> DEFINE st == CooldownStateForSignal(acct[a].sig)
             cooled == SetRecoverAt(SetAccountState(acct[a], st, "plugin_auto"), Capped(Day))
  <2>1. st \in States /\ "plugin_auto" \in Sources /\ Capped(Day) \in Timer
    BY CooldownState, ConfigAssumption DEF States, Sources, Capped, Timer
  <2> HIDE DEF st
  <2>2. cooled \in Account /\ Same(acct[a], cooled)
    BY <1>0, <2>1, SameTaken
  <2>3. Same(acct[a], StampLastAction(cooled, "cooldown")) /\ Same(acct[a], StampLastAction(acct[a], "cooldown_failed"))
    BY <1>0, <2>2, SameStamped, SameSetters
  <2>4. \/ acct' = [acct EXCEPT ![a] = StampLastAction(cooled, "cooldown")]
        \/ acct' = [acct EXCEPT ![a] = StampLastAction(acct[a], "cooldown_failed")]
    BY <1>3 DEF ApplySuggestedCooldown, st
  <2> HIDE DEF cooled
  <2> QED BY <2>3, <2>4
<1> QED BY <1>1, <1>2, <1>3

-----------------------------------------------------------------------------
(* A failure.                                                              *)

\* What is left of the counts when the run of a class begins or goes on.
Begun(acc, e, k) ==
  IF acc.sig \in {"", e.key, "any_error"} \/ k = "any_error" THEN acc.streak[k] ELSE 0

LEMMA CountedRun ==
  ASSUME NEW acc, Row(acc), NEW e \in Errors
  PROVE  /\ Counted(acc, e).sig = e.key
         /\ \A k \in Counters : Counted(acc, e).streak[k] =
              IF k \in {e.key, "any_error"} THEN More(Begun(acc, e, k)) ELSE Begun(acc, e, k)
<1> DEFINE hinted == IF e.signal = "free_usage_429" THEN UpdateQuota(acc, e.reset)
                                                    ELSE acc
           begun == BeginFingerprintRun(hinted, e.key)
           once == IncStreak(begun, e.key)
<1>0. e.key \in Keys /\ e.key \in Counters /\ "any_error" \in Counters /\ e.key # "any_error"
      /\ e.reset \in Timer
  BY TrafficAssumption, LadderKeys DEF Failure, Counters, Timer
<1>1. hinted \in Account /\ Same(acc, hinted)
  <2>1. hinted \in {acc, SetRecoverAt(acc, e.reset)}
    BY DEF UpdateQuota
  <2>2. Same(acc, SetRecoverAt(acc, e.reset)) /\ SetRecoverAt(acc, e.reset) \in Account
    BY <1>0, SameSetters, SetRecoverAtType DEF Row
  <2> HIDE DEF hinted
  <2> QED BY <2>1, <2>2 DEF Same, Row
<1> HIDE DEF hinted
<1>2. begun \in Account /\ \A k \in Counters : begun.streak[k] = Begun(acc, e, k)
  <2>1. ClearStreaksExcept(hinted, {"any_error"}) \in Account
    BY <1>1, ClearStreaksType
  <2>2. \A k \in Counters : ClearStreaksExcept(hinted, {"any_error"}).streak[k] =
          IF k = "any_error" THEN hinted.streak[k] ELSE 0
    BY <1>1 DEF ClearStreaksExcept, Account
  <2>3. CASE acc.sig \in {"", e.key, "any_error"}
    <3>1. begun = hinted
      BY <1>1, <2>3 DEF BeginFingerprintRun, Same
    <3> QED BY <1>1, <2>3, <3>1 DEF Begun, Same
  <2>4. CASE acc.sig \notin {"", e.key, "any_error"}
    <3>1. begun = ClearStreaksExcept(hinted, {"any_error"})
      BY <1>1, <2>4 DEF BeginFingerprintRun, Same
    <3> HIDE DEF begun
    <3> QED BY <1>1, <2>1, <2>2, <2>4, <3>1 DEF Begun, Same
  <2> QED BY <2>3, <2>4
<1> HIDE DEF begun
<1>3. once \in Account /\ once.sig = e.key
      /\ \A k \in Counters : once.streak[k] = IF k = e.key THEN More(begun.streak[k]) ELSE begun.streak[k]
  <2>1. once \in Account
    BY <1>0, <1>2, IncStreakType
  <2>2. once.sig = e.key
    BY <1>0, <1>2 DEF IncStreak, Account
  <2>3. \A k \in Counters : once.streak[k] = IF k = e.key THEN More(begun.streak[k]) ELSE begun.streak[k]
    BY <1>0, <1>2 DEF IncStreak, Account, More
  <2> QED BY <2>1, <2>2, <2>3
<1> HIDE DEF once
<1>4. IncStreak(once, "any_error").sig = e.key
      /\ \A k \in Counters : IncStreak(once, "any_error").streak[k] =
           IF k = "any_error" THEN More(once.streak[k]) ELSE once.streak[k]
  <2>1. IncStreak(once, "any_error").sig = e.key
    BY <1>3 DEF IncStreak, Account
  <2>2. \A k \in Counters : IncStreak(once, "any_error").streak[k] =
           IF k = "any_error" THEN More(once.streak[k]) ELSE once.streak[k]
    BY <1>0, <1>3 DEF IncStreak, Account, More
  <2> QED BY <2>1, <2>2
<1>5. Counted(acc, e) = IncStreak(once, "any_error")
  BY DEF Counted, once, begun, hinted
<1> QED BY <1>0, <1>2, <1>3, <1>4, <1>5

\* Closing, parking and locking count nothing,
LEMMA CooldownRun ==
  ASSUME TypeOK, NEW acc, Row(acc), NEW file \in BOOLEAN, NEW e \in Errors,
         NEW v, v.out \in Outcome, NEW r \in ApplyCooldown(acc, file, e, v)
  PROVE  Same(acc, r.acc)
<1> DEFINE st == IF v.card = "any_error" THEN "cooldown_policy"
                                         ELSE CooldownStateForSignal(e.signal)
           fresh == SetRecoverAt(SetAccountState(acc, st, "plugin_auto"),
                                 RecoverTimer(e, v))
           owned == StampLastAction(fresh, "cooldown")
           noted(result) ==
             CASE result = "err"   -> StampLastAction(owned, "cooldown_failed")
               [] result = "still" -> StampLastAction(owned, "cooldown_file_still_open")
               [] OTHER            -> owned
<1>0. acc \in Account
  BY DEF Row
<1>1. ApplyCooldown(acc, file, e, v) =
        IF CoolsAlready(acc, st)
        THEN {Result(StampLastAction(acc, "cooldown"), x.off, x.fuse, FALSE) :
                x \in EnsureFile(TRUE, file, fuse)}
        ELSE {Result(noted(x.result), x.off, x.fuse, x.result = "err") :
                x \in EnsureFile(TRUE, file, fuse)}
  BY DEF ApplyCooldown
<1>2. st \in States /\ "plugin_auto" \in Sources /\ RecoverTimer(e, v) \in Timer
  BY CooldownState, RecoverTimerType DEF States, Sources, Cooldowns, Timer
<1> HIDE DEF st
<1>3. fresh \in Account /\ Same(acc, fresh)
  BY <1>0, <1>2, SameTaken
<1> HIDE DEF fresh
<1>4. owned \in Account /\ Same(acc, owned)
  BY <1>0, <1>3, StampType, SameStamped DEF Actions
<1> HIDE DEF owned
<1>5. ASSUME NEW result PROVE Same(acc, noted(result))
  BY <1>0, <1>4, SameStamped
<1> HIDE DEF noted
<1>6. Same(acc, StampLastAction(acc, "cooldown"))
  BY <1>0, SameSetters
<1>7. CASE CoolsAlready(acc, st)
  <2>1. PICK x \in EnsureFile(TRUE, file, fuse) :
          r = Result(StampLastAction(acc, "cooldown"), x.off, x.fuse, FALSE)
    BY <1>1, <1>7
  <2> QED BY <1>6, <2>1 DEF Result
<1>8. CASE ~CoolsAlready(acc, st)
  <2>1. PICK x \in EnsureFile(TRUE, file, fuse) :
          r = Result(noted(x.result), x.off, x.fuse, x.result = "err")
    BY <1>1, <1>8
  <2>2. Same(acc, noted(x.result))
    BY <1>5
  <2> QED BY <2>1, <2>2 DEF Result
<1> QED BY <1>7, <1>8

LEMMA CandidateRun ==
  ASSUME NEW q, Good(q), NEW e \in Errors, NEW r \in ApplyCandidate(q, e)
  PROVE  Same(q.acc, r.acc)
<1> DEFINE dead == SetAccountState(q.acc, "candidate_dead", "plugin_auto")
           timer == IF e.signal # "auth_401" THEN Unset
                    ELSE IF dead.recover # Unset THEN dead.recover
                    ELSE IF Auth401Cooldown > 0 THEN Auth401Cooldown
                    ELSE 2 * ReloginCap
           cooled == SetRecoverAt(dead, timer)
           parked == StampLastAction(cooled, "candidate")
<1>1. q.acc \in Account
  BY DEF Good, Row
<1>2. dead \in Account /\ Same(q.acc, dead)
  BY <1>1, SetAccountStateType, SameSetters DEF States, Sources
<1>3. \/ \E x \in EnsureFile(TRUE, q.off, q.fuse) : r = Result(parked, x.off, x.fuse, FALSE)
      \/ \E p \in Patch(TRUE, q.off) : r = Result(parked, p.off, q.fuse, FALSE)
  BY DEF ApplyCandidate
<1> HIDE DEF dead
<1>4. timer \in Timer
  <2>1. Auth401Cooldown \in Timer /\ 2 * ReloginCap \in Timer
    BY ConfigAssumption DEF Timer
  <2>2. dead.recover \in Timer
    BY <1>2 DEF Account
  <2> QED BY <2>1, <2>2, FieldValues
<1> HIDE DEF timer
<1>5. cooled \in Account /\ Same(q.acc, cooled)
  BY <1>2, <1>4, SetRecoverAtType, SameSetters DEF Same
<1> HIDE DEF cooled
<1>6. Same(q.acc, parked)
  BY <1>1, <1>5, SameStamped
<1> HIDE DEF parked
<1>7. r.acc = parked
  <2>1. CASE \E x \in EnsureFile(TRUE, q.off, q.fuse) : r = Result(parked, x.off, x.fuse, FALSE)
    BY <2>1 DEF Result
  <2>2. CASE \E p \in Patch(TRUE, q.off) : r = Result(parked, p.off, q.fuse, FALSE)
    BY <2>2 DEF Result
  <2> QED BY <1>3, <2>1, <2>2
<1> QED BY <1>6, <1>7

LEMMA PermanentRun ==
  ASSUME NEW acc, Row(acc), NEW file, NEW r \in ApplyPermanentDisable(acc, file)
  PROVE  Same(acc, r.acc)
<1> DEFINE already == acc.state = "user_manual" /\ acc.source = "user_manual"
           fresh == SetRecoverAt(SetAccountState(acc, "user_manual", "user_manual"), Unset)
           locked == IF already THEN acc ELSE fresh
<1>0. acc \in Account
  BY DEF Row
<1>1. fresh \in Account /\ Same(acc, fresh)
  BY <1>0, SameTaken, FieldValues DEF States, Sources
<1>2. locked \in Account /\ Same(acc, locked)
  BY <1>0, <1>1 DEF Same
<1>3. PICK p \in Patch(TRUE, file) :
        r = Result(StampLastAction(locked, "manual_disable"), p.off, fuse, ~p.ok)
  BY DEF ApplyPermanentDisable
<1> HIDE DEF locked
<1> QED BY <1>0, <1>2, <1>3, SameStamped DEF Result

\* and a relogin leaves auth_401 as the signal.
LEMMA ReloginRun ==
  ASSUME NEW q, Good(q), NEW r \in TryReloginFirst(q)
  PROVE  r.acc.streak = q.acc.streak /\ r.acc.sig = "auth_401"
<1> DEFINE timer == IF Auth401Cooldown = 0 \/ Auth401Cooldown > ReloginCap
                    THEN ReloginCap ELSE Auth401Cooldown
           stamped == StampLastAction(q.acc, "relogin")
           cooling == SetRecoverAt(
                        SetAccountState(stamped, "cooldown_auth", "plugin_auto"), timer)
           new == SetLastSignal(cooling, "auth_401")
<1>0. q.acc \in Account
  BY DEF Good, Row
<1>1. stamped \in Account /\ Same(q.acc, stamped)
  BY <1>0, StampType, SameSetters DEF Actions
<1>2. timer \in Timer /\ "cooldown_auth" \in States /\ "plugin_auto" \in Sources
  BY ConfigAssumption DEF Timer, States, Cooldowns, Sources
<1>5. PICK x \in EnsureFile(TRUE, q.off, q.fuse) : r = Result(new, x.off, x.fuse, FALSE)
  BY DEF TryReloginFirst
<1> HIDE DEF timer, stamped
<1>3. cooling \in Account /\ Same(stamped, cooling)
  BY <1>1, <1>2, SameTaken
<1> HIDE DEF cooling
<1>4. new.streak = q.acc.streak /\ new.sig = "auth_401"
  BY <1>1, <1>3 DEF SetLastSignal, Same, Account
<1> HIDE DEF new
<1> QED BY <1>4, <1>5 DEF Result

\* Whatever the policy makes of a failure, the counts are those of the failure.
LEMMA OutcomeRun ==
  ASSUME IInv, NEW a \in Auth, NEW e \in Errors, NEW r \in FailureOutcomes(a, e)
  PROVE  /\ r.acc.streak = Counted(acct[a], e).streak
         /\ \/ r.acc.sig = Counted(acct[a], e).sig
            \/ Relogin /\ e.signal = "auth_401" /\ r.acc.sig = "auth_401"
<1> DEFINE acc == Counted(acct[a], e)
           v == Verdict(a, acc, e)
           cooled == IF v.out.cooldown THEN ApplyCooldown(acc, off[a], e, v)
                     ELSE {Result(acc, off[a], fuse, FALSE)}
<1>1. TypeOK /\ Row(acct[a]) /\ off[a] \in BOOLEAN /\ fuse \in 0..VerifyFuse
  BY DEF IInv, TypeOK, OwnershipCoherent, Row
<1>2. Row(acc)
  BY <1>1, CountedRow
<1>5. \/ r \in ApplyPermanentDisable(acc, off[a])
      \/ \E q \in cooled : \/ r = q
                           \/ r \in ApplyCandidate(q, e)
                           \/ Relogin /\ e.signal = "auth_401" /\ r \in TryReloginFirst(q)
  BY DEF FailureOutcomes
<1> HIDE DEF acc
<1>3. v.out \in Outcome
  BY <1>2, VerdictType DEF Row
<1> HIDE DEF v
<1>4. ASSUME NEW q \in cooled PROVE Good(q) /\ Same(acc, q.acc)
  <2>1. CASE v.out.cooldown
    BY <1>1, <1>2, <1>3, <2>1, ApplyCooldownGood, CooldownRun
  <2>2. CASE ~v.out.cooldown
    <3>1. q = Result(acc, off[a], fuse, FALSE)
      BY <1>4, <2>2
    <3> QED BY <1>1, <1>2, <3>1, GoodResult DEF Result, Same
  <2> QED BY <2>1, <2>2
<1> HIDE DEF cooled
<1>6. CASE r \in ApplyPermanentDisable(acc, off[a])
  BY <1>2, <1>6, PermanentRun DEF Same, acc
<1>7. ASSUME NEW q \in cooled, r = q \/ r \in ApplyCandidate(q, e)
      PROVE  Same(acc, r.acc)
  <2>1. Good(q) /\ Same(acc, q.acc)
    BY <1>4, <1>7
  <2> QED BY <1>7, <2>1, CandidateRun DEF Same
<1>8. ASSUME NEW q \in cooled, r \in TryReloginFirst(q)
      PROVE  r.acc.streak = acc.streak /\ r.acc.sig = "auth_401"
  <2>1. Good(q) /\ Same(acc, q.acc)
    BY <1>4, <1>8
  <2> QED BY <1>8, <2>1, ReloginRun DEF Same
<1> QED BY <1>5, <1>6, <1>7, <1>8 DEF acc, Same

-----------------------------------------------------------------------------
(* The counts follow the run.                                              *)

LEMMA MoreType ==
  ASSUME NEW n \in 0..MaxStreak
  PROVE  More(n) \in 1..MaxStreak /\ More(n) \in 0..MaxStreak
BY BoundsAssumption DEF More

LEMMA CountNat ==
  ASSUME NEW n \in 0..MaxStreak PROVE n \in Nat
BY BoundsAssumption

LEMMA MoreMonotone ==
  ASSUME NEW m \in 0..MaxStreak, NEW n \in 0..MaxStreak, m <= n
  PROVE  More(m) <= More(n)
BY BoundsAssumption DEF More

LEMMA FailureRunRow ==
  ASSUME IInv, RunsMatch, NEW a \in Auth, NEW e \in Errors, HFailure(a, e)
  PROVE  /\ run' \in [Auth -> Runs]
         /\ RunRow(acct'[a], run'[a])
         /\ e.key \in Ladders => acct'[a].streak[e.key] <= run'[a].n
<1> DEFINE acc == acct[a]
           old == run[a]
           r == run'[a]
           new == acct'[a]
<1>0. /\ Row(acc) /\ acc \in Account /\ acct \in [Auth -> Account] /\ old \in Runs
      /\ run \in [Auth -> Runs] /\ RunRow(acc, old)
  BY Given DEF IInv, TypeOK, RunsMatch
<1>1. e.key \in Keys /\ e.key \in Counters /\ e.key # "any_error" /\ e.key # ""
  BY TrafficAssumption, LadderKeys DEF Failure, Counters
<1>2. old.key \in Keys \cup {""} /\ old.n \in 0..MaxStreak /\ old.all \in 0..MaxStreak
  BY <1>0 DEF Runs
<1>3. r = [key |-> e.key, all |-> More(old.all), n |-> IF old.key = e.key THEN More(old.n) ELSE 1]
  BY <1>0 DEF HFailure
<1>4. r.key = e.key /\ r.all = More(old.all) /\ r.n = IF old.key = e.key THEN More(old.n) ELSE 1
  BY <1>3
<1>5. run' \in [Auth -> Runs]
  <2> DEFINE long == IF old.key = e.key THEN More(old.n) ELSE 1
             often == More(old.all)
  <2>1. often \in 0..MaxStreak /\ More(old.n) \in 0..MaxStreak
    <3> HIDE DEF old
    <3> QED BY <1>2, MoreType
  <2>4. long \in 0..MaxStreak
    BY <2>1, BoundsAssumption
  <2>5. r = [key |-> e.key, n |-> long, all |-> often]
    BY <1>3
  <2>2. r \in Runs
    <3> HIDE DEF long, often, r
    <3> QED BY <1>1, <2>1, <2>4, <2>5 DEF Runs
  <2>3. run' = [run EXCEPT ![a] = r]
    BY <1>0 DEF HFailure
  <2> HIDE DEF r
  <2> QED BY <1>0, <2>2, <2>3
<1>6. PICK out \in FailureOutcomes(a, e) : acct' = [acct EXCEPT ![a] = out.acc]
  BY DEF HFailure, HandleFailure
<1>7. /\ new.streak = Counted(acc, e).streak
      /\ new.sig = e.key \/ (Relogin /\ e.signal = "auth_401" /\ new.sig = "auth_401")
  BY <1>0, <1>6, OutcomeRun, CountedRun
<1>8. \A k \in Counters : new.streak[k] =
        IF k \in {e.key, "any_error"} THEN More(Begun(acc, e, k)) ELSE Begun(acc, e, k)
  BY <1>0, <1>7, CountedRun
<1>9. \A k \in Counters : acc.streak[k] \in 0..MaxStreak
  BY <1>0, StreakType
<1> HIDE DEF acc, old, r, new
\* The class that failed: its count grows by one with the run, or is the first.
<1>10. ASSUME e.key \in Ladders PROVE Begun(acc, e, e.key) <= (IF old.key = e.key THEN old.n ELSE 0)
                                      /\ Begun(acc, e, e.key) \in 0..MaxStreak
  <2>1. CASE acc.sig \in {"", e.key}
    <3>1. ~Stale(acc, e.key)
      BY <1>1, <2>1 DEF Stale
    <3>2. acc.streak[e.key] <= IF old.key = e.key THEN old.n ELSE 0
      BY <1>0, <1>10, <3>1 DEF RunRow
    <3> QED BY <1>1, <1>9, <2>1, <3>2 DEF Begun
  <2>2. CASE acc.sig \notin {"", e.key}
    <3>1. acc.sig # "any_error"
      BY <1>0, LadderKeys DEF Account
    <3>2. Begun(acc, e, e.key) = 0
      BY <1>1, <2>2, <3>1 DEF Begun
    <3>6. old.n \in Nat
      BY <1>2, CountNat
    <3>3. old.n \in Nat /\ 0 \in 0..MaxStreak
      BY <3>6, BoundsAssumption
    <3>4. CASE old.key = e.key
      BY <3>2, <3>3, <3>4
    <3>5. CASE old.key # e.key
      BY <3>2, <3>3, <3>5
    <3> QED BY <3>4, <3>5
  <2> QED BY <2>1, <2>2
<1>11. ASSUME e.key \in Ladders PROVE new.streak[e.key] <= r.n
  <2>1. new.streak[e.key] = More(Begun(acc, e, e.key))
    BY <1>1, <1>8
  <2>2. CASE old.key = e.key
    BY <1>2, <1>4, <1>10, <1>11, <2>1, <2>2, MoreMonotone
  <2>3. CASE old.key # e.key
    <3>1. Begun(acc, e, e.key) = 0
      BY <1>10, <1>11, <2>3
    <3>2. More(0) = 1
      BY BoundsAssumption DEF More
    <3> QED BY <1>4, <2>1, <2>3, <3>1, <3>2
  <2> QED BY <2>2, <2>3
\* Another class: its count is cleared, was not there, or is stale.
<1>12. ASSUME NEW k \in Ladders, k # e.key, ~Stale(new, k) PROVE new.streak[k] = 0
  <2>1. k \in Counters /\ k # "any_error" /\ k # ""
    BY LadderKeys
  <2>2. new.streak[k] = Begun(acc, e, k)
    BY <1>8, <1>12, <2>1
  <2>3. CASE acc.sig \notin {"", e.key, "any_error"}
    BY <2>1, <2>2, <2>3 DEF Begun
  <2>4. CASE acc.sig \in {"", e.key, "any_error"}
    <3>1. ~Stale(acc, k)
      <4>1. CASE acc.sig # "auth_401"
        BY <4>1 DEF Stale
      <4>2. CASE acc.sig = "auth_401"
        <5>1. e.key = "auth_401"
          BY <2>4, <4>2
        <5>2. new.sig = "auth_401"
          BY <1>7, <5>1
        <5> QED BY <1>12, <4>2, <5>2 DEF Stale
      <4> QED BY <4>1, <4>2
    <3>2. ~(acc.streak[k] > 0)
      <4>1. acc.sig # k
        BY <1>12, <2>1, <2>4
      <4> QED BY <1>0, <1>12, <3>1, <4>1 DEF RunRow
    <3>3. new.streak[k] = acc.streak[k]
      BY <2>2, <2>4 DEF Begun
    <3>4. acc.streak[k] \in 0..MaxStreak
      BY <1>9, <2>1
    <3> QED BY <3>2, <3>3, <3>4
  <2> QED BY <2>3, <2>4
<1>13. r.n \in Nat
  <2>1. More(old.n) \in Nat
    BY <1>2, MoreType, CountNat
  <2> QED BY <1>4, <2>1
<1>14. ASSUME NEW k \in Ladders, ~Stale(new, k)
       PROVE  /\ new.streak[k] <= IF r.key = k THEN r.n ELSE 0
              /\ new.streak[k] > 0 => new.sig = k
  <2>1. CASE k # e.key
    BY <1>4, <1>12, <1>14, <2>1
  <2>2. CASE k = e.key
    <3>1. new.streak[k] <= r.n
      BY <1>11, <1>14, <2>2
    <3>2. new.sig = k
      BY <1>7, <1>14, <2>2 DEF Stale, Split
    <3> QED BY <1>4, <2>2, <3>1, <3>2
  <2> QED BY <2>1, <2>2
<1>15. ASSUME "any_error" \notin TotalKeys PROVE new.streak["any_error"] <= r.all
  <2>1. new.streak["any_error"] = More(acc.streak["any_error"])
    BY <1>8, LadderKeys DEF Begun
  <2>2. acc.streak["any_error"] <= old.all
    BY <1>0, <1>15 DEF RunRow
  <2> QED BY <1>2, <1>4, <1>9, <2>1, <2>2, LadderKeys, MoreMonotone
<1>16. RunRow(new, r)
  BY <1>14, <1>15 DEF RunRow
<1> QED BY <1>5, <1>11, <1>16 DEF new, r

\* One row changed, and its run with it, or every row by a little.
LEMMA OneRunRow ==
  ASSUME IInv, RunsMatch, NEW a \in Auth, NEW new, acct' = [acct EXCEPT ![a] = new],
         NEW r \in Runs, run' = [run EXCEPT ![a] = r], RunRow(new, r)
  PROVE  RunsMatch'
<1>0. acct \in [Auth -> Account] /\ run \in [Auth -> Runs]
  BY DEF IInv, TypeOK, RunsMatch
<1>1. run' \in [Auth -> Runs]
  BY <1>0
<1>2. ASSUME NEW b \in Auth PROVE RunRow(acct'[b], run'[b])
  <2>1. CASE b = a
    <3>1. acct'[b] = new /\ run'[b] = r
      BY <1>0, <2>1
    <3> QED BY <3>1
  <2>2. CASE b # a
    <3>1. acct'[b] = acct[b] /\ run'[b] = run[b]
      BY <1>0, <2>2
    <3> QED BY <3>1 DEF RunsMatch
  <2> QED BY <2>1, <2>2
<1> QED BY <1>1, <1>2 DEF RunsMatch

LEMMA EveryRunRow ==
  ASSUME IInv, RunsMatch, run' = run, \A a \in Auth : SameRun(acct[a], acct'[a])
  PROVE  RunsMatch'
<1>1. ASSUME NEW a \in Auth PROVE RunRow(acct'[a], run'[a])
  <2>1. acct[a] \in Account /\ RunRow(acct[a], run[a])
    BY DEF IInv, TypeOK, RunsMatch
  <2> QED BY <2>1, SameRunRow
<1> QED BY <1>1 DEF RunsMatch

\* The same for a step that counts nothing on one row.
LEMMA OneSameRun ==
  ASSUME IInv, RunsMatch, run' = run, NEW a \in Auth, NEW new, Same(acct[a], new),
         acct' = [acct EXCEPT ![a] = new]
  PROVE  RunsMatch'
<1>0. acct \in [Auth -> Account]
  BY DEF IInv, TypeOK
<1>1. ASSUME NEW b \in Auth PROVE SameRun(acct[b], acct'[b])
  <2>1. acct'[b] = IF b = a THEN new ELSE acct[b]
    BY <1>0
  <2> QED BY <2>1 DEF Same, SameRun
<1> QED BY <1>1, EveryRunRow

LEMMA NoRunForgot ==
  ASSUME NEW new, Forgot(new) PROVE NoRun \in Runs /\ RunRow(new, NoRun)
<1>1. NoRun \in Runs
  <2>1. 0 \in 0..MaxStreak
    BY BoundsAssumption
  <2> QED BY <2>1 DEF NoRun, Runs
<1> QED BY <1>1, ForgotRunRow

LEMMA InitRunsMatch == HInit => RunsMatch
<1> SUFFICES ASSUME HInit PROVE RunsMatch
  OBVIOUS
<1>1. Forgot(NewAccount)
  BY DEF Forgot, NewAccount
<1>2. acct = [a \in Auth |-> NewAccount] /\ run = [a \in Auth |-> NoRun]
  BY DEF HInit, Init
<1>3. NoRun \in Runs /\ RunRow(NewAccount, NoRun)
  BY <1>1, NoRunForgot
<1> QED BY <1>2, <1>3 DEF RunsMatch

LEMMA TickRuns ==
  ASSUME IInv, RunsMatch, HTick PROVE RunsMatch'
<1>0. acct \in [Auth -> Account] /\ run' = run /\ \A a \in Auth : Row(acct[a]) /\ off[a] \in BOOLEAN
  BY Given DEF HTick, IInv, TypeOK
<1>1. CASE TickStart
  <2>1. ASSUME NEW a \in Auth PROVE SameRun(acct[a], acct'[a])
    <3>1. acct'[a] = HoldCandidate(acct[a])
      BY <1>1 DEF TickStart
    <3> QED BY <1>0, <3>1, HoldRun DEF Same, SameRun
  <2> QED BY <1>0, <2>1, EveryRunRow
<1>2. ASSUME NEW a \in Auth, RecoverOne(a) PROVE RunsMatch'
  <2>1. PICK r \in RecoverOutcomes(acct[a], off[a]) : acct' = [acct EXCEPT ![a] = r.acc]
    BY <1>2 DEF RecoverOne
  <2>2. Same(acct[a], r.acc)
    BY <1>0, RecoverRun
  <2> QED BY <1>0, <2>1, <2>2, OneSameRun
<1>3. ASSUME NEW a \in Auth, SyncOne(a) PROVE RunsMatch'
  <2>1. PICK shut : \E r \in SyncFile(acct[a], off[a], shut) :
                       acct' = [acct EXCEPT ![a] = DropTag(r.acc, shut)]
    BY <1>3 DEF SyncOne
  <2>2. PICK r \in SyncFile(acct[a], off[a], shut) :
          acct' = [acct EXCEPT ![a] = DropTag(r.acc, shut)]
    BY <2>1
  <2>3. Same(acct[a], DropTag(r.acc, shut))
    BY <1>0, SyncRun DEF IInv
  <2> QED BY <1>0, <2>2, <2>3, OneSameRun
<1>4. ASSUME NEW a \in Auth, HealOne(a) PROVE RunsMatch'
  <2>1. PICK r \in HealOutcomes(acct[a], off[a]) \cup {Result(acct[a], off[a], fuse, FALSE)} :
          acct' = [acct EXCEPT ![a] = r.acc]
    BY <1>4 DEF HealOne
  <2>2. ASSUME r \in HealOutcomes(acct[a], off[a]) PROVE Same(acct[a], r.acc)
    BY <1>0, <2>2, HealRun
  <2>3. ASSUME r = Result(acct[a], off[a], fuse, FALSE) PROVE Same(acct[a], r.acc)
    BY <2>3 DEF Result, Same
  <2>4. Same(acct[a], r.acc)
    BY <2>2, <2>3
  <2> QED BY <1>0, <2>1, <2>4, OneSameRun
<1>5. CASE Hygiene
  <2>1. ASSUME NEW a \in Auth PROVE SameRun(acct[a], acct'[a])
    <3>1. acct'[a] = ScrubDirtyActive(ExpireIdlePendingObserve(acct[a]))
      BY <1>5 DEF Hygiene
    <3> QED BY <1>0, <3>1, HygieneRun
  <2> QED BY <1>0, <2>1, EveryRunRow
<1>6. CASE ListForSync \/ ListForHeal
  <2>1. acct' = acct
    BY <1>6 DEF ListForSync, ListForHeal
  <2> QED BY <1>0, <2>1 DEF RunsMatch
<1> QED BY <1>1, <1>2, <1>3, <1>4, <1>5, <1>6 DEF HTick, TickStep

LEMMA RestRuns ==
  ASSUME IInv, RunsMatch, HRest PROVE RunsMatch'
<1>0. acct \in [Auth -> Account] /\ run \in [Auth -> Runs] /\ run' = run
  BY DEF HRest, IInv, TypeOK, RunsMatch
<1>1. ASSUME NEW a \in Auth, ManualDisable(a) \/ ManualEnable(a) \/ ApplySuggestedCooldown(a)
      PROVE  RunsMatch'
  <2>1. PICK new : (Same(acct[a], new) \/ Forgot(new)) /\ acct' = [acct EXCEPT ![a] = new]
    BY <1>1, PanelCounts
  <2>2. CASE Same(acct[a], new)
    BY <1>0, <2>1, <2>2, OneSameRun
  <2>3. CASE Forgot(new)
    <3>1. run[a] \in Runs /\ run' = [run EXCEPT ![a] = run[a]]
      BY <1>0
    <3>2. RunRow(new, run[a])
      BY <2>3, <3>1, ForgotRunRow
    <3> QED BY <2>1, <3>1, <3>2, OneRunRow
  <2> QED BY <2>1, <2>2, <2>3
<1>2. ASSUME NEW a \in Auth, ExternalFlip(a) PROVE RunsMatch'
  <2>1. acct' = acct
    BY <1>2 DEF ExternalFlip
  <2> QED BY <1>0, <2>1 DEF RunsMatch
<1>3. CASE Elapse
  <2>1. ASSUME NEW a \in Auth PROVE SameRun(acct[a], acct'[a])
    <3>1. acct'[a] = OneUnitLater(acct[a]) /\ acct[a] \in Account
      BY <1>0, <1>3 DEF Elapse
    <3> QED BY <3>1, SameSetters DEF Same, SameRun
  <2> QED BY <1>0, <2>1, EveryRunRow
<1> QED BY <1>1, <1>2, <1>3 DEF HRest, PanelStep

LEMMA NextRunsMatch ==
  IInv /\ RunsMatch /\ [WholeNext]_<<vars, run, opened>> => RunsMatch'
<1> SUFFICES ASSUME IInv, RunsMatch, [WholeNext]_<<vars, run, opened>> PROVE RunsMatch'
  OBVIOUS
<1>1. ASSUME NEW a \in Auth, NEW e \in Errors, HFailure(a, e) PROVE RunsMatch'
  <2>0. acct \in [Auth -> Account] /\ run \in [Auth -> Runs]
    BY DEF IInv, TypeOK, RunsMatch
  <2>1. PICK out : acct' = [acct EXCEPT ![a] = out.acc]
    BY <1>1 DEF HFailure, HandleFailure
  <2>2. run' \in [Auth -> Runs] /\ RunRow(acct'[a], run'[a])
    BY <1>1, FailureRunRow
  <2>3. run' = [run EXCEPT ![a] = run'[a]]
    BY <1>1, <2>0 DEF HFailure
  <2>4. acct' = [acct EXCEPT ![a] = acct'[a]] /\ run'[a] \in Runs
    BY <2>0, <2>1, <2>2
  <2> QED BY <2>2, <2>3, <2>4, OneRunRow
<1>2. ASSUME NEW a \in Auth, NEW reset \in Hints, HSuccess(a, reset) PROVE RunsMatch'
  <2>1. PICK new : Forgot(new) /\ acct' = [acct EXCEPT ![a] = new]
    BY <1>2, SuccessForgets DEF HSuccess
  <2>2. NoRun \in Runs /\ RunRow(new, NoRun)
    BY <2>1, NoRunForgot
  <2>3. run' = [run EXCEPT ![a] = NoRun]
    BY <1>2 DEF HSuccess
  <2> QED BY <2>1, <2>2, <2>3, OneRunRow
<1>3. CASE HOther \/ UNCHANGED <<vars, run, opened>>
  <2>1. acct' = acct /\ run' = run
    BY <1>3 DEF HOther, MarkPendingBackfillAuths, ClearPendingBackfillAuths, Quieten, vars
  <2> QED BY <2>1 DEF RunsMatch
<1> QED BY <1>1, <1>2, <1>3, TickRuns, RestRuns DEF WholeNext, HNext

LEMMA RunsAlwaysMatch == WholeSpec => []RunsMatch
BY WatchedIInv, InitRunsMatch, NextRunsMatch, PTL DEF WholeSpec

\* Where a relogin leaves the right signal, because every 401 is counted as
\* auth_401, the ladders of candidates and locks climb on failures in a row,
\* for any cards and any interleaving of traffic, ticks and the operator.
THEOREM StreaksConsecutive ==
  ASSUME Relogin => \A e \in Errors : e.signal = "auth_401" => e.key = "auth_401"
  PROVE  WholeSpec => []LadderRunConsecutive
<1>1. RunsMatch => LadderRunConsecutive
  <2> SUFFICES ASSUME RunsMatch, NEW a \in Auth
               PROVE  /\ \A k \in Ladders :
                           acct[a].streak[k] <= IF run[a].key = k THEN run[a].n ELSE 0
                      /\ "any_error" \notin TotalKeys => acct[a].streak["any_error"] <= run[a].all
    BY DEF LadderRunConsecutive, ConsecutiveFor, Ladders, Quota
  <2>1. ~Split
    BY DEF Split
  <2> QED BY <2>1 DEF RunsMatch, RunRow, Stale
<1> QED BY <1>1, RunsAlwaysMatch, PTL

\* Whatever a relogin leaves: the count that the policy is asked about, that of
\* the class which has just failed, is at most the failures of it in a row.
THEOREM PolicyAskedOnRun ==
  WholeSpec => [][\A a \in Auth, e \in Errors :
                    HFailure(a, e) /\ e.key \in Ladders =>
                      acct'[a].streak[e.key] <= run'[a].n]_<<vars, run, opened>>
<1>1. IInv /\ RunsMatch /\ [WholeNext]_<<vars, run, opened>> =>
        [\A a \in Auth, e \in Errors :
           HFailure(a, e) /\ e.key \in Ladders =>
             acct'[a].streak[e.key] <= run'[a].n]_<<vars, run, opened>>
  BY FailureRunRow
<1> QED BY <1>1, WatchedIInv, RunsAlwaysMatch, PTL DEF WholeSpec
=============================================================================
