------------------------------- MODULE Replay -------------------------------
(***************************************************************************)
(* The replay of failures that CPAMP stored and the plugin may have missed *)
(* (runtime.go, cpamp/fail_events.go), against live reports of the same    *)
(* failures, the panel, the daily reset of the metrics, and crashes.       *)
(*                                                                         *)
(* One account.  A unit of time is a minute: the replay looks back 2, an   *)
(* action within 3 counts as recent, a cycle takes half a one, and the 8   *)
(* seconds of the deduplication are the same unit.  Cards only cool, from  *)
(* a threshold on; the skip marks for the tick's heal are in module Guard. *)
(***************************************************************************)
EXTENDS Integers, FiniteSets

CONSTANTS
  Events,      \* ids of rows of usage_events, in the order of insertion
  Keys,        \* classes of failures
  Threshold,   \* failures in a row that cool the account
  Limit,       \* events of one fetch
  Lookback,    \* how far the replay looks back without a watermark
  Around,      \* an action this close to an event has handled it
  Dedupe,      \* usageFailDedupeWindow
  Floor,       \* cpamp_usage_floor: the metrics are backfilled every day
  SameMs,      \* failures may share a time stamp
  MaxCycle,    \* a cycle of the ticker takes at most this long
  MaxNow,      \* bound: time
  MaxDays,     \* bound: days that begin
  MaxCrash     \* bound: crashes

ASSUME ReplayAssumption ==
  /\ Events \subseteq Nat /\ IsFiniteSet(Events)
  /\ {Threshold, Limit, MaxCycle} \subseteq Nat \ {0}
  /\ {Lookback, Around, Dedupe, MaxNow, MaxDays, MaxCrash} \subseteq Nat
  /\ Floor \in BOOLEAN /\ SameMs \in BOOLEAN
  /\ "" \notin Keys

VARIABLES
  now,
  at,        \* timestamp_ms of each failure, 0 before it happens
  key,       \* its class
  row,       \* the account
  mark,      \* Metrics.LastCPAMPFailMS
  stale,     \* Metrics.DayKey is not today
  pc,        \* where the ticker is in its cycle
  batch,     \* what is left of the events fetched
  top,       \* newest time stamp passed so far (maxMS)
  cycle,     \* age of the cycle
  told,      \* failures that the host reported
  seen,      \* failures that were in some batch (history)
  lapsed,    \* failures too old for a query that had no watermark (history)
  replays,   \* times each was applied by the replay (history)
  resets,    \* times the watermark was reset (history)
  days, crashes

cpamp == <<at, key>>
ticker == <<pc, batch, top>>
past == <<told, seen, lapsed, replays>>
limits == <<days, crashes>>
vars == <<now, cpamp, row, mark, stale, ticker, cycle, past, resets, limits>>

Happened == {e \in Events : at[e] # 0}
Earlier(e, f) == at[e] < at[f] \/ (at[e] = at[f] /\ e < f)
Closing == {"cooldown", "manual_disable"}

-----------------------------------------------------------------------------
(* The account, as HandleUsage and the panel leave it.                     *)

NewRow == [state |-> "active", cools |-> "", sig |-> "", action |-> "", acted |-> 0,
           streak |-> [k \in Keys |-> 0]]

Acted(r, name) == [r EXCEPT !.action = name, !.acted = now]

ShouldDedupe(r, k) ==
  /\ r.acted # 0 /\ now - r.acted <= Dedupe
  /\ r.sig \in {"", k}
  /\ r.action \in Closing \/ r.state = "cooldown"

\* Another class than last time starts counting anew.
Counted(r, k) ==
  LET run == IF r.sig \in {"", k} THEN r.streak ELSE [j \in Keys |-> 0]
      up == IF run[k] = Threshold THEN Threshold ELSE run[k] + 1
  IN [r EXCEPT !.sig = k, !.streak = [run EXCEPT ![k] = up]]

\* A failure below the threshold is observed, and stamps nothing.
Failed(r, k) ==
  LET c == Counted(r, k)
  IN IF c.streak[k] < Threshold THEN c
     ELSE Acted([c EXCEPT !.state = "cooldown", !.cools = k], "cooldown")

HandleUsage(e) ==
  row' = IF ShouldDedupe(row, key[e]) THEN row ELSE Failed(row, key[e])

AlreadyHandledRecently(r, e) ==
  \/ r.state = "manual"
  \/ r.state = "cooldown" /\ r.sig = key[e] /\ r.cools = key[e]
  \/ /\ r.state = "active" /\ r.action \in Closing
     /\ r.acted - at[e] <= Around /\ at[e] - r.acted <= Around

-----------------------------------------------------------------------------
(* Failures, in CPAMP and as the host reports them; the panel.             *)

Fail(e) ==
  /\ at[e] = 0 /\ \A f \in Events : f < e => at[f] # 0
  /\ SameMs \/ now \notin {at[f] : f \in Events}
  /\ at' = [at EXCEPT ![e] = now]
  /\ \E k \in Keys : key' = [key EXCEPT ![e] = k]
  /\ UNCHANGED <<now, row, mark, stale, ticker, cycle, past, resets, limits>>

Report(e) ==
  /\ e \in Happened \ told
  /\ told' = told \cup {e}
  /\ HandleUsage(e)
  /\ UNCHANGED <<now, cpamp, mark, stale, ticker, cycle, seen, lapsed, replays, resets, limits>>

Lock ==
  /\ row' = Acted([row EXCEPT !.state = "manual"], "manual_disable")
  /\ UNCHANGED <<now, cpamp, mark, stale, ticker, cycle, past, resets, limits>>

Open ==
  /\ row.state # "active"
  /\ row' = Acted([row EXCEPT !.state = "active"], "manual_enable")
  /\ UNCHANGED <<now, cpamp, mark, stale, ticker, cycle, past, resets, limits>>

-----------------------------------------------------------------------------
(* A cycle of the ticker: replay, tick, daily backfill.                    *)

Since == IF mark > 0 THEN mark ELSE now - Lookback

\* Mutants: the watermark itself is fetched again; the newest come first.
NotBefore(from) == {e \in Happened : at[e] >= from}
NewestOf(set) == {e \in set : Cardinality({f \in set : Earlier(e, f)}) < Limit}

After(from) == {e \in Happened : at[e] > from}
Oldest(set) == {e \in set : Cardinality({f \in set : Earlier(f, e)}) < Limit}

\* Nothing to replay: the watermark stays as it is.
Fetch ==
  /\ pc = "idle"
  /\ batch' = Oldest(After(Since))
  /\ seen' = seen \cup batch'
  /\ lapsed' = lapsed \cup IF mark > 0 THEN {} ELSE Happened \ (After(Since) \cup seen)
  /\ top' = Since
  /\ pc' = IF batch' = {} THEN "tick" ELSE "check"
  /\ cycle' = 0
  /\ UNCHANGED <<now, cpamp, row, mark, stale, told, replays, resets, limits>>

\* usage.sqlite cannot be read.
FetchFails ==
  /\ pc = "idle" /\ pc' = "tick"
  /\ UNCHANGED <<now, cpamp, row, mark, stale, batch, top, cycle, past, resets, limits>>

First(e) == e \in batch /\ \A f \in batch : ~Earlier(f, e)

\* The test of the event that is next, without Guard.mu.
Check ==
  /\ pc = "check"
  /\ \E e \in batch :
       /\ First(e)
       /\ IF AlreadyHandledRecently(row, e)
          THEN /\ batch' = batch \ {e} /\ top' = at[e]
               /\ pc' = IF batch' = {} THEN "advance" ELSE "check"
          ELSE pc' = "apply" /\ UNCHANGED <<batch, top>>
  /\ UNCHANGED <<now, cpamp, row, mark, stale, cycle, past, resets, limits>>

\* HandleUsage may have waited for Guard.mu in between.
Apply ==
  /\ pc = "apply"
  /\ \E e \in batch :
       /\ First(e)
       /\ HandleUsage(e)
       /\ replays' = [replays EXCEPT ![e] = @ + 1]
       /\ batch' = batch \ {e} /\ top' = at[e]
       /\ pc' = IF batch' = {} THEN "advance" ELSE "check"
  /\ UNCHANGED <<now, cpamp, mark, stale, cycle, told, seen, lapsed, resets, limits>>

\* Mutant: the watermark only follows events that were applied.
AdvanceIfApplied ==
  /\ pc = "advance" /\ pc' = "tick"
  /\ mark' = IF \E e \in Happened : at[e] = top /\ replays[e] > 0 THEN top ELSE mark
  /\ UNCHANGED <<now, cpamp, row, stale, batch, top, cycle, past, resets, limits>>

\* SetLastCPAMPFailMS, which only moves forward, and Save.
Advance ==
  /\ pc = "advance" /\ pc' = "tick"
  /\ mark' = IF top > mark THEN top ELSE mark
  /\ UNCHANGED <<now, cpamp, row, stale, batch, top, cycle, past, resets, limits>>

\* Guard.Tick: a cool-down may be over.
Tick ==
  /\ pc = "tick" /\ pc' = "auto"
  /\ row' \in {row} \cup
       IF row.state = "cooldown" THEN {Acted([row EXCEPT !.state = "active"], "reenable")}
       ELSE {}
  /\ UNCHANGED <<now, cpamp, mark, stale, batch, top, cycle, past, resets, limits>>

\* On a new day every field of the metrics starts afresh, the watermark too.
ApplyCPAMPBackfill ==
  IF stale THEN /\ mark' = 0 /\ stale' = FALSE /\ resets' = resets + 1
           ELSE UNCHANGED <<mark, stale, resets>>

\* Neither source may have anything to tell.
MaybeAutoBackfill ==
  /\ pc = "auto" /\ pc' = "idle"
  /\ \/ Floor /\ ApplyCPAMPBackfill
     \/ UNCHANGED <<mark, stale, resets>>
  /\ UNCHANGED <<now, cpamp, row, batch, top, cycle, past, limits>>

\* The same from the panel, at any time.
HandleBackfill ==
  /\ Floor /\ stale /\ ApplyCPAMPBackfill
  /\ UNCHANGED <<now, cpamp, row, ticker, cycle, past, limits>>

-----------------------------------------------------------------------------
NewDay ==
  /\ ~stale /\ days < MaxDays
  /\ stale' = TRUE /\ days' = days + 1
  /\ UNCHANGED <<now, cpamp, row, mark, ticker, cycle, past, resets, crashes>>

Elapse ==
  /\ now < MaxNow /\ cycle < MaxCycle
  /\ now' = now + 1 /\ cycle' = cycle + 1
  /\ UNCHANGED <<cpamp, row, mark, stale, ticker, past, resets, limits>>

\* HandleUsage and every setter above save the table before they return.
Crash ==
  /\ crashes < MaxCrash /\ crashes' = crashes + 1
  /\ pc' = "idle" /\ batch' = {} /\ top' = 0
  /\ UNCHANGED <<now, cpamp, row, mark, stale, cycle, past, resets, days>>

Init ==
  /\ now = 1 /\ at = [e \in Events |-> 0]
  /\ key = [e \in Events |-> CHOOSE k \in Keys : TRUE]
  /\ row = NewRow /\ mark = 0 /\ stale = TRUE
  /\ pc = "idle" /\ batch = {} /\ top = 0 /\ cycle = 0
  /\ told = {} /\ seen = {} /\ lapsed = {} /\ resets = 0 /\ days = 0 /\ crashes = 0
  /\ replays = [e \in Events |-> 0]

Cycle == Fetch \/ Check \/ Apply \/ Advance \/ Tick \/ MaybeAutoBackfill

Next ==
  \/ Cycle \/ FetchFails
  \/ \E e \in Events : Fail(e) \/ Report(e)
  \/ Lock \/ Open \/ HandleBackfill
  \/ NewDay \/ Elapse \/ Crash

Spec == Init /\ [][Next]_vars

\* The ticker goes on, and now and then it can read usage.sqlite.
Fairness == WF_vars(Cycle) /\ SF_vars(Fetch)
FairSpec == Spec /\ Fairness

-----------------------------------------------------------------------------
\* The watermark keeps the replay from repeating itself: a failure is applied
\* again only after a crash, or after a reset of the watermark.
ReplayedOnce == \A e \in Events : replays[e] <= 1 + crashes + resets

\* No fetch starts beyond a failure that no fetch has returned.
NoneLeftBehind == \A e \in Happened : at[e] <= Since => e \in seen

\* Whatever the rate of failures, the watermark passes none but those that a
\* fetch returned, that share their time stamp with one it returned, or that
\* a query without a watermark was too late for.
MarkPassesNone ==
  \A e \in Happened : at[e] <= mark =>
    e \in seen \cup lapsed \/ \E f \in seen : at[f] = at[e]

\* Every failure that CPAMP stores is fetched in the end, though a fetch
\* takes only the oldest few.
EveryFailureSeen == \A e \in Events : (at[e] # 0) ~> (e \in seen)
=============================================================================
