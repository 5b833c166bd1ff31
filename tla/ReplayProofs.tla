---------------------------- MODULE ReplayProofs ----------------------------
(***************************************************************************)
(* The watermark of the replay: what has been passed is not applied again, *)
(* and what has not been fetched is passed for two reasons only.           *)
(***************************************************************************)
EXTENDS Replay, FiniteSetTheorems, TLAPS

Working == {"check", "apply"}

\* Time stamps, the watermark and the history are numbers, and a cycle that
\* is not at its events has none left.
Shape ==
  /\ now \in Nat /\ at \in [Events -> Nat] /\ mark \in Nat
  /\ pc \in {"idle", "check", "apply", "advance", "tick", "auto"}
  /\ batch \subseteq Happened /\ top \in Int
  /\ pc \notin Working => batch = {}
  /\ replays \in [Events -> Nat]
  /\ crashes \in Nat /\ resets \in Nat
  /\ 1 <= now

\* The events of a batch are worked off in the order of their time stamps,
\* from above the watermark on.
Ordered ==
  /\ \A e \in batch : mark < at[e] /\ top <= at[e]

\* The event is behind the watermark, or will be when this cycle has ended.
Passed(e) ==
  /\ at[e] # 0 /\ e \notin batch
  /\ at[e] <= mark \/ (pc \in Working \cup {"advance"} /\ at[e] <= top)

\* What is not passed has been applied at most once for every crash or reset.
Fresh ==
  \A e \in Events :
    /\ replays[e] <= 1 + crashes + resets
    /\ ~Passed(e) => replays[e] <= crashes + resets

IInv == Shape /\ Ordered /\ Fresh

-----------------------------------------------------------------------------
LEMMA LookbackNat == Lookback \in Nat
<1>1. Lookback \in {Lookback, Around, Dedupe, MaxNow, MaxDays, MaxCrash}
  OBVIOUS
<1> QED BY <1>1, ReplayAssumption

LEMMA InitIInv == Init => IInv
<1> SUFFICES ASSUME Init PROVE IInv
  OBVIOUS
<1>1. /\ now = 1 /\ mark = 0 /\ top = 0 /\ batch = {} /\ pc = "idle"
      /\ crashes = 0 /\ resets = 0
  BY DEF Init
<1>2. at \in [Events -> Nat] /\ replays \in [Events -> Nat]
  BY DEF Init
<1>3. Shape
  BY <1>1, <1>2 DEF Shape
<1>4. \A e \in Events : replays[e] = 0
  BY DEF Init
<1>5. Fresh
  BY <1>1, <1>4 DEF Fresh
<1> QED BY <1>1, <1>3, <1>5 DEF IInv, Ordered

\* A query returns failures from above the watermark.
LEMMA Fetched ==
  ASSUME Shape, NEW e \in Oldest(After(Since))
  PROVE  e \in Happened /\ mark < at[e] /\ Since <= at[e] /\ Since \in Int
<1>1. e \in Happened /\ at[e] > Since
  BY DEF Oldest, After
<1>2. at[e] \in Nat /\ at[e] # 0
  BY <1>1 DEF Happened, Shape
<1> DEFINE s == Since
<1>3. now \in Nat /\ mark \in Nat
  BY DEF Shape
<1>4. (mark > 0 /\ s = mark) \/ (mark = 0 /\ s = now - Lookback)
  BY <1>3 DEF Since
<1>5. at[e] > s
  BY <1>1
<1>6. s \in Int
  BY <1>3, <1>4, LookbackNat
<1> HIDE DEF s
<1>7. mark < at[e] /\ s <= at[e] /\ s \in Int
  BY <1>2, <1>3, <1>4, <1>5, <1>6
<1> QED BY <1>1, <1>7 DEF s

\* The next event is the earliest of its batch.
LEMMA FirstIsLeast ==
  ASSUME Shape, NEW e, First(e)
  PROVE  /\ e \in batch /\ e \in Events /\ at[e] \in Nat /\ at[e] # 0
         /\ \A f \in batch : at[e] <= at[f] /\ at[f] \in Nat
<1>1. e \in batch /\ \A f \in batch : ~Earlier(f, e)
  BY DEF First
<1>2. batch \subseteq Events /\ \A f \in batch : at[f] \in Nat /\ at[f] # 0
  BY DEF Shape, Happened
<1> QED BY <1>1, <1>2 DEF Earlier

-----------------------------------------------------------------------------
LEMMA FetchSafe == IInv /\ Fetch => IInv'
<1> SUFFICES ASSUME IInv, Fetch PROVE IInv'
  OBVIOUS
<1> USE DEF IInv
<1>1. \A e \in batch' : e \in Happened /\ mark < at[e] /\ Since <= at[e]
  BY Fetched DEF Fetch
<1>2. Since \in Int
  BY LookbackNat DEF Since, Shape
<1>3. Happened' = Happened
  BY DEF Fetch, Happened, cpamp
<1>4. Shape'
  BY <1>1, <1>2, <1>3 DEF Fetch, Shape, Working, cpamp, limits
<1>5. Ordered'
  BY <1>1 DEF Fetch, Ordered, cpamp
<1>6. \A e \in Events : Passed(e) => Passed(e)'
  <2> SUFFICES ASSUME NEW e \in Events, Passed(e) PROVE Passed(e)'
    OBVIOUS
  <2>1. at[e] <= mark /\ at[e] # 0 /\ at[e] \in Nat
    BY DEF Passed, Fetch, Working, Shape
  <2>2. e \notin batch'
    BY <1>1, <2>1 DEF Shape
  <2> QED BY <2>1, <2>2 DEF Passed, Fetch, cpamp
<1>7. UNCHANGED <<replays, crashes, resets>>
  BY DEF Fetch, limits
<1>8. Fresh'
  BY <1>6, <1>7 DEF Fresh
<1> QED BY <1>4, <1>5, <1>8

\* An event is passed, either skipped or applied.
LEMMA PassSafe ==
  ASSUME IInv, NEW e, First(e), pc \in Working,
         batch' = batch \ {e}, top' = at[e],
         pc' = IF batch' = {} THEN "advance" ELSE "check",
         UNCHANGED <<now, cpamp, mark, crashes, resets>>,
         replays' \in {replays, [replays EXCEPT ![e] = @ + 1]}
  PROVE  IInv'
<1> USE DEF IInv
<1>1. /\ e \in batch /\ e \in Events /\ at[e] \in Nat /\ at[e] # 0
      /\ \A f \in batch : at[e] <= at[f] /\ at[f] \in Nat
  BY FirstIsLeast
<1>2. Happened' = Happened
  BY DEF Happened, cpamp
<1>3. Shape'
  <2>1. replays' \in [Events -> Nat]
    BY <1>1 DEF Shape
  <2> QED BY <1>1, <1>2, <2>1 DEF Shape, Working, cpamp
<1>4. Ordered'
  BY <1>1 DEF Ordered, cpamp
<1>5. Passed(e)'
  BY <1>1 DEF Passed, Working, cpamp
<1>6. \A f \in Events : Passed(f) => Passed(f)'
  <2> SUFFICES ASSUME NEW f \in Events, Passed(f) PROVE Passed(f)'
    OBVIOUS
  <2>1. at[f] # 0 /\ f \notin batch /\ at[f] \in Nat
    BY DEF Passed, Shape
  <2>2. at[f] <= mark \/ at[f] <= top
    BY DEF Passed
  <2>3. top <= at[e] /\ top \in Int
    BY <1>1 DEF Ordered, Shape
  <2>4. at[f] <= mark \/ at[f] <= top'
    BY <1>1, <2>1, <2>2, <2>3
  <2>5. pc' \in Working \cup {"advance"}
    BY DEF Working
  <2> QED BY <2>1, <2>4, <2>5 DEF Passed, cpamp
<1>7. Fresh'
  <2> SUFFICES ASSUME NEW f \in Events
               PROVE  /\ replays'[f] <= 1 + crashes + resets
                      /\ ~Passed(f)' => replays'[f] <= crashes + resets
    BY DEF Fresh
  <2>1. CASE f = e
    <3>1. ~Passed(e)
      BY <1>1 DEF Passed
    <3>2. replays[e] <= crashes + resets
      BY <1>1, <3>1 DEF Fresh
    <3>3. replays'[e] <= replays[e] + 1 /\ replays[e] \in Nat /\ replays'[e] \in Nat
      BY <1>1 DEF Shape
    <3> QED BY <1>5, <2>1, <3>2, <3>3 DEF Shape
  <2>2. CASE f # e
    <3>1. replays'[f] = replays[f]
      BY <2>2, <1>1 DEF Shape
    <3> QED BY <3>1, <1>6 DEF Fresh
  <2> QED BY <2>1, <2>2
<1> QED BY <1>3, <1>4, <1>7

-----------------------------------------------------------------------------
\* A crash or a reset of the watermark takes one more replay into account.
LEMMA LossSafe ==
  ASSUME IInv, UNCHANGED <<now, cpamp, replays>>, Shape', Ordered',
         crashes' + resets' = crashes + resets + 1
  PROVE  IInv'
<1>1. ASSUME NEW e \in Events PROVE replays'[e] <= crashes' + resets'
  <2>1. replays[e] <= 1 + crashes + resets /\ replays'[e] = replays[e]
    BY DEF IInv, Fresh
  <2>2. replays[e] \in Nat /\ crashes \in Nat /\ resets \in Nat
    BY DEF IInv, Shape
  <2> QED BY <2>1, <2>2
<1>2. \A e \in Events : replays'[e] \in Nat /\ crashes' \in Nat /\ resets' \in Nat
  BY DEF Shape
<1>3. Fresh'
  BY <1>1, <1>2 DEF Fresh
<1> QED BY <1>3 DEF IInv

\* Nothing that the invariant is about changes but pc, between idle stages.
LEMMA IdleSafe ==
  ASSUME IInv, UNCHANGED <<cpamp, mark, batch, top, replays, crashes, resets>>,
         now' \in Nat, now <= now',
         \/ pc' = pc
         \/ /\ pc \in {"idle", "tick", "auto"} /\ pc' \in {"idle", "tick", "auto"}
         \/ /\ pc = "check" /\ pc' = "apply"
  PROVE  IInv'
<1> USE DEF IInv
<1>1. Happened' = Happened
  BY DEF Happened, cpamp
<1>2. Shape'
  BY <1>1 DEF Shape, Working, cpamp
<1>3. Ordered'
  BY DEF Ordered, cpamp
<1>4. \A e \in Events : Passed(e) => Passed(e)'
  BY DEF Passed, Working, cpamp
<1>5. Fresh'
  BY <1>4 DEF Fresh
<1> QED BY <1>2, <1>3, <1>5

LEMMA AdvanceSafe == IInv /\ Advance => IInv'
<1> SUFFICES ASSUME IInv, Advance PROVE IInv'
  OBVIOUS
<1> USE DEF IInv
<1>1. Happened' = Happened
  BY DEF Advance, Happened, cpamp
<1>2. batch' = {} /\ mark' \in Nat /\ mark <= mark' /\ top <= mark'
  BY DEF Advance, Shape, Working
<1>3. Shape'
  BY <1>1, <1>2 DEF Advance, Shape, Working, cpamp, limits, past
<1>4. Ordered'
  BY <1>2 DEF Ordered
<1>5. \A e \in Events : Passed(e) => Passed(e)'
  <2> SUFFICES ASSUME NEW e \in Events, Passed(e) PROVE Passed(e)'
    OBVIOUS
  <2>1. at[e] # 0 /\ at[e] \in Nat /\ (at[e] <= mark \/ at[e] <= top)
    BY DEF Passed, Shape
  <2>2. at[e] <= mark'
    BY <1>2, <2>1 DEF Shape
  <2> QED BY <1>2, <2>1, <2>2 DEF Passed, Advance, cpamp
<1>6. Fresh'
  BY <1>5 DEF Fresh, Advance, limits, past
<1> QED BY <1>3, <1>4, <1>6

\* A failure that happens now has never been replayed.
LEMMA FailSafe ==
  ASSUME IInv, NEW e \in Events, Fail(e)
  PROVE  IInv'
<1> USE DEF IInv
<1>1. /\ at[e] = 0 /\ at' = [at EXCEPT ![e] = now] /\ 1 <= now
      /\ UNCHANGED <<now, mark, pc, batch, top, replays, crashes, resets>>
  BY DEF Fail, ticker, past, limits, Shape
<1>2. e \notin batch
  BY <1>1 DEF Shape, Happened
<1>3. Happened \subseteq Happened'
  BY <1>1 DEF Happened, Shape
<1>4. Shape'
  BY <1>1, <1>3 DEF Shape
<1>5. Ordered'
  BY <1>1, <1>2 DEF Ordered, Shape, Happened
<1>6. \A f \in Events : Passed(f) => Passed(f)'
  <2> SUFFICES ASSUME NEW f \in Events, Passed(f) PROVE Passed(f)'
    OBVIOUS
  <2>1. f # e /\ at'[f] = at[f]
    BY <1>1 DEF Passed, Shape
  <2> QED BY <1>1, <2>1 DEF Passed
<1>7. Fresh'
  BY <1>1, <1>6 DEF Fresh
<1> QED BY <1>4, <1>5, <1>7

\* A backfill resets the watermark, or changes nothing.
LEMMA BackfillSafe ==
  ASSUME IInv, MaybeAutoBackfill \/ HandleBackfill
  PROVE  IInv'
<1> USE DEF IInv
<1>1. /\ UNCHANGED <<now, cpamp, batch, top, replays, crashes>>
      /\ pc' = pc \/ (pc = "auto" /\ pc' = "idle")
  BY DEF MaybeAutoBackfill, HandleBackfill, ticker, past, limits
<1>2. \/ UNCHANGED <<mark, resets>>
      \/ mark' = 0 /\ resets' = resets + 1
  BY DEF MaybeAutoBackfill, HandleBackfill, ApplyCPAMPBackfill
<1>3. CASE UNCHANGED <<mark, resets>>
  BY <1>1, <1>3, IdleSafe DEF Shape
<1>4. CASE mark' = 0 /\ resets' = resets + 1
  <2>1. Happened' = Happened
    BY <1>1 DEF Happened, cpamp
  <2>2. Shape'
    BY <1>1, <1>4, <2>1 DEF Shape, Working, cpamp
  <2>3. \A e \in batch : at[e] \in Nat /\ at[e] # 0
    BY DEF Shape, Happened
  <2>4. Ordered'
    BY <1>1, <1>4, <2>3 DEF Ordered, cpamp
  <2> QED BY <1>1, <1>4, <2>2, <2>4, LossSafe DEF Shape
<1> QED BY <1>2, <1>3, <1>4

LEMMA CrashSafe == IInv /\ Crash => IInv'
<1> SUFFICES ASSUME IInv, Crash PROVE IInv'
  OBVIOUS
<1>1. Happened' = Happened
  BY DEF Crash, Happened, cpamp
<1>2. Shape'
  BY <1>1 DEF IInv, Crash, Shape, Working, cpamp, past
<1>3. Ordered'
  BY DEF Crash, Ordered
<1> QED BY <1>2, <1>3, LossSafe DEF Crash, past, IInv, Shape

LEMMA StepSafe == IInv /\ [Next]_vars => IInv'
<1> SUFFICES ASSUME IInv, [Next]_vars PROVE IInv'
  OBVIOUS
<1>1. CASE Fetch
  BY <1>1, FetchSafe
<1>2. CASE Check
  <2> PICK e \in batch :
        /\ First(e)
        /\ IF AlreadyHandledRecently(row, e)
           THEN /\ batch' = batch \ {e} /\ top' = at[e]
                /\ pc' = IF batch' = {} THEN "advance" ELSE "check"
           ELSE pc' = "apply" /\ UNCHANGED <<batch, top>>
    BY <1>2 DEF Check
  <2>1. pc = "check" /\ UNCHANGED <<now, cpamp, mark, replays, crashes, resets>>
    BY <1>2 DEF Check, past, limits
  <2>2. CASE AlreadyHandledRecently(row, e)
    BY <2>1, <2>2, PassSafe DEF Working
  <2>3. CASE ~AlreadyHandledRecently(row, e)
    BY <2>1, <2>3, IdleSafe DEF IInv, Shape
  <2> QED BY <2>2, <2>3
<1>3. CASE Apply
  <2> PICK e \in batch :
        /\ First(e)
        /\ replays' = [replays EXCEPT ![e] = @ + 1]
        /\ batch' = batch \ {e} /\ top' = at[e]
        /\ pc' = IF batch' = {} THEN "advance" ELSE "check"
    BY <1>3 DEF Apply
  <2>1. pc = "apply" /\ UNCHANGED <<now, cpamp, mark, crashes, resets>>
    BY <1>3 DEF Apply, limits
  <2> QED BY <2>1, PassSafe DEF Working
<1>4. CASE Advance
  BY <1>4, AdvanceSafe
<1>5. CASE Tick \/ FetchFails \/ Lock \/ Open \/ NewDay \/ UNCHANGED vars
  <2>1. /\ UNCHANGED <<now, cpamp, mark, batch, top, replays, crashes, resets>>
        /\ \/ pc' = pc
           \/ pc \in {"idle", "tick", "auto"} /\ pc' \in {"idle", "tick", "auto"}
    BY <1>5 DEF Tick, FetchFails, Lock, Open, NewDay, vars, ticker, past, limits
  <2> QED BY <2>1, IdleSafe DEF IInv, Shape
<1>6. ASSUME NEW e \in Events, Report(e)
      PROVE  IInv'
  <2>1. UNCHANGED <<now, cpamp, mark, pc, batch, top, replays, crashes, resets>>
    BY <1>6 DEF Report, ticker, limits
  <2> QED BY <2>1, IdleSafe DEF IInv, Shape
<1>7. CASE Elapse
  <2>1. /\ UNCHANGED <<cpamp, mark, pc, batch, top, replays, crashes, resets>>
        /\ now' = now + 1
    BY <1>7 DEF Elapse, ticker, past, limits
  <2>2. now' \in Nat /\ now <= now'
    BY <2>1 DEF IInv, Shape
  <2> QED BY <2>1, <2>2, IdleSafe
<1>8. CASE MaybeAutoBackfill \/ HandleBackfill
  BY <1>8, BackfillSafe
<1>9. CASE Crash
  BY <1>9, CrashSafe
<1> QED
  BY <1>1, <1>2, <1>3, <1>4, <1>5, <1>6, <1>7, <1>8, <1>9, FailSafe DEF Next, Cycle

\* For any number of failures and any rate of them: without a crash and
\* without a reset of the watermark the replay applies no failure twice.
THEOREM AppliedOnce == Spec => []ReplayedOnce
<1>1. IInv => ReplayedOnce
  BY DEF IInv, Fresh, ReplayedOnce
<1> QED BY InitIInv, StepSafe, <1>1, PTL DEF Spec

-----------------------------------------------------------------------------
(* What the watermark passes.                                              *)

Shared(e) == \E f \in seen : at[f] = at[e]
Excused(e) == e \in lapsed \/ Shared(e)

\* Where no excuse applies, a failure is ahead of the watermark and of all
\* that the cycle in progress may move it to.
Ahead(e) ==
  /\ mark < at[e] /\ \A f \in batch : at[f] < at[e]
  /\ pc = "advance" => top < at[e]

\* A time stamp that the watermark has, or is about to get, is that of a
\* failure that was fetched.
Kept ==
  /\ \A e \in Happened : at[e] <= now
  /\ batch \subseteq seen /\ seen \subseteq Happened
  /\ mark = 0 \/ \E f \in seen : at[f] = mark
  /\ pc = "advance" => \E f \in seen : at[f] = top
  /\ \A e \in Happened : Excused(e) \/ Ahead(e)

LEMMA LimitNat == Limit \in Nat
<1>1. Limit \in {Threshold, Limit, MaxCycle}
  OBVIOUS
<1> QED BY <1>1, ReplayAssumption

LEMMA Stamps ==
  ASSUME Shape
  PROVE  /\ Happened \subseteq Events /\ IsFiniteSet(Happened)
         /\ \A e \in Happened : at[e] \in Nat /\ at[e] # 0 /\ e \in Nat
<1>1. Happened \subseteq Events /\ IsFiniteSet(Happened)
  BY ReplayAssumption, FS_Subset DEF Happened
<1> QED BY <1>1, ReplayAssumption DEF Shape, Happened

LEMMA EarlierOrder ==
  ASSUME Shape, NEW e \in Happened, NEW f \in Happened
  PROVE  /\ ~Earlier(e, e)
         /\ e = f \/ Earlier(e, f) \/ Earlier(f, e)
         /\ Earlier(e, f) => at[e] <= at[f]
         /\ \A g \in Happened : Earlier(g, e) /\ Earlier(e, f) => Earlier(g, f)
BY Stamps DEF Earlier

\* What a fetch leaves behind is not older than what it takes.
LEMMA OldestFirst ==
  ASSUME Shape, NEW set, set \subseteq Happened,
         NEW e \in set \ Oldest(set), NEW f \in Oldest(set)
  PROVE  at[f] <= at[e]
<1> DEFINE before(g) == {h \in set : Earlier(h, g)}
<1>1. IsFiniteSet(before(e)) /\ IsFiniteSet(before(f))
  BY Stamps, FS_Subset
<1>2. f \in set /\ Cardinality(before(f)) < Limit /\ ~(Cardinality(before(e)) < Limit)
  BY DEF Oldest
<1>3. ASSUME Earlier(e, f) PROVE FALSE
  <2>1. before(e) \subseteq before(f)
    BY <1>2, <1>3, EarlierOrder
  <2> HIDE DEF before
  <2>2. /\ Cardinality(before(e)) <= Cardinality(before(f))
        /\ Cardinality(before(e)) \in Nat /\ Cardinality(before(f)) \in Nat
    BY <1>1, <2>1, FS_Subset, FS_CardinalityType
  <2> QED BY <1>2, <2>2, LimitNat
<1>4. e # f
  BY <1>2
<1> QED BY <1>2, <1>3, <1>4, EarlierOrder

\* A fetch without a watermark lets those lapse that are behind it; with one,
\* those behind it have an excuse already.  The others are in the batch, or
\* ahead of it.
LEMMA FetchKeeps ==
  ASSUME IInv, Kept, Fetch PROVE Kept'
<1>0. Shape
  BY DEF IInv
<1>1. /\ batch' = Oldest(After(Since)) /\ seen' = seen \cup batch' /\ pc' # "advance"
      /\ lapsed' = lapsed \cup IF mark > 0 THEN {} ELSE Happened \ (After(Since) \cup seen)
      /\ UNCHANGED <<now, at, mark>> /\ Happened' = Happened
  BY DEF Fetch, cpamp, Happened
<1>2. batch' \subseteq After(Since) /\ After(Since) \subseteq Happened
  BY <1>1 DEF Oldest, After
<1>3. ASSUME NEW e \in Happened, ~Excused(e)' PROVE Ahead(e)'
  <2>1. e \notin lapsed' /\ ~Shared(e) /\ \A f \in batch' : at[f] # at[e]
    BY <1>1, <1>3 DEF Excused, Shared
  <2>2. mark < at[e]
    BY <1>1, <2>1 DEF Kept, Excused, Ahead
  <2>3. e \in After(Since) \ batch'
    <3>1. e \notin seen /\ e \notin batch'
      BY <1>1, <2>1 DEF Shared
    <3>2. CASE mark > 0
      BY <1>3, <2>2, <3>1, <3>2, <1>0, Stamps DEF Since, After, Shape
    <3>3. CASE ~(mark > 0)
      BY <1>1, <2>1, <3>1, <3>3
    <3> QED BY <3>2, <3>3
  <2>4. ASSUME NEW f \in batch' PROVE at[f] < at[e]
    <3>1. at[f] <= at[e]
      BY <1>0, <1>1, <1>2, <2>3, OldestFirst
    <3> QED BY <1>0, <1>2, <2>1, <3>1, <1>3, Stamps
  <2> QED BY <1>1, <2>2, <2>4 DEF Ahead
<1>4. batch' \subseteq seen' /\ seen' \subseteq Happened'
  BY <1>1, <1>2 DEF Kept
<1> QED BY <1>1, <1>3, <1>4 DEF Kept

\* The event that is passed is the earliest of the batch.
LEMMA PassKeeps ==
  ASSUME IInv, Kept, NEW e, First(e), batch' = batch \ {e}, top' = at[e],
         UNCHANGED <<now, at, seen, lapsed, mark>>
  PROVE  Kept'
<1>1. Happened' = Happened /\ e \in batch /\ batch \subseteq seen
  BY FirstIsLeast DEF Happened, Kept, IInv
<1>2. ASSUME NEW u \in Happened', ~Excused(u)' PROVE Ahead(u)'
  BY <1>1, <1>2 DEF Kept, Excused, Shared, Ahead
<1> QED BY <1>1, <1>2 DEF Kept

LEMMA AdvanceKeeps ==
  ASSUME IInv, Kept, Advance PROVE Kept'
<1>1. /\ UNCHANGED <<now, at, seen, lapsed, batch>> /\ mark' \in {mark, top}
      /\ Happened' = Happened /\ pc = "advance" /\ pc' # "advance"
  BY DEF Advance, cpamp, past, Happened
<1>2. ASSUME NEW u \in Happened', ~Excused(u)' PROVE Ahead(u)'
  BY <1>1, <1>2 DEF Kept, Excused, Shared, Ahead
<1> QED BY <1>1, <1>2 DEF Kept

\* A failure that happens now shares its time stamp with whatever else has it.
LEMMA FailKeeps ==
  ASSUME IInv, Kept, NEW e \in Events, Fail(e) PROVE Kept'
<1>0. Shape /\ at \in [Events -> Nat] /\ now \in Nat /\ 1 <= now /\ top \in Int /\ mark \in Nat
  BY DEF IInv, Shape
<1>1. /\ at[e] = 0 /\ at' = [at EXCEPT ![e] = now]
      /\ UNCHANGED <<now, seen, lapsed, batch, top, pc, mark>>
  BY DEF Fail, ticker, past
<1>2. Happened' = Happened \cup {e} /\ e \notin Happened /\ at'[e] = now
  BY <1>0, <1>1 DEF Happened
<1>3. \A f \in Happened : f # e /\ at'[f] = at[f] /\ at[f] \in Nat /\ at[f] <= now
  BY <1>0, <1>1, <1>2, Stamps DEF Kept
<1>4. ASSUME NEW u \in Happened', ~Excused(u)' PROVE Ahead(u)'
  <2>1. CASE u = e
    <3>1. \A f \in seen : at[f] # now /\ f \in Happened
      BY <1>1, <1>2, <1>3, <1>4, <2>1 DEF Excused, Shared, Kept
    <3>2. \A f \in seen : at[f] < now /\ at'[f] = at[f]
      BY <1>0, <1>3, <3>1
    <3>3. mark < now /\ (pc = "advance" => top < now)
      BY <1>0, <3>2 DEF Kept
    <3> QED BY <1>1, <1>2, <2>1, <3>2, <3>3 DEF Ahead, Kept
  <2>2. CASE u # e
    <3>1. u \in Happened /\ at'[u] = at[u]
      BY <1>2, <1>3, <2>2
    <3>2. ~Excused(u)
      BY <1>1, <1>3, <1>4, <3>1 DEF Excused, Shared, Kept
    <3>3. Ahead(u) /\ \A f \in batch : at'[f] = at[f]
      BY <1>3, <3>1, <3>2 DEF Kept
    <3> QED BY <1>1, <3>1, <3>3 DEF Ahead
  <2> QED BY <2>1, <2>2
<1>5. \A f \in Happened' : at'[f] <= now'
  BY <1>0, <1>1, <1>2, <1>3
<1>6. \A f \in seen : at'[f] = at[f]
  BY <1>3 DEF Kept
<1> QED BY <1>1, <1>2, <1>4, <1>5, <1>6 DEF Kept

\* What the table, the panel, time, a new day and a crash do: the watermark
\* may be lost, and the rest of a batch, but not what was fetched.
LEMMA RestKeeps ==
  ASSUME IInv, Kept, UNCHANGED <<at, seen, lapsed>>, now' \in {now, now + 1},
         batch' \subseteq batch, mark' \in {mark, 0},
         pc' = "advance" => pc = "advance" /\ top' = top
  PROVE  Kept'
<1>1. Happened' = Happened
  BY DEF Happened
<1>2. now \in Nat /\ \A e \in Happened : at[e] \in Nat /\ at[e] # 0
  BY Stamps DEF IInv, Shape
<1>3. ASSUME NEW u \in Happened', ~Excused(u)' PROVE Ahead(u)'
  BY <1>1, <1>2, <1>3 DEF Kept, Excused, Shared, Ahead
<1>4. \A e \in Happened' : at[e] <= now'
  BY <1>1, <1>2 DEF Kept
<1> QED BY <1>1, <1>3, <1>4 DEF Kept

LEMMA InitKept == Init => Kept
<1> SUFFICES ASSUME Init PROVE Kept
  OBVIOUS
<1>1. Happened = {} /\ pc = "idle" /\ mark = 0 /\ batch = {} /\ seen = {}
  BY DEF Init, Happened
<1> QED BY <1>1 DEF Kept

LEMMA StepKept == IInv /\ Kept /\ [Next]_vars => Kept'
<1> SUFFICES ASSUME IInv, Kept, [Next]_vars PROVE Kept'
  OBVIOUS
<1>1. CASE Check
  <2> PICK e \in batch :
        /\ First(e)
        /\ IF AlreadyHandledRecently(row, e)
           THEN /\ batch' = batch \ {e} /\ top' = at[e]
                /\ pc' = IF batch' = {} THEN "advance" ELSE "check"
           ELSE pc' = "apply" /\ UNCHANGED <<batch, top>>
    BY <1>1 DEF Check
  <2>1. UNCHANGED <<now, at, seen, lapsed, mark>>
    BY <1>1 DEF Check, cpamp, past
  <2>2. CASE AlreadyHandledRecently(row, e)
    BY <2>1, <2>2, PassKeeps
  <2>3. CASE ~AlreadyHandledRecently(row, e)
    BY <2>1, <2>3, RestKeeps
  <2> QED BY <2>2, <2>3
<1>2. CASE Apply
  <2> PICK e \in batch : First(e) /\ batch' = batch \ {e} /\ top' = at[e]
    BY <1>2 DEF Apply
  <2>1. UNCHANGED <<now, at, seen, lapsed, mark>>
    BY <1>2 DEF Apply, cpamp
  <2> QED BY <2>1, PassKeeps
<1>3. CASE Tick \/ FetchFails \/ Lock \/ Open \/ NewDay \/ Crash \/ Elapse \/ UNCHANGED vars
  <2>1. /\ UNCHANGED <<at, seen, lapsed, mark>> /\ batch' \in {batch, {}}
        /\ now' \in {now, now + 1}
        /\ pc' = "advance" => pc' = pc /\ top' = top
    BY <1>3 DEF Tick, FetchFails, Lock, Open, NewDay, Crash, Elapse, vars, cpamp, ticker, past
  <2> QED BY <2>1, RestKeeps
<1>4. CASE MaybeAutoBackfill \/ HandleBackfill
  <2>1. /\ UNCHANGED <<now, at, seen, lapsed, batch, top>> /\ mark' \in {mark, 0}
        /\ pc' = pc \/ pc' = "idle"
    BY <1>4 DEF MaybeAutoBackfill, HandleBackfill, ApplyCPAMPBackfill, cpamp, ticker, past
  <2> QED BY <2>1, RestKeeps
<1>5. ASSUME NEW e \in Events, Report(e) PROVE Kept'
  <2>1. UNCHANGED <<now, at, seen, lapsed, mark, pc, batch, top>>
    BY <1>5 DEF Report, cpamp, ticker
  <2> QED BY <2>1, RestKeeps
<1> QED
  BY <1>1, <1>2, <1>3, <1>4, <1>5, FetchKeeps, AdvanceKeeps, FailKeeps DEF Next, Cycle

\* For any rate of failures, equal time stamps or not, any limit, any length
\* of a cycle, any crashes, resets and failed fetches: what the watermark is
\* beyond was fetched, or shares its time stamp with a failure that was, or
\* was behind the lookback of a query that had no watermark to begin at.
THEOREM MarkHonest == Spec => []MarkPassesNone
<1>1. IInv /\ Kept => MarkPassesNone
  <2> SUFFICES ASSUME IInv, Kept, NEW e \in Happened, at[e] <= mark
               PROVE  e \in seen \cup lapsed \/ \E f \in seen : at[f] = at[e]
    BY DEF MarkPassesNone
  <2>1. at[e] \in Nat /\ mark \in Nat
    BY Stamps DEF IInv, Shape
  <2>2. ~Ahead(e)
    BY <2>1 DEF Ahead
  <2> QED BY <2>2 DEF Kept, Excused, Shared
<1> QED BY <1>1, InitIInv, StepSafe, InitKept, StepKept, PTL DEF Spec
=============================================================================
