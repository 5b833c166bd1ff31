------------------------------- MODULE Patrol -------------------------------
(***************************************************************************)
(* A patrol job (patrol/patrol.go, patrol/runner_ops.go) beside the tick's *)
(* pruning of duplicate rows (guard.go) and rebuilds of the runtime, which *)
(* replace guard and runner but neither the table nor a job that runs.     *)
(*                                                                         *)
(* An account may have two rows of the table, one under its file name and  *)
(* one under CPA's hashed index.  What HandleUsage makes of a report is    *)
(* reduced to the state of the row it hits; module Guard has the rest.     *)
(* Automatic trash is off, as it is there.                                 *)
(***************************************************************************)
EXTENDS Integers, FiniteSets

CONSTANTS
  Accounts,     \* accounts that CPA has a token of
  Concurrency,  \* cfg.PatrolConcurrency
  Batch,        \* cfg.PatrolBatchSize
  Settle,       \* how long IsRunning stays true after a job
  Burst,        \* calls of a day that one report stands for
  MaxReports,   \* bound: live reports, per row
  MaxJobs,      \* bound: jobs
  MaxGen,       \* bound: guards and runners, 1 + rebuilds
  NoOne

Keys == {"file", "hash"}
RowIds == Accounts \X Keys
Ids == 1..MaxJobs
Gens == 1..MaxGen

ASSUME PatrolAssumption ==
  /\ IsFiniteSet(Accounts)
  /\ {Concurrency, Batch, MaxJobs, MaxGen} \subseteq Nat \ {0}
  /\ {Settle, Burst, MaxReports} \subseteq Nat
  /\ NoOne \notin RowIds

VARIABLES
  row,        \* state of each row
  calls,      \* DayCalls of each row
  gen,        \* which rebuild Runtime.Guard and Runtime.Patrol are from
  job,        \* jobStatus, one for all runners
  seq,        \* jobSeq
  run,        \* the runJob goroutines
  work,       \* what each of them does with each account
  settle,     \* time left in the settle window, of each runner
  quiet,      \* time since a job was running (history)
  ticker,     \* the goroutine of the tick
  losers,     \* rows that its pruning has yet to delete
  late        \* accounts that a report or click changed meanwhile (history)

table == <<row, calls>>
jobs == <<job, seq, run, work>>
tick == <<ticker, losers, late>>
vars == <<table, gen, jobs, settle, quiet, tick>>

Modes == {"all", "enabled", "cooldown", "permanent", "candidate"}
Stages == {"no", "todo", "probe", "alive", "failed", "done"}
Asleep == [pc |-> "none", runner |-> 1, guard |-> 1]
NoWork == [a \in Accounts |-> "no"]

-----------------------------------------------------------------------------
(* Rows.                                                                   *)

\* "locked" is user_manual, by the operator or because the file was closed.
Blocked == {"cool", "candidate", "locked"}
RowsOf(a) == {r \in RowIds : r[1] = a /\ row[r] # "none"}
Some(a, states) == \E r \in RowsOf(a) : row[r] \in states

\* pruneDuplicateAccounts: what state and source of a row are worth; a
\* deadline and a last signal, which a row of any state may have; the kind of
\* its key; and the calls of the day.
Weights == [active |-> {0}, cool |-> {1000 + 500}, candidate |-> {900 + 500},
            locked |-> {950 + 450, 950 + 480}]
Extras == {0, 10, 100, 100 + 10}
KeyBonus(r) == IF r[2] = "hash" THEN 50 ELSE 0

\* Mutant: ownership is worth less than a hashed index.
ScoresByKey(r) == {(IF row[r] \in Blocked THEN 10 ELSE 0) + KeyBonus(r) + calls[r]}

Scores(r) == {w + e + KeyBonus(r) + calls[r] : w \in Weights[row[r]], e \in Extras}
MayWin(a, r) ==
  /\ r \in RowsOf(a)
  /\ \A q \in RowsOf(a) \ {r} : \E n \in Scores(r), m \in Scores(q) : m <= n

\* HandleUsage on a row, which it makes if there is none.  A probe that found
\* the account alive opens the row unless CPA refuses; a failure may do
\* whatever its ladder asks for, or be dropped as a double.
Reported(r, alive) ==
  LET was == IF row[r] = "none" THEN "active" ELSE row[r] IN
  \/ /\ row' \in {[row EXCEPT ![r] = s] :
          s \in {was} \cup (IF alive THEN {"active"} ELSE Blocked)}
     /\ calls' = [calls EXCEPT ![r] = @ + Burst]
  \/ ~alive /\ row[r] # "none" /\ UNCHANGED table

\* Two users of one guard exclude each other, users of two guards do not.
Free(g) == ticker.pc \in {"asleep", "woken"} \/ ticker.guard # g

-----------------------------------------------------------------------------
(* The job.                                                                *)

\* Mutant: each runner looks for a job of its own.
StartOnOwn(r) ==
  /\ seq < MaxJobs /\ \A i \in Ids : run[i].pc = "none" \/ run[i].runner # r
  /\ seq' = seq + 1
  /\ job' = [running |-> TRUE, id |-> seq + 1, runner |-> r, total |-> 0, probed |-> 0]
  /\ run' = [run EXCEPT ![seq + 1] = [pc |-> "fetch", runner |-> r, guard |-> r]]
  /\ quiet' = 0
  /\ UNCHANGED <<table, gen, work, settle, tick>>

\* The panel or the patrol ticker; the ticker's runner may be an old one.
Start(r) ==
  /\ seq < MaxJobs /\ ~job.running
  /\ seq' = seq + 1
  /\ job' = [running |-> TRUE, id |-> seq + 1, runner |-> r, total |-> 0, probed |-> 0]
  /\ run' = [run EXCEPT ![seq + 1] = [pc |-> "fetch", runner |-> r, guard |-> r]]
  /\ quiet' = 0
  /\ UNCHANGED <<table, gen, work, settle, tick>>

\* GetGuard: the runner, old or new, takes the guard of now for this job.
FetchGuard(i) ==
  /\ run[i].pc = "fetch"
  /\ run' = [run EXCEPT ![i].pc = "collect", ![i].guard = gen]
  /\ UNCHANGED <<table, gen, job, seq, work, settle, quiet, tick>>

Selected(mode) ==
  CASE mode = "all"       -> Accounts
    [] mode = "enabled"   -> {a \in Accounts : ~Some(a, Blocked)}
    [] mode = "cooldown"  -> {a \in Accounts : Some(a, {"cool"})}
    [] mode = "permanent" -> {a \in Accounts : Some(a, {"locked"})}
    [] mode = "candidate" -> {a \in Accounts : Some(a, {"candidate"})}

\* Every account once, whatever rows it has; at most a batch.  The mode was
\* given to Start and is read here only.
CollectTargets(i) ==
  /\ run[i].pc = "collect"
  /\ \E mode \in Modes : \E targets \in SUBSET Selected(mode) :
       /\ \/ targets = Selected(mode) /\ Cardinality(targets) <= Batch
          \/ Cardinality(targets) = Batch
       /\ work' = [work EXCEPT ![i] =
                     [a \in Accounts |-> IF a \in targets THEN "todo" ELSE "no"]]
       /\ job' = [job EXCEPT !.total = Cardinality(targets)]
  /\ run' = [run EXCEPT ![i].pc = "probing"]
  /\ UNCHANGED <<table, gen, seq, settle, quiet, tick>>

\* A slot of the semaphore is held until the guard has had the answer.
Slots(i) == {a \in Accounts : work[i][a] \in {"probe", "alive", "failed"}}

Probe(i, a) ==
  /\ run[i].pc = "probing" /\ work[i][a] = "todo"
  /\ Cardinality(Slots(i)) < Concurrency
  /\ work' = [work EXCEPT ![i][a] = "probe"]
  /\ UNCHANGED <<table, gen, job, seq, run, settle, quiet, tick>>

\* An HTTP answer, or an error, which is not for the guard.  The progress
\* counts the answer before the guard has seen it.
Answer(i, a) ==
  /\ work[i][a] = "probe"
  /\ \E s \in {"alive", "failed", "done"} : work' = [work EXCEPT ![i][a] = s]
  /\ job' = IF job.running THEN [job EXCEPT !.probed = @ + 1] ELSE job
  /\ UNCHANGED <<table, gen, seq, run, settle, quiet, tick>>

\* Mutant: a failed probe is left to the live reports.
FeedAlive(i, a) ==
  /\ work[i][a] = "alive" /\ Free(run[i].guard)
  /\ \E r \in RowIds :
       /\ r[1] = a
       /\ Reported(r, work[i][a] = "alive")
  /\ work' = [work EXCEPT ![i][a] = "done"]
  /\ UNCHANGED <<gen, job, seq, run, settle, quiet, tick>>

\* Mutant: an answer counts again when the guard has seen it.
FeedCounts(i, a) ==
  /\ work[i][a] \in {"alive", "failed"} /\ Free(run[i].guard)
  /\ \E r \in RowIds :
       /\ r[1] = a
       /\ Reported(r, work[i][a] = "alive")
  /\ work' = [work EXCEPT ![i][a] = "done"]
  /\ job' = [job EXCEPT !.probed = @ + 1]
  /\ UNCHANGED <<gen, seq, run, settle, quiet, tick>>

\* The target carries the index of one of the account's rows at the time,
\* or CPA's if there was none.
Feed(i, a) ==
  /\ work[i][a] \in {"alive", "failed"} /\ Free(run[i].guard)
  /\ \E r \in RowIds :
       /\ r[1] = a
       /\ Reported(r, work[i][a] = "alive")
  /\ work' = [work EXCEPT ![i][a] = "done"]
  /\ UNCHANGED <<gen, job, seq, run, settle, quiet, tick>>

\* The final counts, Save, and the deferred end.  Its history, written by a
\* goroutine of its own, is left out.
Finish(i) ==
  /\ run[i].pc = "probing" /\ \A a \in Accounts : work[i][a] \in {"no", "done"}
  /\ job' = [job EXCEPT !.running = FALSE]
  /\ settle' = [settle EXCEPT ![run[i].runner] = Settle]
  /\ run' = [run EXCEPT ![i] = Asleep] /\ work' = [work EXCEPT ![i] = NoWork]
  /\ UNCHANGED <<table, gen, seq, quiet, tick>>

-----------------------------------------------------------------------------
(* The tick: only its pruning matters here, its mutex does throughout.     *)

Wake ==
  /\ ticker.pc = "asleep"
  /\ ticker' = [pc |-> "woken", guard |-> gen]
  /\ UNCHANGED <<table, gen, jobs, settle, quiet, losers, late>>

EnterTick ==
  /\ ticker.pc = "woken"
  /\ ticker' = [ticker EXCEPT !.pc = "tick"]
  /\ UNCHANGED <<table, gen, jobs, settle, quiet, losers, late>>

\* Mutant: a runner knows of its own job only.
OwnIsRunning(r) == job.running /\ job.runner = r

\* Mutant: no settle window.
RunningNow(r) == job.running

\* The runner of the guard's own rebuild is asked.
IsRunning(r) == job.running \/ settle[r] > 0

PruneCheck ==
  /\ ticker.pc = "tick"
  /\ ticker' = [ticker EXCEPT !.pc = IF IsRunning(ticker.guard) THEN "leave" ELSE "prune"]
  /\ UNCHANGED <<table, gen, jobs, settle, quiet, losers, late>>

\* Losers are found in a snapshot; between equals the map's order decides.
PruneSnapshot ==
  /\ ticker.pc = "prune"
  /\ \E keep \in [Accounts -> RowIds \cup {NoOne}] :
       /\ \A a \in Accounts : IF RowsOf(a) = {} THEN keep[a] = NoOne ELSE MayWin(a, keep[a])
       /\ losers' = {r \in RowIds : row[r] # "none" /\ keep[r[1]] # r}
  /\ ticker' = [ticker EXCEPT !.pc = "delete"] /\ late' = {}
  /\ UNCHANGED <<table, gen, jobs, settle, quiet>>

PruneDelete(r) ==
  /\ ticker.pc = "delete" /\ r \in losers
  /\ losers' = losers \ {r}
  /\ row' = [row EXCEPT ![r] = "none"] /\ calls' = [calls EXCEPT ![r] = 0]
  /\ UNCHANGED <<gen, jobs, settle, quiet, ticker, late>>

LeaveTick ==
  /\ ticker.pc = "leave" \/ (ticker.pc = "delete" /\ losers = {})
  /\ ticker' = [ticker EXCEPT !.pc = "asleep"] /\ late' = {}
  /\ UNCHANGED <<table, gen, jobs, settle, quiet, losers>>

-----------------------------------------------------------------------------
(* The rest of the world.                                                  *)

\* Meanwhile the tick may have its snapshot, of another guard.
Noted(a) == late' = IF ticker.pc = "delete" THEN late \cup {a} ELSE late

\* A live report may have read Runtime.Guard before a rebuild, and a click
\* may be of a panel that a rebuild has replaced.
Report(r) ==
  /\ \E g \in 1..gen : Free(g)
  /\ calls[r] < Burst * MaxReports
  /\ Reported(r, FALSE) /\ Noted(r[1])
  /\ UNCHANGED <<gen, jobs, settle, quiet, ticker, losers>>

Lock(a) ==
  /\ \E g \in 1..gen : Free(g)
  /\ \E r \in RowsOf(a) : row' = [row EXCEPT ![r] = "locked"]
  /\ Noted(a)
  /\ UNCHANGED <<calls, gen, jobs, settle, quiet, ticker, losers>>

Rebuild ==
  /\ gen < MaxGen /\ gen' = gen + 1
  /\ UNCHANGED <<table, jobs, settle, quiet, tick>>

Elapse ==
  /\ quiet' = IF job.running THEN 0 ELSE IF quiet < Settle THEN quiet + 1 ELSE quiet
  /\ settle' = [g \in Gens |-> IF settle[g] > 0 THEN settle[g] - 1 ELSE 0]
  /\ <<quiet, settle>>' # <<quiet, settle>>
  /\ UNCHANGED <<table, gen, jobs, tick>>

-----------------------------------------------------------------------------
Init ==
  /\ row = [r \in RowIds |-> IF r[2] = "file" THEN "active" ELSE "none"]
  /\ calls = [r \in RowIds |-> 0] /\ gen = 1
  /\ job = [running |-> FALSE, id |-> 0, runner |-> 1, total |-> 0, probed |-> 0]
  /\ seq = 0 /\ run = [i \in Ids |-> Asleep] /\ work = [i \in Ids |-> NoWork]
  /\ settle = [g \in Gens |-> 0] /\ quiet = Settle
  /\ ticker = [pc |-> "asleep", guard |-> 1] /\ losers = {} /\ late = {}

Proceed(i) ==
  \/ FetchGuard(i) \/ CollectTargets(i) \/ Finish(i)
  \/ \E a \in Accounts : Probe(i, a) \/ Answer(i, a)

JobStep(i) == Proceed(i) \/ \E a \in Accounts : Feed(i, a)

TickStep ==
  \/ Wake \/ EnterTick \/ PruneCheck \/ PruneSnapshot \/ LeaveTick
  \/ \E r \in RowIds : PruneDelete(r)

Next ==
  \/ \E r \in 1..gen : Start(r)
  \/ \E i \in Ids : JobStep(i)
  \/ TickStep
  \/ \E r \in RowIds : Report(r)
  \/ \E a \in Accounts : Lock(a)
  \/ Rebuild \/ Elapse

Spec == Init /\ [][Next]_vars

\* Probes time out, and a mutex is granted some time to whoever waits for it.
Fairness ==
  /\ WF_vars(TickStep) /\ WF_vars(\E i \in Ids : Proceed(i))
  /\ SF_vars(\E i \in Ids, a \in Accounts : Feed(i, a))
FairSpec == Spec /\ Fairness

-----------------------------------------------------------------------------
TypeOK ==
  /\ row \in [RowIds -> {"none", "active"} \cup Blocked] /\ calls \in [RowIds -> Nat]
  /\ gen \in Gens /\ seq \in 0..MaxJobs
  /\ job \in [running : BOOLEAN, id : 0..MaxJobs, runner : Gens,
              total : 0..Batch, probed : 0..Batch]
  /\ run \in [Ids -> [pc : {"none", "fetch", "collect", "probing"},
                      runner : Gens, guard : Gens]]
  /\ work \in [Ids -> [Accounts -> Stages]]
  /\ settle \in [Gens -> 0..Settle] /\ quiet \in 0..Settle
  /\ ticker \in [pc : {"asleep", "woken", "tick", "prune", "delete", "leave"}, guard : Gens]
  /\ losers \subseteq RowIds /\ late \subseteq Accounts

\* However runners are replaced, there is one job, and jobStatus is about it:
\* its progress never runs past its total.
OneJob ==
  /\ \A i \in Ids : run[i].pc # "none" => job.running /\ job.id = i
  /\ job.probed <= job.total

\* "skip when patrol is running": no probe, of a job that ran at the check or
\* of one that began after it, reaches the table while the guard of now is
\* pruning it, however often runner and guard were replaced before.
FeedsApart ==
  [][\A i \in Ids, a \in Accounts :
       /\ ticker.pc \in {"prune", "delete"} /\ ticker.guard = gen
       /\ work[i][a] \in {"alive", "failed"}
       => work'[i][a] = work[i][a]]_vars

\* What ownership is worth at least, beside all an open row may have but calls.
Lead == (900 + 500) - (100 + 10 + 50)

\* "ownership / cool-down ALWAYS beats empty Active shells": pruning by the
\* guard of now deletes a row that says the account is closed only if another
\* row of the account says so at that moment, unless an open row has counted
\* Lead more calls today, or a report or click through a replaced guard
\* changed the account since the snapshot.
PruneKeepsOwned ==
  [][\A r \in RowIds :
       /\ ticker.pc = "delete" /\ ticker.guard = gen
       /\ r \in losers \ losers' /\ row[r] \in Blocked
       /\ r[1] \notin late
       /\ \A q \in RowsOf(r[1]) : calls[q] - calls[r] < Lead
       => \E q \in RowsOf(r[1]) : q # r /\ row[q] \in Blocked]_vars

\* "short post-job settle window avoids tick prune races": as long as the
\* runtime is not rebuilt, no pruning begins in the settle window after a job.
SettleRespected ==
  [][gen = 1 /\ ticker.pc = "tick" /\ ticker'.pc = "prune" => quiet = Settle]_vars

\* Every job comes to an end: jobStatus does not say running for ever.
EveryJobEnds == job.running ~> ~job.running
=============================================================================
