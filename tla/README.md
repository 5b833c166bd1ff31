# cpa-xai-sentry: specifications, model checks and proofs

cpa-xai-sentry is a plugin of CPA (CLIProxyAPI). It watches the requests that CPA
serves with xAI accounts, learns which accounts are exhausted, unpaid, forbidden
or dead, closes their auth files for a while or until the operator looks, and
opens them again. CPA owns the files; the sentry owns a table of what it thinks
of each account. Around this loop it keeps a trash bin, replays failures it was
not told of, probes accounts in patrol jobs, runs registration jobs on a
separate backend, and lets the operator edit the catalog of error classes and
the configuration.

Paths below are relative to the repository.

## 1. Inventory

| Part | Code | State | Operations | Model |
|---|---|---|---|---|
| Account table | `internal/state/state.go` | one row per account, error catalog, log ring, metrics, trash index; one mutex; one JSON file | setters, `Save`, `Load` | `AccountStore` (row), `ErrorCatalog` (catalog), `TrashBin` (index, save), `Replay` (watermark) |
| Policy engine | `internal/policy`, `internal/tier` | none | `Decide` | `SentryPolicy` |
| Guard | `internal/guard/guard.go` | mutex, listing fuse, backfill marks, pointer to the table | `HandleUsage`, `Tick`, `TickManual`, `Manual*`, `ApplySuggestedCooldown`, marks, pruning | `Guard`; `TrashBin` (moves), `Patrol` (pruning) |
| CPA client | `internal/cpaapi` | identity cache | list, PATCH, plugin config | environment of `Guard`; `ConfigSync` |
| Trash bin | `internal/trash` | snapshots; index in the table | move, restore, purge, expire | `TrashBin`, promise in `Bin` |
| Runtime | `runtime.go` | current guard, store, runners, config; tickers | `rebuild`, `ApplyConfig`, tickers, `shutdown` | `Replay`, `Patrol`, `ConfigSync`; not `shutdown` |
| Replay | `runtime.go`, `internal/cpamp/fail_events.go` | watermark, marks | `maybeBackfillCPAMPFailures` | `Replay`; the marks in `Guard` |
| Patrol | `internal/patrol` | one job shared by all runners, progress | start, probe, feed, finish | `Patrol`; what a probe does to a row in `Guard` |
| Registration jobs | `internal/regjob/runner.go` | current job, history, epoch, pauses, file | start, poll, stop, adopt, auto gates | `RegisterJob` |
| Configuration | `internal/sentrycfg`, `internal/persist`, `config_plugin.go` | overrides file, host's copy, four live copies | panel save, host reconfiguration | `ConfigSync` |
| Panel | `internal/panel/api.go` | pointers to the rest | HTTP handlers | those that change state, in the module of what they change |
| Classifiers | `internal/match`, `errorsig`, `errorfp`, `quota` | none | text to signal, key, reset time | inputs of `Guard` and `ErrorCatalog` |
| Statistics, registration client, plugin glue | `internal/cpamp`, `internal/registerlite`, `main.go` … | display only | HTTP and C entry points | only `Reconfigure` |

How they interact. Requests reach `Guard.HandleUsage` through the runtime, patrol
probes reach it directly, and the replay feeds it the failures that the host
never reported. The ticker runs *replay, tick, clear marks* in a cycle. The panel
calls `Manual*` and `TickManual`. All of these take `Guard.mu`, except the trash
operations. Everything the guard does to the world is a PATCH of one file's
`disabled` flag, or its deletion; everything it knows of the world is a listing.
A reconfiguration replaces guard, panel object and runners, but neither the
table nor a job that runs, nor the guard that the ticker is just in.

What is hard: a PATCH may fail after it took effect; a listing may fail or lag;
files change outside; reports arrive late, twice or out of order with recoveries,
clicks and relogins; several windows decide by the age of one shared stamp
`last_action`; `last_signal` is both the memory of the ladder and the flag of the
candidate's recovery; most operations outside the guard hold their lock for a
step and not for the operation; saves are goroutines nobody orders; objects
that were replaced are still at work. `PROJECT.json` lists the hazards one by
one, with the line where each bites.

What makes each part correct:

* **Table**: the fields that say who closed an account agree in every state.
* **Policy**: the strongest rung reached wins; a failure more never means less;
  no paid or vetoed account is trashed.
* **Guard**: no loop opens what somebody owns, fights another loop, breaks the
  operator's lock or stretches a deadline; ladders count consecutive failures;
  and when the world quietens, rows and files come to agree.
* **Trash**: what is listed can be restored; what is deleted was kept; an entry is
  used once; what has expired leaves.
* **Replay**: every stored failure is fetched, none is passed over, none replayed twice.
* **Patrol**: one job; it ends; pruning keeps away from it and never deletes the
  row that closes an account.
* **Jobs**: one at a time, looked after by one goroutine, ended for good.
* **Catalog**: no report is lost or counted twice; the operator's routes and
  withdrawals hold.
* **Configuration**: all copies come to say the same as the host.

## 2. Modules

```
AccountStore   SentryPolicy          RegisterJob      Bin        Replay         Patrol         ErrorCatalog
        \      /     \                     |            |           |              |            /        \
         Guard      MCPolicy        RegisterProofs  TrashBin   ReplayProofs  PatrolProofs  MCCatalog  CatalogProofs
        /     \         |                               |
MCGuardLive GuardHistory PolicyProofs              TrashProofs     ConfigSync
             /       \                                                 |
         MCGuard  GuardProofs                                     ConfigProofs
```

`TrashBin` implements `Bin` (`INSTANCE Bin WITH entry <- …`). The modules of the second
row describe parts that meet the guard in a few fields of a row only; each
carries the reduced row it needs and says so at its head.

**AccountStore.** A row is a record and a setter an operator from row to row with
the name it has in `state.go`. Time is relative: `recover` is the time to run
until `recover_at` (0 when due, `Unset` for Go's zero time) and stamps are ages.
`OneUnitLater` moves all of them. Ages saturate at `AgeCap`, which the
assumption of `Guard` puts at or above every window, and streaks at `MaxStreak`,
so neither bound changes a decision as long as no rung lies above `MaxStreak`.

**SentryPolicy.** `Decide` with a card: switches, veto, plan, ladder. The loop of
`decidePolicy` is stated as a choice (`MatchedRule`) and `MCPolicy` compares it with
the loop, failure by failure of one account. A class without a card is only ever observed: `HandleUsage` seeds the
cards of the built-in classes before it asks, so the fallback on global
thresholds is not reached.

**Guard.** One action per entry point and one step per file for each loop of
`tick`, because the files go on changing while a loop runs:

| Code | Action |
|---|---|
| `HandleUsage`, success | `UsageSuccess`; from patrol `PatrolSuccess` |
| `HandleUsage`, failure, with `applyCooldown`, `applyPermanentDisable`, relogin | `HandleFailure` |
| `tick`: hold candidates; recover; list and sync; list and heal; expire, scrub | `TickStart`; `RecoverOne`; `ListForSync`, `SyncOne`; `ListForHeal`, `HealOne`; `Hygiene` |
| `ManualDisable`, `ManualEnable`, `ApplySuggestedCooldown` | same names |
| `MarkPendingBackfillAuths`, `ClearPendingBackfillAuths` | same names |
| CPA, its operator, the clock | `ExternalFlip`, `Elapse`, and `Quieten`, after which nothing more goes wrong |

`Guard.mu` is `phase`: while a tick is in progress nothing else that takes the
mutex can happen, but `ExternalFlip` can. `Patch` gives every outcome of a PATCH,
including an error after it took effect. `EnsureFile` folds PATCH, wait, list, and
one retry of `ensureAuthDisabled`/`ensureAuthEnabled` into its outcomes: *ok*,
*err*, *still*, with the effect on the fuse of failed listings.

Abstracted in Guard: one row per file; automatic trash is off (the assumption
`~Sw.delete`), so the states `trashed` and `purged` are in the type and in every
guard that tests them but are not entered; the enabling switch is on; logs are
left out except the stamp they leave on the row. `PreDisabled` is never set by the
program. Every error class is one input record (signal, key before and after
routing, whether it has an HTTP error status, reset time).

**RegisterJob.** `Runner.mu` is held within an action and never across two; where
the code talks to the backend or unlocks to log, an action ends.

| Code | Action |
|---|---|
| `Start`: guard, health, call, record | `StartFromPanel` or `AutoLaunch` (both `Begin`), `StartHealth`, `StartRegister`, `StartRecord` |
| `pollUntilDone`: deadline, status, apply, log | `PollCheck`, `PollAsk`, `PollApply`, `PollLogged` |
| `Stop`, before and after its call | `StopBegin`, `StopEnd` |
| `MaybeAutoRegister`: each kind, its gates, the remote's state, start, return | `AutoBegin`, `AutoCheck`, `AutoGate`, `AutoRemote` (with `adoptRemoteRegistration`), `AutoLaunch`, `AutoReturn` |
| `ClearSuccessHistory`; `SetHistoryPath` after a restart | `ClearSuccessHistory`; `Restart` |
| the backend, the clock | `BackendEnds`, `Elapse` |

A history write is a goroutine with its own copy: `SaveHistory` lets the file be
the new one, the old one, or empty. A job registers all its accounts or none.

**TrashBin.** One account; its file holds a version of the credentials, a bin
entry is an item of the index and a snapshot file. `Operate` starts one of
`ManualTrash`/`applyTrash`, restore, purge or sweep in a goroutine, and the steps of
each are actions: `MoveRead`, `MoveKeep`, `MoveMark`, `MoveDelete`; `RestoreClaim`,
`RestoreWrite`, `RestoreFinish`; `PurgeClaim`, `PurgeFinish`; `SweepBegin`, `SweepClaim`.
All end in `SaveStep`; `SaveElsewhere` is a save by any other part. `Crash` takes back
what was not saved, and leaves the files. `Upload` and `Expire` are the world.

**Bin.** What its users rely on: an entry is *none, held, taken, restored,
purged*, and moves only along *none → held ↔ taken → restored or purged*. A crash
ends the promise (*unknown*).

**Replay.** `Cycle` is the ticker's goroutine: `Fetch` (query, or `FetchFails`), per event
`Check` (`alreadyHandledRecently`, outside `Guard.mu`) and `Apply`, then `Advance` of the
watermark, `Tick`, `MaybeAutoBackfill`. Against it: `Fail` (CPAMP stores a failure),
`Report` (the host tells of it, late or never), `Lock`, `Open`, `HandleBackfill`, `NewDay`,
`Elapse`, `Crash`. The guard's answer is reduced to what the recognition reads. Several
failures may share a time stamp (`SameMs`).

**ConfigSync.** Copies: runtime, panel and guard of every generation, registration
runner, overrides file, host. A save in the panel is `HandleConfig`, `SetConfig`,
`Adopt`, `CopyConfig`, `SaveOverrides` or `SaveFails` (and then no call of the host),
`GetPluginConfig`, `PutPluginConfig` or `HostCallFails`, `ShareConfig`, `FinishSave`; the
host's side is `HostEdit`, `Reconfigure` (with `ApplyConfig`, whose overrides may not be
written either, and `Rebuild`), `Restart`. `RegisterPage` is any of the four registration
pages that set the runner, routed to the panel of any rebuild so far. Three settings stand for the kinds: one
that must be positive everywhere, one that may be 0 in the panel and the
overrides but not in the host's form, and a list that only a preset sets.

**Patrol.** An account may have two rows. `Start`, then `Proceed` (fetch the guard,
collect the targets, finish) and per target `Probe`, `Answer`, `Feed` within the slots of
the semaphore. The ticker: `PruneCheck`, `PruneSnapshot`, `PruneDelete`. Against
both: `Report`, `Lock`, `Rebuild`, after which two guards with two mutexes and two
runners with two ends of the last job exist over one table; a report or a click
may go through any guard so far. A row is *active, cool, candidate* or *locked*. Its
score is a set, since a row of any state may have a deadline (100) and a last
signal (10) or not; the key (50) and the calls of the day are added.

**ErrorCatalog.** One report at a time (`Guard.mu`) but step by step, since each call
takes the table's lock anew: *class, route, honour what is hidden, observe, look up, seed*. The
panel's handlers between any two: list, split, merge, withdraw, save a card.
Listing is two steps where the `permission_403` card is to get its ladder: what
`ListErrors` has read, routes included, `GiveLadder` saves. A body is its shape.

## 3. Model checking

| Run | Instance | Shows |
|---|---|---|
| `guard` (1.5 M states) | one account, 401s up to the lock, 429s that reset after 1 or 2, the shared ladder of any error, all actions but the marks and `Quieten` | `TypeOK`, `OwnershipCoherent`, `LadderRunConsecutive`, `OwnedNeverAutoOpened`, `TickKeepsOperatorLock`, `NoSameTickFight`, `DeadlineNotStretched` |
| `policy` (169 k) | every ladder of up to 3 rungs on streaks up to 3, every switch, veto, plan class | `LoopFindsStrongest`, `EscalationNeverWeakens`, `VetoHolds` |
| `live` (210 k) | one account, everything, relogin on, tagging instead of reopening | `EventuallySettled` |
| `live_pair` (288 k) | two accounts, one recovery a tick, no panel and no outside changes | `EventuallySettled` |
| `register` (1.5 M) | two jobs, one batch at a time, the floor's automatic starts, dry and real runs | `TypeOK`, `OneRunningCard`, `Attended`, `EndedStaysEnded` |
| `register_live` (344 k) | two jobs, started from the panel, history file, one restart | `EveryJobEnds` |
| `trash` (291 k) | two entries, a panel goroutine and the ticker, two versions of the file, one crash | `TypeOK`, `HeldHasSnapshot`, `DeletesOnlyWhatItKept`, `ClaimedAndUsedOnce` (refinement of `Bin`), `ExpiredLeaves` |
| `replay` (440 k) | two failures, queries of one row, threshold two, a day's reset, a crash | `ReplayedOnce`, `NoneLeftBehind`, `EveryFailureSeen` |
| `config` (849 k) | two saves and a host edit that overlap or not, registration pages of any panel, a failed call or write, a restart | `TypeOK`, `LiveCopiesAgree`, `HostHasWhatRuns`, `EndsAtHost` |
| `patrol` (142 k) | one account with two rows, two jobs, a report, calls across the lead of 1,240, one rebuild | `TypeOK`, `OneJob`, `FeedsApart`, `PruneKeepsOwned`, `SettleRespected`, `EveryJobEnds` |
| `catalog` (1.1 M) | two bodies, four keys, the splits, merges and saves that the page offers, a page that is behind, rings of one, two reports | `TypeOK`, `HitsConserved`, `RoutesKept`, `SplitRoutesThere`, `WithdrawnGetsNone` |
| `observe_only` | cool-down and candidate switched off | counterexample to `TickNeverClosesServing` |

`GuardHistory` adds two history variables to `Guard`: `run`, what traffic really did to the
account (length and class of the unbroken run of failures), and `opened`, the
files that the tick in progress has opened. Its `HSpec` has the steps of the run;
`WholeSpec`, which the proofs are about, has all of Guard's. Other modules have their history
among the variables: `ErrorCatalog` what the operator asked for (`chosen`, `withdrawn`, `since`)
and which routes a ladder brought back (`revived`); `Replay` the failures fetched (`seen`)
or too old to be (`lapsed`); `Patrol` the time since a job (`quiet`) and the accounts changed
since the snapshot (`late`); `ConfigSync` whether a page of a replaced panel set the runner
last (`strayed`), and whether the overrides could not be written (`unsaved`). The
properties compare the program's own books with them.

*Deadlock* is checked where the system never stops: `guard`, `live`, `live_pair`,
`register`, `trash`, `replay`. In `policy`, `register_live`, `config`, `patrol` and `catalog` the
bounds on jobs, saves, generations and reports end every behaviour.

### Bounds

* *Guard.* Rows do not influence each other except through the limit of recoveries
  and the fuse, so one account is enough for the safety run; `live_pair` is the
  run for the two shared counters. `AgeCap` 2 separates before, inside and after a
  window, and the windows have different lengths where the code's differ (settle 1,
  grace and heal 2). `MaxStreak` 2 lets each ladder reach its second rung.
  `VerifyFuse` 2 is the least value at which one failed listing does not yet blow
  the fuse (5 in the code); `MaxRecoverPerTick` 1 (40) makes the limit bind. The 403s,
  whose candidates recover differently, are in `live` and `live_pair`. A mark of
  the replay does no more than suppress a heal, which a stale listing does as well;
  `live` has the marks.
* *RegisterJob.* Two jobs are a job and the one that supersedes it; `MaxHistory` 2 and
  `Window` 2 make the newest job compete with the last; `PollRounds` 1 is a deadline that
  can be met and missed. Adoption needs the ticker, restart needs the file: they
  are in different runs, `register` and `register_live`.
* *TrashBin.* Every operation meets every other with two goroutines, of which one is
  the ticker. Two entries let one account be in the bin twice. Two versions let
  a move keep one and delete the other.
* *Replay.* A query of one row (80 in the code) leaves a second failure behind it. A unit
  of time is a minute, so the windows are 2 and 3 as in the code, a cycle ends
  within one (`MaxCycle`; the ticker's default is 30 s), and three units outlast the time
  that a replay without watermark looks back. Failures come no faster than
  queries take them, and `usage.sqlite` is not unreadable for longer than a cycle: with a
  longer backlog, a reset of the watermark does leave failures behind. The run gives
  every failure its own millisecond (`SameMs = FALSE`); see section 4 for those that
  share it. What the watermark may pass without these bounds is `MarkPassesNone`, which
  is proved.
* *ConfigSync.* Four generations are one for each writer and one more. `Patience` has both
  kinds of operator in one run: those that wait until a change is through
  (`LiveCopiesAgree`), and those that do not. `MaxFail` counts a save's failed write of the
  overrides as well as a failed call, either of which keeps the save from the host;
  that of a reconfiguration may fail any time.
* *Patrol.* `Concurrency` 1 makes the semaphore bind; two rows make pruning choose; one
  rebuild makes the ticker, the job and the reports use different guards. One report
  or answer stands for 700 calls (`Burst`), so that two of them exceed the lead that
  `PruneKeepsOwned` names. The proofs of section 5 have none of these bounds.
* *ErrorCatalog.* A ring of one hit (`MaxErrorHits`) is trimmed at the second report. The
  page lets the operator split only from *unmatched*, and each body to one key:
  the run takes what the page offers, section 4 what the handler accepts. A save sends
  the routes that the page shows: none, or those of a card that was withdrawn or
  merged meanwhile (`PageSaves`). The proofs allow any saves.

### Fairness

* *Guard.* Weak on the steps of tick: the ticker's goroutine never stops. Strong
  on the clock, since an operation ends before a unit of time does, and on
  `ClearPendingBackfillAuths`, which the ticker's goroutine calls after each tick
  (`runtime.go:326`) and which waits for a `sync.Mutex`, which starves nobody.
  No request, probe or click is ever needed. `calm` is not forced to come
  either; the property says what follows if it does.
* *RegisterJob.* Weak on `StartStep` and `PollStep`: calls to the backend have a timeout and
  goroutines run. The backend need never answer well, and its batch need not end.
* *TrashBin.* Weak on every operation that has begun and on the ticker's sweep.
  `ExpiredLeaves` assumes that the clicks on *restore* cease: each one may make the sweep
  stop at an entry it finds claimed.
* *Replay.* Weak on the ticker's cycle, strong on `Fetch`: `usage.sqlite` can be read now and then.
* *ConfigSync.* Weak on the steps of a save, which all have timeouts, and on
  `Reconfigure`: the host passes on every change of its configuration.
* *Patrol.* Weak on the ticker and on the job's goroutines, whose probes have a timeout.
  Strong on `Feed`, which waits for `Guard.mu`: the mutex is free between ticks time and
  again, and Go's mutex hands it over to a waiter in its starvation mode.

## 4. Where the code says otherwise

`observe_only` is the counterexample the project keeps: with all closing switched off
("observe first", README.md:179), a 429 whose body names its reset time still
writes `recover_at` on the active row, and `shouldProtectDisable` (guard.go:1245) takes
a future `recover_at` for ownership: the next tick closes the file of a serving
account.

The modules reach further states in which the code does something else than its
documents or comments say. They are behaviours of the modules as they stand; no
run checks them, and where a property above is narrower because of one of them,
it is named.

* *Tagged rows* (guard.go:1902). "Never auto-open `user_manual` / `cpa_file_disabled` /
  `PreDisabled`" (docs/AUTH_CLOSED_LOOP.md:46), but where `reopen_foreign_disabled` is set
  the synchronisation opens a file that somebody else closed, tagged or not.
  `OwnedNeverAutoOpened` exempts it.
* *Operator's lock* (guard.go:405). One failure reported after `ManualDisable` makes the
  row a candidate with a deadline. Within a tick the lock does hold (`TickKeepsOperatorLock`).
* *Consecutive runs* (state.go:580). "changing error shape starts a new consecutive run"
  (guard.go:369) does not hold after the idle watch expired, because `ExpireIdlePending`
  forgets a quota signal but not its streak. `LadderRunConsecutive` is about the ladders
  that park or lock.
* *Consecutive runs after a relogin* (guard.go:450). The same sentence fails where an error
  fingerprint files a 401 under a class of its own ("code:expired") and relogin is
  on: the relogin leaves `auth_401` as the last signal, so a 401 of the class `auth_401`
  takes the run for its own (guard.go:2219) and the count of the other class stands
  although the run was broken. The next failure of that class clears it before the
  policy is asked: `PolicyAskedOnRun` of section 5. In the runs every 401 is `auth_401`.
* *Adoption* (runner.go:909). "prefer existing history entry with same batch"
  (runner.go:907), but only a card that still shows running is taken: a batch that was
  stopped here and goes on at the backend gets a second card.
* *Reset of the success rate* (runner.go:222). "ClearSuccessHistory resets near-window
  success rate" (runner.go:1036), but `SuccessWindow`, which gates the automatic starts,
  does not look at the epoch: a failed job from before the reset pauses them again.
* *Survival of a running job* (runner.go:153). Cards "survive restarts" (runner.go:617), but
  every save is a goroutine with its own copy and the older one may be renamed last.
* *Crash within a move* (trash.go:62). The bin is "restorable" (README.md:35); between the
  deletion of the file and the save of the table a crash leaves a snapshot to which
  no entry refers. `HeldHasSnapshot` is about the time before a crash.
* *Restore within a move* (trash.go:60). "Remove path = trash (not hard delete first)"
  (README.md:127). The entry is listed before the file is deleted; a restore in
  between writes the file, the move deletes it, and the restore removes the snapshot.
  `DeletesOnlyWhatItKept` therefore exempts an entry that was used meanwhile.
* *Purged rows* (trash.go:128). "已彻底清除", thoroughly removed (ui.html:846), is shown for
  an account that was uploaded again, or never deleted, when an entry of it is purged.
* *Failures of one millisecond* (fail_events.go:69). The watermark is a millisecond and
  the query returns what lies after it; a second failure of the watermark's
  millisecond that was not returned is never returned. The run has `SameMs = FALSE`.
* *Replay before report* (runtime.go:493). "avoid double-applying when plugin path already
  worked" (runtime.go:492), but a failure below its threshold leaves nothing to be
  recognised by, and a live report does not ask. `ReplayedOnce` counts replays only.
* *Watermark* (state.go:1486). "only forward" (state.go:1509), but the first backfill of a
  day replaces the metrics it lives in. `ReplayedOnce` allows one more replay for each.
* *Registration runner's configuration* (api.go:108). A save that overlaps a reconfiguration
  hands on the copy of a panel object that was replaced, and so does a registration
  page that was routed before it (api.go:3283, 3300, 3323, 3390), which sets the
  runner back as a whole. `LiveCopiesAgree` exempts the runner from then to the next
  page or change, and asks of it otherwise only what the overrides keep.
* *Overrides that cannot be written* (runtime.go:119). They "must survive CPA host
  reconfigure" (overrides.go:12). A save whose write fails does not tell the host either,
  so the next reconfiguration undoes it; a reconfiguration whose write fails leaves
  the older values in the file and says so in the log only (runtime.go:86).
  `HostHasWhatRuns` is about saves that could be written, and `LiveCopiesAgree` exempts
  the file until it is.
* *A saved zero* (config_plugin.go:132). "these fields win when present" (overrides.go:12-14),
  but `max_reset_seconds` 0 comes back from the host as the default.
* *Restart* (overrides.go:91). The overrides "must survive ... plugin process restarts", but
  nothing loads them: a save the host did not take is lost at the restart.
* *GET and PUT* (client.go:225). "replaces the whole object, so we always GET+merge first",
  and a change of the host in between is put back as it was.
* *Settle window* (patrol.go:44). "Hot-reload safe ... settle window avoids tick prune races"
  (README.md:66), but the end of the last job is a field of the runner, which a rebuild
  replaces. `SettleRespected` is about the time before a rebuild.
* *Pruning after a rebuild* (guard.go:2109). "ownership / cool-down ALWAYS beats empty
  Active shells" (guard.go:2121), but the ticker may still be in the old guard's tick
  with a snapshot that the new guard's reports have overtaken. `PruneKeepsOwned` is
  about ticks of the guard of now, and exempts accounts that a report or a click
  through a replaced guard changed since the snapshot. A job begun after a replaced
  guard's tick looked for one can probe, too, while it prunes: `FeedsApart` is about the
  guard of now as well.
* *Score of a busy row* (guard.go:2152). "ALWAYS" has a limit: the day's calls are added to
  a score in which a closed row leads by 1,240 at least (1,400 less what an open row may have
  for a deadline, a signal and its key). `PruneKeepsOwned` exempts an account whose open row
  has that many calls more.
* *Patrol's history* (runner_ops.go:152). As with the registration history, saves are not
  ordered. Not in the module.
* *Split from a card* (state.go:1385). The shape stays with the card it was split from; of
  several owners the order of a map decides. The page splits only from *unmatched*, and
  so do the runs and the proofs (`PageAssumption`).
* *Page that is behind* (ui.html:2130). A save "must not drop existing routing" (state.go:1449)
  and sends the routes that the page shows; those that were merged into another
  card since come back, and the order of a map decides. `SplitRoutesThere` then asks for
  one of the cards.
* *Ladder from an old listing* (api.go:2762). A merge carries the routes over "so future
  fingerprints continue to route to the merged card" (state.go:1157), but a listing that
  read the `permission_403` card before saves it afterwards as it was: the routes have two
  owners, and the order of a map decides. `SplitRoutesThere` exempts such shapes.
* *Withdrawn class and new hits* (guard.go:241). "New real hits of the same class still
  re-create a card via HandleUsage seed" (state.go:111) and "will not re-seed it until new
  hits arrive" (state.go:1102) contradict "new hits go to unmatched until explicitly
  merged/split again" (guard.go:241), and the code does the latter: a hidden class is
  replaced by *unmatched* before it could be seeded. `WithdrawnGetsNone` states what it does.
* *Merge into a withdrawn class* (state.go:1171). The class stays withdrawn: its new
  hits go to *unmatched* "until explicitly merged/split again" (guard.go:241) and after.
* *Withdrawn, then seeded* (api.go:2762). "Hidden policies should not be re-seeded"
  (state.go:1212), but a listing or a report that began before the withdrawal seeds
  the card after it. `WithdrawnGetsNone` is about withdrawals with nothing under way.

## 5. Proofs

TLAPS checks, for all values of the constants that the named assumptions of the
modules allow:

| Module | Theorem | Statement |
|---|---|---|
| `GuardProofs` | `TypeCorrect` | `Spec => []TypeOK` |
| | `OwnershipNeverDisagrees` | `Spec => []OwnershipCoherent` |
| | `TickRespectsLock` | `Spec => TickKeepsOperatorLock` |
| | `OwnedStaysClosed` | `Spec => OwnedNeverAutoOpened` |
| | `NoTickFights` | `WholeSpec => NoSameTickFight` |
| | `DeadlineStands` | `~Relogin`: `Spec => DeadlineNotStretched` |
| | `StreaksConsecutive` | every 401 is `auth_401`, or no relogin: `WholeSpec => []LadderRunConsecutive` |
| | `PolicyAskedOnRun` | `WholeSpec => [][…]`: the count a policy is asked about is at most the real run |
| `PolicyProofs` | `MatchedRuleStrongest` | on a reached ladder `MatchedRule` is a reached rung that none beats |
| | `TrashVetoed` | `DecidePolicy` trashes only with switch on, no veto, and a free plan, and parks and cools meanwhile |
| | `LoopIsRight` | `Spec => []LoopFindsStrongest` |
| | `NeverWeakens` | `Spec => EscalationNeverWeakens` |
| | `Vetoes` | `Spec => []VetoHolds` |
| `TrashProofs` | `TypeCorrect` | `Spec => []TypeOK` |
| | `ListedIsRestorable` | `Spec => []HeldHasSnapshot` |
| | `KeptBeforeDeleted` | `Spec => DeletesOnlyWhatItKept` |
| | `BinImplemented` | `Spec => ClaimedAndUsedOnce`, that is `Entries!Spec` |
| `PatrolProofs` | `TypeCorrect` | `Spec => []TypeOK` |
| | `OneJobHolds` | `Spec => []OneJob` |
| | `PatrolStandsAside` | `Spec => FeedsApart` |
| | `PruningSettles` | `Spec => SettleRespected` |
| | `PruningKeepsOwned` | `Spec => PruneKeepsOwned` |
| `RegisterProofs` | `TypeCorrect` | `Spec => []TypeOK` |
| | `OneCardRuns` | `Spec => []OneRunningCard` |
| | `JobAttended` | `Spec => []Attended` |
| | `EndIsFinal` | `Spec => EndedStaysEnded` |
| `ReplayProofs` | `AppliedOnce` | `Spec => []ReplayedOnce` |
| | `MarkHonest` | `Spec => []MarkPassesNone` |
| `ConfigProofs` | `TypeCorrect` | `Spec => []TypeOK` |
| | `HostKeepsWhatRuns` | `Spec => []HostHasWhatRuns` |
| | `CopiesAgree` | `0 \notin Caps`: `Spec => []LiveCopiesAgree` |
| | `MainCopiesAlwaysAgree` | `Spec => []MainCopiesAgree` |
| `CatalogProofs` | `RoutesStay` | `Spec => []RoutesKept` |
| | `SplitObeyed` | `Spec => SplitRoutesThere` |
| | `WithdrawalObeyed` | `Spec => WithdrawnGetsNone` |
| | `TypeCorrect` | `Spec => []TypeOK` |
| | `HitsAreConserved` | `Spec => []HitsConserved` |

*Guard.* `IInv` is `TypeOK /\ OwnershipCoherent`. Coherence needs the types of the
rows it looks into, so the two are proved together, action by action;
there is one lemma per setter, and they are lifted through the compound operators (`ApplyCooldown`, `ApplyCandidate`, `SyncFile`, `HealOutcomes` …) to the actions. `TickRespectsLock` then needs no more than coherence: a lock has no
deadline and a source of its own, so no loop's guard lets it through.
`OwnedStaysClosed` needs to know, in addition, that what the recovery loop works on
was due when it was listed and still is: `DueTodo`, which holds because the mutex
keeps everybody else off the rows and time does not pass within a tick.

`NoTickFights` adds `OpenedQuiet`: what the recovery has opened has been visited, and its
row is live, or still due, so the synchronisation leaves it alone; the third loop
closes nothing. `DeadlineStands` is about steps that leave a cooling row in its state (a
failure of another class may well change both). It goes over the pieces
of a step and asks of each whether it may write a deadline into a row that cools.
A relogin may: it ends a cool-down, and a failure in the same call may begin
another; hence the hypothesis, under which the run has the property too.
`StreaksConsecutive` and `PolicyAskedOnRun` share `RunsMatch`: of the classes that park or
lock only that of the last signal has a count, and it is no higher than the run.
The counts of a class that a relogin has detached from its signal (`Stale`, see
section 4) are exempt until the next failure of the class, which clears them; that
is why the second theorem needs no hypothesis. TLC has checked `RunsMatch` on the
instance of `guard` and on one with relogin and such a class.

*Policy.* The loop of `decidePolicy` is a fold over a ladder of any length. `LoopIsFold`
unfolds it to a recursive function over sets of rungs, `LoopDefined` shows that the
recursion has a solution, and `LoopEndsOnStrongest` is the loop invariant: after m
rungs the best is one of those reached among them, and none of those is stronger.
`MatchedRuleStrongest` follows (the choice of `MatchedRule` is never empty), and on a
ladder without a tie there is only one such rung. `NeverWeakens` then needs that a
longer run reaches more rungs, so the severity of the strongest does not fall, and
that for every setting of the switches a severer rung has an outcome of at least the
same rank (`SevererGoesFurther`). It is false with the card's veto: a vetoed trash falls
below a candidate. `GuardProofs`, which needs only that the decision is an outcome,
has an argument of its own by the least element of a set of numbers (`LeastBy`).

*Trash.* `Typed` adds to `TypeOK` that an operation past its claim names an entry
(`HasEntry`). `Kept` says what an operation in flight still has to rely on: the
snapshot of a move between *keep* and *delete* holds the version it read, unless
the entry was used. `Claims` says that a claimed entry has one claimant, which
alone may use it up; it is the strengthening under which the refinement mapping is
a function of the state. Every step of `TrashBin` is then one of six kinds for `Bin`:
nothing, an entry kept, claimed, put back, restored, purged; and a crash is a
crash. Crashes are part of all four theorems.

*Patrol.* `Shape` (types), `Single` (the goroutines that are not idle belong to the one
job), `Progress` and `Counted` (what is probed and fed never exceeds the targets),
`Known` (a goroutine's guard and runner exist), `Rests` (before a rebuild, a settle window that
has run out here has run out everywhere). `Apart` carries `PatrolStandsAside`: while the
guard of now prunes, the goroutine of a job has either not fetched its guard yet, or
has that very guard, whose mutex the tick holds. It holds at the check, since no job
runs, and a job that begins later can only fetch the guard of now. `Covered` carries
`PruningKeepsOwned`: of the rows still to be deleted, each that closes its account has a
winner that does, or one that has `Lead` calls more, or the account was changed
through a replaced guard. It rests on `WinnerOwns`, arithmetic over the sets of scores, and
on no bound on calls or rebuilds.

*Registration jobs.* `Shown` says that the current job is the first card of the history
and that both show the same status; `Cards`, of the history and of the file that a
restart may read, that ids are unique and no card but the first runs. Hence an
update never brings back a job that has ended, an adoption always gets a new id,
and the job a restart resumes is the only one that runs. `Looked` says that a job has
never both a `Start` and a poller, and that a running one has either. `UpsertedKeeps`
carries the argument over the slices of `upsertHistoryLocked`. History file and restarts
are part of all four theorems; `register` has them not.

*Replay.* An event is *passed* when it is not in the batch and lies behind the watermark,
or behind what this cycle will move the watermark to. `Ordered` says that a batch
is worked off upwards from the watermark, so passing is for good: no step but a
crash or a reset of the watermark takes it back. `Fresh` counts: what is not passed
has been applied once for each of those at most.

`Kept` is the other half, for `MarkHonest`: where neither excuse applies (an equal time
stamp was fetched, or a query without a watermark was too late), a failure is ahead
of the watermark and of all that the cycle in progress may move it to, for any
backlog, any number of failures in a millisecond, crashes, and resets. Both excuses are
needed: TLC finds `MarkPassesNone` violated without either, with equal
time stamps and a cycle that outlasts `Lookback`. `NoneLeftBehind`, by which nothing is
lost at all, holds only at the run's rates and is not claimed beyond them.

*Configuration.* `HostFirst` carries `HostKeepsWhatRuns`: what runs is what the host has, or
some save has yet to tell the host, or the host is about to call. The copies need an
operator who waits (`patient`): `Alone` says that one request is under way at a time, and
`InOrder` follows it from copy to copy, `Rested` is where it leaves them; the file is
followed while it could be written (`~unsaved`), the runner as long as no registration page
of a replaced panel set it (`~strayed`). With a cap of
0, which the host's form cannot carry, the registration runner may keep what the
others have lost (section 4): `CopiesAgree` excludes it, `MainCopiesAlwaysAgree` has it and
says what holds of the other copies all the same.

*Catalog.* `Chosen` strengthens `RoutesKept`: the owners of a shape are the cards that the
operator put it on, and `Laddered` where a listing brought its routes back (`revived`). So
whatever order the map of cards is read in, a report is routed to one of them
(`Going`: unless the choice changed meanwhile). `Split` says that between
the two calls of a split the card is there already and its second save adds
nothing. `Quiet` says that a class withdrawn while nothing was under way is hidden and
has no card, and that no later step of a report or a listing is about it; only
the operator brings it back. `PageAssumption` is needed: a key that names a shape
gets that shape, and the bucket none, as the page has it. `Saves` is any set else.

`HitsConserved` is about a sum over the table, a fold over keys in an order that is
chosen, and about rings that are split. `Books` says that the sum is the number of
reports and that no ring is longer than its key's count; a report that is under
way still has room. The prover cannot instantiate the induction theorems of its
library, which take an operator; `AllNaturals` derives induction over a set of
naturals from the well-foundedness of `<` instead, and with it `SumBounds`, `SumChange` and
`SumMove` (what one key, or a move between two, does to the sum) and `WithoutType`, `LastOfType`
(what is left of a ring) are proved by induction on the size.

*Only model-checked.* Liveness (`EventuallySettled`, `EveryJobEnds` of both modules,
`ExpiredLeaves`, `EveryFailureSeen`, `EndsAtHost`) and everything under fairness, which
the prover cannot do; and `NoneLeftBehind`, which depends on the run's rates. Every other
invariant and action property of a passing run is a theorem, with the hypotheses of the table: where relogin is on, `DeadlineNotStretched`
and, with a class of its own for some 401s, `LadderRunConsecutive` are not claimed.

## 6. Not modelled

* `shutdownRuntime`, which waits for the tickers under the mutex that each of them
  takes at the top of its cycle (runtime.go:75).
* The log ring and its priorities, usage statistics, metrics other than the
  watermark, migrations of older state files.
* The matching of a report or a file to a row by index, name or email, and the
  protection of sibling rows. Pruning sees an account that has two keys.
* A crash of the guard between ownership, PATCH and final save. Saves and crashes are in
  `TrashBin`, `Replay` and `ConfigSync`, each for the fields it has.
* Automatic trash inside `Guard`; that a policy may decide it is in `SentryPolicy`, what
  the move does in `TrashBin`.
* Classifiers, fingerprints, the quota parser: text to values. They are inputs.
* `regjob/inventory.go`, the accounts that wait for a new login; `Guard` has the outcome of
  `TryRelogin` as an input, either way.
* `registerlite`, the client of the registration backend: its calls are environment.
* Trashed rows in `Patrol` and the mode that selects them, its result texts and its history
  file; the panel's own tick there, a second one that waits for the same mutex.
* What a move into the bin, which does not take `Guard.mu`, does to a row that a tick is
  just working on. `TrashBin` has the row of the table but no tick, `Guard` the tick but no bin.
* Between reading a panel's copy of the configuration and handing it to the guard and the
  registration runner there is no step in `ConfigSync`.
* The panel's listings, HTTP, the page; the C entry points.

## 7. Plan

In this order:

1. An abstract specification of ownership (open, closed with a deadline, parked,
   locked, tagged) that `Guard` refines, with its proof.
2. `GuardPersist`: `Save` as a step, crash and restart between ownership, PATCH and
   final save; what a restart may find and that the loop repairs it.
3. `shutdown` against the tickers; the inventory of relogins; the log ring.
4. Automatic trash inside `Guard`, composed with `TrashBin`.
