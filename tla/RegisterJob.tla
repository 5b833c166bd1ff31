---------------------------- MODULE RegisterJob ----------------------------
(***************************************************************************)
(* internal/regjob/runner.go: the one registration job that the sentry     *)
(* runs on the registration backend ("8788").                              *)
(*                                                                         *)
(*   Start       panel, floor or schedule: guard, health, call, record     *)
(*   poll        one goroutine per started job, until the job has ended    *)
(*   Stop        panel: asks the backend, then marks the job               *)
(*   auto        the ticker's gates, and adoption of a batch it finds      *)
(*   history     newest first, written to disk by a goroutine per change   *)
(*                                                                         *)
(* Runner.mu is held within an action and never across two of them: where  *)
(* the code talks to the backend, or unlocks to log, an action ends.  Two  *)
(* critical sections with nothing but logging between them are one action. *)
(* A job registers all of its accounts or none (good).                     *)
(***************************************************************************)
EXTENDS Integers, Sequences, FiniteSets

CONSTANTS
  MaxJobs,       \* bound: jobs started or adopted
  MaxBatches,    \* bound: batches the backend ever starts
  MaxEpoch,      \* bound: resets of the success window, and restarts
  MaxHistory,    \* maxHistory
  Window, MinSamples, WarnPercent,  \* of the success rate, counted in jobs
  Pause,         \* 30 minutes
  Interval,      \* between two starts of a kind, floor or schedule
  PollRounds,    \* rounds of the poller before its deadline
  Enabled,       \* the kinds switched on: cfg.RegisterFloorEnabled, AutoEnabled
  PauseOnLow,    \* cfg.RegisterAutoPauseOnLow
  DryRuns,       \* values that cfg.RegisterDryRun takes
  HistPath       \* a history file is configured

ASSUME RegisterAssumption ==
  /\ {MaxJobs, MaxBatches, MaxHistory, Window, MinSamples, Interval, Pause,
      PollRounds} \subseteq Nat \ {0}
  /\ MaxEpoch \in Nat /\ WarnPercent \in 0..100
  /\ Enabled \subseteq {"floor", "auto"}
  /\ {PauseOnLow, HistPath} \cup DryRuns \subseteq BOOLEAN

VARIABLES
  cur,      \* r.current, NoJob for nil
  hist,     \* r.history, newest first
  seq,      \* the last job id given out
  epoch,    \* r.successEpoch
  paused,   \* time left of autoPausedUntil
  wait,     \* time left until the next start of each kind
  start,    \* where the Start of a job is, and the batch it was told
  poll,     \* where the poller of a job is, its rounds left, what it was told
  stop,     \* where the panel's Stop is, and the job it will mark
  ticker,   \* where MaybeAutoRegister is, and for which kind
  backend,  \* 8788: its batches, the last one is the one in progress
  file,     \* register-history.json, as the next restart will find it
  resets    \* resets and restarts so far

vars == <<cur, hist, seq, epoch, paused, wait, start, poll, stop, ticker,
          backend, file, resets>>
procs == <<start, poll, stop, ticker>>

Ids == 1..MaxJobs
Batches == 0..MaxBatches        \* 0: batch id unknown
Kinds == {"floor", "auto"}
Ended == {"done", "failed", "stopped"}

NoJob == [id |-> 0, status |-> "none", batch |-> 0, epoch |-> 0, good |-> FALSE]
Job == [id : Ids, status : {"running"} \cup Ended, batch : Batches,
        epoch : 0..MaxEpoch, good : BOOLEAN]
View == [batch : Batches, state : {"running"} \cup Ended, good : BOOLEAN]

Idle == [pc |-> "idle", batch |-> 0]
NoView == [batch |-> 0, state |-> "none", good |-> FALSE]
Asleep == [pc |-> "none", batch |-> 0, left |-> 0, view |-> NoView]
NoStop == [pc |-> "idle", id |-> 0]
NoTick == [pc |-> "idle", kind |-> "floor", id |-> 0]

Running == cur.status = "running"

-----------------------------------------------------------------------------
(* History, its file and the success window.                               *)

\* Mutant: the card is inserted again instead of updated.
InsertedAgain(h, j) == <<j>> \o h

\* Put job j in front, in place of the card with the same id.
Upserted(h, j) ==
  LET same == {i \in DOMAIN h : h[i].id = j.id}
      at == CHOOSE i \in same : TRUE
      keep == IF Len(h) < MaxHistory THEN Len(h) ELSE MaxHistory - 1
  IN IF same # {}
     THEN <<j>> \o SubSeq(h, 1, at - 1) \o SubSeq(h, at + 1, Len(h))
     ELSE <<j>> \o SubSeq(h, 1, keep)

\* Every change of the history starts a goroutine that writes a snapshot;
\* nothing orders them, and two may write the same .tmp.  So a restart may
\* find any snapshot, or none that can be read: of each save it is decided at
\* once whether it is the one to be found.
SaveHistory(h) ==
  file' \in IF HistPath /\ resets < MaxEpoch THEN {file, h, <<>>} ELSE {file}

UpsertHistory(j) ==
  hist' = Upserted(hist, j) /\ SaveHistory(Upserted(hist, j))

\* Too few good ones among the latest of the cards that count.
WindowLow(cards) ==
  LET recent == SubSeq(cards, 1, IF Len(cards) > Window THEN Window ELSE Len(cards))
      good == Len(SelectSeq(recent, LAMBDA j : j.good))
  IN Len(recent) >= MinSamples /\ good * 100 < WarnPercent * Len(recent)

HasEnded(j) == j.status # "running"

LowThisEpoch(h) ==
  WindowLow(SelectSeq(h, LAMBDA j : HasEnded(j) /\ j.epoch = epoch))

\* What Status shows, and what gates the automatic starts.
LowEver(h) == WindowLow(SelectSeq(h, HasEnded))

\* The card of a job that has ended, and the pause if that makes the rate low.
PushHistory(j) ==
  /\ UpsertHistory(j)
  /\ paused' = IF PauseOnLow /\ LowThisEpoch(Upserted(hist, j)) THEN Pause ELSE paused

\* The current job ends as s, whoever it is by now.
EndCurrent(s) ==
  /\ cur' = [cur EXCEPT !.status = s]
  /\ PushHistory([cur EXCEPT !.status = s])

\* failJob does not look at the status: it also fails a job that was stopped.
FailJob(id) ==
  IF cur.id = id
  THEN EndCurrent("failed")
  ELSE UNCHANGED <<cur, hist, paused, file>>

-----------------------------------------------------------------------------
(* Start.                                                                  *)

\* The part under the first lock; who is panel, floor or auto.
Begin ==
  /\ ~Running
  /\ seq < MaxJobs
  /\ seq' = seq + 1
  /\ cur' = [id |-> seq + 1, status |-> "running", batch |-> 0,
             epoch |-> epoch, good |-> FALSE]
  /\ UpsertHistory(cur')
  /\ start' = [start EXCEPT ![seq + 1] = [pc |-> "health", batch |-> 0]]

StartFromPanel ==
  /\ Begin
  /\ UNCHANGED <<epoch, paused, wait, poll, stop, ticker, backend, resets>>

\* Health is bad: the job fails.  Good: a dry run is done, others call.
StartHealth(id) ==
  /\ start[id].pc = "health"
  /\ \/ /\ FailJob(id)
        /\ start' = [start EXCEPT ![id] = Idle]
     \/ /\ TRUE \in DryRuns
        /\ IF cur.id = id THEN EndCurrent("done")
                          ELSE UNCHANGED <<cur, hist, paused, file>>
        /\ start' = [start EXCEPT ![id] = Idle]
     \/ /\ FALSE \in DryRuns
        /\ start' = [start EXCEPT ![id].pc = "call"]
        /\ UNCHANGED <<cur, hist, paused, file>>
  /\ UNCHANGED <<seq, epoch, wait, poll, stop, ticker, backend, resets>>

InProgress == backend # <<>> /\ backend[Len(backend)].state = "running"

\* The backend takes the request, or is already at work; its answer may be
\* lost, or not name the batch.
StartRegister(id) ==
  /\ start[id].pc = "call"
  /\ \/ /\ ~InProgress /\ Len(backend) < MaxBatches
        /\ backend' = Append(backend, [batch |-> Len(backend) + 1,
                                       state |-> "running", good |-> FALSE])
     \/ UNCHANGED backend
  /\ \/ /\ FailJob(id)
        /\ start' = [start EXCEPT ![id] = Idle]
     \/ /\ backend' # backend \/ InProgress
        /\ \E b \in {0, Len(backend')} :
             start' = [start EXCEPT ![id] = [pc |-> "record", batch |-> b]]
        /\ UNCHANGED <<cur, hist, paused, file>>
  /\ UNCHANGED <<seq, epoch, wait, poll, stop, ticker, resets>>

\* Mutant: the poller is forgotten.
NotSpawned(p, id, b) == p

Spawned(p, id, b) ==
  [p EXCEPT ![id] = [pc |-> "check", batch |-> b, left |-> PollRounds, view |-> NoView]]

\* The batch is noted if the job is still the current one; the poller starts
\* in any case.
StartRecord(id) ==
  /\ start[id].pc = "record"
  /\ IF cur.id = id
     THEN /\ cur' = [cur EXCEPT !.batch = start[id].batch]
          /\ UpsertHistory(cur')
     ELSE UNCHANGED <<cur, hist, file>>
  /\ start' = [start EXCEPT ![id] = Idle]
  /\ poll' = Spawned(poll, id, start[id].batch)
  /\ UNCHANGED <<seq, epoch, paused, wait, stop, ticker, backend, resets>>

-----------------------------------------------------------------------------
(* The poller.                                                             *)

\* Mutant: the deadline is not looked at.
PollForever(id) ==
  /\ poll[id].pc = "check"
  /\ poll' = IF cur.id = id /\ Running
             THEN [poll EXCEPT ![id].pc = "ask", ![id].left = @ - 1]
             ELSE [poll EXCEPT ![id] = Asleep]
  /\ UNCHANGED <<cur, hist, seq, epoch, paused, wait, start, stop, ticker,
                 backend, file, resets>>

\* Top of the loop: past the deadline the job fails; a job that is not the
\* current one any more, or not running, is left alone.
PollCheck(id) ==
  /\ poll[id].pc = "check"
  /\ IF poll[id].left = 0
     THEN FailJob(id) /\ poll' = [poll EXCEPT ![id] = Asleep]
     ELSE /\ poll' = IF cur.id = id /\ Running
                     THEN [poll EXCEPT ![id].pc = "ask", ![id].left = @ - 1]
                     ELSE [poll EXCEPT ![id] = Asleep]
          /\ UNCHANGED <<cur, hist, paused, file>>
  /\ UNCHANGED <<seq, epoch, wait, start, stop, ticker, backend, resets>>

\* The backend tells of its last batch, whichever job that belongs to, or of
\* the job's own; no answer sends the poller back to the top.
PollAsk(id) ==
  /\ poll[id].pc = "ask"
  /\ \/ \E b \in {Len(backend), poll[id].batch} \ {0} :
          poll' = [poll EXCEPT ![id].pc = "apply", ![id].view = backend[b]]
     \/ poll' = [poll EXCEPT ![id].pc = "check"]
  /\ UNCHANGED <<cur, hist, seq, epoch, paused, wait, start, stop, ticker,
                 backend, file, resets>>

Told(view) == [cur EXCEPT !.batch = view.batch, !.good = view.good]

\* Progress is applied to the current job if it has the poller's id, even
\* when it has been stopped meanwhile.  A line of progress that is worth the
\* action log is written to it without the lock, before the end is applied.
PollApply(id) ==
  LET view == poll[id].view
      again == [poll EXCEPT ![id].pc = "check", ![id].view = NoView]
  IN
  /\ poll[id].pc = "apply"
  /\ \/ /\ cur.id # id
        /\ poll' = again
        /\ UNCHANGED <<cur, hist, paused, file>>
     \/ /\ cur.id = id
        /\ cur' = Told(view)
        /\ UpsertHistory(cur')
        /\ poll' = [poll EXCEPT ![id].pc = "logging"]
        /\ UNCHANGED paused
     \/ /\ cur.id = id /\ view.state \in Ended
        /\ cur' = [Told(view) EXCEPT !.status = view.state]
        /\ PushHistory(cur')
        /\ poll' = [poll EXCEPT ![id] = Asleep]
     \/ /\ cur.id = id /\ view.state = "running"
        /\ cur' = Told(view)
        /\ \/ UpsertHistory(cur')
           \/ UNCHANGED <<hist, file>>
        /\ poll' = again
        /\ UNCHANGED paused
  /\ UNCHANGED <<seq, epoch, wait, start, stop, ticker, backend, resets>>

\* The lock is taken again: the end is applied to the job that is current now.
PollLogged(id) ==
  /\ poll[id].pc = "logging"
  /\ IF poll[id].view.state \in Ended
     THEN /\ EndCurrent(poll[id].view.state)
          /\ poll' = [poll EXCEPT ![id] = Asleep]
     ELSE /\ poll' = [poll EXCEPT ![id].pc = "check", ![id].view = NoView]
          /\ UNCHANGED <<cur, hist, paused, file>>
  /\ UNCHANGED <<seq, epoch, wait, start, stop, ticker, backend, resets>>

-----------------------------------------------------------------------------
(* Stop, and the reset of the success window.                              *)

StopBegin ==
  /\ stop.pc = "idle"
  /\ stop' = [pc |-> "asked", id |-> IF Running THEN cur.id ELSE 0]
  /\ UNCHANGED <<cur, hist, seq, epoch, paused, wait, start, poll, ticker,
                 backend, file, resets>>

\* The backend refuses, or takes note; when it really stops is its affair.
StopEnd ==
  /\ stop.pc = "asked"
  /\ \/ /\ stop.id # 0 /\ cur.id = stop.id
        /\ EndCurrent("stopped")
     \/ UNCHANGED <<cur, hist, paused, file>>
  /\ stop' = NoStop
  /\ UNCHANGED <<seq, epoch, wait, start, poll, ticker, backend, resets>>

ClearSuccessHistory ==
  /\ resets < MaxEpoch
  /\ resets' = resets + 1
  /\ epoch' = epoch + 1
  /\ paused' = 0
  /\ UNCHANGED <<cur, hist, seq, wait, procs, backend, file>>

-----------------------------------------------------------------------------
(* MaybeAutoRegister: floor, then schedule, each through the same gates.   *)

NextKind == IF ticker.kind = "floor"
            THEN [pc |-> "check", kind |-> "auto", id |-> 0]
            ELSE NoTick

AutoBegin ==
  /\ ticker.pc = "idle" /\ Enabled # {}
  /\ ticker' = [NoTick EXCEPT !.pc = "check"]
  /\ UNCHANGED <<cur, hist, seq, epoch, paused, wait, start, poll, stop,
                 backend, file, resets>>

AutoCheck ==
  /\ ticker.pc = "check"
  /\ ticker' = IF \/ ticker.kind \notin Enabled
                  \/ Running \/ paused > 0 \/ wait[ticker.kind] > 0
               THEN NextKind
               ELSE [ticker EXCEPT !.pc = "gate"]
  /\ UNCHANGED <<cur, hist, seq, epoch, paused, wait, start, poll, stop,
                 backend, file, resets>>

\* Health, then the success rate, then a job of our own.
AutoGate ==
  /\ ticker.pc = "gate"
  /\ \/ ticker' = NextKind /\ UNCHANGED paused
     \/ /\ paused' = IF LowEver(hist) THEN Pause ELSE paused
        /\ ticker' = IF LowEver(hist) \/ Running
                     THEN NextKind
                     ELSE [ticker EXCEPT !.pc = "remote"]
  /\ UNCHANGED <<cur, hist, seq, epoch, wait, start, poll, stop, backend, file, resets>>

\* Mutant: any card of the batch is taken, ended or not.
AnyCard(b) ==
  LET same == {i \in DOMAIN hist : hist[i].batch # 0 /\ hist[i].batch = b}
  IN IF same = {} THEN seq + 1 ELSE hist[CHOOSE i \in same : \A k \in same : i <= k].id

\* The card a batch is adopted under: that of a running job with this batch.
CardFor(b) ==
  LET same == {i \in DOMAIN hist : hist[i].batch # 0 /\ hist[i].batch = b
                                   /\ hist[i].status = "running"}
  IN IF same = {} THEN seq + 1 ELSE hist[CHOOSE i \in same : \A k \in same : i <= k].id

AdoptRemoteRegistration ==
  LET b == Len(backend) IN
  IF Running
  THEN UNCHANGED <<cur, hist, seq, poll, file>>
  ELSE /\ seq < MaxJobs
       /\ seq' = seq + 1
       /\ cur' = [id |-> CardFor(b), status |-> "running", batch |-> b,
                  epoch |-> epoch, good |-> backend[b].good]
       /\ UpsertHistory(cur')
       /\ poll' = Spawned(poll, CardFor(b), b)

\* The backend may be at work on a batch that no job here accounts for.
AutoRemote ==
  /\ ticker.pc = "remote"
  /\ \/ /\ InProgress
        /\ AdoptRemoteRegistration
        /\ ticker' = NextKind
     \/ /\ ticker' \in {[ticker EXCEPT !.pc = "launch"], NextKind}
        /\ ticker'.pc = "launch" \/ ticker.kind = "floor"  \* the pool is full
        /\ UNCHANGED <<cur, hist, seq, poll, file>>
  /\ UNCHANGED <<epoch, paused, wait, start, stop, backend, resets>>

AutoLaunch ==
  /\ ticker.pc = "launch"
  /\ wait' = [wait EXCEPT ![ticker.kind] = Interval]
  /\ \/ /\ Begin
        /\ ticker' = [ticker EXCEPT !.pc = "await", !.id = seq + 1]
     \/ /\ Running
        /\ ticker' = NextKind
        /\ UNCHANGED <<cur, hist, seq, start, file>>
  /\ UNCHANGED <<epoch, paused, poll, stop, backend, resets>>

AutoReturn ==
  /\ ticker.pc = "await" /\ start[ticker.id].pc = "idle"
  /\ ticker' = NextKind
  /\ UNCHANGED <<cur, hist, seq, epoch, paused, wait, start, poll, stop,
                 backend, file, resets>>

-----------------------------------------------------------------------------
(* The file, a restart, the backend and the clock.                         *)

\* Mutant: the resumed job gets no poller.
ResumeUnpolled(j) == poll' = [i \in Ids |-> Asleep]

\* SetHistoryPath after a restart polls on for the first job that the file
\* shows running.
Resume(j) == poll' = IF j = NoJob THEN [i \in Ids |-> Asleep]
                     ELSE Spawned([i \in Ids |-> Asleep], j.id, j.batch)

FirstRunning(h) ==
  LET open == {i \in DOMAIN h : h[i].status = "running"}
  IN IF open = {} THEN NoJob ELSE h[CHOOSE i \in open : \A k \in open : i <= k]

\* seq starts again at 0 in the code; the second in the id keeps ids apart.
Restart ==
  /\ HistPath
  /\ resets < MaxEpoch
  /\ resets' = resets + 1
  /\ hist' = file
  /\ cur' = FirstRunning(file)
  /\ Resume(cur')
  /\ epoch' = 0 /\ paused' = 0
  /\ wait' = [k \in Kinds |-> 0]
  /\ start' = [i \in Ids |-> Idle]
  /\ stop' = NoStop /\ ticker' = NoTick
  /\ UNCHANGED <<seq, backend, file>>

BackendEnds ==
  /\ InProgress
  /\ \E s \in Ended, g \in BOOLEAN :
       backend' = [backend EXCEPT ![Len(backend)].state = s, ![Len(backend)].good = g]
  /\ UNCHANGED <<cur, hist, seq, epoch, paused, wait, procs, file, resets>>

Elapse ==
  /\ \/ paused > 0 \/ \E k \in Kinds : wait[k] > 0
  /\ paused' = IF paused > 0 THEN paused - 1 ELSE 0
  /\ wait' = [k \in Kinds |-> IF wait[k] > 0 THEN wait[k] - 1 ELSE 0]
  /\ UNCHANGED <<cur, hist, seq, epoch, procs, backend, file, resets>>

-----------------------------------------------------------------------------
Init ==
  /\ cur = NoJob /\ hist = <<>> /\ seq = 0
  /\ epoch = 0 /\ paused = 0 /\ wait = [k \in Kinds |-> 0]
  /\ start = [i \in Ids |-> Idle] /\ poll = [i \in Ids |-> Asleep]
  /\ stop = NoStop /\ ticker = NoTick
  /\ backend = <<>> /\ file = <<>> /\ resets = 0

StartStep(id) == StartHealth(id) \/ StartRegister(id) \/ StartRecord(id)
PollStep(id) == PollCheck(id) \/ PollAsk(id) \/ PollApply(id) \/ PollLogged(id)
AutoStep == AutoBegin \/ AutoCheck \/ AutoGate \/ AutoRemote \/ AutoLaunch \/ AutoReturn

Next ==
  \/ StartFromPanel
  \/ \E id \in Ids : StartStep(id) \/ PollStep(id)
  \/ StopBegin \/ StopEnd \/ ClearSuccessHistory
  \/ AutoStep
  \/ Restart
  \/ BackendEnds \/ Elapse

Spec == Init /\ [][Next]_vars

\* Calls to the backend end with an answer or a timeout, and goroutines run.
Fairness ==
  /\ \A id \in Ids : WF_vars(StartStep(id)) /\ WF_vars(PollStep(id))
FairSpec == Spec /\ Fairness

-----------------------------------------------------------------------------
\* Nothing has an illegal value.
TypeOK ==
  /\ cur \in Job \cup {NoJob}
  /\ hist \in Seq(Job) /\ Len(hist) <= MaxHistory
  /\ file \in Seq(Job)
  /\ seq \in 0..MaxJobs /\ epoch \in 0..MaxEpoch /\ resets \in 0..MaxEpoch
  /\ paused \in 0..Pause /\ wait \in [Kinds -> 0..Interval]
  /\ start \in [Ids -> [pc : {"idle", "health", "call", "record"}, batch : Batches]]
  /\ poll \in [Ids -> [pc : {"none", "check", "ask", "apply", "logging"},
                       batch : Batches, left : 0..PollRounds,
                       view : View \cup {NoView}]]
  /\ stop \in [pc : {"idle", "asked"}, id : 0..MaxJobs]
  /\ ticker \in [pc : {"idle", "check", "gate", "remote", "launch", "await"},
                 kind : Kinds, id : 0..MaxJobs]
  /\ backend \in Seq(View)

\* The history that the panel lists and a restart reads shows a job running
\* exactly while it is the current one and runs: no two cards run, and no
\* card of the current job lags behind (upsertHistoryLocked, pushHistoryLocked).
OneRunningCard ==
  /\ \A i \in DOMAIN hist :
       hist[i].status = "running" => Running /\ hist[i].id = cur.id
  /\ Running => \E i \in DOMAIN hist : hist[i].status = "running"
  /\ \A i, k \in DOMAIN hist : hist[i].id = hist[k].id => i = k

\* A running job is looked after by exactly one goroutine, the Start that is
\* still talking to the backend or a poller, also after a restart or an
\* adoption: without one it would block every later job for ever.
Attended ==
  Running => (start[cur.id].pc # "idle") # (poll[cur.id].pc # "none")

\* Within one life of the process a card that shows an end never shows the
\* job running again, whatever late answer, stop or adoption follows.
EndedStaysEnded ==
  [][\A i \in DOMAIN hist, k \in DOMAIN hist' :
       hist[i].status \in Ended /\ hist'[k].id = hist[i].id =>
         hist'[k].status \in Ended \/ Restart]_vars

\* Every job ends: the backend may hang, lose answers or tell of other
\* batches, the deadline of the poller still frees the place.
EveryJobEnds ==
  \A id \in Ids : (cur.id = id /\ Running) ~> ~(cur.id = id /\ Running)
=============================================================================
