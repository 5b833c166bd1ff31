---------------------------- MODULE PatrolProofs ----------------------------
(***************************************************************************)
(* Patrol for every set of accounts and every bound: there is one job, its *)
(* progress stays within its total, no probe reaches the table while the   *)
(* guard of now prunes it, and that pruning keeps what is owned.  As long  *)
(* as the runtime is not rebuilt it also keeps away from the settle window.*)
(***************************************************************************)
EXTENDS Patrol, FiniteSetTheorems, TLAPS

-----------------------------------------------------------------------------
(* Types, but for the progress of the job.                                 *)

RowStates == {"none", "active"} \cup Blocked
JobType == [running : BOOLEAN, id : 0..MaxJobs, runner : Gens,
            total : 0..Batch, probed : Nat]
RunType == [pc : {"none", "fetch", "collect", "probing"},
            runner : Gens, guard : Gens]
TickerType == [pc : {"asleep", "woken", "tick", "prune", "delete", "leave"}, guard : Gens]

TableShape == row \in [RowIds -> RowStates] /\ calls \in [RowIds -> Nat]
JobsShape ==
  /\ job \in JobType /\ seq \in 0..MaxJobs
  /\ run \in [Ids -> RunType] /\ work \in [Ids -> [Accounts -> Stages]]
ClockShape == gen \in Gens /\ settle \in [Gens -> 0..Settle] /\ quiet \in 0..Settle
TickShape == ticker \in TickerType /\ losers \subseteq RowIds /\ late \subseteq Accounts

Shape == TableShape /\ JobsShape /\ ClockShape /\ TickShape

LEMMA Parts ==
  ASSUME Shape
  PROVE  /\ UNCHANGED table => TableShape'
         /\ UNCHANGED jobs => JobsShape'
         /\ UNCHANGED <<gen, settle, quiet>> => ClockShape'
         /\ UNCHANGED tick => TickShape'
<1>1. UNCHANGED table => TableShape'
  BY DEF Shape, TableShape, table
<1>2. UNCHANGED jobs => JobsShape'
  BY DEF Shape, JobsShape, jobs
<1>3. UNCHANGED <<gen, settle, quiet>> => ClockShape'
  BY DEF Shape, ClockShape
<1>4. UNCHANGED tick => TickShape'
  BY DEF Shape, TickShape, tick
<1> QED BY <1>1, <1>2, <1>3, <1>4

LEMMA Numbers ==
  /\ Concurrency \in Nat /\ Batch \in Nat /\ MaxJobs \in Nat /\ MaxGen \in Nat
  /\ Concurrency > 0 /\ Batch > 0 /\ MaxJobs > 0 /\ MaxGen > 0
  /\ Settle \in Nat /\ Burst \in Nat /\ MaxReports \in Nat /\ 1 \in Gens
BY PatrolAssumption DEF Gens

LEMMA AsleepType == Asleep \in RunType /\ Asleep.pc = "none" /\ NoWork \in [Accounts -> Stages]
BY Numbers DEF Asleep, NoWork, RunType, Stages

LEMMA InitShape == Init => Shape
<1> SUFFICES ASSUME Init PROVE Shape
  OBVIOUS
<1>1. TableShape
  BY DEF Init, TableShape, RowStates
<1>2. JobsShape
  BY Numbers, AsleepType DEF Init, JobsShape, JobType
<1>3. ClockShape
  BY Numbers DEF Init, ClockShape
<1>4. TickShape
  BY Numbers DEF Init, TickShape, TickerType
<1> QED BY <1>1, <1>2, <1>3, <1>4 DEF Shape

\* A report makes a row or changes its state, and counts, or is dropped.
LEMMA ReportShape ==
  ASSUME TableShape, NEW r \in RowIds, NEW alive \in BOOLEAN, Reported(r, alive)
  PROVE  TableShape' /\ \A q \in RowIds \ {r} : row'[q] = row[q] /\ calls'[q] = calls[q]
<1> DEFINE was == IF row[r] = "none" THEN "active" ELSE row[r]
<1>1. was \in RowStates
  BY DEF TableShape, RowStates
<1>2. CASE ~alive /\ row[r] # "none" /\ UNCHANGED table
  BY <1>2 DEF table, TableShape
<1>3. ASSUME NEW s \in {was} \cup (IF alive THEN {"active"} ELSE Blocked),
             row' = [row EXCEPT ![r] = s],
             calls' = [calls EXCEPT ![r] = calls[r] + Burst]
      PROVE  TableShape' /\ \A q \in RowIds \ {r} : row'[q] = row[q] /\ calls'[q] = calls[q]
  <2>1. s \in RowStates
    BY <1>1, <1>3 DEF RowStates
  <2>2. calls[r] + Burst \in Nat
    BY Numbers DEF TableShape
  <2> QED BY <1>3, <2>1, <2>2 DEF TableShape
<1> QED BY <1>2, <1>3 DEF Reported

LEMMA WorkShape ==
  ASSUME JobsShape, NEW i \in Ids, NEW a \in Accounts, NEW s \in Stages,
         work' = [work EXCEPT ![i][a] = s]
  PROVE  /\ work' \in [Ids -> [Accounts -> Stages]]
         /\ work'[i] = [work[i] EXCEPT ![a] = s]
         /\ \A k \in Ids \ {i} : work'[k] = work[k]
<1>1. work \in [Ids -> [Accounts -> Stages]]
  BY DEF JobsShape
<1>2. [work[i] EXCEPT ![a] = s] \in [Accounts -> Stages]
  BY <1>1
<1> QED BY <1>1, <1>2

LEMMA JobTyped ==
  ASSUME Shape, NEW i \in Ids, JobStep(i) PROVE Shape'
<1>p. JobsShape
  BY DEF Shape
<1>1. CASE FetchGuard(i)
  <2>1. [run[i] EXCEPT !.pc = "collect", !.guard = gen] \in RunType
    BY <1>p DEF Shape, JobsShape, ClockShape, RunType
  <2>2. JobsShape'
    BY <1>1, <1>p, <2>1 DEF FetchGuard, JobsShape
  <2> QED BY <1>1, <2>2, Parts DEF FetchGuard, Shape
<1>2. CASE CollectTargets(i)
  <2>1. PICK mode \in Modes : \E targets \in SUBSET Selected(mode) :
          /\ \/ targets = Selected(mode) /\ Cardinality(targets) <= Batch
             \/ Cardinality(targets) = Batch
          /\ work' = [work EXCEPT ![i] =
                        [a \in Accounts |-> IF a \in targets THEN "todo" ELSE "no"]]
          /\ job' = [job EXCEPT !.total = Cardinality(targets)]
    BY <1>2 DEF CollectTargets
  <2>0. PICK targets \in SUBSET Selected(mode) :
          /\ \/ targets = Selected(mode) /\ Cardinality(targets) <= Batch
             \/ Cardinality(targets) = Batch
          /\ work' = [work EXCEPT ![i] =
                        [a \in Accounts |-> IF a \in targets THEN "todo" ELSE "no"]]
          /\ job' = [job EXCEPT !.total = Cardinality(targets)]
    BY <2>1
  <2>2. Selected(mode) \subseteq Accounts
    BY DEF Selected, Modes
  <2>3. Cardinality(targets) \in 0..Batch
    <3>1. IsFiniteSet(targets)
      BY <2>2, PatrolAssumption, FS_Subset
    <3> QED BY <2>0, <3>1, FS_CardinalityType, Numbers
  <2>4. work' \in [Ids -> [Accounts -> Stages]]
    BY <1>p, <2>0 DEF JobsShape, Stages
  <2>5. job' \in JobType
    BY <1>p, <2>0, <2>3 DEF JobsShape, JobType
  <2>6. run' \in [Ids -> RunType]
    BY <1>2, <1>p DEF CollectTargets, JobsShape, RunType
  <2> QED
    BY <1>2, <1>p, <2>4, <2>5, <2>6, Parts DEF CollectTargets, JobsShape, Shape
<1>3. CASE Finish(i)
  <2>1. JobsShape'
    BY <1>3, <1>p, AsleepType DEF Finish, JobsShape, JobType
  <2>2. ClockShape'
    <3>1. settle' = [settle EXCEPT ![run[i].runner] = Settle] /\ gen' = gen /\ quiet' = quiet
      BY <1>3 DEF Finish
    <3>2. Settle \in 0..Settle
      BY Numbers
    <3> QED BY <3>1, <3>2 DEF Shape, ClockShape
  <2> QED BY <1>3, <2>1, <2>2, Parts DEF Finish, Shape
<1>4. ASSUME NEW a \in Accounts, Probe(i, a) PROVE Shape'
  <2>1. work' \in [Ids -> [Accounts -> Stages]]
    BY <1>4, <1>p, WorkShape DEF Probe, Stages
  <2> QED BY <1>4, <1>p, <2>1, Parts DEF Probe, Shape, JobsShape
<1>5. ASSUME NEW a \in Accounts, Answer(i, a) PROVE Shape'
  <2>1. work' \in [Ids -> [Accounts -> Stages]]
    <3>1. PICK s \in {"alive", "failed", "done"} : work' = [work EXCEPT ![i][a] = s]
      BY <1>5 DEF Answer
    <3> QED BY <1>p, <3>1, WorkShape DEF Stages
  <2>2. job' \in JobType
    BY <1>5, <1>p DEF Answer, JobsShape, JobType
  <2> QED BY <1>5, <1>p, <2>1, <2>2, Parts DEF Answer, Shape, JobsShape
<1>6. ASSUME NEW a \in Accounts, Feed(i, a) PROVE Shape'
  <2>1. PICK r \in RowIds : Reported(r, work[i][a] = "alive")
    BY <1>6 DEF Feed
  <2>2. work' \in [Ids -> [Accounts -> Stages]]
    BY <1>6, <1>p, WorkShape DEF Feed, Stages
  <2>3. TableShape'
    BY <2>1, ReportShape, (work[i][a] = "alive") \in BOOLEAN DEF Shape
  <2> QED BY <1>6, <1>p, <2>2, <2>3, Parts DEF Feed, Shape, JobsShape
<1> QED BY <1>1, <1>2, <1>3, <1>4, <1>5, <1>6 DEF JobStep, Proceed

LEMMA TickTyped == ASSUME Shape, TickStep PROVE Shape'
<1>1. CASE Wake \/ EnterTick \/ PruneCheck \/ LeaveTick
  <2>1. ticker' \in TickerType
    BY <1>1 DEF Wake, EnterTick, PruneCheck, LeaveTick, Shape, TickShape, ClockShape, TickerType
  <2>2. TickShape'
    BY <1>1, <2>1 DEF Wake, EnterTick, PruneCheck, LeaveTick, Shape, TickShape
  <2> QED
    BY <1>1, <2>2, Parts DEF Wake, EnterTick, PruneCheck, LeaveTick, Shape
<1>2. CASE PruneSnapshot
  <2>1. TickShape'
    BY <1>2 DEF PruneSnapshot, Shape, TickShape, TickerType
  <2> QED BY <1>2, <2>1, Parts DEF PruneSnapshot, Shape
<1>3. ASSUME NEW r \in RowIds, PruneDelete(r) PROVE Shape'
  <2>1. TableShape' /\ TickShape'
    BY <1>3 DEF PruneDelete, Shape, TableShape, RowStates, TickShape
  <2> QED BY <1>3, <2>1, Parts DEF PruneDelete, Shape
<1> QED BY <1>1, <1>2, <1>3 DEF TickStep

\* A new job.
LEMMA StartShape ==
  ASSUME Shape, NEW r \in 1..gen, Start(r)
  PROVE  Shape' /\ seq + 1 \in Ids
<1>1. r \in Gens /\ seq + 1 \in Ids /\ seq + 1 \in 0..MaxJobs
  BY Numbers DEF Start, Shape, JobsShape, ClockShape, Gens, Ids
<1>2. job' \in JobType
  BY <1>1, Numbers DEF Start, JobType
<1>3. [pc |-> "fetch", runner |-> r, guard |-> r] \in RunType
  BY <1>1 DEF RunType
<1>4. JobsShape'
  BY <1>1, <1>2, <1>3 DEF Start, Shape, JobsShape
<1>5. ClockShape'
  BY Numbers DEF Start, Shape, ClockShape
<1> QED BY <1>1, <1>4, <1>5, Parts DEF Start, Shape

LEMMA WorldTyped ==
  ASSUME Shape,
         \/ Rebuild \/ Elapse
         \/ \E r \in RowIds : Report(r)
         \/ \E a \in Accounts : Lock(a)
  PROVE  Shape'
<1>1. CASE Rebuild
  <2>1. ClockShape'
    BY <1>1, Numbers DEF Rebuild, Shape, ClockShape, Gens
  <2> QED BY <1>1, <2>1, Parts DEF Rebuild, Shape
<1>2. CASE Elapse
  <2>1. ClockShape'
    BY <1>2, Numbers DEF Elapse, Shape, ClockShape
  <2> QED BY <1>2, <2>1, Parts DEF Elapse, Shape
<1>3. ASSUME NEW r \in RowIds, Report(r) PROVE Shape'
  <2>1. TableShape'
    BY <1>3, ReportShape, FALSE \in BOOLEAN DEF Report, Shape
  <2>2. TickShape'
    BY <1>3 DEF Report, Noted, RowIds, Shape, TickShape
  <2> QED BY <1>3, <2>1, <2>2, Parts DEF Report, Shape
<1>4. ASSUME NEW a \in Accounts, Lock(a) PROVE Shape'
  <2>1. PICK r \in RowsOf(a) : row' = [row EXCEPT ![r] = "locked"]
    BY <1>4 DEF Lock
  <2>2. TableShape'
    BY <1>4, <2>1 DEF Lock, RowsOf, Shape, TableShape, RowStates, Blocked
  <2>3. TickShape'
    BY <1>4 DEF Lock, Noted, Shape, TickShape
  <2> QED BY <1>4, <2>2, <2>3, Parts DEF Lock, Shape
<1> QED BY <1>1, <1>2, <1>3, <1>4

LEMMA NextShape == Shape /\ [Next]_vars => Shape'
<1> SUFFICES ASSUME Shape, [Next]_vars PROVE Shape'
  OBVIOUS
<1>1. CASE UNCHANGED vars
  BY <1>1, Parts DEF Shape, vars
<1>2. CASE Next
  BY <1>2, JobTyped, TickTyped, StartShape, WorldTyped DEF Next
<1> QED BY <1>1, <1>2
-----------------------------------------------------------------------------
(* One job, and its progress.                                              *)

Single ==
  /\ \A i \in Ids : run[i].pc # "none" => job.running /\ job.id = i
  /\ job.running => job.id = seq
  /\ \A i \in Ids : run[i].pc # "probing" => work[i] = NoWork

Wanted(i) == {a \in Accounts : work[i][a] # "no"}
Answered(i) == {a \in Accounts : work[i][a] \in {"alive", "failed", "done"}}

Progress ==
  /\ job.probed <= job.total
  /\ \A i \in Ids : run[i].pc \in {"fetch", "collect"} => job.probed = 0
  /\ \A i \in Ids : run[i].pc = "probing" =>
       job.probed = Cardinality(Answered(i)) /\ job.total = Cardinality(Wanted(i))

\* What the account that a step is about is doing before and after it.
LEMMA AccountStep ==
  ASSUME Shape, NEW i \in Ids, NEW a \in Accounts, Probe(i, a) \/ Answer(i, a) \/ Feed(i, a)
  PROVE  /\ work[i][a] \in {"todo", "probe", "alive", "failed"}
         /\ work'[i][a] \in {"probe", "alive", "failed", "done"}
         /\ \A b \in Accounts \ {a} : work'[i][b] = work[i][b]
         /\ \A k \in Ids \ {i} : work'[k] = work[k]
         /\ run' = run /\ seq' = seq
         /\ a \in Answered(i)' <=> (Answer(i, a) \/ Feed(i, a))
<1>1. JobsShape /\ work \in [Ids -> [Accounts -> Stages]]
  BY DEF Shape, JobsShape
<1>2. CASE Probe(i, a)
  <2>1. work'[i] = [work[i] EXCEPT ![a] = "probe"] /\ \A k \in Ids \ {i} : work'[k] = work[k]
    BY <1>1, <1>2, WorkShape DEF Probe, Stages
  <2> QED BY <1>1, <1>2, <2>1 DEF Probe, Answer, Feed, Answered
<1>3. CASE Answer(i, a)
  <2>1. PICK s \in {"alive", "failed", "done"} : work' = [work EXCEPT ![i][a] = s]
    BY <1>3 DEF Answer
  <2>2. work'[i] = [work[i] EXCEPT ![a] = s] /\ \A k \in Ids \ {i} : work'[k] = work[k]
    BY <1>1, <2>1, WorkShape DEF Stages
  <2> QED BY <1>1, <1>3, <2>2 DEF Answer, Answered
<1>4. CASE Feed(i, a)
  <2>1. work'[i] = [work[i] EXCEPT ![a] = "done"] /\ \A k \in Ids \ {i} : work'[k] = work[k]
    BY <1>1, <1>4, WorkShape DEF Feed, Stages
  <2> QED BY <1>1, <1>4, <2>1 DEF Feed, Answered
<1> QED BY <1>2, <1>3, <1>4

LEMMA InitSingle == Init => Single /\ Progress
BY AsleepType DEF Init, Single, Progress, NoWork

LEMMA SingleStep ==
  ASSUME Shape, Single, NEW i \in Ids, JobStep(i) PROVE Single'
<1>t. /\ run \in [Ids -> RunType] /\ work \in [Ids -> [Accounts -> Stages]]
      /\ job \in JobType
  BY DEF Shape, JobsShape
<1> USE DEF Single
<1>1. CASE FetchGuard(i)
  <2>1. run'[i].pc = "collect" /\ \A k \in Ids \ {i} : run'[k] = run[k]
    BY <1>1, <1>t DEF FetchGuard, RunType
  <2> QED BY <1>1, <2>1 DEF FetchGuard
<1>2. CASE CollectTargets(i)
  <2>1. run'[i].pc = "probing" /\ \A k \in Ids \ {i} : run'[k] = run[k] /\ work'[k] = work[k]
    BY <1>2, <1>t DEF CollectTargets, RunType
  <2>2. job'.running = job.running /\ job'.id = job.id
    BY <1>2, <1>t DEF CollectTargets, JobType
  <2> QED BY <1>2, <2>1, <2>2 DEF CollectTargets
<1>3. CASE Finish(i)
  <2>1. run'[i] = Asleep /\ work'[i] = NoWork
        /\ \A k \in Ids \ {i} : run'[k] = run[k] /\ work'[k] = work[k]
    BY <1>3, <1>t DEF Finish
  <2>2. ~job'.running
    BY <1>3, <1>t DEF Finish, JobType
  <2>3. \A k \in Ids \ {i} : run[k].pc = "none"
    BY <1>3 DEF Finish
  <2> QED BY <1>3, <2>1, <2>2, <2>3, AsleepType DEF Finish
<1>4. ASSUME NEW a \in Accounts, Probe(i, a) \/ Answer(i, a) \/ Feed(i, a) PROVE Single'
  <2>1. job'.running = job.running /\ job'.id = job.id
    BY <1>4, <1>t DEF Probe, Answer, Feed, JobType
  <2>2. run[i].pc = "probing"
    BY <1>4, AccountStep DEF NoWork
  <2> QED BY <1>4, <2>1, <2>2, AccountStep
<1> QED BY <1>1, <1>2, <1>3, <1>4 DEF JobStep, Proceed

LEMMA ProgressStep ==
  ASSUME Shape, Single, Progress, NEW i \in Ids, JobStep(i) PROVE Progress'
<1>t. /\ run \in [Ids -> RunType] /\ work \in [Ids -> [Accounts -> Stages]]
      /\ job \in JobType
  BY DEF Shape, JobsShape
<1>o. run[i].pc # "none" => \A k \in Ids \ {i} : run[k].pc = "none"
  BY DEF Single
<1> USE DEF Progress
<1>1. CASE FetchGuard(i)
  <2>1. run'[i].pc = "collect" /\ \A k \in Ids \ {i} : run'[k] = run[k]
    BY <1>1, <1>t DEF FetchGuard, RunType
  <2> QED BY <1>1, <2>1 DEF FetchGuard, Wanted, Answered
<1>2. CASE CollectTargets(i)
  <2>1. PICK mode \in Modes : \E targets \in SUBSET Selected(mode) :
          /\ work' = [work EXCEPT ![i] =
                        [a \in Accounts |-> IF a \in targets THEN "todo" ELSE "no"]]
          /\ job' = [job EXCEPT !.total = Cardinality(targets)]
    BY <1>2 DEF CollectTargets
  <2>0. PICK targets \in SUBSET Selected(mode) :
          /\ work' = [work EXCEPT ![i] =
                        [a \in Accounts |-> IF a \in targets THEN "todo" ELSE "no"]]
          /\ job' = [job EXCEPT !.total = Cardinality(targets)]
    BY <2>1
  <2>2. targets \subseteq Accounts
    BY DEF Selected, Modes
  <2>3. Wanted(i)' = targets /\ Answered(i)' = {}
    BY <1>t, <2>0, <2>2 DEF Wanted, Answered
  <2>4. job'.probed = 0 /\ job'.total = Cardinality(targets)
    BY <1>2, <1>t, <2>0 DEF CollectTargets, JobType
  <2>5. Cardinality(targets) \in Nat
    BY <2>2, PatrolAssumption, FS_Subset, FS_CardinalityType
  <2>6. run'[i].pc = "probing" /\ \A k \in Ids \ {i} : run'[k].pc = "none"
    BY <1>2, <1>t, <1>o DEF CollectTargets, RunType
  <2>7. Cardinality(Answered(i)') = job'.probed /\ Cardinality(Wanted(i)') = job'.total
    BY <2>3, <2>4, FS_EmptySet
  <2> QED BY <2>4, <2>5, <2>6, <2>7
<1>3. CASE Finish(i)
  <2>1. \A k \in Ids : run'[k].pc = "none"
    BY <1>3, <1>t, <1>o, AsleepType DEF Finish
  <2>2. job'.probed = job.probed /\ job'.total = job.total
    BY <1>3, <1>t DEF Finish, JobType
  <2> QED BY <2>1, <2>2
<1>4. ASSUME NEW a \in Accounts, Probe(i, a) \/ Answer(i, a) \/ Feed(i, a) PROVE Progress'
  <2>1. run[i].pc = "probing" /\ job.running
    BY <1>4, AccountStep DEF Single, NoWork
  <2>2. Wanted(i)' = Wanted(i)
    BY <1>4, AccountStep DEF Wanted
  <2>3. job'.total = job.total
    BY <1>4, <1>t DEF Probe, Answer, Feed, JobType
  <2>4. IsFiniteSet(Answered(i)) /\ IsFiniteSet(Wanted(i))
        /\ IsFiniteSet(Answered(i)') /\ Answered(i)' \subseteq Wanted(i)
    <3>1. IsFiniteSet(Wanted(i))
      BY PatrolAssumption, FS_Subset DEF Wanted
    <3>2. Answered(i) \subseteq Wanted(i) /\ Answered(i)' \subseteq Wanted(i)'
      BY DEF Answered, Wanted
    <3> QED BY <2>2, <3>1, <3>2, FS_Subset
  <2>5. job'.probed = Cardinality(Answered(i)')
    <3>1. CASE Answer(i, a)
      <4>1. a \notin Answered(i) /\ Answered(i)' = Answered(i) \cup {a}
        <5>1. work[i][a] = "probe"
          BY <3>1 DEF Answer
        <5> QED BY <3>1, <5>1, AccountStep DEF Answered
      <4>2. job'.probed = job.probed + 1
        BY <1>t, <2>1, <3>1 DEF Answer, JobType
      <4> QED BY <2>1, <2>4, <4>1, <4>2, FS_AddElement
    <3>2. CASE Probe(i, a) \/ Feed(i, a)
      <4>1. Answered(i)' = Answered(i)
        <5>1. CASE Probe(i, a)
          BY <5>1, AccountStep DEF Probe, Answered, Answer, Feed
        <5>2. CASE Feed(i, a)
          BY <5>2, AccountStep DEF Feed, Answered
        <5> QED BY <3>2, <5>1, <5>2
      <4>2. job' = job
        BY <3>2 DEF Probe, Feed
      <4> QED BY <2>1, <4>1, <4>2
    <3> QED BY <1>4, <3>1, <3>2
  <2>6. job'.probed <= job'.total
    BY <2>1, <2>3, <2>4, <2>5, FS_Subset
  <2>7. run' = run /\ \A k \in Ids \ {i} : run[k].pc = "none"
    BY <1>4, <1>o, <2>1, AccountStep
  <2> QED BY <2>1, <2>2, <2>3, <2>5, <2>6, <2>7
<1> QED BY <1>1, <1>2, <1>3, <1>4 DEF JobStep, Proceed

LEMMA SingleNext ==
  Shape /\ Single /\ Progress /\ [Next]_vars => Single' /\ Progress'
<1> SUFFICES ASSUME Shape, Single, Progress, [Next]_vars PROVE Single' /\ Progress'
  OBVIOUS
<1>1. CASE UNCHANGED jobs
  BY <1>1 DEF jobs, Single, Progress, Wanted, Answered
<1>2. ASSUME NEW r \in 1..gen, Start(r)
      PROVE  Single' /\ Progress'
  <2>1. /\ run \in [Ids -> RunType] /\ seq + 1 \in Ids
        /\ \A i \in Ids : run[i].pc = "none"
    BY <1>2, StartShape DEF Shape, JobsShape, Start, Single
  <2>2. run'[seq + 1].pc = "fetch" /\ \A i \in Ids \ {seq + 1} : run'[i].pc = "none"
    BY <1>2, <2>1 DEF Start
  <2>3. job'.running /\ job'.id = seq + 1 /\ job'.probed = 0 /\ job'.total = 0
    BY <1>2 DEF Start
  <2> QED BY <1>2, <2>1, <2>2, <2>3 DEF Start, Single, Progress
<1>3. CASE TickStep
  BY <1>1, <1>3 DEF TickStep, Wake, EnterTick, PruneCheck, PruneSnapshot, PruneDelete,
     LeaveTick, jobs
<1>4. CASE \/ Rebuild \/ Elapse
           \/ \E r \in RowIds : Report(r)
           \/ \E a \in Accounts : Lock(a)
           \/ UNCHANGED vars
  BY <1>1, <1>4 DEF Rebuild, Elapse, Report, Lock, vars, jobs
<1> QED BY <1>2, <1>3, <1>4, SingleStep, ProgressStep DEF Next

\* However often the runtime is rebuilt, there is one job, and its progress
\* stays within its total.
THEOREM OneJobHolds == Spec => []OneJob
<1>1. Single /\ Progress => OneJob
  BY DEF Single, Progress, OneJob
<1> QED
  BY <1>1, InitShape, NextShape, InitSingle, SingleNext, PTL DEF Spec

-----------------------------------------------------------------------------
(* The tick.                                                               *)

LEMMA TickMoves == ASSUME [Next]_vars PROVE TickStep \/ UNCHANGED <<ticker, losers>>
BY DEF Next, Start, JobStep, Proceed, FetchGuard, CollectTargets, Finish, Probe, Answer, Feed,
   Report, Lock, Rebuild, Elapse, vars, tick

LEMMA PruneBegins ==
  ASSUME Shape, [Next]_vars, ticker.pc = "tick", ticker'.pc = "prune"
  PROVE  ~IsRunning(ticker.guard)
<1>1. TickStep
  BY TickMoves
<1>2. CASE PruneCheck
  <2>1. ticker \in TickerType
    BY DEF Shape, TickShape
  <2>2. IsRunning(ticker.guard) => ticker'.pc = "leave"
    BY <1>2, <2>1 DEF PruneCheck, TickerType
  <2> QED BY <2>2
<1> QED
  BY <1>1, <1>2 DEF TickStep, Wake, EnterTick, PruneSnapshot, PruneDelete, LeaveTick

\* Types, with the bounds of the progress.
THEOREM TypeCorrect == Spec => []TypeOK
<1>1. Shape /\ Progress => TypeOK
  <2> SUFFICES ASSUME Shape, Progress PROVE TypeOK
    OBVIOUS
  <2>1. job \in [running : BOOLEAN, id : 0..MaxJobs, runner : Gens,
                 total : 0..Batch, probed : 0..Batch]
    BY Numbers DEF Shape, JobsShape, JobType, Progress
  <2>2. row \in [RowIds -> {"none", "active"} \cup Blocked] /\ calls \in [RowIds -> Nat]
    BY DEF Shape, TableShape, RowStates
  <2>3. /\ seq \in 0..MaxJobs /\ work \in [Ids -> [Accounts -> Stages]]
        /\ run \in [Ids -> [pc : {"none", "fetch", "collect", "probing"},
                           runner : Gens, guard : Gens]]
    BY DEF Shape, JobsShape, RunType
  <2>4. ClockShape
    BY DEF Shape
  <2>5. /\ ticker \in [pc : {"asleep", "woken", "tick", "prune", "delete", "leave"}, guard : Gens]
        /\ losers \subseteq RowIds /\ late \subseteq Accounts
    BY DEF Shape, TickShape, TickerType
  <2> QED
    BY <2>1, <2>2, <2>3, <2>4, <2>5 DEF ClockShape, TypeOK
<1> QED
  BY <1>1, InitShape, NextShape, InitSingle, SingleNext, PTL DEF Spec
-----------------------------------------------------------------------------
(* The first guard: as long as the runtime has not been rebuilt.           *)

\* No job and no tick has an object of a rebuild that is still to come.
Known ==
  /\ \A i \in Ids : run[i].runner <= gen /\ run[i].guard <= gen
  /\ ticker.guard <= gen

LEMMA InitKnown == Init => Known
BY DEF Init, Known, Asleep

LEMMA KnownNext == Shape /\ Known /\ [Next]_vars => Known' /\ gen <= gen'
<1> SUFFICES ASSUME Shape, Known, [Next]_vars PROVE Known' /\ gen <= gen'
  OBVIOUS
<1>t. /\ run \in [Ids -> RunType] /\ ticker \in TickerType /\ gen \in Gens /\ Gens \subseteq Nat
  BY DEF Shape, JobsShape, ClockShape, TickShape, Gens
<1> USE DEF Known
<1>1. CASE UNCHANGED <<gen, run, ticker>>
  BY <1>1, <1>t
<1>2. ASSUME NEW r \in 1..gen, Start(r) PROVE Known' /\ gen <= gen'
  <2>1. PICK k \in Ids : run' = [run EXCEPT ![k] =
          [pc |-> "fetch", runner |-> r, guard |-> r]]
    BY <1>2, StartShape DEF Start
  <2>2. gen' = gen /\ ticker' = ticker /\ r <= gen
    BY <1>2, <1>t DEF Start, tick
  <2> QED BY <1>t, <2>1, <2>2
<1>3. ASSUME NEW i \in Ids, FetchGuard(i) \/ CollectTargets(i) \/ Finish(i)
      PROVE  Known' /\ gen <= gen'
  <2>1. gen' = gen /\ ticker' = ticker
    BY <1>3 DEF FetchGuard, CollectTargets, Finish, tick
  <2>2. \A k \in Ids \ {i} : run'[k] = run[k]
    BY <1>3, <1>t DEF FetchGuard, CollectTargets, Finish
  <2>3. run'[i].runner <= gen /\ run'[i].guard <= gen
    BY <1>3, <1>t DEF FetchGuard, CollectTargets, Finish, RunType, Asleep, Gens
  <2> QED BY <1>t, <2>1, <2>2, <2>3
<1>4. CASE TickStep
  <2>1. gen' = gen /\ run' = run
    BY <1>4 DEF TickStep, Wake, EnterTick, PruneCheck, PruneSnapshot, PruneDelete, LeaveTick, jobs
  <2>2. ticker'.guard \in {gen, ticker.guard}
    BY <1>4, <1>t DEF TickStep, Wake, EnterTick, PruneCheck, PruneSnapshot, PruneDelete,
       LeaveTick, TickerType
  <2> QED BY <1>t, <2>1, <2>2
<1>5. CASE Rebuild
  <2>1. gen' = gen + 1 /\ run' = run /\ ticker' = ticker
    BY <1>5 DEF Rebuild, jobs, tick
  <2>2. ASSUME NEW n \in Gens, n <= gen PROVE n <= gen' /\ gen <= gen'
    BY <1>t, <2>1, <2>2
  <2>3. ticker.guard \in Gens /\ ticker'.guard <= gen' /\ gen <= gen'
    BY <1>t, <2>1, <2>2 DEF TickerType
  <2>4. ASSUME NEW i \in Ids PROVE run'[i].runner <= gen' /\ run'[i].guard <= gen'
    <3>1. run[i].runner \in Gens /\ run[i].guard \in Gens
      BY <1>t DEF RunType
    <3> QED BY <2>1, <2>2, <3>1
  <2> QED BY <2>3, <2>4
<1>6. ASSUME NEW i \in Ids, NEW a \in Accounts, Probe(i, a) \/ Answer(i, a) \/ Feed(i, a)
      PROVE  Known' /\ gen <= gen'
  BY <1>1, <1>6 DEF Probe, Answer, Feed, tick
<1>7. CASE \/ Elapse \/ UNCHANGED vars
           \/ \E r \in RowIds : Report(r)
           \/ \E a \in Accounts : Lock(a)
  BY <1>1, <1>7 DEF Elapse, Report, Lock, vars, jobs, tick
<1> QED BY <1>2, <1>3, <1>4, <1>5, <1>6, <1>7 DEF Next, JobStep, Proceed

LEMMA OneGuard ==
  ASSUME Shape, Known, gen = 1
  PROVE  ticker.guard = 1 /\ \A i \in Ids : run[i].runner = 1 /\ run[i].guard = 1
BY DEF Shape, JobsShape, TickShape, TickerType, RunType, Gens, Known

\* How the settle window of the first runner and the time since its job tally.
Rests ==
  gen = 1 => /\ job.running => quiet = 0
             /\ ~job.running => settle[1] + quiet >= Settle

LEMMA RestsNext ==
  Shape /\ Known /\ Rests /\ [Next]_vars => Rests'
<1> SUFFICES ASSUME Shape, Known, Rests, [Next]_vars, gen' = 1 PROVE Rests'
  BY DEF Rests
<1>g. gen = 1
  BY KnownNext DEF Shape, ClockShape, Gens
<1>t. /\ 1 \in Gens /\ settle \in [Gens -> 0..Settle] /\ quiet \in 0..Settle
      /\ run \in [Ids -> RunType] /\ job \in JobType
  BY Numbers DEF Shape, ClockShape, JobsShape
<1> USE DEF Rests
<1>1. ASSUME UNCHANGED <<settle, quiet>>, job'.running = job.running PROVE Rests'
  BY <1>g, <1>1
<1>2. ASSUME NEW r \in 1..gen, Start(r) PROVE Rests'
  BY <1>2 DEF Start
<1>3. CASE Elapse
  <2>1. job' = job
    BY <1>3 DEF Elapse, jobs
  <2>2. CASE job.running
    BY <1>g, <1>3, <2>1, <2>2 DEF Elapse
  <2>3. CASE ~job.running
    <3>1. /\ quiet' = IF quiet < Settle THEN quiet + 1 ELSE quiet
          /\ settle'[1] = IF settle[1] > 0 THEN settle[1] - 1 ELSE 0
      BY <1>3, <1>t, <2>3 DEF Elapse
    <3>2. quiet \in 0..Settle /\ settle[1] \in 0..Settle /\ settle[1] + quiet >= Settle
      BY <1>g, <1>t, <2>3
    <3> QED BY <2>1, <2>3, <3>1, <3>2, Numbers
  <2> QED BY <2>2, <2>3
<1>4. ASSUME NEW i \in Ids, Finish(i) PROVE Rests'
  <2>1. run[i].runner = 1
    BY <1>g, OneGuard
  <2>2. settle'[1] = Settle /\ quiet' = quiet
    BY <1>4, <1>t, <2>1 DEF Finish
  <2>3. ~job'.running
    BY <1>4, <1>t DEF Finish, JobType
  <2> QED BY <1>t, <2>2, <2>3, Numbers
<1>5. ASSUME NEW i \in Ids, JobStep(i), ~Finish(i) PROVE Rests'
  <2>1. job'.running = job.running
    BY <1>5, <1>t DEF JobStep, Proceed, FetchGuard, CollectTargets, Probe, Answer, Feed, JobType
  <2>2. UNCHANGED <<settle, quiet>>
    BY <1>5 DEF JobStep, Proceed, FetchGuard, CollectTargets, Probe, Answer, Feed
  <2> QED BY <1>1, <2>1, <2>2
<1>6. CASE TickStep
  BY <1>1, <1>6 DEF TickStep, Wake, EnterTick, PruneCheck, PruneSnapshot, PruneDelete,
     LeaveTick, jobs
<1>7. CASE \/ Rebuild
           \/ \E r \in RowIds : Report(r)
           \/ \E a \in Accounts : Lock(a)
           \/ UNCHANGED vars
  BY <1>1, <1>7 DEF Rebuild, Report, Lock, vars, jobs
<1> QED BY <1>2, <1>3, <1>4, <1>5, <1>6, <1>7 DEF Next

\* As long as the runtime is not rebuilt, pruning keeps away from the settle
\* window.
THEOREM PruningSettles == Spec => SettleRespected
<1>1. Init => Rests
  BY Numbers DEF Init, Rests
<1>2. Shape /\ Known /\ Rests /\ [Next]_vars =>
        [gen = 1 /\ ticker.pc = "tick" /\ ticker'.pc = "prune" => quiet = Settle]_vars
  <2> SUFFICES ASSUME Shape, Known, Rests, [Next]_vars, gen = 1,
                      ticker.pc = "tick", ticker'.pc = "prune"
               PROVE  quiet = Settle
    OBVIOUS
  <2>1. ticker.guard = 1
    BY OneGuard
  <2>2. ~job.running /\ ~(settle[1] > 0)
    BY <2>1, PruneBegins DEF IsRunning
  <2>3. settle[1] \in 0..Settle /\ quiet \in 0..Settle
    BY Numbers DEF Shape, ClockShape
  <2> QED BY <2>2, <2>3, Numbers DEF Rests
<1> QED
  BY <1>1, <1>2, InitShape, NextShape, InitKnown, KnownNext, RestsNext, PTL
  DEF Spec, SettleRespected

-----------------------------------------------------------------------------
(* Pruning by the guard of now.                                            *)

Pruning == ticker.pc \in {"prune", "delete"} /\ ticker.guard = gen

\* The check found no job, whoever's runner it was on, and what began since
\* has the guard of now.
Apart == Pruning => \A i \in Ids : run[i].pc \in {"none", "fetch"} \/ run[i].guard = gen

\* Whoever uses the guard that prunes waits.
LEMMA Excluded == ASSUME Pruning PROVE ~Free(gen)
BY DEF Pruning, Free

LEMMA FeedWaits ==
  ASSUME Shape, Single, Apart, Pruning, NEW i \in Ids, NEW a \in Accounts, Feed(i, a)
  PROVE  FALSE
<1>1. work[i][a] \in {"alive", "failed"}
  BY DEF Feed
<1>2. run[i].pc = "probing"
  BY <1>1 DEF Single, NoWork
<1>3. run[i].guard = gen
  BY <1>2 DEF Apart
<1> QED BY <1>3, Excluded DEF Feed

\* A step that brings a pruning of the guard of now was one before, or is its
\* check.
LEMMA PruningComes ==
  ASSUME Shape, Known, [Next]_vars, Pruning'
  PROVE  gen' = gen /\ (Pruning \/ (ticker.pc = "tick" /\ PruneCheck))
<1>t. ticker \in TickerType /\ gen \in Gens /\ Gens \subseteq Nat
  BY DEF Shape, TickShape, ClockShape, Gens
<1>1. CASE TickStep
  <2>1. gen' = gen
    BY <1>1 DEF TickStep, Wake, EnterTick, PruneCheck, PruneSnapshot, PruneDelete, LeaveTick
  <2> QED
    BY <1>1, <1>t, <2>1 DEF TickStep, Wake, EnterTick, PruneCheck, PruneSnapshot, PruneDelete,
       LeaveTick, TickerType, Pruning
<1>2. CASE ~TickStep
  <2>1. ticker' = ticker
    BY <1>2, TickMoves
  <2>2. gen' = gen
    <3>1. gen' = gen \/ gen' = gen + 1
      BY <1>2 DEF Next, Start, JobStep, Proceed, FetchGuard, CollectTargets, Finish, Probe,
         Answer, Feed, Report, Lock, Rebuild, Elapse, vars
    <3>2. ticker.guard <= gen /\ ticker.guard = gen'
      BY <2>1 DEF Known, Pruning
    <3> QED BY <1>t, <3>1, <3>2
  <2> QED BY <2>1, <2>2 DEF Pruning
<1> QED BY <1>1, <1>2

LEMMA ApartNext ==
  Shape /\ Single /\ Known /\ Apart /\ [Next]_vars => Apart'
<1> SUFFICES ASSUME Shape, Single, Known, Apart, [Next]_vars, Pruning',
                    NEW k \in Ids, run'[k].pc \notin {"none", "fetch"}
             PROVE  run'[k].guard = gen
  BY PruningComes DEF Apart
<1>t. run \in [Ids -> RunType]
  BY DEF Shape, JobsShape
<1>1. CASE ticker.pc = "tick" /\ PruneCheck
  <2>1. ~IsRunning(ticker.guard)
    BY <1>1, PruneBegins DEF Pruning, PruneCheck, Shape, TickShape, TickerType
  <2>2. run[k].pc = "none"
    BY <2>1 DEF IsRunning, Single
  <2> QED BY <1>1, <2>2 DEF PruneCheck, jobs
<1>2. CASE Pruning
  <2>1. ASSUME UNCHANGED run PROVE run'[k].guard = gen
    BY <1>2, <2>1 DEF Apart
  <2>2. ASSUME NEW r \in 1..gen, Start(r) PROVE run'[k].guard = gen
    <3>1. seq + 1 \in Ids
      BY <2>2, StartShape
    <3>2. k # seq + 1
      BY <1>t, <2>2, <3>1 DEF Start
    <3> QED BY <1>2, <1>t, <2>2, <3>1, <3>2 DEF Start, Apart
  <2>3. ASSUME NEW i \in Ids, JobStep(i) PROVE run'[k].guard = gen
    <3>1. CASE FetchGuard(i)
      BY <1>2, <1>t, <3>1 DEF FetchGuard, Apart, RunType
    <3>2. CASE CollectTargets(i)
      BY <1>2, <1>t, <3>2 DEF CollectTargets, Apart, RunType
    <3>3. CASE Finish(i)
      BY <1>2, <1>t, <3>3, AsleepType DEF Finish, Apart
    <3>4. ASSUME NEW a \in Accounts, Probe(i, a) \/ Answer(i, a) \/ Feed(i, a)
          PROVE  UNCHANGED run
      BY <3>4 DEF Probe, Answer, Feed
    <3> QED BY <2>1, <2>3, <3>1, <3>2, <3>3, <3>4 DEF JobStep, Proceed
  <2>4. CASE \/ TickStep \/ Rebuild \/ Elapse
             \/ \E r \in RowIds : Report(r)
             \/ \E a \in Accounts : Lock(a)
             \/ UNCHANGED vars
    BY <2>1, <2>4 DEF TickStep, Wake, EnterTick, PruneCheck, PruneSnapshot, PruneDelete,
       LeaveTick, Rebuild, Elapse, Report, Lock, vars, jobs
  <2> QED BY <2>2, <2>3, <2>4 DEF Next
<1> QED BY <1>1, <1>2, PruningComes

LEMMA InitApart == Init => Apart
BY DEF Init, Apart, Pruning

\* While the guard of now prunes, no probe reaches the table, be its job from
\* before the check and of a replaced runner, or begun since.
THEOREM PatrolStandsAside == Spec => FeedsApart
<1>1. Shape /\ Single /\ Apart /\ [Next]_vars =>
        [\A i \in Ids, a \in Accounts :
           /\ ticker.pc \in {"prune", "delete"} /\ ticker.guard = gen
           /\ work[i][a] \in {"alive", "failed"}
           => work'[i][a] = work[i][a]]_vars
  <2> SUFFICES ASSUME Shape, Single, Apart, [Next]_vars, Pruning,
                      NEW i \in Ids, NEW a \in Accounts, work[i][a] \in {"alive", "failed"}
               PROVE  work'[i][a] = work[i][a]
    BY DEF Pruning
  <2>t. work \in [Ids -> [Accounts -> Stages]]
    BY DEF Shape, JobsShape
  <2>1. ASSUME UNCHANGED work PROVE work'[i][a] = work[i][a]
    BY <2>1
  <2>2. ASSUME NEW k \in Ids, JobStep(k) PROVE work'[i][a] = work[i][a]
    <3>1. CASE FetchGuard(k)
      BY <3>1 DEF FetchGuard
    <3>2. CASE CollectTargets(k)
      <4>1. k # i
        BY <3>2 DEF CollectTargets, Single, NoWork
      <4> QED BY <2>t, <3>2, <4>1 DEF CollectTargets
    <3>3. CASE Finish(k)
      <4>1. k # i
        BY <3>3 DEF Finish
      <4> QED BY <2>t, <3>3, <4>1 DEF Finish
    <3>4. ASSUME NEW b \in Accounts, Feed(k, b) PROVE FALSE
      BY <3>4, FeedWaits
    <3>5. ASSUME NEW b \in Accounts, Probe(k, b) \/ Answer(k, b) PROVE work'[i][a] = work[i][a]
      <4>1. k # i \/ b # a
        BY <3>5 DEF Probe, Answer
      <4> QED BY <3>5, <4>1, AccountStep
    <3> QED BY <2>2, <3>1, <3>2, <3>3, <3>4, <3>5 DEF JobStep, Proceed
  <2>3. CASE \/ TickStep \/ Rebuild \/ Elapse
             \/ \E r \in 1..gen : Start(r)
             \/ \E r \in RowIds : Report(r)
             \/ \E b \in Accounts : Lock(b)
             \/ UNCHANGED vars
    BY <2>1, <2>3 DEF TickStep, Wake, EnterTick, PruneCheck, PruneSnapshot, PruneDelete,
       LeaveTick, Start, Rebuild, Elapse, Report, Lock, vars, jobs
  <2> QED BY <2>2, <2>3 DEF Next
<1> QED
  BY <1>1, InitShape, NextShape, InitSingle, SingleNext, InitKnown, KnownNext, InitApart,
     ApartNext, PTL DEF Spec, FeedsApart

\* While the guard of now deletes, a closed row goes only if another stays, or
\* an open one with Lead more calls; but for what came late.
Outcounted(r) == \E q \in RowsOf(r[1]) : q \notin losers /\ calls[q] - calls[r] >= Lead
Kept(r) == \E q \in RowsOf(r[1]) : q \notin losers /\ row[q] \in Blocked
Covered ==
  ticker.pc = "delete" /\ ticker.guard = gen =>
    \A r \in losers : row[r] \in Blocked /\ r[1] \notin late => Kept(r) \/ Outcounted(r)

\* A row that may win over a closed one is closed, or counts Lead more calls.
LEMMA WinnerOwns ==
  ASSUME Shape, NEW a \in Accounts, NEW q \in RowIds, NEW r \in RowsOf(a),
         row[r] \in Blocked, MayWin(a, q), q # r
  PROVE  row[q] \in Blocked \/ calls[q] - calls[r] >= Lead
<1> SUFFICES ASSUME row[q] \notin Blocked PROVE calls[q] - calls[r] >= Lead
  OBVIOUS
<1>t. calls[q] \in Nat /\ calls[r] \in Nat /\ r \in RowIds
  BY DEF Shape, TableShape, RowsOf
<1>1. PICK n \in Scores(q), m \in Scores(r) : m <= n
  BY DEF MayWin
<1>2. row[q] = "active"
  BY DEF MayWin, RowsOf, Shape, TableShape, RowStates
<1>3. n \in Int /\ n <= 160 + calls[q]
  <2>1. PICK w \in Weights[row[q]], e \in Extras : n = w + e + KeyBonus(q) + calls[q]
    BY DEF Scores
  <2>2. w = 0
    BY <1>2, <2>1 DEF Weights
  <2>3. e \in 0..110 /\ KeyBonus(q) \in 0..50
    BY DEF Extras, KeyBonus
  <2> QED BY <1>t, <2>1, <2>2, <2>3
<1>4. m \in Int /\ m >= 1400 + calls[r]
  <2>1. PICK w \in Weights[row[r]], e \in Extras : m = w + e + KeyBonus(r) + calls[r]
    BY DEF Scores
  <2>2. w \in Int /\ w >= 1400
    <3>1. Weights[row[r]] \in {{1500}, {1400}, {1400, 1430}}
      BY DEF Weights, Blocked
    <3> QED BY <3>1
  <2>3. e \in 0..110 /\ KeyBonus(r) \in 0..50
    BY DEF Extras, KeyBonus
  <2> QED BY <1>t, <2>1, <2>2, <2>3
<1> QED BY <1>1, <1>3, <1>4, <1>t DEF Lead

\* What a step that prunes nothing leaves of an account that is not late.
LEMMA TableRests ==
  ASSUME Shape, Single, Apart, Known, [Next]_vars, ~TickStep,
         ticker.pc = "delete", ticker.guard = gen,
         NEW r \in RowIds, r[1] \notin late'
  PROVE  row'[r] = row[r] /\ calls'[r] = calls[r] /\ r[1] \notin late
<1>p. Pruning /\ TableShape
  BY DEF Pruning, Shape
<1>1. ASSUME UNCHANGED <<row, calls, late>>
      PROVE  row'[r] = row[r] /\ calls'[r] = calls[r] /\ r[1] \notin late
  BY <1>1
<1>2. ASSUME NEW q \in RowIds, Report(q)
      PROVE  row'[r] = row[r] /\ calls'[r] = calls[r] /\ r[1] \notin late
  <2>1. late' = late \cup {q[1]}
    BY <1>2 DEF Report, Noted
  <2>2. r # q /\ r[1] \notin late
    BY <2>1
  <2> QED BY <1>2, <1>p, <2>2, ReportShape, FALSE \in BOOLEAN DEF Report
<1>3. ASSUME NEW a \in Accounts, Lock(a)
      PROVE  row'[r] = row[r] /\ calls'[r] = calls[r] /\ r[1] \notin late
  <2>1. late' = late \cup {a} /\ calls' = calls
    BY <1>3 DEF Lock, Noted
  <2>2. PICK q \in RowsOf(a) : row' = [row EXCEPT ![q] = "locked"]
    BY <1>3 DEF Lock
  <2>3. r # q
    BY <2>1, <2>2 DEF RowsOf
  <2> QED BY <1>p, <2>1, <2>2, <2>3 DEF TableShape
<1>4. ASSUME NEW i \in Ids, JobStep(i) PROVE UNCHANGED <<row, calls, late>>
  BY <1>4, <1>p, FeedWaits DEF JobStep, Proceed, FetchGuard, CollectTargets, Finish, Probe, Answer,
     table, tick
<1>5. CASE \/ Rebuild \/ Elapse \/ UNCHANGED vars
           \/ \E g \in 1..gen : Start(g)
  BY <1>1, <1>5 DEF Rebuild, Elapse, Start, vars, table, tick
<1> QED BY <1>1, <1>2, <1>3, <1>4, <1>5 DEF Next

LEMMA CoveredNext ==
  Shape /\ Single /\ Apart /\ Known /\ Covered /\ [Next]_vars => Covered'
<1> SUFFICES ASSUME Shape, Single, Apart, Known, Covered, [Next]_vars,
                    ticker'.pc = "delete", ticker'.guard = gen',
                    NEW r \in losers', row'[r] \in Blocked, r[1] \notin late'
             PROVE  Kept(r)' \/ Outcounted(r)'
  BY DEF Covered
<1>t. /\ row \in [RowIds -> RowStates] /\ calls \in [RowIds -> Nat]
      /\ losers \subseteq RowIds /\ ticker \in TickerType /\ TickShape'
  BY NextShape DEF Shape, TableShape, TickShape
<1>a. r \in RowIds /\ r[1] \in Accounts
  BY <1>t DEF TickShape, RowIds
<1>g. gen' = gen
  BY PruningComes DEF Pruning
<1>1. CASE PruneSnapshot
  <2>1. PICK keep \in [Accounts -> RowIds \cup {NoOne}] :
          /\ \A a \in Accounts : IF RowsOf(a) = {} THEN keep[a] = NoOne ELSE MayWin(a, keep[a])
          /\ losers' = {q \in RowIds : row[q] # "none" /\ keep[q[1]] # q}
    BY <1>1 DEF PruneSnapshot
  <2>2. row' = row /\ calls' = calls
    BY <1>1 DEF PruneSnapshot, table
  <2>3. r \in RowsOf(r[1]) /\ keep[r[1]] # r
    BY <1>a, <2>1 DEF RowsOf
  <2> DEFINE q == keep[r[1]]
  <2>4. MayWin(r[1], q)
    BY <1>a, <2>1, <2>3
  <2>5. q \in RowsOf(r[1]) /\ q \in RowIds /\ q[1] = r[1]
    BY <2>4 DEF MayWin, RowsOf
  <2>6. row[q] \in Blocked \/ calls[q] - calls[r] >= Lead
    BY <1>a, <2>2, <2>3, <2>4, <2>5, WinnerOwns
  <2>7. q \notin losers'
    BY <2>1, <2>5
  <2> QED BY <2>2, <2>5, <2>6, <2>7 DEF Kept, Outcounted, RowsOf
<1>2. ASSUME NEW d \in RowIds, PruneDelete(d) PROVE Kept(r)' \/ Outcounted(r)'
  <2>1. /\ losers' = losers \ {d} /\ row' = [row EXCEPT ![d] = "none"] /\ d \in losers
        /\ calls' = [calls EXCEPT ![d] = 0] /\ late' = late /\ ticker' = ticker
    BY <1>2 DEF PruneDelete
  <2>2. r \in losers /\ r # d /\ row'[r] = row[r] /\ calls'[r] = calls[r]
    BY <1>t, <1>a, <2>1
  <2>3. Kept(r) \/ Outcounted(r)
    BY <1>g, <2>1, <2>2 DEF Covered
  <2>4. ASSUME NEW q \in RowsOf(r[1]), q \notin losers
        PROVE  q \in RowsOf(r[1])' /\ q \notin losers' /\ row'[q] = row[q] /\ calls'[q] = calls[q]
    BY <1>t, <2>1, <2>4 DEF RowsOf
  <2> QED BY <2>2, <2>3, <2>4 DEF Kept, Outcounted
<1>3. CASE ~TickStep
  <2>1. ticker' = ticker /\ losers' = losers
    BY <1>3, TickMoves
  <2>2. \A q \in RowIds : q[1] = r[1] => row'[q] = row[q] /\ calls'[q] = calls[q] /\ q[1] \notin late
    BY <1>3, <1>g, <2>1, TableRests
  <2>3. Kept(r) \/ Outcounted(r)
    BY <1>a, <1>g, <2>1, <2>2 DEF Covered
  <2>4. ASSUME NEW q \in RowsOf(r[1]), q \notin losers
        PROVE  q \in RowsOf(r[1])' /\ q \notin losers' /\ row'[q] = row[q] /\ calls'[q] = calls[q]
    BY <2>1, <2>2, <2>4 DEF RowsOf
  <2> QED BY <1>a, <2>2, <2>3, <2>4 DEF Kept, Outcounted
<1>4. CASE Wake \/ EnterTick \/ PruneCheck \/ LeaveTick
  BY <1>4, <1>t DEF Wake, EnterTick, PruneCheck, LeaveTick, TickerType
<1> QED BY <1>1, <1>2, <1>3, <1>4 DEF TickStep

\* Pruning by the guard of now never forgets that an account is closed, unless
\* an open row outcounts the closed one or a replaced guard was still in use.
THEOREM PruningKeepsOwned == Spec => PruneKeepsOwned
<1>1. Init => Covered
  BY DEF Init, Covered
<1>2. Shape /\ Covered /\ [Next]_vars =>
        [\A r \in RowIds :
           /\ ticker.pc = "delete" /\ ticker.guard = gen
           /\ r \in losers \ losers' /\ row[r] \in Blocked
           /\ r[1] \notin late
           /\ \A q \in RowsOf(r[1]) : calls[q] - calls[r] < Lead
           => \E q \in RowsOf(r[1]) : q # r /\ row[q] \in Blocked]_vars
  <2> SUFFICES ASSUME Shape, Covered, NEW r \in RowIds,
                      ticker.pc = "delete", ticker.guard = gen, r \in losers,
                      row[r] \in Blocked, r[1] \notin late,
                      \A q \in RowsOf(r[1]) : calls[q] - calls[r] < Lead
               PROVE  \E q \in RowsOf(r[1]) : q # r /\ row[q] \in Blocked
    OBVIOUS
  <2>1. Kept(r) \/ Outcounted(r)
    BY DEF Covered
  <2>2. ~Outcounted(r)
    <3>1. ASSUME NEW q \in RowsOf(r[1]) PROVE ~(calls[q] - calls[r] >= Lead)
      <4>1. calls[q] \in Nat /\ calls[r] \in Nat
        BY <3>1 DEF RowsOf, Shape, TableShape
      <4> QED BY <3>1, <4>1 DEF Lead
    <3> QED BY <3>1 DEF Outcounted
  <2> QED BY <2>1, <2>2 DEF Kept
<1> QED
  BY <1>1, <1>2, InitShape, NextShape, InitSingle, SingleNext, InitKnown, KnownNext,
     InitApart, ApartNext, CoveredNext, PTL DEF Spec, PruneKeepsOwned
=============================================================================
