---------------------------- MODULE TrashProofs ----------------------------
(***************************************************************************)
(* The trash bin for every set of entries and of goroutines: it is well    *)
(* typed, a move deletes only what it kept, and as long as the process     *)
(* does not crash every listed entry has its snapshot and the bin          *)
(* implements Bin: entries are claimed by one operation and used up once.  *)
(*                                                                         *)
(* What makes the last two true is Claims: whoever works on an entry has   *)
(* taken it out of the index, alone, and its snapshot is still there.      *)
(***************************************************************************)
EXTENDS TrashBin, TLAPS

-----------------------------------------------------------------------------
(* Types.                                                                  *)

\* An operation past its claim or its snapshot has an entry.
Working == {"mark", "delete", "write", "restored", "purge"}
HasEntry ==
  \A t \in Threads :
    op[t].pc \in Working => op[t].id \in Ids

Typed == TypeOK /\ HasEntry

LEMMA IdleType == Idle \in Ops /\ Idle.pc = "idle"
BY TrashAssumption DEF Idle, Ops, Versions

\* One goroutine goes on to another operation.
LEMMA OpType ==
  ASSUME Typed, NEW t \in Threads, NEW x \in Ops,
         x.pc \in Working => x.id \in Ids, op' = [op EXCEPT ![t] = x]
  PROVE  op' \in [Threads -> Ops] /\ HasEntry'
BY DEF Typed, TypeOK, HasEntry

LEMMA InitType == Init => Typed
BY IdleType, TrashAssumption
   DEF Init, Typed, HasEntry, Working, TypeOK, Versions, Rows

LEMMA MoveType ==
  ASSUME Typed, NEW t \in Threads,
         MoveRead(t) \/ MoveKeep(t) \/ MoveMark(t) \/ MoveDelete(t)
  PROVE  Typed'
<1> USE DEF Ops
<1>1. CASE MoveRead(t)
  <2>1. [Idle EXCEPT !.pc = "keep", !.ver = live] \in Ops
    BY IdleType DEF Typed, TypeOK
  <2> QED
    BY <1>1, <2>1, OpType, IdleType DEF MoveRead, Typed, TypeOK, Working
<1>2. CASE MoveKeep(t)
  <2>1. ASSUME NEW id \in Ids, fate[id] = "none",
               snap' = [snap EXCEPT ![id] = op[t].ver],
               index' = index \cup {id}, fate' = [fate EXCEPT ![id] = "kept"],
               op' = [op EXCEPT ![t].pc = "mark", ![t].id = id]
        PROVE  Typed'
    <3> DEFINE x == [op[t] EXCEPT !.pc = "mark", !.id = id]
    <3>1. x \in Ops /\ x.id \in Ids
      BY DEF Typed, TypeOK
    <3>2. op' = [op EXCEPT ![t] = x]
      BY <2>1 DEF Typed, TypeOK
    <3> HIDE DEF x
    <3>3. op' \in [Threads -> Ops] /\ HasEntry'
      BY <3>1, <3>2, OpType
    <3> QED
      BY <1>2, <2>1, <3>3 DEF MoveKeep, Typed, TypeOK
  <2>2. ASSUME op' = [op EXCEPT ![t] = Idle], UNCHANGED <<snap, index, fate>>
        PROVE  Typed'
    BY <1>2, <2>2, OpType, IdleType DEF MoveKeep, Typed, TypeOK, Working
  <2> QED
    BY <1>2, <2>1, <2>2 DEF MoveKeep
<1>3. CASE MoveMark(t)
  <2> DEFINE x == [op[t] EXCEPT !.pc = "delete"]
  <2>1. x \in Ops /\ x.id \in Ids /\ op' = [op EXCEPT ![t] = x]
    BY <1>3 DEF MoveMark, At, Typed, TypeOK, HasEntry, Working
  <2> HIDE DEF x
  <2> QED
    BY <1>3, <2>1, OpType DEF MoveMark, Typed, TypeOK, Rows
<1>4. CASE MoveDelete(t)
  <2> DEFINE x == [op[t] EXCEPT !.pc = "save"]
  <2>1. x \in Ops /\ x.pc \notin Working /\ op' = [op EXCEPT ![t] = x]
    BY <1>4 DEF MoveDelete, Typed, TypeOK, Working
  <2> HIDE DEF x
  <2>2. live' \in Versions
    BY <1>4, TrashAssumption DEF MoveDelete, Typed, TypeOK, Versions
  <2> QED
    BY <1>4, <2>1, <2>2, OpType DEF MoveDelete, Typed, TypeOK
<1> QED BY <1>1, <1>2, <1>3, <1>4

LEMMA RestoreType ==
  ASSUME Typed, NEW t \in Threads,
         \/ \E id \in Ids, enable \in BOOLEAN : RestoreClaim(t, id, enable)
         \/ RestoreWrite(t) \/ RestoreFinish(t)
  PROVE  Typed'
<1> USE DEF Ops
<1>1. ASSUME NEW id \in Ids, NEW enable \in BOOLEAN, RestoreClaim(t, id, enable)
      PROVE  Typed'
  <2> DEFINE x == [Idle EXCEPT !.pc = "write", !.id = id, !.enable = enable]
  <2>1. x \in Ops /\ x.id \in Ids /\ op' = [op EXCEPT ![t] = x]
    BY <1>1, IdleType DEF RestoreClaim
  <2> HIDE DEF x
  <2> QED
    BY <1>1, <2>1, OpType DEF RestoreClaim, Typed, TypeOK
<1>2. CASE RestoreWrite(t)
  <2> DEFINE x == [op[t] EXCEPT !.pc = "restored"]
  <2>1. x \in Ops /\ x.id \in Ids /\ [op EXCEPT ![t].pc = "restored"] = [op EXCEPT ![t] = x]
    BY <1>2 DEF RestoreWrite, At, Typed, TypeOK, HasEntry, Working
  <2> HIDE DEF x
  <2>2. op[t].id \in Ids
    BY <1>2 DEF RestoreWrite, At, Typed, HasEntry, Working
  <2>3. CASE live' = snap[op[t].id] /\ op' = [op EXCEPT ![t] = x] /\ UNCHANGED index
    BY <1>2, <2>1, <2>2, <2>3, OpType DEF RestoreWrite, Typed, TypeOK
  <2>4. CASE /\ index' = index \cup {op[t].id} /\ op' = [op EXCEPT ![t] = Idle]
             /\ UNCHANGED live
    BY <1>2, <2>2, <2>4, OpType, IdleType DEF RestoreWrite, Typed, TypeOK, Working
  <2> QED
    BY <1>2, <2>1, <2>3, <2>4 DEF RestoreWrite
<1>3. CASE RestoreFinish(t)
  <2> DEFINE x == [op[t] EXCEPT !.pc = "save"]
  <2>1. x \in Ops /\ x.pc \notin Working /\ op' = [op EXCEPT ![t] = x]
    BY <1>3 DEF RestoreFinish, Typed, TypeOK, Working
  <2> HIDE DEF x
  <2>2. 0 \in Versions
    BY TrashAssumption DEF Versions
  <2>3. snap' \in [Ids -> Versions]
    BY <1>3, <2>2 DEF RestoreFinish, Typed, TypeOK
  <2> QED
    BY <1>3, <2>1, <2>3, OpType DEF RestoreFinish, Typed, TypeOK, Rows
<1> QED BY <1>1, <1>2, <1>3

LEMMA PurgeType ==
  ASSUME Typed, NEW t \in Threads,
         \/ \E id \in Ids : PurgeClaim(t, id)
         \/ SweepBegin(t) \/ SweepClaim(t) \/ PurgeFinish(t)
  PROVE  Typed'
<1> USE DEF Ops
<1>1. ASSUME NEW id \in Ids, PurgeClaim(t, id) PROVE Typed'
  <2> DEFINE x == [Idle EXCEPT !.pc = "purge", !.id = id]
  <2>1. x \in Ops /\ x.id \in Ids /\ op' = [op EXCEPT ![t] = x]
    BY <1>1, IdleType DEF PurgeClaim
  <2> HIDE DEF x
  <2> QED
    BY <1>1, <2>1, OpType DEF PurgeClaim, Typed, TypeOK
<1>2. CASE SweepBegin(t)
  <2> DEFINE x == [Idle EXCEPT !.pc = "sweep", !.todo = index \cap expired]
  <2>1. x \in Ops /\ x.pc \notin Working /\ op' = [op EXCEPT ![t] = x]
    BY <1>2, IdleType DEF SweepBegin, Typed, TypeOK, Working
  <2> HIDE DEF x
  <2> QED
    BY <1>2, <2>1, OpType DEF SweepBegin, Typed, TypeOK
<1>3. CASE SweepClaim(t)
  <2>1. PICK id \in op[t].todo :
          IF id \in index
          THEN /\ index' = index \ {id}
               /\ op' = [op EXCEPT ![t] = [Idle EXCEPT !.pc = "purge", !.id = id,
                                                       !.todo = op[t].todo \ {id}]]
          ELSE op' = [op EXCEPT ![t] = Idle] /\ UNCHANGED index
    BY <1>3 DEF SweepClaim
  <2> DEFINE x == [Idle EXCEPT !.pc = "purge", !.id = id, !.todo = op[t].todo \ {id}]
  <2>2. x \in Ops /\ x.id \in Ids
    BY IdleType DEF Typed, TypeOK
  <2>3. CASE op' = [op EXCEPT ![t] = x] /\ index' = index \ {id}
    <3> HIDE DEF x
    <3> QED BY <1>3, <2>2, <2>3, OpType DEF SweepClaim, Typed, TypeOK
  <2>4. CASE op' = [op EXCEPT ![t] = Idle] /\ UNCHANGED index
    BY <1>3, <2>4, OpType, IdleType DEF SweepClaim, Typed, TypeOK, Working
  <2> QED BY <2>1, <2>3, <2>4
<1>4. CASE PurgeFinish(t)
  <2> DEFINE x == [op[t] EXCEPT !.pc = "save"]
  <2>1. x \in Ops /\ x.pc \notin Working /\ op' = [op EXCEPT ![t] = x]
    BY <1>4 DEF PurgeFinish, Typed, TypeOK, Working
  <2> HIDE DEF x
  <2>2. 0 \in Versions
    BY TrashAssumption DEF Versions
  <2>3. snap' \in [Ids -> Versions]
    BY <1>4, <2>2 DEF PurgeFinish, Typed, TypeOK
  <2> QED
    BY <1>4, <2>1, <2>3, OpType DEF PurgeFinish, Typed, TypeOK, Rows
<1> QED BY <1>1, <1>2, <1>3, <1>4

LEMMA SaveType ==
  ASSUME Typed, NEW t \in Threads, SaveStep(t) PROVE Typed'
<1>1. disk' \in [index : SUBSET Ids, row : Rows]
  BY DEF SaveStep, Typed, TypeOK
<1>2. Done(t) \in Ops /\ Done(t).pc \notin Working
  BY IdleType DEF Done, Ops, Working, Typed, TypeOK
<1>3. op' \in [Threads -> Ops] /\ HasEntry'
  BY <1>2, OpType, IdleType DEF SaveStep, Working
<1> QED
  BY <1>1, <1>3 DEF SaveStep, Typed, TypeOK

LEMMA WorldType ==
  ASSUME Typed, SaveElsewhere \/ (\E id \in Ids : Expire(id)) \/ Upload \/ Crash
  PROVE  Typed'
<1>1. CASE SaveElsewhere
  BY <1>1 DEF SaveElsewhere, Typed, HasEntry, TypeOK
<1>2. ASSUME NEW id \in Ids, Expire(id) PROVE Typed'
  BY <1>2 DEF Expire, Typed, HasEntry, TypeOK
<1>3. CASE Upload
  BY <1>3, TrashAssumption DEF Upload, Typed, HasEntry, TypeOK, Versions
<1>4. CASE Crash
  <2>1. op' \in [Threads -> Ops] /\ HasEntry'
    BY <1>4, IdleType DEF Crash, HasEntry, Working
  <2> QED
    BY <1>4, <2>1, TrashAssumption DEF Crash, Typed, TypeOK
<1> QED BY <1>1, <1>2, <1>3, <1>4

LEMMA NextType == Typed /\ [Next]_vars => Typed'
<1> SUFFICES ASSUME Typed, [Next]_vars PROVE Typed'
  OBVIOUS
<1>1. CASE UNCHANGED vars
  BY <1>1 DEF vars, Typed, HasEntry, TypeOK
<1>2. CASE Next
  BY <1>2, MoveType, RestoreType, PurgeType, SaveType, WorldType DEF Next, Operate, Proceed
<1> QED BY <1>1, <1>2

\* The table, the snapshots and the operations keep their types.
THEOREM TypeCorrect == Spec => []TypeOK
<1>1. Typed => TypeOK
  BY DEF Typed
<1> QED
  BY <1>1, InitType, NextType, PTL DEF Spec
-----------------------------------------------------------------------------
(* A move deletes only what it kept.                                       *)

\* What a move has read stays in its snapshot until somebody uses the entry.
Kept ==
  \A t \in Threads : op[t].pc \in {"mark", "delete"} =>
    /\ fate[op[t].id] # "none"
    /\ snap[op[t].id] = op[t].ver \/ fate[op[t].id] \in {"restored", "purged"}

\* Fates and snapshots change in three actions only.
LEMMA UsedUp ==
  ASSUME Typed, NEW t \in Threads, Operate(t) \/ Proceed(t)
  PROVE  \/ UNCHANGED <<snap, fate>>
         \/ MoveKeep(t)
         \/ /\ RestoreFinish(t) \/ PurgeFinish(t)
            /\ snap' = [snap EXCEPT ![op[t].id] = 0]
            /\ fate' \in {[fate EXCEPT ![op[t].id] = f] : f \in {"restored", "purged"}}
BY DEF Operate, Proceed, MoveRead, MoveMark, MoveDelete, RestoreClaim, RestoreWrite,
   RestoreFinish, PurgeClaim, SweepBegin, SweepClaim, PurgeFinish, SaveStep

\* The operation of one goroutine leaves those of the others alone.
LEMMA OthersStay ==
  ASSUME Typed, NEW t \in Threads, Operate(t) \/ Proceed(t),
         NEW u \in Threads, u # t
  PROVE  op'[u] = op[u]
<1>1. op \in [Threads -> Ops]
  BY DEF Typed, TypeOK
<1>2. CASE Operate(t)
  BY <1>1, <1>2 DEF Operate, MoveRead, RestoreClaim, PurgeClaim, SweepBegin
<1>3. CASE Proceed(t)
  <2>1. CASE MoveKeep(t) \/ MoveMark(t) \/ MoveDelete(t)
    BY <1>1, <2>1 DEF MoveKeep, MoveMark, MoveDelete
  <2>2. CASE RestoreWrite(t) \/ RestoreFinish(t)
    BY <1>1, <2>2 DEF RestoreWrite, RestoreFinish
  <2>3. CASE SweepClaim(t) \/ PurgeFinish(t) \/ SaveStep(t)
    BY <1>1, <2>3 DEF SweepClaim, PurgeFinish, SaveStep
  <2> QED BY <1>3, <2>1, <2>2, <2>3 DEF Proceed
<1> QED BY <1>2, <1>3

\* Which operation a goroutine can be in after its step.
LEMMA OwnStep ==
  ASSUME Typed, NEW t \in Threads, Operate(t) \/ Proceed(t)
  PROVE  \/ op'[t].pc \in {"idle", "keep", "sweep", "save"}
         \/ MoveKeep(t) \/ MoveMark(t) \/ RestoreWrite(t) \/ SweepClaim(t)
         \/ \E id \in Ids : PurgeClaim(t, id)
         \/ \E id \in Ids, enable \in BOOLEAN : RestoreClaim(t, id, enable)
<1>1. op \in [Threads -> Ops] /\ Idle \in Ops /\ Idle.pc = "idle"
  BY IdleType DEF Typed, TypeOK
<1>2. CASE SweepBegin(t) \/ MoveRead(t)
  BY <1>1, <1>2 DEF SweepBegin, MoveRead, Idle
<1>3. CASE MoveDelete(t) \/ RestoreFinish(t) \/ PurgeFinish(t)
  BY <1>1, <1>3 DEF MoveDelete, RestoreFinish, PurgeFinish, Ops
<1>4. CASE SaveStep(t)
  <2>1. Done(t).pc \in {"idle", "sweep"}
    BY DEF Done, Idle
  <2> QED BY <1>1, <1>4, <2>1 DEF SaveStep
<1> QED BY <1>2, <1>3, <1>4 DEF Operate, Proceed

LEMMA KeptNext == Typed /\ Kept /\ [Next]_vars => Kept'
<1> SUFFICES ASSUME Typed, Kept, [Next]_vars PROVE Kept'
  OBVIOUS
<1> USE DEF Kept
<1>t. /\ op \in [Threads -> Ops] /\ snap \in [Ids -> Versions]
      /\ fate \in [Ids -> {"none", "kept", "restored", "purged"}]
  BY DEF Typed, TypeOK
<1>e. \A u \in Threads : op[u].pc \in {"mark", "delete"} => op[u].id \in Ids
  BY DEF Typed, HasEntry, Working
<1>1. CASE UNCHANGED <<op, snap, fate>>
  BY <1>1
<1>2. ASSUME NEW t \in Threads, Operate(t) \/ Proceed(t) PROVE Kept'
  <2>1. ASSUME NEW u \in Threads, u # t, op[u].pc \in {"mark", "delete"}
        PROVE  /\ fate'[op[u].id] # "none"
               /\ \/ snap'[op[u].id] = op[u].ver
                  \/ fate'[op[u].id] \in {"restored", "purged"}
    BY <1>t, <1>e, <1>2, <2>1, UsedUp DEF MoveKeep
  <2>2. ASSUME op'[t].pc \in {"mark", "delete"}
        PROVE  /\ fate'[op'[t].id] # "none"
               /\ \/ snap'[op'[t].id] = op'[t].ver
                  \/ fate'[op'[t].id] \in {"restored", "purged"}
    <3>1. CASE MoveKeep(t)
      BY <1>t, <2>2, <3>1, IdleType DEF MoveKeep, Ops
    <3>2. CASE MoveMark(t)
      BY <1>t, <2>2, <3>2 DEF MoveMark, At, Ops
    <3>3. ~RestoreWrite(t)
      <4>1. [op EXCEPT ![t].pc = "restored"][t].pc = "restored"
        BY <1>t DEF Ops
      <4>2. [op EXCEPT ![t] = Idle][t].pc = "idle"
        BY <1>t, IdleType
      <4> QED BY <2>2, <4>1, <4>2 DEF RestoreWrite
    <3>4. ~SweepClaim(t)
      <4>1. \A id : [op EXCEPT ![t] = [Idle EXCEPT !.pc = "purge", !.id = id,
                                         !.todo = op[t].todo \ {id}]][t].pc = "purge"
        BY <1>t DEF Idle
      <4>2. [op EXCEPT ![t] = Idle][t].pc = "idle"
        BY <1>t, IdleType
      <4> QED BY <2>2, <4>1, <4>2 DEF SweepClaim
    <3>5. \A id \in Ids : ~PurgeClaim(t, id)
      BY <1>t, <2>2 DEF PurgeClaim, Idle
    <3>6. \A id \in Ids, enable \in BOOLEAN : ~RestoreClaim(t, id, enable)
      BY <1>t, <2>2 DEF RestoreClaim, Idle
    <3> QED BY <1>2, <2>2, <3>1, <3>2, <3>3, <3>4, <3>5, <3>6, OwnStep
  <2> QED BY <1>2, <2>1, <2>2, OthersStay
<1>3. CASE SaveElsewhere \/ (\E id \in Ids : Expire(id)) \/ Upload
  BY <1>1, <1>3 DEF SaveElsewhere, Expire, Upload
<1>4. CASE Crash
  BY <1>4, IdleType DEF Crash
<1>5. CASE UNCHANGED vars
  BY <1>1, <1>5 DEF vars
<1> QED BY <1>2, <1>3, <1>4, <1>5 DEF Next

\* A goroutine about to delete has kept what it read, whatever the others
\* have done in between, and across crashes.
THEOREM KeptBeforeDeleted == Spec => DeletesOnlyWhatItKept
<1>1. Init => Kept
  BY IdleType DEF Init, Kept
<1>2. Kept /\ [Next]_vars =>
        [\A t \in Threads :
           At(t, "delete") /\ live # 0 /\ live' = 0 /\ op'[t].pc = "save" =>
             \/ snap[op[t].id] = op[t].ver
             \/ fate[op[t].id] \in {"restored", "purged"}]_vars
  BY DEF Kept, At
<1> QED
  BY <1>1, <1>2, InitType, NextType, KeptNext, PTL DEF Spec, DeletesOnlyWhatItKept
-----------------------------------------------------------------------------
(* Whoever works on an entry has it for itself.                            *)

Claiming == {"write", "restored", "purge"}

Listed == \A id \in index : fate[id] = "kept" /\ snap[id] # 0
Claimed ==
  \A t \in Threads : op[t].pc \in Claiming =>
    fate[op[t].id] = "kept" /\ snap[op[t].id] # 0 /\ op[t].id \notin index
Alone ==
  \A t, u \in Threads :
    op[t].pc \in Claiming /\ op[u].pc \in Claiming /\ op[t].id = op[u].id => t = u
Fetched == \A t \in Threads : op[t].pc = "keep" => op[t].ver # 0

Claims == Listed /\ Claimed /\ Alone /\ Fetched

\* What a step of a goroutine means for the entries, one operator a kind.
Passes(t) ==
  /\ UNCHANGED <<snap, index, fate>>
  /\ op'[t].pc \notin Claiming
  /\ op'[t].pc = "keep" => op'[t].ver # 0
Keeps(t) ==
  \E id \in Ids :
    /\ op[t].pc = "keep" /\ fate[id] = "none" /\ fate' = [fate EXCEPT ![id] = "kept"]
    /\ snap' = [snap EXCEPT ![id] = op[t].ver] /\ index' = index \cup {id}
    /\ op'[t].pc = "mark"
Takes(t) ==
  \E id \in index :
    /\ index' = index \ {id} /\ UNCHANGED <<snap, fate>>
    /\ op'[t].pc \in Claiming /\ op'[t].id = id
GoesOn(t) ==
  /\ UNCHANGED <<snap, index, fate>>
  /\ op[t].pc \in Claiming /\ op'[t].pc \in Claiming /\ op'[t].id = op[t].id
PutsBack(t) ==
  /\ op[t].pc \in Claiming /\ index' = index \cup {op[t].id} /\ UNCHANGED <<snap, fate>>
  /\ op'[t].pc = "idle"
UsesUp(t) ==
  /\ op[t].pc \in Claiming /\ op'[t].pc = "save" /\ UNCHANGED index
  /\ snap' = [snap EXCEPT ![op[t].id] = 0]
  /\ \E f \in {"restored", "purged"} : fate' = [fate EXCEPT ![op[t].id] = f]

LEMMA Kinds ==
  ASSUME Typed, NEW t \in Threads, Operate(t) \/ Proceed(t)
  PROVE  Passes(t) \/ Keeps(t) \/ Takes(t) \/ GoesOn(t) \/ PutsBack(t) \/ UsesUp(t)
<1>t. op \in [Threads -> Ops] /\ Idle.pc = "idle" /\ index \subseteq Ids
  BY IdleType DEF Typed, TypeOK
<1>i. ASSUME op' = [op EXCEPT ![t] = Idle] PROVE op'[t].pc = "idle"
  BY <1>t, <1>i
<1>1. CASE MoveRead(t)
  <2>1. op'[t].pc = "keep" /\ op'[t].ver # 0
    BY <1>t, <1>1 DEF MoveRead, Idle
  <2> QED BY <1>1, <2>1 DEF MoveRead, Passes, Claiming
<1>2. CASE MoveKeep(t)
  <2>1. \A id : [op EXCEPT ![t].pc = "mark", ![t].id = id][t].pc = "mark"
    BY <1>t DEF Ops
  <2> QED BY <1>i, <1>2, <2>1 DEF MoveKeep, At, Passes, Keeps, Claiming
<1>3. CASE MoveMark(t) \/ MoveDelete(t)
  <2>1. op'[t].pc \in {"delete", "save"}
    BY <1>t, <1>3 DEF MoveMark, MoveDelete, Ops
  <2> QED BY <1>3, <2>1 DEF MoveMark, MoveDelete, Passes, Claiming
<1>4. CASE SweepBegin(t) \/ SaveStep(t)
  <2>1. Done(t).pc \in {"idle", "sweep"}
    BY DEF Done, Idle
  <2>2. op'[t].pc \in {"idle", "sweep"}
    BY <1>t, <1>i, <1>4, <2>1 DEF SweepBegin, SaveStep, Idle
  <2> QED BY <1>4, <2>2 DEF SweepBegin, SaveStep, Passes, Claiming
<1>5. ASSUME NEW id \in Ids, NEW enable \in BOOLEAN, RestoreClaim(t, id, enable)
      PROVE  Takes(t)
  <2>1. op'[t].pc = "write" /\ op'[t].id = id
    BY <1>t, <1>5 DEF RestoreClaim, Idle
  <2> QED BY <1>5, <2>1 DEF RestoreClaim, Takes, Claiming
<1>6. ASSUME NEW id \in Ids, PurgeClaim(t, id) PROVE Takes(t)
  <2>1. op'[t].pc = "purge" /\ op'[t].id = id
    BY <1>t, <1>6 DEF PurgeClaim, Idle
  <2> QED BY <1>6, <2>1 DEF PurgeClaim, Takes, Claiming
<1>7. CASE RestoreWrite(t)
  <2>1. /\ [op EXCEPT ![t].pc = "restored"][t].pc = "restored"
        /\ [op EXCEPT ![t].pc = "restored"][t].id = op[t].id
    BY <1>t DEF Ops
  <2> QED BY <1>i, <1>7, <2>1 DEF RestoreWrite, At, GoesOn, PutsBack, Claiming
<1>8. CASE SweepClaim(t)
  <2> DEFINE x(id) == [Idle EXCEPT !.pc = "purge", !.id = id, !.todo = op[t].todo \ {id}]
  <2>1. \A id : [op EXCEPT ![t] = x(id)][t].pc = "purge" /\ [op EXCEPT ![t] = x(id)][t].id = id
    BY <1>t DEF Idle
  <2>2. PICK id \in op[t].todo :
          IF id \in index
          THEN index' = index \ {id} /\ op' = [op EXCEPT ![t] = x(id)]
          ELSE op' = [op EXCEPT ![t] = Idle] /\ UNCHANGED index
    BY <1>8 DEF SweepClaim
  <2> HIDE DEF x
  <2>3. CASE id \in index
    BY <1>8, <2>1, <2>2, <2>3 DEF SweepClaim, Takes, Claiming
  <2>4. CASE id \notin index
    BY <1>i, <1>8, <2>2, <2>4 DEF SweepClaim, Passes, Claiming
  <2> QED BY <2>3, <2>4
<1>9. CASE RestoreFinish(t) \/ PurgeFinish(t)
  <2>1. op'[t].pc = "save"
    BY <1>t, <1>9 DEF RestoreFinish, PurgeFinish, Ops
  <2> QED BY <1>9, <2>1 DEF RestoreFinish, PurgeFinish, At, UsesUp, Claiming
<1> QED
  BY <1>1, <1>2, <1>3, <1>4, <1>5, <1>6, <1>7, <1>8, <1>9 DEF Operate, Proceed

LEMMA ClaimsStep ==
  ASSUME Typed, Claims, NEW t \in Threads, Operate(t) \/ Proceed(t)
  PROVE  Claims'
<1>t. /\ op \in [Threads -> Ops] /\ index \subseteq Ids
      /\ snap \in [Ids -> Versions] /\ fate \in [Ids -> {"none", "kept", "restored", "purged"}]
  BY DEF Typed, TypeOK
<1>o. \A u \in Threads : u # t => op'[u] = op[u]
  BY OthersStay
<1>e. \A u \in Threads : op[u].pc \in Claiming => op[u].id \in Ids
  BY DEF Typed, HasEntry, Working, Claiming
<1> USE DEF Claims, Listed, Claimed, Alone, Fetched
<1>1. CASE Passes(t)
  BY <1>o, <1>1 DEF Passes
<1>2. CASE Keeps(t)
  BY <1>t, <1>o, <1>e, <1>2 DEF Keeps, Claiming
<1>3. CASE Takes(t)
  BY <1>o, <1>3 DEF Takes, Claiming
<1>4. CASE GoesOn(t)
  BY <1>o, <1>4 DEF GoesOn, Claiming
<1>5. CASE PutsBack(t)
  BY <1>o, <1>5 DEF PutsBack, Claiming
<1>6. CASE UsesUp(t)
  BY <1>t, <1>o, <1>e, <1>6 DEF UsesUp, Claiming
<1> QED BY <1>1, <1>2, <1>3, <1>4, <1>5, <1>6, Kinds

LEMMA StepKeepsCrashes ==
  ASSUME NEW t \in Threads, Operate(t) \/ Proceed(t) PROVE crashes' = crashes
BY DEF Operate, Proceed, MoveRead, MoveKeep, MoveMark, MoveDelete,
   RestoreClaim, RestoreWrite, RestoreFinish, PurgeClaim, SweepBegin,
   SweepClaim, PurgeFinish, SaveStep

LEMMA ClaimsNext ==
  Typed /\ (crashes = 0 => Claims) /\ [Next]_vars => (crashes = 0 => Claims)'
<1> SUFFICES ASSUME Typed, crashes = 0 => Claims, [Next]_vars, crashes' = 0
             PROVE  Claims'
  OBVIOUS
<1>1. ~Crash
  BY DEF Crash, Typed, TypeOK
<1>2. ASSUME NEW t \in Threads, Operate(t) \/ Proceed(t) PROVE Claims'
  <2>1. crashes' = crashes
    BY <1>2, StepKeepsCrashes
  <2> QED BY <1>2, <2>1, ClaimsStep
<1>3. CASE SaveElsewhere \/ (\E id \in Ids : Expire(id)) \/ Upload \/ UNCHANGED vars
  BY <1>3 DEF SaveElsewhere, Expire, Upload, vars, Claims, Listed, Claimed, Alone, Fetched
<1> QED BY <1>1, <1>2, <1>3 DEF Next

LEMMA InitClaims == Init => Claims
BY IdleType DEF Init, Claims, Listed, Claimed, Alone, Fetched, Claiming

\* A listed entry can be restored, as long as the process does not crash.
THEOREM ListedIsRestorable == Spec => []HeldHasSnapshot
<1>1. (crashes = 0 => Claims) => HeldHasSnapshot
  BY DEF Claims, Listed, HeldHasSnapshot
<1> QED
  BY <1>1, InitType, NextType, InitClaims, ClaimsNext, PTL DEF Spec
-----------------------------------------------------------------------------
(* The bin implements Bin.                                                 *)

Entry ==
  [id \in Ids |->
    IF crashes > 0 THEN "unknown"
    ELSE IF fate[id] # "kept" THEN fate[id]
    ELSE IF id \in index THEN "held" ELSE "taken"]

\* An entry moves when its own fate or place does and no other entry's.
LEMMA OneMoves ==
  ASSUME crashes' = crashes,
         NEW id \in Ids, NEW from, NEW to, Entry[id] = from, Entry'[id] = to,
         \A k \in Ids \ {id} : fate'[k] = fate[k] /\ (k \in index' <=> k \in index)
  PROVE  Entries!Move(id, from, to)
<1>1. \A k \in Ids \ {id} : Entry'[k] = Entry[k]
  BY DEF Entry
<1>2. Entry' = [Entry EXCEPT ![id] = to]
  BY <1>1 DEF Entry
<1> QED BY <1>2 DEF Entries!Move, Entry

LEMMA EntryStep ==
  ASSUME Typed, Claims, crashes = 0, NEW t \in Threads, Operate(t) \/ Proceed(t)
  PROVE  Entries!Next \/ UNCHANGED Entry
<1>c. crashes' = crashes /\ ~(crashes > 0)
  BY StepKeepsCrashes
<1>t. index \subseteq Ids /\ fate \in [Ids -> {"none", "kept", "restored", "purged"}]
  BY DEF Typed, TypeOK
<1>e. op[t].pc \in Claiming =>
        op[t].id \in Ids /\ fate[op[t].id] = "kept" /\ op[t].id \notin index
  BY DEF Typed, HasEntry, Working, Claiming, Claims, Claimed
<1>1. CASE Passes(t) \/ GoesOn(t)
  BY <1>c, <1>1 DEF Passes, GoesOn, Entry
<1>2. CASE Keeps(t)
  <2>1. PICK id \in Ids : /\ fate[id] = "none" /\ fate' = [fate EXCEPT ![id] = "kept"]
                          /\ index' = index \cup {id}
    BY <1>2 DEF Keeps
  <2>2. Entry[id] = "none" /\ Entry'[id] = "held"
    BY <1>c, <1>t, <2>1 DEF Entry
  <2>3. Entries!Move(id, "none", "held")
    BY <1>c, <1>t, <2>1, <2>2, OneMoves
  <2> QED BY <2>3 DEF Entries!Next
<1>3. CASE Takes(t)
  <2>1. PICK id \in index : index' = index \ {id} /\ UNCHANGED fate
    BY <1>3 DEF Takes
  <2>2. id \in Ids /\ Entry[id] = "held" /\ Entry'[id] = "taken"
    BY <1>c, <1>t, <2>1 DEF Entry, Claims, Listed
  <2>3. Entries!Move(id, "held", "taken")
    BY <1>c, <1>t, <2>1, <2>2, OneMoves
  <2> QED BY <2>2, <2>3 DEF Entries!Next
<1>4. CASE PutsBack(t)
  <2>1. Entry[op[t].id] = "taken" /\ Entry'[op[t].id] = "held"
    BY <1>c, <1>t, <1>e, <1>4 DEF PutsBack, Entry
  <2>2. Entries!Move(op[t].id, "taken", "held")
    BY <1>c, <1>t, <1>e, <1>4, <2>1, OneMoves DEF PutsBack
  <2> QED BY <1>e, <1>4, <2>2 DEF PutsBack, Entries!Next
<1>5. CASE UsesUp(t)
  <2>1. PICK f \in {"restored", "purged"} : fate' = [fate EXCEPT ![op[t].id] = f]
    BY <1>5 DEF UsesUp
  <2>2. Entry[op[t].id] = "taken" /\ Entry'[op[t].id] = f
    BY <1>c, <1>t, <1>e, <1>5, <2>1 DEF UsesUp, Entry
  <2>3. Entries!Move(op[t].id, "taken", f)
    BY <1>c, <1>t, <1>e, <1>5, <2>1, <2>2, OneMoves DEF UsesUp
  <2> QED BY <1>e, <1>5, <2>1, <2>3 DEF UsesUp, Entries!Next
<1> QED BY <1>1, <1>2, <1>3, <1>4, <1>5, Kinds

\* Until the process crashes, an entry is kept, claimed by one operation at a
\* time, and restored or purged once.
THEOREM BinImplemented == Spec => ClaimedAndUsedOnce
<1>1. Init => Entries!Init
  BY DEF Init, Entries!Init, Entry
<1>2. ASSUME Typed, crashes = 0 => Claims, [Next]_vars
      PROVE  Entries!Next \/ UNCHANGED Entry
  <2>0. crashes \in Nat
    BY <1>2, TrashAssumption DEF Typed, TypeOK
  <2>1. CASE Crash
    <3>1. crashes' > 0
      BY <2>0, <2>1 DEF Crash
    <3>2. Entry' = [id \in Ids |-> "unknown"]
      BY <3>1 DEF Entry
    <3> QED BY <3>2 DEF Entries!Next, Entries!Crash, Entry
  <2>2. CASE SaveElsewhere \/ (\E id \in Ids : Expire(id)) \/ Upload \/ UNCHANGED vars
    BY <2>2 DEF SaveElsewhere, Expire, Upload, vars, Entry
  <2>3. ASSUME NEW t \in Threads, Operate(t) \/ Proceed(t)
        PROVE  Entries!Next \/ UNCHANGED Entry
    <3>1. CASE crashes = 0
      BY <1>2, <2>3, <3>1, EntryStep
    <3>2. CASE crashes # 0
      <4>1. crashes > 0 /\ crashes' > 0
        BY <2>0, <2>3, <3>2, StepKeepsCrashes
      <4> QED BY <4>1 DEF Entry
    <3> QED BY <3>1, <3>2
  <2> QED BY <1>2, <2>1, <2>2, <2>3 DEF Next
<1>3. Typed /\ (crashes = 0 => Claims) /\ [Next]_vars => [Entries!Next]_Entry
  BY <1>2
<1> QED
  BY <1>1, <1>3, InitType, NextType, InitClaims, ClaimsNext, PTL
     DEF Spec, ClaimedAndUsedOnce, Entries!Spec, Entry
=============================================================================
