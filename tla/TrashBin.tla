----------------------------- MODULE TrashBin ------------------------------
(***************************************************************************)
(* internal/trash and its callers: ManualTrash and applyTrash of the       *)
(* guard, the panel's restore and purge, and the purge of expired entries  *)
(* by tick.  None of the panel's operations takes Guard.mu, so all of them *)
(* interleave; only the table's own lock makes a setter atomic.            *)
(*                                                                         *)
(* One account.  Its auth file holds a version of its credentials; a bin   *)
(* entry is an item of the table's index plus a snapshot file.  The table  *)
(* reaches the disk when somebody saves it; the files are there at once.   *)
(* trash_auto_purge is on, as it is by default.                            *)
(***************************************************************************)
EXTENDS Integers, FiniteSets

CONSTANTS
  Ids,        \* ids of bin entries (hash of account and time: never used twice)
  NoId,       \* stands for no entry
  Threads,    \* goroutines that work on the account
  Ticker,     \* the one of them that runs tick
  MaxVer,     \* bound: versions of the file; above 1 somebody else uploads
  MaxCrash    \* bound: crashes

ASSUME TrashAssumption ==
  /\ IsFiniteSet(Ids) /\ NoId \notin Ids /\ Ticker \in Threads
  /\ MaxVer \in Nat \ {0} /\ MaxCrash \in Nat

VARIABLES
  live,      \* version in the auth file, 0 when there is no file
  newest,    \* newest version there has been
  snap,      \* snapshot file of each entry: a version, 0 for none
  index,     \* Store.Trash: the entries listed
  row,       \* state of the account's row
  disk,      \* the saved table: its index and row
  expired,   \* entries whose ExpiresAt has passed
  op,        \* what each thread is doing
  fate,      \* what became of each entry (a history variable)
  crashes

vars == <<live, newest, snap, index, row, disk, expired, op, fate, crashes>>

Versions == 0..MaxVer
Rows == {"active", "user_manual", "trashed", "purged"}
Ops ==
  [pc : {"idle", "keep", "mark", "delete", "write", "restored", "sweep", "purge", "save"},
   id : Ids \cup {NoId}, ver : Versions, enable : BOOLEAN, todo : SUBSET Ids]
Idle == [pc |-> "idle", id |-> NoId, ver |-> 0, enable |-> TRUE, todo |-> {}]
At(t, pc) == op[t].pc = pc

\* A sweep that has entries left goes on, any other operation is over.
Done(t) ==
  IF op[t].todo = {} THEN Idle ELSE [Idle EXCEPT !.pc = "sweep", !.todo = op[t].todo]

-----------------------------------------------------------------------------
(* applyTrash and MoveToTrash.                                             *)

\* No file to read: "trash_snapshot_failed", nothing else happens.
MoveRead(t) ==
  /\ At(t, "idle") /\ live # 0
  /\ op' = [op EXCEPT ![t] = [Idle EXCEPT !.pc = "keep", !.ver = live]]
  /\ UNCHANGED <<live, newest, snap, index, row, disk, expired, fate, crashes>>

\* Mutant: a snapshot that could not be written counts as written.
KeepAnyway(t) ==
  /\ At(t, "keep")
  /\ \E id \in Ids :
       /\ fate[id] = "none"
       /\ snap' \in {[snap EXCEPT ![id] = op[t].ver], snap}
       /\ index' = index \cup {id}
       /\ fate' = [fate EXCEPT ![id] = "kept"]
       /\ op' = [op EXCEPT ![t].pc = "mark", ![t].id = id]
  /\ UNCHANGED <<live, newest, row, disk, expired, crashes>>

\* Mutant: a snapshot that failed does not stop the move.
KeepOrNot(t) ==
  /\ At(t, "keep")
  /\ \E id \in Ids :
       /\ fate[id] = "none"
       /\ \/ /\ snap' = [snap EXCEPT ![id] = op[t].ver]
             /\ index' = index \cup {id}
             /\ fate' = [fate EXCEPT ![id] = "kept"]
          \/ UNCHANGED <<snap, index, fate>>
       /\ op' = [op EXCEPT ![t].pc = "mark", ![t].id = id]
  /\ UNCHANGED <<live, newest, row, disk, expired, crashes>>

\* The snapshot is written and listed; if that fails nothing is deleted.
MoveKeep(t) ==
  /\ At(t, "keep")
  /\ \/ \E id \in Ids :
          /\ fate[id] = "none"
          /\ snap' = [snap EXCEPT ![id] = op[t].ver]
          /\ index' = index \cup {id}
          /\ fate' = [fate EXCEPT ![id] = "kept"]
          /\ op' = [op EXCEPT ![t].pc = "mark", ![t].id = id]
     \/ /\ op' = [op EXCEPT ![t] = Idle]
        /\ UNCHANGED <<snap, index, fate>>
  /\ UNCHANGED <<live, newest, row, disk, expired, crashes>>

MoveMark(t) ==
  /\ At(t, "mark")
  /\ row' = "trashed"
  /\ op' = [op EXCEPT ![t].pc = "delete"]
  /\ UNCHANGED <<live, newest, snap, index, disk, expired, fate, crashes>>

\* The CPA deletes whatever the file holds by now, or fails to; either way
\* the entry stays and the table is saved next.
MoveDelete(t) ==
  /\ At(t, "delete")
  /\ live' \in {0, live}
  /\ op' = [op EXCEPT ![t].pc = "save"]
  /\ UNCHANGED <<newest, snap, index, row, disk, expired, fate, crashes>>

-----------------------------------------------------------------------------
(* Restore.                                                                *)

\* Mutant: the entry is only looked up, and removed at the end.
RestoreLookup(t, id, enable) ==
  /\ At(t, "idle") /\ id \in index
  /\ op' = [op EXCEPT ![t] = [Idle EXCEPT !.pc = "write", !.id = id, !.enable = enable]]
  /\ UNCHANGED <<live, newest, snap, index, row, disk, expired, fate, crashes>>

\* RemoveTrash claims the entry: whoever comes second does not find it.
RestoreClaim(t, id, enable) ==
  /\ At(t, "idle") /\ id \in index
  /\ index' = index \ {id}
  /\ op' = [op EXCEPT ![t] = [Idle EXCEPT !.pc = "write", !.id = id, !.enable = enable]]
  /\ UNCHANGED <<live, newest, snap, row, disk, expired, fate, crashes>>

\* The snapshot overwrites the file; if it cannot be read or the file not
\* written, the entry is put back.
RestoreWrite(t) ==
  LET id == op[t].id IN
  /\ At(t, "write")
  /\ \/ /\ snap[id] # 0
        /\ live' = snap[id]
        /\ op' = [op EXCEPT ![t].pc = "restored"]
        /\ UNCHANGED index
     \/ /\ index' = index \cup {id}
        /\ op' = [op EXCEPT ![t] = Idle]
        /\ UNCHANGED live
  /\ UNCHANGED <<newest, snap, row, disk, expired, fate, crashes>>

RestoreFinish(t) ==
  /\ At(t, "restored")
  /\ snap' = [snap EXCEPT ![op[t].id] = 0]
  /\ fate' = [fate EXCEPT ![op[t].id] = "restored"]
  /\ row' = IF op[t].enable THEN "active" ELSE "user_manual"
  /\ op' = [op EXCEPT ![t].pc = "save"]
  /\ UNCHANGED <<live, newest, index, disk, expired, crashes>>

-----------------------------------------------------------------------------
(* Purge, by the panel or in a sweep over what has expired.                *)

PurgeClaim(t, id) ==
  /\ At(t, "idle") /\ id \in index
  /\ index' = index \ {id}
  /\ op' = [op EXCEPT ![t] = [Idle EXCEPT !.pc = "purge", !.id = id]]
  /\ UNCHANGED <<live, newest, snap, row, disk, expired, fate, crashes>>

\* Mutant: the test of the expiry is the wrong way round.
SweepFresh(t) ==
  /\ At(t, "idle") /\ index \ expired # {}
  /\ op' = [op EXCEPT ![t] = [Idle EXCEPT !.pc = "sweep", !.todo = index \ expired]]
  /\ UNCHANGED <<live, newest, snap, index, row, disk, expired, fate, crashes>>

\* PurgeExpired works on a copy of the list.
SweepBegin(t) ==
  /\ At(t, "idle") /\ index \cap expired # {}
  /\ op' = [op EXCEPT ![t] = [Idle EXCEPT !.pc = "sweep", !.todo = index \cap expired]]
  /\ UNCHANGED <<live, newest, snap, index, row, disk, expired, fate, crashes>>

\* An entry that is gone meanwhile ends the whole sweep with an error.
SweepClaim(t) ==
  /\ At(t, "sweep")
  /\ \E id \in op[t].todo :
       IF id \in index
       THEN /\ index' = index \ {id}
            /\ op' = [op EXCEPT ![t] = [Idle EXCEPT !.pc = "purge", !.id = id,
                                                    !.todo = op[t].todo \ {id}]]
       ELSE op' = [op EXCEPT ![t] = Idle] /\ UNCHANGED index
  /\ UNCHANGED <<live, newest, snap, row, disk, expired, fate, crashes>>

\* The row is marked purged whether or not the account has a file.
PurgeFinish(t) ==
  /\ At(t, "purge")
  /\ snap' = [snap EXCEPT ![op[t].id] = 0]
  /\ fate' = [fate EXCEPT ![op[t].id] = "purged"]
  /\ row' = "purged"
  /\ op' = [op EXCEPT ![t].pc = "save"]
  /\ UNCHANGED <<live, newest, index, disk, expired, crashes>>

-----------------------------------------------------------------------------
(* The table's file, the world, a crash.                                   *)

\* Every operation ends with a save; one that fails ends a sweep too.
SaveStep(t) ==
  /\ At(t, "save")
  /\ \/ /\ disk' = [index |-> index, row |-> row]
        /\ op' = [op EXCEPT ![t] = Done(t)]
     \/ /\ op' = [op EXCEPT ![t] = Idle]
        /\ UNCHANGED disk
  /\ UNCHANGED <<live, newest, snap, index, row, expired, fate, crashes>>

\* The rest of the program saves the same table at any time.
SaveElsewhere ==
  /\ disk' = [index |-> index, row |-> row]
  /\ UNCHANGED <<live, newest, snap, index, row, expired, op, fate, crashes>>

Expire(id) ==
  /\ fate[id] = "kept" /\ id \notin expired
  /\ expired' = expired \cup {id}
  /\ UNCHANGED <<live, newest, snap, index, row, disk, op, fate, crashes>>

\* Mutant: one version too many.
UploadMore ==
  /\ newest <= MaxVer
  /\ newest' = newest + 1 /\ live' = newest + 1
  /\ UNCHANGED <<snap, index, row, disk, expired, op, fate, crashes>>

\* The registration backend uploads fresh credentials after a relogin.
Upload ==
  /\ newest < MaxVer
  /\ newest' = newest + 1 /\ live' = newest + 1
  /\ UNCHANGED <<snap, index, row, disk, expired, op, fate, crashes>>

Crash ==
  /\ crashes < MaxCrash
  /\ crashes' = crashes + 1
  /\ index' = disk.index /\ row' = disk.row
  /\ op' = [t \in Threads |-> Idle]
  /\ UNCHANGED <<live, newest, snap, disk, expired, fate>>

-----------------------------------------------------------------------------
Init ==
  /\ live = 1 /\ newest = 1
  /\ snap = [id \in Ids |-> 0] /\ index = {}
  /\ row = "active" /\ disk = [index |-> {}, row |-> "active"]
  /\ expired = {} /\ op = [t \in Threads |-> Idle]
  /\ fate = [id \in Ids |-> "none"] /\ crashes = 0

\* What an operation does once it has begun.
Proceed(t) ==
  \/ MoveKeep(t) \/ MoveMark(t) \/ MoveDelete(t)
  \/ RestoreWrite(t) \/ RestoreFinish(t)
  \/ SweepClaim(t) \/ PurgeFinish(t)
  \/ SaveStep(t)

\* Tick sweeps; a request, or a click in the panel, does any of the rest.
Operate(t) ==
  \/ SweepBegin(t)
  \/ t # Ticker /\ MoveRead(t)
  \/ t # Ticker /\ \E id \in Ids : PurgeClaim(t, id)
  \/ t # Ticker /\ \E id \in Ids, enable \in BOOLEAN : RestoreClaim(t, id, enable)

Next ==
  \/ \E t \in Threads : Operate(t) \/ Proceed(t)
  \/ SaveElsewhere
  \/ \E id \in Ids : Expire(id)
  \/ Upload \/ Crash

Spec == Init /\ [][Next]_vars

\* Operations end, and tick comes round and purges what has expired.
Fairness == (\A t \in Threads : WF_vars(Proceed(t))) /\ WF_vars(SweepBegin(Ticker))
FairSpec == Spec /\ Fairness

-----------------------------------------------------------------------------
TypeOK ==
  /\ live \in Versions /\ newest \in Versions
  /\ snap \in [Ids -> Versions]
  /\ index \subseteq Ids /\ expired \subseteq Ids
  /\ row \in Rows
  /\ disk \in [index : SUBSET Ids, row : Rows]
  /\ op \in [Threads -> Ops]
  /\ fate \in [Ids -> {"none", "kept", "restored", "purged"}]
  /\ crashes \in 0..MaxCrash

\* Without a crash, an entry that is listed can be restored: its snapshot is
\* on the disk, whoever moves, restores, purges and sweeps at the same time.
HeldHasSnapshot == crashes = 0 => \A id \in index : snap[id] # 0

\* MoveToTrash: "If snapshot fails, deleteLive is never called."  Whenever a
\* move deletes the file, what it read is in its snapshot, unless somebody
\* has used the entry meanwhile.
DeletesOnlyWhatItKept ==
  [][\A t \in Threads :
       At(t, "delete") /\ live # 0 /\ live' = 0 /\ op'[t].pc = "save" =>
         \/ snap[op[t].id] = op[t].ver
         \/ fate[op[t].id] \in {"restored", "purged"}]_vars

\* The bin as its users see it: an entry is claimed by one operation at a
\* time and used up once (RemoveTrash is the claim, AddTrash puts back).
Entries == INSTANCE Bin WITH
  entry <- [id \in Ids |->
    IF crashes > 0 THEN "unknown"
    ELSE IF fate[id] # "kept" THEN fate[id]
    ELSE IF id \in index THEN "held" ELSE "taken"]
ClaimedAndUsedOnce == Entries!Spec

\* No entry outlives its retention for ever, although a sweep gives up at the
\* first entry that somebody else has claimed, or at a save that fails: once
\* the clicks on "restore" cease, the sweeps take every expired entry.
RestoresCease == <>[](\A t \in Threads : ~At(t, "write"))
ExpiredLeaves == RestoresCease => \A id \in Ids : []<>~(id \in index /\ id \in expired)
=============================================================================
