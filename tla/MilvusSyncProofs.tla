--------------------------- MODULE MilvusSyncProofs ---------------------------
(***************************************************************************)
(* Proofs about MilvusSync for every set of records, texts, models,        *)
(* servers and tasks, and every bound.                                     *)
(*                                                                         *)
(* The argument: the advisory lock makes the writers of a record take      *)
(* turns (LockInv).  What a writer read under the lock was current then,   *)
(* so it is never ahead of the store, and behind it only if the store      *)
(* moved on since (WriterInv).  Hence an entity is never ahead of the      *)
(* store either (EntityInv), and a version that is confirmed, by an        *)
(* acknowledgement or by a task about to acknowledge it, is the one the    *)
(* collection holds and the only one a task can still write (ConfirmInv).  *)
(***************************************************************************)
EXTENDS MilvusSync, TLAPS

-----------------------------------------------------------------------------
(* The inductive invariant.                                                *)

Busy == {"write", "ack"}
Writing(t, m) == task[t].pc = "write" /\ task[t].mem = m
Acking(t, m) == task[t].pc = "ack" /\ task[t].mem = m

(* A task that writes a record owns its lock.                              *)
LockInv ==
  \A t \in Task : task[t].pc \in Busy =>
     /\ task[t].mem \in Memory
     /\ task[t].pc = "write" => locks[task[t].mem] = t

(* A row read under the lock was a state of the store.                     *)
RowSeen(m, row) ==
  /\ 0 < row.version /\ row.version <= rows[m].version
  /\ row.generation <= meta.generation
  /\ row.version = rows[m].version => row.text = rows[m].text /\ row.deleted = rows[m].deleted

(* A writer has a vector of the row's text, and of the memory model as     *)
(* long as the generation stands; nothing newer can be in the collection.  *)
Equipped(t) ==
  /\ ~task[t].row.deleted => task[t].text = task[t].row.text /\ task[t].text # None
  /\ ~task[t].row.deleted /\ task[t].row.generation = meta.generation
       => hostModel[HostOf[t]] = meta.model
  /\ ~Before(task[t].row, milvus[task[t].mem])

WriterInv ==
  \A t \in Task :
    /\ task[t].pc \in Busy => RowSeen(task[t].mem, task[t].row)
    /\ task[t].pc = "write" => Equipped(t)

(* Neither entities nor acknowledgements are ahead of the store.           *)
EntityInv ==
  \A m \in Memory : /\ rows[m].version = 0 => rows[m] = NoRow
                    /\ milvus[m].version <= rows[m].version
                    /\ milvus[m].generation <= meta.generation
                    /\ acks[m].version <= rows[m].version
                    /\ acks[m].generation <= meta.generation

Current(m, row) == row.version = rows[m].version /\ row.generation = meta.generation

Confirmed(m) == AckCurrent(m) \/ \E t \in Task : Acking(t, m) /\ Current(m, task[t].row)

ConfirmInv ==
  \A m \in Memory : Confirmed(m) =>
    /\ Held(m) \/ m \in purged
    /\ \A t \in Task : Writing(t, m) => Current(m, task[t].row)

IInv ==
  /\ TypeOK
  /\ LockInv
  /\ WriterInv
  /\ EntityInv
  /\ VectorsMatchModel
  /\ ConfirmInv

-----------------------------------------------------------------------------
(* Type correctness.                                                       *)

PC == {"idle", "tick", "pending"} \cup ReconcilePC \cup ApplyPC

(* The row of a task that has read nothing has the type of a row read.     *)
LEMMA UnseenType == Unseen \in Seen
BY StoreAssumption DEF Unseen, Seen, StoreAssumption

(* A task with nothing at hand is well typed at every program counter.     *)
LEMMA AtType ==
  ASSUME NEW pc \in PC
  PROVE  At(pc) \in TaskState
BY UnseenType, SyncAssumption DEF At, PC, TaskState, SyncAssumption

(* A resting task is well typed.                                           *)
LEMMA RestingType == Resting \in TaskState
BY AtType DEF Resting, PC

(* A task about to take the next record of a batch is well typed.          *)
LEMMA NextType ==
  ASSUME NEW todo \in SUBSET Memory
  PROVE  [At("next") EXCEPT !.todo = todo] \in TaskState
BY AtType DEF TaskState, PC, ApplyPC

(* A task that is done with a record is well typed, and has no record.     *)
LEMMA FinishedType ==
  ASSUME TypeOK, NEW t \in Task, NEW m
  PROVE  Finished(t, m) \in TaskState /\ Finished(t, m).pc \in {"idle", "next"}
<1>1. task[t].todo \ {m} \in SUBSET Memory
  BY DEF TypeOK, TaskState
<1>2. QED
  BY <1>1, RestingType, NextType DEF Finished, Resting, At

(* The initial states are well typed.                                      *)
THEOREM TypeInit == Init => TypeOK
BY StoreAssumption, SyncAssumption
   DEF Init, TypeOK, StoreInit, StoreTypeOK, NoRow, NoAck, Row, Ack, Meta, NoEntity, Entity,
       Resting, At, Unseen, Seen, TaskState, ReconcilePC, ApplyPC, WithRecord, NothingRead, NoViewRow, ViewRow,
       ReconState

(* A task that embeds again, or gives up, is well typed.                   *)
LEMMA RacedType ==
  ASSUME TypeOK, NEW t \in Task
  PROVE  /\ Raced(t) \in TaskState
         /\ Raced(t).pc \in {"idle", "next"} \/ Raced(t).mem = task[t].mem
<1>1. CASE task[t].races + 1 < MaxRaces
  <2>1. task[t].races + 1 \in 0..MaxRaces - 1
    BY <1>1, SyncAssumption DEF TypeOK, TaskState, SyncAssumption
  <2>2. Raced(t) = [At("read") EXCEPT !.todo = task[t].todo, !.mem = task[t].mem,
                                      !.races = task[t].races + 1]
    BY <1>1 DEF Raced
  <2>3. At("read") \in TaskState
    BY AtType DEF PC, ApplyPC, WithRecord
  <2>4. task[t].todo \in SUBSET Memory /\ task[t].mem \in Memory \cup {None}
    BY DEF TypeOK, TaskState
  <2>5. QED
    BY <2>1, <2>2, <2>3, <2>4 DEF TaskState
<1>2. CASE ~(task[t].races + 1 < MaxRaces)
  BY <1>2, FinishedType DEF Raced
<1>3. QED
  BY <1>1, <1>2

(* The row a task reads is one it can hold.                                *)
LEMMA ReadType ==
  ASSUME TypeOK, NEW m \in Memory
  PROVE  Read(m) \in Seen
BY StoreAssumption DEF TypeOK, StoreTypeOK, Row, Meta, Read, Seen, StoreAssumption

(* A row below the version bound can be changed.                           *)
LEMMA ChangedType ==
  ASSUME NEW r \in Row, r.version < MaxVersion
  PROVE  /\ Superseded(r) \in Row
         /\ \A t \in Text : [r EXCEPT !.version = @ + 1, !.text = t] \in Row
         /\ [r EXCEPT !.version = @ + 1, !.deleted = TRUE] \in Row
<1>1. r.version + 1 \in 0..MaxVersion
  BY StoreAssumption DEF Row, StoreAssumption
<1>2. QED
  BY <1>1 DEF Row, Superseded

(* A write of the store keeps its tables well typed.                       *)
LEMMA CommitType ==
  ASSUME StoreTypeOK, NEW m \in Memory, NEW row \in Row,
         NEW olds \in SUBSET (Memory \ {m}), Commit(m, row, olds)
  PROVE  StoreTypeOK'
<1>1. rows' \in [Memory -> Row]
  <2>1. ASSUME NEW n \in olds
        PROVE  Superseded(rows[n]) \in Row
    BY ChangedType DEF Commit, StoreTypeOK
  <2>2. QED
    BY <2>1 DEF Commit, StoreTypeOK
<1>2. NoAck \in Ack
  BY StoreAssumption DEF NoAck, Ack, StoreAssumption
<1>3. QED
  BY <1>1, <1>2 DEF Commit, StoreTypeOK

(* Every kind of write of the store keeps its tables well typed.           *)
LEMMA WriteType ==
  ASSUME StoreTypeOK, NEW m \in Memory, Write(m)
  PROVE  StoreTypeOK'
<1>1. ASSUME NEW t \in Text, NEW olds \in SUBSET (Memory \ {m}), Add(m, t, olds)
      PROVE  StoreTypeOK'
  <2>1. [version |-> 1, text |-> t, deleted |-> FALSE] \in Row
    BY StoreAssumption DEF Row, StoreAssumption
  <2>2. QED
    BY <1>1, <2>1, CommitType DEF Add
<1>2. ASSUME NEW t \in Text, NEW olds \in SUBSET (Memory \ {m}), Change(m, t, olds)
      PROVE  StoreTypeOK'
  <2>1. [rows[m] EXCEPT !.version = @ + 1, !.text = t] \in Row
    BY <1>2, ChangedType DEF Change, StoreTypeOK
  <2>2. QED
    BY <1>2, <2>1, CommitType DEF Change
<1>3. ASSUME Delete(m)
      PROVE  StoreTypeOK'
  <2>1. [rows[m] EXCEPT !.version = @ + 1, !.deleted = TRUE] \in Row
    BY <1>3, ChangedType DEF Delete, StoreTypeOK
  <2>2. QED
    BY <1>3, <2>1, CommitType DEF Delete
<1>4. QED
  BY <1>1, <1>2, <1>3 DEF Write

(* An acknowledgement or a reset keeps the table well typed.               *)
LEMMA AcksType ==
  ASSUME StoreTypeOK
  PROVE  /\ \A S : WithoutAcks(S) \in [Memory -> Ack]
         /\ \A m \in Memory, v \in 0..MaxVersion, g \in 0..MaxGeneration :
              AcksAfter(m, v, g) \in [Memory -> Ack]
<1>1. NoAck \in Ack
  BY StoreAssumption DEF NoAck, Ack, StoreAssumption
<1>2. QED
  BY <1>1 DEF StoreTypeOK, WithoutAcks, AcksAfter, Ack

(* What follows a read of the store is well typed.                         *)
LEMMA NothingReadType == NothingRead \in ReconState
BY StoreAssumption DEF NothingRead, NoViewRow, ViewRow, ReconState, StoreAssumption

(* What reconcile reads of the store is well typed.                        *)
LEMMA IndexStateType ==
  ASSUME TypeOK
  PROVE  IndexState \in [Memory -> ViewRow]
BY StoreAssumption DEF TypeOK, StoreTypeOK, Row, Meta, IndexState, ViewRow, StoreAssumption

(* A step that moves one task keeps the tasks well typed when its new      *)
(* state is, and has a record where it needs one.                          *)
TaskOK == /\ task \in [Task -> TaskState]
          /\ \A t \in Task : task[t].pc \in WithRecord => task[t].mem # None

(* A step that moves one task keeps all tasks well typed.                  *)
LEMMA MovesType ==
  ASSUME TypeOK, NEW t \in Task, NEW new \in TaskState,
         new.pc \in WithRecord => new.mem # None,
         task' = [task EXCEPT ![t] = new]
  PROVE  TaskOK'
BY DEF TypeOK, TaskOK

(* Every step keeps the variables well typed.                              *)
THEOREM TypeStep == TypeOK /\ [Next]_vars => TypeOK'
<1> SUFFICES ASSUME TypeOK, [Next]_vars
             PROVE  TypeOK'
  OBVIOUS
<1> USE DEF TypeOK
<1>1. ASSUME NEW t \in Task, NEW m \in Memory, ReadCanonical(t, m)
      PROVE  TypeOK'
  <2>1. [task[t] EXCEPT !.pc = "check", !.mem = m, !.row = Read(m)] \in TaskState
    BY ReadType DEF TaskState, ApplyPC, WithRecord
  <2>2. TaskOK'
    <3>1. CASE blocked[HostOf[t]] \/ ~Exists(m)
      BY <1>1, <3>1, FinishedType, MovesType DEF ReadCanonical, WithRecord
    <3>2. CASE ~(blocked[HostOf[t]] \/ ~Exists(m))
      BY <1>1, <2>1, <3>2, MovesType, StoreAssumption DEF ReadCanonical, StoreAssumption, TaskState
    <3>3. QED
      BY <3>1, <3>2
  <2>3. QED
    BY <1>1, <2>2 DEF ReadCanonical, StoreTypeOK, TaskOK
<1>2. ASSUME NEW t \in Task, CheckAndEmbed(t)
      PROVE  TypeOK'
  <2>1. task[t].row.text \in Text \cup {None}
    BY DEF TaskState, Seen
  <2>2. \A x \in Text \cup {None} :
          [task[t] EXCEPT !.pc = "lock", !.text = x] \in TaskState
    BY DEF TaskState, ApplyPC, WithRecord
  <2>3. QED
    BY <1>2, <2>1, <2>2, FinishedType DEF CheckAndEmbed, StoreTypeOK, WithRecord, TaskState
<1>3. ASSUME NEW t \in Task, LockAndRead(t)
      PROVE  TypeOK'
  <2>1. task[t].mem \in Memory
    BY <1>3 DEF LockAndRead, TaskState, WithRecord
  <2>2. [task[t] EXCEPT !.pc = "write", !.row = Read(task[t].mem)] \in TaskState
    BY <2>1, ReadType DEF TaskState, ApplyPC, WithRecord
  <2>3. TaskOK'
    <3>1. CASE task' = [task EXCEPT ![t] = Raced(t)]
      BY <1>3, <2>1, <3>1, RacedType, MovesType, StoreAssumption
         DEF LockAndRead, WithRecord, StoreAssumption
    <3>2. CASE task' = [task EXCEPT ![t] = [task[t] EXCEPT !.pc = "write", !.row = Read(task[t].mem)]]
      BY <2>1, <2>2, <3>2, MovesType, StoreAssumption DEF StoreAssumption, TaskState
    <3>3. QED
      BY <1>3, <3>1, <3>2 DEF LockAndRead
  <2>4. locks' \in [Memory -> Task \cup {None}]
    BY <1>3 DEF LockAndRead
  <2>5. blocked' \in [Host -> BOOLEAN]
    BY <1>3 DEF LockAndRead, RefreshBlock, Mismatch
  <2>6. QED
    BY <1>3, <2>3, <2>4, <2>5 DEF LockAndRead, StoreTypeOK, TaskOK
<1>4. ASSUME NEW t \in Task, MilvusWrite(t)
      PROVE  TypeOK'
  <2>1. /\ NoEntity \in Entity
        /\ [version |-> task[t].row.version, generation |-> task[t].row.generation,
            text |-> task[t].text, model |-> hostModel[HostOf[t]]] \in Entity
    BY StoreAssumption, SyncAssumption
       DEF NoEntity, Entity, TaskState, Seen, StoreAssumption, SyncAssumption
  <2>2. [task[t] EXCEPT !.pc = "ack"] \in TaskState
    BY DEF TaskState, ApplyPC, WithRecord
  <2>3. TaskOK'
    BY <1>4, <2>2, MovesType DEF MilvusWrite, WithRecord, TaskState
  <2>4. milvus' \in [Memory -> Entity]
    BY <1>4, <2>1 DEF MilvusWrite
  <2>5. locks' \in [Memory -> Task \cup {None}] /\ purged' \subseteq Memory
    BY <1>4 DEF MilvusWrite
  <2>6. QED
    BY <1>4, <2>3, <2>4, <2>5 DEF MilvusWrite, StoreTypeOK, TaskOK
<1>5. ASSUME NEW t \in Task, Acknowledge(t)
      PROVE  TypeOK'
  <2>1. acks' \in [Memory -> Ack]
    <3>1. /\ task[t].mem \in Memory
          /\ task[t].row.version \in 0..MaxVersion
          /\ task[t].row.generation \in 0..MaxGeneration
      BY <1>5 DEF Acknowledge, TaskState, Seen, WithRecord
    <3>2. QED
      BY <1>5, <3>1, AcksType DEF Acknowledge
  <2>2. TaskOK'
    BY <1>5, FinishedType, MovesType DEF Acknowledge, WithRecord
  <2>3. QED
    BY <1>5, <2>1, <2>2 DEF Acknowledge, StoreTypeOK, TaskOK
<1>6. ASSUME NEW t \in Sync, StartTick(t)
      PROVE  TypeOK'
  <2>1. TaskOK'
    BY <1>6, AtType, MovesType DEF StartTick, PC, WithRecord, At, Task
  <2>2. QED
    BY <1>6, <2>1 DEF StartTick, RefreshBlock, Mismatch, StoreTypeOK, TaskOK
<1>7. ASSUME NEW t \in Sync, TakeBatch(t)
      PROVE  TypeOK'
  <2>1. PendingVectors \in SUBSET Memory
    BY DEF PendingVectors
  <2>2. TaskOK'
    <3>1. CASE task' = [task EXCEPT ![t] = Resting]
      BY <3>1, RestingType, MovesType DEF Resting, At, WithRecord, Task
    <3>2. CASE task' = [task EXCEPT ![t] = [At("next") EXCEPT !.todo = PendingVectors]]
      BY <2>1, <3>2, NextType, MovesType DEF At, WithRecord, Task
    <3>3. QED
      BY <1>7, <3>1, <3>2 DEF TakeBatch
  <2>3. QED
    BY <1>7, <2>2 DEF TakeBatch, StoreTypeOK, TaskOK
<1>8. ASSUME NEW t \in Sync, StartReconcile(t)
      PROVE  TypeOK'
  <2>1. [NothingRead EXCEPT !.view = IndexState] \in ReconState
    BY NothingReadType, IndexStateType DEF ReconState
  <2>2. TaskOK'
    BY <1>8, AtType, MovesType DEF StartReconcile, PC, ReconcilePC, WithRecord, At, Task
  <2>3. QED
    BY <1>8, <2>1, <2>2 DEF StartReconcile, StoreTypeOK, TaskOK
<1>9. ASSUME NEW t \in Sync, RefreshForReconcile(t)
      PROVE  TypeOK'
  <2>1. TaskOK'
    <3>1. \A pc \in {"tick", "scan"} : At(pc) \in TaskState /\ At(pc).pc \notin WithRecord
      BY AtType DEF At, PC, ReconcilePC, WithRecord
    <3>2. QED
      BY <1>9, <3>1, MovesType DEF RefreshForReconcile, Task
  <2>2. recon' \in [Sync -> ReconState]
    BY <1>9, NothingReadType DEF RefreshForReconcile
  <2>3. QED
    BY <1>9, <2>1, <2>2 DEF RefreshForReconcile, RefreshBlock, Mismatch, StoreTypeOK, TaskOK
<1>10. ASSUME NEW t \in Sync, ScanMilvus(t)
       PROVE  TypeOK'
  <2>1. [NothingRead EXCEPT !.stale = Stale(recon[t].view),
                            !.strays = Strays(recon[t].view)] \in ReconState
    BY NothingReadType DEF ReconState, Stale, Strays
  <2>2. TaskOK'
    <3>1. \A pc \in {"purge", "reset", "tick"} : At(pc) \in TaskState /\ At(pc).pc \notin WithRecord
      BY AtType DEF At, PC, ReconcilePC, WithRecord
    <3>2. QED
      BY <1>10, <3>1, MovesType DEF ScanMilvus, Task
  <2>3. QED
    BY <1>10, <2>1, <2>2 DEF ScanMilvus, StoreTypeOK, TaskOK
<1>11. ASSUME NEW t \in Sync, PurgeStrays(t)
       PROVE  TypeOK'
  <2>1. NoEntity \in Entity
    BY StoreAssumption DEF NoEntity, Entity, StoreAssumption
  <2>2. [NothingRead EXCEPT !.stale = recon[t].stale] \in ReconState
    BY NothingReadType DEF ReconState
  <2>3. TaskOK'
    <3>1. \A pc \in {"reset", "tick"} : At(pc) \in TaskState /\ At(pc).pc \notin WithRecord
      BY AtType DEF At, PC, ReconcilePC, WithRecord
    <3>2. QED
      BY <1>11, <3>1, MovesType DEF PurgeStrays, Task
  <2>4. milvus' \in [Memory -> Entity] /\ purged' \subseteq Memory
    BY <1>11, <2>1 DEF PurgeStrays, ReconState
  <2>5. QED
    BY <1>11, <2>2, <2>3, <2>4 DEF PurgeStrays, StoreTypeOK, TaskOK
<1>12. ASSUME NEW t \in Sync, ResetStale(t)
       PROVE  TypeOK'
  <2>1. TaskOK'
    BY <1>12, AtType, MovesType DEF ResetStale, PC, WithRecord, At, Task
  <2>2. QED
    BY <1>12, <2>1, AcksType, NothingReadType DEF ResetStale, StoreTypeOK, TaskOK
<1>13. ASSUME NEW m \in Memory, CliWrite(m)
       PROVE  TypeOK'
  BY <1>13, WriteType DEF CliWrite
<1>14. ASSUME NEW m \in Memory, LoseEntity(m)
       PROVE  TypeOK'
  <2>1. NoEntity \in Entity
    BY StoreAssumption DEF NoEntity, Entity, StoreAssumption
  <2>2. QED
    BY <1>14, <2>1, SyncAssumption DEF LoseEntity, Fault, StoreTypeOK, SyncAssumption
<1>15. ASSUME NEW S \in SUBSET Memory, OperatorReset(S)
       PROVE  TypeOK'
  BY <1>15, AcksType, SyncAssumption DEF OperatorReset, ResetAcks, Fault, StoreTypeOK, SyncAssumption
<1>16. ASSUME NEW t \in Service, NEW m \in Memory, ServiceWrite(t, m)
       PROVE  TypeOK'
  <2>1. TaskOK'
    BY <1>16, NextType, MovesType DEF ServiceWrite, At, WithRecord, Task
  <2>2. StoreTypeOK'
    BY <1>16, WriteType DEF ServiceWrite, Repeat, storeVars, StoreTypeOK
  <2>3. QED
    BY <1>16, <2>1, <2>2 DEF ServiceWrite, TaskOK
<1>17. ASSUME NEW t \in Task, RecordFails(t)
       PROVE  TypeOK'
  <2>1. TaskOK'
    BY <1>17, FinishedType, MovesType DEF RecordFails, WithRecord
  <2>2. locks' \in [Memory -> Task \cup {None}]
    BY <1>17 DEF RecordFails, Released
  <2>3. faults' \in 0..MaxFaults
    BY <1>17, SyncAssumption DEF RecordFails, Fault, SyncAssumption
  <2>4. QED
    BY <1>17, <2>1, <2>2, <2>3 DEF RecordFails, StoreTypeOK, TaskOK
<1>18. ASSUME NEW t \in Task, PassFails(t)
       PROVE  TypeOK'
  <2>1. TaskOK'
    <3>1. At("tick") \in TaskState /\ At("tick").pc \notin WithRecord
      BY AtType DEF At, PC, WithRecord
    <3>2. Resting \in TaskState /\ Resting.pc \notin WithRecord
      BY RestingType DEF Resting, At, WithRecord
    <3>3. QED
      BY <1>18, <3>1, <3>2, MovesType DEF PassFails
  <2>2. locks' \in [Memory -> Task \cup {None}]
    BY <1>18 DEF PassFails, Released
  <2>3. faults' \in 0..MaxFaults
    BY <1>18, SyncAssumption DEF PassFails, Fault, SyncAssumption
  <2>4. recon' \in [Sync -> ReconState]
    BY <1>18, NothingReadType DEF PassFails
  <2>5. QED
    BY <1>18, <2>1, <2>2, <2>3, <2>4 DEF PassFails, StoreTypeOK, TaskOK
<1>19. ASSUME NEW h \in Host, NEW model \in Model, Restart(h, model)
       PROVE  TypeOK'
  <2>1. TaskOK'
    BY <1>19, RestingType DEF Restart, TaskOK, Resting, At, WithRecord
  <2>2. locks' \in [Memory -> Task \cup {None}]
    BY <1>19 DEF Restart
  <2>3. faults' \in 0..MaxFaults
    BY <1>19, SyncAssumption DEF Restart, Fault, SyncAssumption
  <2>4. recon' \in [Sync -> ReconState]
    BY <1>19, NothingReadType DEF Restart
  <2>5. QED
    BY <1>19, <2>1, <2>2, <2>3, <2>4 DEF Restart, StoreTypeOK, TaskOK
<1>20. ASSUME NEW model \in Model, Reembed(model)
       PROVE  TypeOK'
  <2>1. meta' \in Meta
    BY <1>20, StoreAssumption DEF Reembed, BumpGeneration, Meta, StoreTypeOK, StoreAssumption
  <2>2. QED
    BY <1>20, <2>1 DEF Reembed, BumpGeneration, StoreTypeOK
<1>21. CASE UNCHANGED vars
  BY <1>21 DEF vars, StoreTypeOK
<1>22. QED
  BY <1>1, <1>2, <1>3, <1>4, <1>5, <1>6, <1>7, <1>8, <1>9, <1>10, <1>11, <1>12, <1>13, <1>14,
     <1>15, <1>16, <1>17, <1>18, <1>19, <1>20, <1>21
     DEF Next, ApplyStep, TickStep, ReconcileStep, Environment

(* In every reachable state the variables have their types, and a task in  *)
(* the middle of an apply has a record.                                    *)
THEOREM TypeCorrect == Spec => []TypeOK
<1>1. QED
  BY TypeInit, TypeStep, PTL DEF Spec

-----------------------------------------------------------------------------
(* The kinds of steps.  Most actions neither write nor acknowledge.        *)

(* Writers and acknowledgers stay as they are, or stop.                    *)
TasksKept ==
  \A t \in Task : task'[t].pc \in Busy =>
    /\ task'[t] = task[t]
    /\ hostModel'[HostOf[t]] = hostModel[HostOf[t]]
    /\ \A m \in Memory : locks[m] = t => locks'[m] = t

(* The store keeps its rows; acknowledgements and entities may go.         *)
Calm ==
  /\ rows' = rows /\ meta' = meta
  /\ \A m \in Memory : acks'[m] = acks[m] \/ acks'[m] = NoAck
  /\ \A m \in Memory : \/ milvus'[m] = milvus[m] /\ (m \in purged <=> m \in purged')
                       \/ milvus'[m] = NoEntity /\ m \in purged'
  /\ TasksKept

(* Rows gain versions and lose their acknowledgements; a tombstone stays.  *)
Written ==
  /\ UNCHANGED <<meta, milvus, purged>>
  /\ \A m \in Memory : \/ rows'[m] = rows[m] /\ acks'[m] = acks[m]
                       \/ rows[m].version < rows'[m].version /\ acks'[m] = NoAck
  /\ \A m \in Memory : Exists(m) /\ rows[m].deleted => rows'[m] = rows[m]
  /\ TasksKept

(* A task that stops writing or acknowledging leaves the others as they are.*)
LEMMA MovesKept ==
  ASSUME TypeOK, NEW t \in Task, NEW new, new.pc \notin Busy,
         task' = [task EXCEPT ![t] = new], UNCHANGED <<hostModel>>,
         \A m \in Memory : locks'[m] = locks[m] \/ locks[m] = t
  PROVE  TasksKept
<1>1. ASSUME NEW x \in Task, task'[x].pc \in Busy
      PROVE  x # t /\ task'[x] = task[x]
  BY <1>1 DEF TypeOK
<1>2. QED
  BY <1>1 DEF TasksKept

(* A write gives new versions to the rows it changes and drops their       *)
(* acknowledgements.                                                       *)
LEMMA WriteKind ==
  ASSUME StoreTypeOK, NEW m \in Memory, Write(m)
  PROVE  /\ UNCHANGED meta
         /\ \A n \in Memory : \/ rows'[n] = rows[n] /\ acks'[n] = acks[n]
                              \/ rows[n].version < rows'[n].version /\ acks'[n] = NoAck
<1>1. ASSUME NEW row \in Row, NEW olds \in SUBSET (Memory \ {m}), Commit(m, row, olds),
             rows[m].version < row.version
      PROVE  /\ UNCHANGED meta
             /\ \A n \in Memory : \/ rows'[n] = rows[n] /\ acks'[n] = acks[n]
                                  \/ rows[n].version < rows'[n].version /\ acks'[n] = NoAck
  <2>1. \A n \in Memory : rows[n] \in Row /\ rows[n].version < Superseded(rows[n]).version
    BY StoreAssumption DEF StoreTypeOK, Row, Superseded, StoreAssumption
  <2>2. QED
    BY <1>1, <2>1 DEF Commit, StoreTypeOK
<1>2. ASSUME NEW t \in Text, NEW olds \in SUBSET (Memory \ {m}), Add(m, t, olds)
      PROVE  \E row \in Row : Commit(m, row, olds) /\ rows[m].version < row.version
  <2>1. rows[m].version < 1
    BY <1>2, StoreAssumption DEF Add, Exists, StoreTypeOK, Row, StoreAssumption
  <2>2. [version |-> 1, text |-> t, deleted |-> FALSE] \in Row
    BY StoreAssumption DEF Row, StoreAssumption
  <2>3. QED
    BY <1>2, <2>1, <2>2 DEF Add
<1>3. ASSUME NEW t \in Text, NEW olds \in SUBSET (Memory \ {m}), Change(m, t, olds)
      PROVE  \E row \in Row : Commit(m, row, olds) /\ rows[m].version < row.version
  <2>1. rows[m] \in Row /\ rows[m].version < MaxVersion
    BY <1>3 DEF Change, StoreTypeOK
  <2>2. [rows[m] EXCEPT !.version = @ + 1, !.text = t] \in Row
    BY <2>1, ChangedType
  <2>3. rows[m].version < [rows[m] EXCEPT !.version = @ + 1, !.text = t].version
    BY <2>1, StoreAssumption DEF Row, StoreAssumption
  <2>4. QED
    BY <1>3, <2>2, <2>3 DEF Change
<1>4. ASSUME Delete(m)
      PROVE  \E row \in Row : Commit(m, row, {}) /\ rows[m].version < row.version
  <2>1. rows[m] \in Row /\ rows[m].version < MaxVersion
    BY <1>4 DEF Delete, StoreTypeOK
  <2>2. [rows[m] EXCEPT !.version = @ + 1, !.deleted = TRUE] \in Row
    BY <2>1, ChangedType
  <2>3. rows[m].version < [rows[m] EXCEPT !.version = @ + 1, !.deleted = TRUE].version
    BY <2>1, StoreAssumption DEF Row, StoreAssumption
  <2>4. QED
    BY <1>4, <2>2, <2>3 DEF Delete
<1>5. QED
  BY <1>1, <1>2, <1>3, <1>4 DEF Write

(* No write changes a deleted row.                                         *)
LEMMA TombstoneKept ==
  ASSUME NEW m \in Memory, Write(m), NEW n \in Memory, Exists(n), rows[n].deleted
  PROVE  rows'[n] = rows[n]
BY DEF Write, Add, Change, Delete, Commit, Live

(* A task that takes the lock, with the row it reads under it.             *)
Locks(t) == LockAndRead(t) /\ MayWrite(t, task[t].mem)

(* Every step is calm, writes rows, or is one of the steps of a writer.    *)
LEMMA StepKinds ==
  ASSUME TypeOK, [Next]_vars
  PROVE  \/ Calm
         \/ Written
         \/ \E t \in Task : Locks(t) \/ MilvusWrite(t) \/ Acknowledge(t)
         \/ \E model \in Model : Reembed(model)
<1>1. ASSUME NEW t \in Task, NEW m \in Memory, ReadCanonical(t, m)
      PROVE  Calm
  <2>1. TasksKept
    <3>1. Finished(t, m).pc \notin Busy
      BY FinishedType DEF Busy
    <3>2. [task[t] EXCEPT !.pc = "check", !.mem = m, !.row = Read(m)].pc \notin Busy
      BY DEF Busy, TypeOK, TaskState
    <3>3. QED
      BY <1>1, <3>1, <3>2, MovesKept DEF ReadCanonical
  <2>2. QED
    BY <1>1, <2>1 DEF ReadCanonical, Calm
<1>2. ASSUME NEW t \in Task, CheckAndEmbed(t)
      PROVE  Calm
  <2>1. TasksKept
    <3>1. Finished(t, task[t].mem).pc \notin Busy
      BY FinishedType DEF Busy
    <3>2. \A x : [task[t] EXCEPT !.pc = "lock", !.text = x].pc \notin Busy
      BY DEF Busy, TypeOK, TaskState
    <3>3. QED
      BY <1>2, <3>1, <3>2, MovesKept DEF CheckAndEmbed
  <2>2. QED
    BY <1>2, <2>1 DEF CheckAndEmbed, Calm
<1>3. ASSUME NEW t \in Task, LockAndRead(t), ~MayWrite(t, task[t].mem)
      PROVE  Calm
  <2>1. Raced(t).pc \notin Busy
    BY FinishedType DEF Raced, At, Busy
  <2>2. TasksKept
    BY <1>3, <2>1, MovesKept DEF LockAndRead
  <2>3. QED
    BY <1>3, <2>2 DEF LockAndRead, Calm
<1>4. ASSUME NEW t \in Sync, StartTick(t) \/ TakeBatch(t) \/ StartReconcile(t)
                             \/ RefreshForReconcile(t) \/ ScanMilvus(t)
      PROVE  Calm
  <2>1. \A pc \in {"idle", "tick", "pending", "refresh", "scan", "purge", "reset", "next"} :
          At(pc).pc \notin Busy /\ [At(pc) EXCEPT !.todo = PendingVectors].pc \notin Busy
    BY DEF At, Busy
  <2>2. TasksKept
    <3>1. CASE StartTick(t)
      BY <2>1, <3>1, MovesKept DEF StartTick, Task
    <3>2. CASE TakeBatch(t)
      BY <2>1, <3>2, MovesKept DEF TakeBatch, Task, Resting
    <3>3. CASE StartReconcile(t)
      BY <2>1, <3>3, MovesKept DEF StartReconcile, Task
    <3>4. CASE RefreshForReconcile(t)
      BY <2>1, <3>4, MovesKept DEF RefreshForReconcile, Task
    <3>5. CASE ScanMilvus(t)
      BY <2>1, <3>5, MovesKept DEF ScanMilvus, Task
    <3>6. QED
      BY <1>4, <3>1, <3>2, <3>3, <3>4, <3>5
  <2>3. QED
    BY <1>4, <2>2 DEF StartTick, TakeBatch, StartReconcile, RefreshForReconcile, ScanMilvus, Calm
<1>5. ASSUME NEW t \in Sync, PurgeStrays(t)
      PROVE  Calm
  <2>1. \A pc \in {"reset", "tick"} : At(pc).pc \notin Busy
    BY DEF At, Busy
  <2>2. TasksKept
    BY <1>5, <2>1, MovesKept DEF PurgeStrays, Task
  <2>3. QED
    BY <1>5, <2>2 DEF PurgeStrays, Calm
<1>6. ASSUME NEW t \in Sync, ResetStale(t)
      PROVE  Calm
  <2>1. TasksKept
    BY <1>6, MovesKept DEF ResetStale, At, Busy, Task
  <2>2. QED
    BY <1>6, <2>1 DEF ResetStale, WithoutAcks, Calm
<1>7. ASSUME NEW t \in Task, RecordFails(t)
      PROVE  Calm
  <2>1. TasksKept
    <3>1. PICK m : task' = [task EXCEPT ![t] = Finished(t, m)]
      BY <1>7 DEF RecordFails
    <3>2. Finished(t, m).pc \notin Busy
      BY FinishedType DEF Busy
    <3>3. QED
      BY <1>7, <3>1, <3>2, MovesKept DEF RecordFails, Released
  <2>2. QED
    BY <1>7, <2>1 DEF RecordFails, Calm
<1>8. ASSUME NEW t \in Task, PassFails(t)
      PROVE  Calm
  <2>1. At("tick").pc \notin Busy /\ Resting.pc \notin Busy
    BY DEF At, Resting, Busy
  <2>2. TasksKept
    BY <1>8, <2>1, MovesKept DEF PassFails, Released
  <2>3. QED
    BY <1>8, <2>2 DEF PassFails, Calm
<1>9. ASSUME NEW h \in Host, NEW model \in Model, Restart(h, model)
      PROVE  Calm
  <2>1. ASSUME NEW t \in Task, task'[t].pc \in Busy
        PROVE  HostOf[t] # h /\ task'[t] = task[t]
    BY <1>9, <2>1 DEF Restart, Resting, At, Busy
  <2>2. TasksKept
    BY <1>9, <2>1, SyncAssumption DEF Restart, TasksKept, TypeOK, SyncAssumption
  <2>3. QED
    BY <1>9, <2>2 DEF Restart, Calm
<1>10. ASSUME \/ \E m \in Memory : LoseEntity(m)
              \/ \E S : OperatorReset(S)
              \/ UNCHANGED vars
       PROVE  Calm
  <2>1. TasksKept
    BY <1>10 DEF LoseEntity, OperatorReset, vars, TasksKept
  <2>2. QED
    BY <1>10, <2>1 DEF LoseEntity, OperatorReset, ResetAcks, WithoutAcks, vars, Calm, TypeOK,
       StoreTypeOK
<1>11. ASSUME NEW m \in Memory, CliWrite(m)
       PROVE  Written
  <2>1. TasksKept
    BY <1>11 DEF CliWrite, TasksKept
  <2>2. QED
    BY <1>11, <2>1, WriteKind, TombstoneKept DEF CliWrite, Written, TypeOK
<1>12. ASSUME NEW t \in Service, NEW m \in Memory, ServiceWrite(t, m)
       PROVE  Written
  <2>1. TasksKept
    <3>1. [At("next") EXCEPT !.todo = {m}].pc \notin Busy
      BY DEF At, Busy
    <3>2. QED
      BY <1>12, <3>1, MovesKept DEF ServiceWrite, Task
  <2>2. QED
    BY <1>12, <2>1, WriteKind, TombstoneKept DEF ServiceWrite, Repeat, storeVars, Written, TypeOK
<1>13. ASSUME NEW t \in Task, LockAndRead(t), MayWrite(t, task[t].mem)
       PROVE  Locks(t)
  BY <1>13 DEF Locks
<1>14. QED
  BY <1>1, <1>2, <1>3, <1>4, <1>5, <1>6, <1>7, <1>8, <1>9, <1>10, <1>11, <1>12, <1>13
     DEF Next, ApplyStep, TickStep, ReconcileStep, Environment

-----------------------------------------------------------------------------
(* Each part of the invariant is preserved.                                *)

(* The numbers that versions and generations are.                          *)
LEMMA Numbers ==
  ASSUME TypeOK
  PROVE  /\ meta.generation \in Nat
         /\ \A m \in Memory : /\ rows[m].version \in Nat
                              /\ milvus[m].version \in Nat /\ milvus[m].generation \in Nat
                              /\ acks[m].version \in Nat /\ acks[m].generation \in Nat
         /\ \A t \in Task : task[t].row.version \in Nat /\ task[t].row.generation \in Nat
BY StoreAssumption
   DEF TypeOK, StoreTypeOK, Row, Ack, Meta, Entity, TaskState, Seen, StoreAssumption

(* The lock keeps the writers of a record apart.                           *)
LEMMA LockStep == IInv /\ [Next]_vars => LockInv'
<1> SUFFICES ASSUME IInv, [Next]_vars
             PROVE  LockInv'
  OBVIOUS
<1>1. CASE Calm \/ Written
  BY <1>1 DEF Calm, Written, TasksKept, IInv, LockInv, Busy
<1>2. ASSUME NEW t \in Task, Locks(t)
      PROVE  LockInv'
  <2>1. task[t].mem \in Memory /\ locks[task[t].mem] = None
    BY <1>2 DEF Locks, LockAndRead, LockFree, IInv, TypeOK, TaskState, WithRecord
  <2>2. /\ task' = [task EXCEPT ![t] = [task[t] EXCEPT !.pc = "write", !.row = Read(task[t].mem)]]
        /\ locks' = [locks EXCEPT ![task[t].mem] = t]
    BY <1>2 DEF Locks, LockAndRead
  <2>3. ASSUME NEW x \in Task, task'[x].pc \in Busy
        PROVE  /\ task'[x].mem \in Memory
               /\ task'[x].pc = "write" => locks'[task'[x].mem] = x
    <3>1. CASE x = t
      BY <2>1, <2>2, <3>1 DEF IInv, TypeOK, TaskState
    <3>2. CASE x # t
      BY <2>1, <2>2, <2>3, <3>2, SyncAssumption DEF IInv, LockInv, TypeOK, SyncAssumption
    <3>3. QED
      BY <3>1, <3>2
  <2>4. QED
    BY <2>3 DEF LockInv
<1>3. ASSUME NEW t \in Task, MilvusWrite(t)
      PROVE  LockInv'
  <2>1. /\ task[t].pc = "write" /\ task[t].mem \in Memory /\ locks[task[t].mem] = t
        /\ task' = [task EXCEPT ![t] = [task[t] EXCEPT !.pc = "ack"]]
        /\ locks' = [locks EXCEPT ![task[t].mem] = None]
    BY <1>3 DEF MilvusWrite, IInv, LockInv, Busy
  <2>2. ASSUME NEW x \in Task, task'[x].pc \in Busy
        PROVE  /\ task'[x].mem \in Memory
               /\ task'[x].pc = "write" => locks'[task'[x].mem] = x
    <3>1. CASE x = t
      BY <2>1, <3>1 DEF IInv, TypeOK, TaskState
    <3>2. CASE x # t
      BY <2>1, <2>2, <3>2 DEF IInv, LockInv, TypeOK
    <3>3. QED
      BY <3>1, <3>2
  <2>3. QED
    BY <2>2 DEF LockInv
<1>4. ASSUME NEW t \in Task, Acknowledge(t)
      PROVE  LockInv'
  <2>1. Finished(t, task[t].mem).pc \notin Busy
    BY FinishedType DEF Busy, IInv
  <2>2. QED
    BY <1>4, <2>1 DEF Acknowledge, IInv, LockInv, TypeOK
<1>5. ASSUME NEW model \in Model, Reembed(model)
      PROVE  LockInv'
  BY <1>5 DEF Reembed, IInv, LockInv
<1>6. QED
  BY <1>1, <1>2, <1>3, <1>4, <1>5, StepKinds DEF IInv

(* No entity or acknowledgement gets ahead of the store, and the vectors   *)
(* of the generation keep its model.                                       *)
LEMMA EntityStep == IInv /\ [Next]_vars => EntityInv' /\ VectorsMatchModel'
<1> SUFFICES ASSUME IInv, [Next]_vars
             PROVE  EntityInv' /\ VectorsMatchModel'
  OBVIOUS
<1> USE Numbers DEF IInv
<1>1. CASE Calm
  BY <1>1 DEF Calm, EntityInv, VectorsMatchModel, NoAck, NoEntity
<1>2. CASE Written
  <2>1. TypeOK'
    BY TypeStep
  <2>2. \A m \in Memory : rows'[m].version \in Nat
    BY <2>1, StoreAssumption DEF TypeOK, StoreTypeOK, Row, StoreAssumption
  <2>3. QED
    BY <1>2, <2>2 DEF Written, EntityInv, VectorsMatchModel, NoAck
<1>3. ASSUME NEW t \in Task, Locks(t)
      PROVE  EntityInv' /\ VectorsMatchModel'
  BY <1>3 DEF Locks, LockAndRead, EntityInv, VectorsMatchModel
<1>4. ASSUME NEW t \in Task, MilvusWrite(t)
      PROVE  EntityInv' /\ VectorsMatchModel'
  <2>1. /\ task[t].mem \in Memory
        /\ RowSeen(task[t].mem, task[t].row)
        /\ ~task[t].row.deleted /\ task[t].row.generation = meta.generation
             => hostModel[HostOf[t]] = meta.model
    BY <1>4 DEF MilvusWrite, LockInv, WriterInv, Equipped, Busy
  <2>2. QED
    BY <1>4, <2>1 DEF MilvusWrite, RowSeen, EntityInv, VectorsMatchModel, NoEntity, TypeOK
<1>5. ASSUME NEW t \in Task, Acknowledge(t)
      PROVE  EntityInv' /\ VectorsMatchModel'
  <2>1. task[t].mem \in Memory /\ RowSeen(task[t].mem, task[t].row)
    BY <1>5 DEF Acknowledge, LockInv, WriterInv, Busy
  <2>2. QED
    BY <1>5, <2>1 DEF Acknowledge, AcksAfter, RowSeen, EntityInv, VectorsMatchModel, TypeOK,
       StoreTypeOK
<1>6. ASSUME NEW model \in Model, Reembed(model)
      PROVE  EntityInv' /\ VectorsMatchModel'
  BY <1>6 DEF Reembed, BumpGeneration, EntityInv, VectorsMatchModel
<1>7. QED
  BY <1>1, <1>2, <1>3, <1>4, <1>5, <1>6, StepKinds

(* What a writer read stays a past state of the store, and no entity gets  *)
(* ahead of it.                                                            *)
LEMMA WriterStep == IInv /\ [Next]_vars => WriterInv'
<1> SUFFICES ASSUME IInv, [Next]_vars
             PROVE  WriterInv'
  OBVIOUS
<1> USE Numbers DEF IInv
<1>1. CASE Calm
  <2>1. ASSUME NEW x \in Task, task'[x].pc \in Busy
        PROVE  /\ RowSeen(task[x].mem, task[x].row)'
               /\ task'[x].pc = "write" => Equipped(x)'
    <3>1. task'[x] = task[x] /\ hostModel'[HostOf[x]] = hostModel[HostOf[x]]
      BY <1>1, <2>1 DEF Calm, TasksKept
    <3>2. task[x].mem \in Memory /\ RowSeen(task[x].mem, task[x].row)
      BY <2>1, <3>1 DEF LockInv, WriterInv
    <3>3. RowSeen(task[x].mem, task[x].row)'
      BY <1>1, <3>1, <3>2 DEF Calm, RowSeen
    <3>4. ASSUME task'[x].pc = "write"
          PROVE  Equipped(x)'
      <4>1. Equipped(x)
        BY <2>1, <3>1, <3>4 DEF WriterInv
      <4>2. ~Before(task[x].row, milvus'[task[x].mem])
        BY <1>1, <3>2, <4>1 DEF Calm, Equipped, Before, NoEntity, RowSeen
      <4>3. QED
        BY <1>1, <3>1, <4>1, <4>2 DEF Calm, Equipped, Before
    <3>5. QED
      BY <3>3, <3>4
  <2>2. QED
    BY <2>1 DEF WriterInv, Busy
<1>2. CASE Written
  <2>1. ASSUME NEW x \in Task, task'[x].pc \in Busy
        PROVE  /\ RowSeen(task[x].mem, task[x].row)'
               /\ task'[x].pc = "write" => Equipped(x)'
    <3>1. task'[x] = task[x] /\ hostModel'[HostOf[x]] = hostModel[HostOf[x]]
      BY <1>2, <2>1 DEF Written, TasksKept
    <3>2. task[x].mem \in Memory /\ RowSeen(task[x].mem, task[x].row)
      BY <2>1, <3>1 DEF LockInv, WriterInv
    <3>3. rows'[task[x].mem].version \in Nat
      BY <3>2, TypeStep, StoreAssumption DEF TypeOK, StoreTypeOK, Row, StoreAssumption
    <3>4. RowSeen(task[x].mem, task[x].row)'
      BY <1>2, <3>1, <3>2, <3>3 DEF Written, RowSeen
    <3>5. QED
      BY <1>2, <3>1, <3>4, <2>1 DEF Written, WriterInv, Equipped, Before
  <2>2. QED
    BY <2>1 DEF WriterInv, Busy
<1>3. ASSUME NEW t \in Task, Locks(t)
      PROVE  WriterInv'
  <2> DEFINE m == task[t].mem
  <2>1. /\ m \in Memory
        /\ task' = [task EXCEPT ![t] = [task[t] EXCEPT !.pc = "write", !.row = Read(m)]]
        /\ UNCHANGED <<rows, meta, milvus, hostModel>>
        /\ MayWrite(t, m)
        /\ task[t].pc = "lock"
    BY <1>3 DEF Locks, LockAndRead, TypeOK, TaskState, WithRecord
  <2>2. /\ task'[t].row = Read(m) /\ task'[t].mem = m /\ task'[t].text = task[t].text
    BY <2>1 DEF TypeOK, TaskState
  <2>3. RowSeen(m, Read(m))
    <3>1. rows[m] # NoRow
      BY <2>1 DEF MayWrite, Embedded, NoRow
    <3>2. QED
      BY <2>1, <3>1 DEF RowSeen, Read, EntityInv
  <2>4. /\ ~Read(m).deleted => task[t].text = Read(m).text /\ task[t].text # None
        /\ ~Read(m).deleted => hostModel[HostOf[t]] = meta.model
        /\ ~Before(Read(m), milvus[m])
    BY <2>1 DEF MayWrite, Embedded, Mismatch, Read, EntityInv, Before
  <2>5. Equipped(t)'
    BY <2>1, <2>2, <2>4 DEF Read, Equipped, Before
  <2>6. ASSUME NEW x \in Task, x # t, task'[x].pc \in Busy
        PROVE  /\ RowSeen(task[x].mem, task[x].row)'
               /\ task'[x].pc = "write" => Equipped(x)'
    BY <2>1, <2>6 DEF WriterInv, RowSeen, Equipped, Before, TypeOK
  <2>7. RowSeen(task[t].mem, task[t].row)'
    BY <2>1, <2>2, <2>3 DEF RowSeen
  <2>8. QED
    BY <2>5, <2>6, <2>7 DEF WriterInv, Busy
<1>4. ASSUME NEW t \in Task, MilvusWrite(t)
      PROVE  WriterInv'
  <2>1. /\ task[t].pc = "write" /\ task[t].mem \in Memory /\ locks[task[t].mem] = t
        /\ RowSeen(task[t].mem, task[t].row)
        /\ task' = [task EXCEPT ![t] = [task[t] EXCEPT !.pc = "ack"]]
        /\ UNCHANGED <<rows, meta, hostModel>>
        /\ \A m \in Memory : m # task[t].mem => milvus'[m] = milvus[m]
    BY <1>4 DEF MilvusWrite, LockInv, WriterInv, Busy, TypeOK
  <2>2. ASSUME NEW x \in Task, task'[x].pc \in Busy
        PROVE  /\ RowSeen(task[x].mem, task[x].row)'
               /\ task'[x].pc = "write" => Equipped(x)'
    <3>1. CASE x = t
      BY <2>1, <3>1 DEF RowSeen, TypeOK, TaskState
    <3>2. CASE x # t
      <4>1. task'[x] = task[x] /\ task[x].mem \in Memory
        BY <2>1, <2>2, <3>2 DEF LockInv, TypeOK
      <4>2. task[x].pc = "write" => task[x].mem # task[t].mem
        BY <2>1, <2>2, <3>2, <4>1 DEF LockInv
      <4>3. QED
        BY <2>1, <2>2, <4>1, <4>2 DEF WriterInv, RowSeen, Equipped, Before
    <3>3. QED
      BY <3>1, <3>2
  <2>3. QED
    BY <2>2 DEF WriterInv, Busy
<1>5. ASSUME NEW t \in Task, Acknowledge(t)
      PROVE  WriterInv'
  <2>1. Finished(t, task[t].mem).pc \notin Busy
    BY FinishedType DEF Busy
  <2>2. ASSUME NEW x \in Task, task'[x].pc \in Busy
        PROVE  /\ RowSeen(task[x].mem, task[x].row)'
               /\ task'[x].pc = "write" => Equipped(x)'
    <3>1. x # t /\ task'[x] = task[x]
      BY <1>5, <2>1, <2>2 DEF Acknowledge, TypeOK
    <3>2. QED
      BY <1>5, <2>2, <3>1 DEF Acknowledge, WriterInv, RowSeen, Equipped, Before
  <2>3. QED
    BY <2>2 DEF WriterInv, Busy
<1>6. ASSUME NEW model \in Model, Reembed(model)
      PROVE  WriterInv'
  <2>1. /\ UNCHANGED <<rows, milvus, hostModel, task>>
        /\ meta.generation < meta'.generation /\ meta'.generation \in Nat
    BY <1>6 DEF Reembed, BumpGeneration
  <2>2. ASSUME NEW x \in Task, task[x].pc \in Busy
        PROVE  RowSeen(task[x].mem, task[x].row)' /\ task[x].row.generation < meta'.generation
    BY <2>1, <2>2 DEF WriterInv, RowSeen
  <2>3. QED
    BY <2>1, <2>2 DEF WriterInv, Equipped, Before, Busy
<1>7. QED
  BY <1>1, <1>2, <1>3, <1>4, <1>5, <1>6, StepKinds

(* A confirmed version stays held, and stays the only one to be written.   *)
LEMMA ConfirmStep == IInv /\ [Next]_vars => ConfirmInv'
<1> SUFFICES ASSUME IInv, [Next]_vars
             PROVE  ConfirmInv'
  OBVIOUS
<1> USE Numbers DEF IInv
<1>1. CASE Calm
  <2>1. ASSUME NEW m \in Memory, Confirmed(m)'
        PROVE  /\ (Held(m) \/ m \in purged)'
               /\ \A t \in Task : Writing(t, m)' => Current(m, task[t].row)'
    <3>1. Confirmed(m)
      <4>1. CASE AckCurrent(m)'
        BY <1>1, <4>1 DEF Calm, AckCurrent, Exists, NoAck, Confirmed
      <4>2. CASE ~AckCurrent(m)'
        <5>1. PICK t \in Task : Acking(t, m)' /\ Current(m, task[t].row)'
          BY <2>1, <4>2 DEF Confirmed
        <5>2. task'[t] = task[t]
          BY <1>1, <5>1 DEF Calm, TasksKept, Acking, Busy
        <5>3. QED
          BY <1>1, <5>1, <5>2 DEF Calm, Acking, Current, Confirmed
      <4>3. QED
        BY <4>1, <4>2
    <3>2. (Held(m) \/ m \in purged)'
      BY <1>1, <3>1 DEF Calm, ConfirmInv, Held
    <3>3. ASSUME NEW t \in Task, Writing(t, m)'
          PROVE  Current(m, task[t].row)'
      <4>1. task'[t] = task[t]
        BY <1>1, <3>3 DEF Calm, TasksKept, Writing, Busy
      <4>2. QED
        BY <1>1, <3>1, <3>3, <4>1 DEF Calm, ConfirmInv, Writing, Current
    <3>4. QED
      BY <3>2, <3>3
  <2>2. QED
    BY <2>1 DEF ConfirmInv
<1>2. CASE Written
  <2>1. ASSUME NEW m \in Memory, Confirmed(m)'
        PROVE  /\ (Held(m) \/ m \in purged)'
               /\ \A t \in Task : Writing(t, m)' => Current(m, task[t].row)'
    <3>1. rows'[m].version \in Nat
      BY TypeStep, StoreAssumption DEF TypeOK, StoreTypeOK, Row, StoreAssumption
    <3>2. ASSUME NEW t \in Task, task'[t].pc \in Busy, task'[t].mem = m
          PROVE  task'[t] = task[t] /\ task[t].row.version <= rows[m].version
      BY <1>2, <3>2 DEF Written, TasksKept, LockInv, WriterInv, RowSeen
    <3>3. rows'[m] = rows[m] /\ acks'[m] = acks[m]
      <4>1. SUFFICES ASSUME rows[m].version < rows'[m].version, acks'[m] = NoAck
                     PROVE  FALSE
        BY <1>2 DEF Written
      <4>2. ~AckCurrent(m)'
        BY <3>1, <4>1 DEF AckCurrent, Exists, NoAck
      <4>3. PICK t \in Task : Acking(t, m)' /\ Current(m, task[t].row)'
        BY <2>1, <4>2 DEF Confirmed
      <4>4. QED
        BY <3>1, <3>2, <4>1, <4>3 DEF Acking, Current, Busy
    <3>4. Confirmed(m)
      BY <1>2, <2>1, <3>2, <3>3 DEF Written, Confirmed, AckCurrent, Exists, Acking, Current, Busy
    <3>5. (Held(m) \/ m \in purged)'
      BY <1>2, <3>3, <3>4 DEF Written, ConfirmInv, Held
    <3>6. \A t \in Task : Writing(t, m)' => Current(m, task[t].row)'
      BY <1>2, <3>2, <3>3, <3>4 DEF Written, ConfirmInv, Writing, Current, Busy
    <3>7. QED
      BY <3>5, <3>6
  <2>2. QED
    BY <2>1 DEF ConfirmInv
<1>3. ASSUME NEW t \in Task, Locks(t)
      PROVE  ConfirmInv'
  <2>1. /\ task' = [task EXCEPT ![t] = [task[t] EXCEPT !.pc = "write", !.row = Read(task[t].mem)]]
        /\ UNCHANGED <<rows, acks, meta, milvus, purged>>
    BY <1>3 DEF Locks, LockAndRead
  <2>2. /\ task'[t].pc = "write" /\ task'[t].mem = task[t].mem
        /\ task'[t].row = Read(task[t].mem)
        /\ \A x \in Task : x # t => task'[x] = task[x]
    BY <2>1 DEF TypeOK, TaskState
  <2>3. ASSUME NEW m \in Memory, Confirmed(m)'
        PROVE  Confirmed(m)
    BY <2>1, <2>2, <2>3 DEF Confirmed, AckCurrent, Exists, Acking, Current
  <2>4. ASSUME NEW m \in Memory, NEW x \in Task, Confirmed(m), Writing(x, m)'
        PROVE  Current(m, task[x].row)'
    <3>1. CASE x = t
      BY <2>1, <2>2, <2>4, <3>1 DEF Writing, Current, Read
    <3>2. CASE x # t
      BY <2>1, <2>2, <2>4, <3>2 DEF Writing, Current, ConfirmInv
    <3>3. QED
      BY <3>1, <3>2
  <2>5. QED
    BY <2>1, <2>3, <2>4 DEF ConfirmInv, Held
<1>4. ASSUME NEW t \in Task, MilvusWrite(t)
      PROVE  ConfirmInv'
  <2> DEFINE row == task[t].row
  <2>0. PICK w \in Memory : w = task[t].mem
    BY <1>4 DEF MilvusWrite, LockInv, Busy
  <2>1. /\ task[t].pc = "write" /\ locks[w] = t
        /\ RowSeen(w, row) /\ Equipped(t)
        /\ UNCHANGED <<rows, acks, meta>>
        /\ purged' = purged \ {w}
        /\ milvus' = [milvus EXCEPT ![w] =
             IF row.deleted THEN NoEntity
             ELSE [version |-> row.version, generation |-> row.generation,
                   text |-> task[t].text, model |-> hostModel[HostOf[t]]]]
        /\ task' = [task EXCEPT ![t] = [task[t] EXCEPT !.pc = "ack"]]
    BY <1>4, <2>0 DEF MilvusWrite, LockInv, WriterInv, Busy
  <2>2. /\ task'[t].pc = "ack" /\ task'[t].mem = w /\ task'[t].row = row
        /\ \A x \in Task : x # t => task'[x] = task[x]
    BY <2>0, <2>1 DEF TypeOK, TaskState
  <2>3. ASSUME NEW x \in Task
        PROVE  ~Writing(x, w)'
    BY <2>0, <2>1, <2>2 DEF Writing, LockInv, Busy
  <2>4. ASSUME Current(w, row)
        PROVE  Held(w)'
    BY <2>0, <2>1, <2>4 DEF Current, RowSeen, Equipped, Held, TypeOK, NoEntity
  <2>5. ASSUME Confirmed(w)'
        PROVE  Current(w, row)
    <3>1. CASE Confirmed(w)
      BY <2>0, <2>1, <3>1 DEF ConfirmInv, Writing
    <3>2. CASE ~Confirmed(w)
      BY <2>1, <2>2, <2>5, <3>2 DEF Confirmed, AckCurrent, Exists, Acking, Current
    <3>3. QED
      BY <3>1, <3>2
  <2>6. ASSUME NEW m \in Memory, m # w, Confirmed(m)'
        PROVE  /\ (Held(m) \/ m \in purged)'
               /\ \A x \in Task : Writing(x, m)' => Current(m, task[x].row)'
    <3>1. Confirmed(m)
      BY <2>1, <2>2, <2>6 DEF Confirmed, AckCurrent, Exists, Acking, Current
    <3>2. QED
      BY <2>1, <2>2, <2>6, <3>1 DEF ConfirmInv, Held, Writing, Current, TypeOK
  <2>7. QED
    BY <2>3, <2>4, <2>5, <2>6 DEF ConfirmInv
<1>5. ASSUME NEW t \in Task, Acknowledge(t)
      PROVE  ConfirmInv'
  <2> DEFINE row == task[t].row
  <2>0. PICK w \in Memory : w = task[t].mem
    BY <1>5 DEF Acknowledge, LockInv, Busy
  <2>1. /\ Acking(t, w)
        /\ UNCHANGED <<rows, meta, milvus, purged>>
        /\ acks' = AcksAfter(w, row.version, row.generation)
    BY <1>5, <2>0 DEF Acknowledge, Acking
  <2>2. ASSUME NEW x \in Task, task'[x].pc \in Busy
        PROVE  task'[x] = task[x]
    BY <1>5, <2>2, FinishedType DEF Acknowledge, TypeOK, Busy
  <2>3. ASSUME NEW m \in Memory, AckCurrent(m)'
        PROVE  Confirmed(m)
    <3>1. CASE acks'[m] = acks[m]
      BY <2>1, <2>3, <3>1 DEF AckCurrent, Exists, Confirmed
    <3>2. CASE acks'[m] # acks[m]
      <4>1. m = w /\ acks'[m] = [version |-> row.version, generation |-> row.generation]
        BY <2>1, <3>2 DEF AcksAfter, TypeOK, StoreTypeOK
      <4>2. QED
        BY <2>1, <2>3, <4>1 DEF AckCurrent, Confirmed, Current
    <3>3. QED
      BY <3>1, <3>2
  <2>4. ASSUME NEW m \in Memory, Confirmed(m)'
        PROVE  Confirmed(m)
    BY <2>1, <2>2, <2>3, <2>4 DEF Confirmed, Acking, Current, Busy
  <2>5. QED
    BY <2>1, <2>2, <2>4 DEF ConfirmInv, Held, Writing, Current, Busy
<1>6. ASSUME NEW model \in Model, Reembed(model)
      PROVE  ConfirmInv'
  <2>1. /\ UNCHANGED <<rows, acks, task>>
        /\ meta.generation < meta'.generation /\ meta'.generation \in Nat
    BY <1>6 DEF Reembed, BumpGeneration
  <2>2. \A m \in Memory : ~Confirmed(m)'
    BY <2>1 DEF Confirmed, AckCurrent, Acking, Current, EntityInv, WriterInv, RowSeen, Busy
  <2>3. QED
    BY <2>2 DEF ConfirmInv
<1>7. QED
  BY <1>1, <1>2, <1>3, <1>4, <1>5, <1>6, StepKinds

-----------------------------------------------------------------------------
(* The theorems.                                                           *)

(* The invariant holds initially.                                          *)
LEMMA InvInit == Init => IInv
<1> SUFFICES ASSUME Init
             PROVE  IInv
  OBVIOUS
<1>1. TypeOK
  BY TypeInit
<1>2. /\ \A t \in Task : task[t].pc = "idle"
      /\ \A m \in Memory : /\ rows[m] = NoRow /\ acks[m] = NoAck /\ milvus[m] = NoEntity
                           /\ rows[m].version = 0
      /\ meta.generation = 1
  BY DEF Init, StoreInit, Resting, At, NoRow
<1>3. LockInv /\ WriterInv
  BY <1>2 DEF LockInv, WriterInv, Busy
<1>4. EntityInv /\ VectorsMatchModel
  BY <1>2 DEF EntityInv, VectorsMatchModel, NoAck, NoEntity
<1>5. ConfirmInv
  BY <1>2 DEF ConfirmInv, Confirmed, AckCurrent, Exists, Acking
<1>6. QED
  BY <1>1, <1>3, <1>4, <1>5 DEF IInv

(* Every step keeps the invariant.                                         *)
LEMMA InvStep == IInv /\ [Next]_vars => IInv'
BY TypeStep, LockStep, WriterStep, EntityStep, ConfirmStep DEF IInv

(* The inductive invariant holds in every reachable state.                 *)
THEOREM Invariance == Spec => []IInv
BY InvInit, InvStep, PTL DEF Spec

(* Whatever the tasks of however many servers do, an acknowledged record   *)
(* is in the collection as it is in the store, unless its entity was lost  *)
(* or deleted as a stray since it was written.                             *)
THEOREM Acknowledged == Spec => []AckMeansHeldUnlessPurged
<1>1. IInv => AckMeansHeldUnlessPurged
  BY DEF IInv, ConfirmInv, Confirmed, AckMeansHeldUnlessPurged
<1>2. QED
  BY <1>1, Invariance, PTL

(* No vector of the current generation comes from another model.           *)
THEOREM ModelKept == Spec => []VectorsMatchModel
<1>1. IInv => VectorsMatchModel
  BY DEF IInv
<1>2. QED
  BY <1>1, Invariance, PTL

(* No write replaces an entity by an older one.                            *)
THEOREM Forward == Spec => NeverOlder
<1> DEFINE Onward ==
      \A m \in Memory : milvus[m].version > 0 /\ milvus'[m].version > 0
                          => ~Before(milvus'[m], milvus[m])
<1>1. ASSUME IInv, [Next]_vars
      PROVE  Onward
  <2>1. ASSUME NEW t \in Task, MilvusWrite(t)
        PROVE  Onward
    <3>1. ~Before(task[t].row, milvus[task[t].mem])
      BY <1>1, <2>1 DEF MilvusWrite, IInv, WriterInv, Equipped
    <3>2. QED
      BY <1>1, <2>1, <3>1, Numbers DEF MilvusWrite, IInv, TypeOK, Before, NoEntity
  <2>2. CASE \A m \in Memory : milvus'[m] = milvus[m] \/ milvus'[m] = NoEntity
    BY <1>1, <2>2, Numbers DEF IInv, Before, NoEntity
  <2>3. CASE Calm \/ Written
    BY <2>2, <2>3 DEF Calm, Written
  <2>4. ASSUME NEW t \in Task, Locks(t) \/ Acknowledge(t)
        PROVE  Onward
    BY <2>2, <2>4 DEF Locks, LockAndRead, Acknowledge
  <2>5. ASSUME NEW model \in Model, Reembed(model)
        PROVE  Onward
    BY <2>2, <2>5 DEF Reembed
  <2>6. QED
    BY <1>1, <2>1, <2>3, <2>4, <2>5, StepKinds DEF IInv
<1>2. QED
  BY <1>1, Invariance, PTL DEF Spec, NeverOlder

-----------------------------------------------------------------------------
(* A deletion that was acknowledged is final.                              *)

(* What was lost or deleted as a stray is not there.                       *)
PurgedInv == \A m \in Memory : m \in purged => milvus[m] = NoEntity

(* The record is deleted in both, and whoever may still write to the       *)
(* collection has seen that it is.                                         *)
Tomb(m) ==
  /\ Exists(m) /\ rows[m].deleted
  /\ milvus[m] = NoEntity
  /\ \A t \in Task : Writing(t, m) => task[t].row.deleted

(* The collection holds nothing of a record once the sweep has purged it.   *)
LEMMA PurgedStep ==
  ASSUME IInv, PurgedInv, [Next]_vars
  PROVE  PurgedInv'
<1>1. CASE Calm \/ Written
  BY <1>1 DEF PurgedInv, Calm, Written
<1>2. ASSUME NEW t \in Task, Locks(t) \/ MilvusWrite(t) \/ Acknowledge(t)
      PROVE  PurgedInv'
  BY <1>2 DEF PurgedInv, Locks, LockAndRead, MilvusWrite, Acknowledge, IInv, TypeOK
<1>3. ASSUME NEW model \in Model, Reembed(model)
      PROVE  PurgedInv'
  BY <1>3 DEF PurgedInv, Reembed
<1>4. QED
  BY <1>1, <1>2, <1>3, StepKinds DEF IInv

(* An acknowledged deletion has left the collection, and no task is about  *)
(* to write an older version there.                                        *)
LEMMA TombBegins ==
  ASSUME IInv, PurgedInv, NEW m \in Memory, rows[m].deleted, AckCurrent(m)
  PROVE  Tomb(m)
<1>1. milvus[m] = NoEntity
  BY DEF IInv, ConfirmInv, Confirmed, Held, PurgedInv
<1>2. ASSUME NEW t \in Task, Writing(t, m)
      PROVE  task[t].row.deleted
  BY <1>2 DEF IInv, ConfirmInv, Confirmed, WriterInv, RowSeen, Current, Writing, Busy
<1>3. QED
  BY <1>1, <1>2 DEF Tomb, AckCurrent

(* No step digs it up.                                                     *)
LEMMA TombStep ==
  ASSUME IInv, NEW m \in Memory, Tomb(m), [Next]_vars
  PROVE  Tomb(m)'
<1>1. CASE Calm \/ Written
  <2>1. rows'[m] = rows[m] /\ milvus'[m] = NoEntity
    BY <1>1 DEF Calm, Written, Tomb
  <2>2. ASSUME NEW t \in Task, Writing(t, m)'
        PROVE  task'[t].row.deleted
    BY <1>1, <2>2 DEF Calm, Written, TasksKept, Tomb, Writing, Busy
  <2>3. QED
    BY <2>1, <2>2 DEF Tomb, Exists
<1>2. ASSUME NEW t \in Task, Locks(t)
      PROVE  Tomb(m)'
  <2>1. /\ task' = [task EXCEPT ![t] = [task[t] EXCEPT !.pc = "write", !.row = Read(task[t].mem)]]
        /\ rows' = rows /\ milvus' = milvus
    BY <1>2 DEF Locks, LockAndRead
  <2>2. ASSUME NEW x \in Task, Writing(x, m)'
        PROVE  task'[x].row.deleted
    <3>1. CASE x = t
      BY <2>1, <2>2, <3>1 DEF Tomb, Writing, Read, IInv, TypeOK, TaskState
    <3>2. CASE x # t
      BY <2>1, <2>2, <3>2 DEF Tomb, Writing, IInv, TypeOK
    <3>3. QED
      BY <3>1, <3>2
  <2>3. QED
    BY <2>1, <2>2 DEF Tomb, Exists
<1>3. ASSUME NEW t \in Task, MilvusWrite(t)
      PROVE  Tomb(m)'
  <2>1. /\ task' = [task EXCEPT ![t] = [task[t] EXCEPT !.pc = "ack"]]
        /\ rows' = rows /\ task[t].pc = "write"
    BY <1>3 DEF MilvusWrite
  <2>2. milvus'[m] = NoEntity
    BY <1>3, <2>1 DEF MilvusWrite, Tomb, Writing, IInv, TypeOK
  <2>3. ASSUME NEW x \in Task, Writing(x, m)'
        PROVE  task'[x].row.deleted
    <3>1. x # t
      BY <2>1, <2>3 DEF Writing, IInv, TypeOK, TaskState
    <3>2. QED
      BY <2>1, <2>3, <3>1 DEF Tomb, Writing, IInv, TypeOK
  <2>4. QED
    BY <2>1, <2>2, <2>3 DEF Tomb, Exists
<1>4. ASSUME NEW t \in Task, Acknowledge(t)
      PROVE  Tomb(m)'
  <2>1. /\ task' = [task EXCEPT ![t] = Finished(t, task[t].mem)]
        /\ rows' = rows /\ milvus' = milvus
    BY <1>4 DEF Acknowledge
  <2>2. Finished(t, task[t].mem).pc \notin Busy
    BY FinishedType DEF Busy, IInv
  <2>3. ASSUME NEW x \in Task, Writing(x, m)'
        PROVE  task'[x].row.deleted
    BY <2>1, <2>2, <2>3 DEF Tomb, Writing, Busy, IInv, TypeOK
  <2>4. QED
    BY <2>1, <2>3 DEF Tomb, Exists
<1>5. ASSUME NEW model \in Model, Reembed(model)
      PROVE  Tomb(m)'
  BY <1>5 DEF Reembed, BumpGeneration, Tomb, Exists, Writing
<1>6. QED
  BY <1>1, <1>2, <1>3, <1>4, <1>5, StepKinds DEF IInv

(* Once a deletion has been acknowledged the record never comes back.      *)
THEOREM Buried == Spec => TombstoneStays
<1>1. Spec => [](IInv /\ PurgedInv)
  <2>1. Init => PurgedInv
    BY DEF Init, PurgedInv
  <2>2. IInv /\ PurgedInv /\ [Next]_vars => PurgedInv'
    BY PurgedStep
  <2>3. QED
    BY <2>1, <2>2, InvInit, InvStep, PTL DEF Spec
<1>2. ASSUME NEW m \in Memory
      PROVE  Spec => [](rows[m].deleted /\ AckCurrent(m) => [](milvus[m] = NoEntity))
  <2>1. IInv /\ PurgedInv /\ rows[m].deleted /\ AckCurrent(m) => Tomb(m)
    BY TombBegins
  <2>2. IInv /\ Tomb(m) /\ [Next]_vars => Tomb(m)'
    BY TombStep
  <2>3. Tomb(m) => milvus[m] = NoEntity
    BY DEF Tomb
  <2>4. QED
    BY <1>1, <2>1, <2>2, <2>3, PTL DEF Spec
<1>3. QED
  BY <1>2 DEF TombstoneStays
=============================================================================
