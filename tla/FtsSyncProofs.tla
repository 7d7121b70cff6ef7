----------------------------- MODULE FtsSyncProofs -----------------------------
(***************************************************************************)
(* Proofs about FtsSync for every set of records, texts, models and tasks, *)
(* and every bound.                                                        *)
(*                                                                         *)
(* The argument: no lock orders the writers of a record, the watermark     *)
(* does.  It never passes the store (MarkInv), so a task that applies what *)
(* it read, or finds the watermark at its version, has seen the current    *)
(* row exactly when the watermark is the row's version; and then the file  *)
(* holds that row.  An acknowledgement that is current was given by such a *)
(* task (ConfirmInv).  What lets a row or watermark go without the store   *)
(* being told marks the record forgotten, and a start that puts an empty   *)
(* file in the place of a lost one ends this only after it has dropped all *)
(* acknowledgements (BootInv, FileInv).                                    *)
(***************************************************************************)
EXTENDS FtsSync, TLAPS

-----------------------------------------------------------------------------
(* The inductive invariant.                                                *)

Busy == {"apply", "mark", "ack"}
Starting == {"down", "reset", "clear", "list"}

(* A row that was read was a state of the store.                           *)
RowSeen(m, row) ==
  /\ 0 < row.version /\ row.version <= rows[m].version
  /\ row.version = rows[m].version => row.text = rows[m].text /\ row.deleted = rows[m].deleted

TaskInv ==
  \A t \in Task : task[t].pc \in Busy =>
    task[t].mem \in Memory /\ RowSeen(task[t].mem, task[t].row)

(* No task runs before the start has listed the records, and the file is   *)
(* empty from its creation until then.                                     *)
BootInv ==
  /\ boot \in Starting => \A t \in Task : task[t] = Resting
  /\ boot \in {"reset", "clear"} =>
       \A m \in Memory : mark[m] = 0 /\ highest[m] = 0 /\ fts[m] = NotIndexed

(* A file that is lost is forgotten, or nothing is acknowledged yet.       *)
FileInv ==
  file # "sound" => \/ forgotten = Memory
                    \/ boot \in {"down", "reset", "clear"} /\ \A m \in Memory : acks[m] = NoAck

(* The watermark of a record that is not forgotten is the highest version  *)
(* applied, and the version of the row that is held.                       *)
MarkInv ==
  \A m \in Memory :
    /\ mark[m] <= rows[m].version /\ highest[m] <= rows[m].version
    /\ m \notin forgotten =>
         /\ highest[m] <= mark[m]
         /\ fts[m].version > 0 => fts[m].version = mark[m]
         /\ Exists(m) /\ mark[m] = rows[m].version => HoldsRow(m)

Acking(t, m) == task[t].pc = "ack" /\ task[t].mem = m

Confirmed(m) ==
  AckCurrent(m) \/ \E t \in Task : Acking(t, m) /\ task[t].row.version = rows[m].version

ConfirmInv ==
  \A m \in Memory : Confirmed(m) => mark[m] = rows[m].version \/ m \in forgotten

IInv ==
  /\ TypeOK
  /\ TaskInv
  /\ BootInv
  /\ FileInv
  /\ MarkInv
  /\ ConfirmInv

-----------------------------------------------------------------------------
(* Type correctness.                                                       *)

PC == {"idle", "tick", "next", "apply", "mark", "ack"} \cup ReconcilePC

(* The row of a task that has read nothing has the type of a row read.     *)
LEMMA UnseenType == Unseen \in Seen
BY StoreAssumption DEF Unseen, Seen, StoreAssumption

(* A task with nothing at hand is well typed at every program counter.     *)
LEMMA AtType ==
  ASSUME NEW pc \in PC
  PROVE  At(pc) \in TaskState
BY UnseenType DEF At, PC, TaskState

(* A task about to take the next record of a batch is well typed.          *)
LEMMA NextType ==
  ASSUME NEW todo \in SUBSET Memory
  PROVE  [At("next") EXCEPT !.todo = todo] \in TaskState
BY AtType DEF TaskState, PC

(* A task that is done with a record is well typed, and holds none.        *)
LEMMA FinishedType ==
  ASSUME TypeOK, NEW t \in Task, NEW m
  PROVE  Finished(t, m) \in TaskState /\ Finished(t, m).pc \in {"idle", "next"}
<1>1. task[t].todo \ {m} \in SUBSET Memory
  BY DEF TypeOK, TaskState
<1>2. Resting \in TaskState
  BY AtType DEF Resting, PC
<1>3. QED
  BY <1>1, <1>2, NextType DEF Finished, Resting, At

(* The row a task reads is one it can hold.                                *)
LEMMA ReadType ==
  ASSUME TypeOK, NEW m \in Memory
  PROVE  Read(m) \in Seen
BY StoreAssumption DEF TypeOK, StoreTypeOK, Row, Meta, Read, Seen, StoreAssumption

(* A write adds a version to the rows it changes, drops their              *)
(* acknowledgements, and keeps the tables well typed.                      *)
Rewritten ==
  /\ StoreTypeOK'
  /\ UNCHANGED meta
  /\ \A n \in Memory : \/ rows'[n] = rows[n] /\ acks'[n] = acks[n]
                       \/ rows[n].version < rows'[n].version /\ acks'[n] = NoAck

(* A transaction that gives a record a later row rewrites the store.       *)
LEMMA CommitRewrites ==
  ASSUME StoreTypeOK, NEW m \in Memory, NEW row \in Row, rows[m].version < row.version,
         NEW olds \in SUBSET (Memory \ {m}), Commit(m, row, olds)
  PROVE  Rewritten
<1>1. ASSUME NEW n \in olds
      PROVE  Superseded(rows[n]) \in Row /\ rows[n].version < Superseded(rows[n]).version
  <2>1. rows[n] \in Row /\ rows[n].version < MaxVersion
    BY <1>1 DEF Commit, StoreTypeOK
  <2>2. QED
    BY <2>1, StoreAssumption DEF Row, Superseded, StoreAssumption
<1>2. NoAck \in Ack
  BY StoreAssumption DEF NoAck, Ack, StoreAssumption
<1>3. rows' \in [Memory -> Row] /\ acks' \in [Memory -> Ack] /\ meta' \in Meta
  BY <1>1, <1>2 DEF Commit, StoreTypeOK
<1>4. \A n \in Memory : \/ rows'[n] = rows[n] /\ acks'[n] = acks[n]
                        \/ rows[n].version < rows'[n].version /\ acks'[n] = NoAck
  BY <1>1 DEF Commit, StoreTypeOK
<1>5. QED
  BY <1>3, <1>4 DEF Rewritten, StoreTypeOK, Commit

(* Every kind of write rewrites the store.                                 *)
LEMMA WriteRewrites ==
  ASSUME StoreTypeOK, NEW m \in Memory, Write(m)
  PROVE  Rewritten
<1>1. rows[m] \in Row /\ 0 \in Nat /\ rows[m].version \in 0..MaxVersion
  BY DEF StoreTypeOK, Row
<1>2. ASSUME NEW t \in Text, NEW olds \in SUBSET (Memory \ {m}), Add(m, t, olds)
      PROVE  Rewritten
  <2>1. [version |-> 1, text |-> t, deleted |-> FALSE] \in Row
    BY StoreAssumption DEF Row, StoreAssumption
  <2>2. rows[m].version < 1
    BY <1>1, <1>2, StoreAssumption DEF Add, Exists, StoreAssumption
  <2>3. QED
    BY <1>2, <2>1, <2>2, CommitRewrites DEF Add
<1>3. ASSUME NEW t \in Text, NEW olds \in SUBSET (Memory \ {m}), Change(m, t, olds)
      PROVE  Rewritten
  <2>1. rows[m].version < MaxVersion /\ rows[m].version + 1 \in 0..MaxVersion
    BY <1>1, <1>3, StoreAssumption DEF Change, StoreAssumption
  <2>2. [rows[m] EXCEPT !.version = @ + 1, !.text = t] \in Row
    BY <1>1, <2>1 DEF Row
  <2>3. rows[m].version < [rows[m] EXCEPT !.version = @ + 1, !.text = t].version
    BY <1>1, <2>1 DEF Row
  <2>4. QED
    BY <1>3, <2>2, <2>3, CommitRewrites DEF Change
<1>4. ASSUME Delete(m)
      PROVE  Rewritten
  <2>1. rows[m].version < MaxVersion /\ rows[m].version + 1 \in 0..MaxVersion
    BY <1>1, <1>4, StoreAssumption DEF Delete, StoreAssumption
  <2>2. [rows[m] EXCEPT !.version = @ + 1, !.deleted = TRUE] \in Row
    BY <1>1, <2>1 DEF Row
  <2>3. rows[m].version < [rows[m] EXCEPT !.version = @ + 1, !.deleted = TRUE].version
    BY <1>1, <2>1 DEF Row
  <2>4. \E row \in Row : Commit(m, row, {}) /\ rows[m].version < row.version
    BY <1>4, <2>2, <2>3 DEF Delete
  <2>5. QED
    BY <2>4, CommitRewrites
<1>5. QED
  BY <1>2, <1>3, <1>4 DEF Write

(* An acknowledgement or a reset keeps the table well typed.               *)
LEMMA AcksType ==
  ASSUME StoreTypeOK
  PROVE  /\ \A S : WithoutAcks(S) \in [Memory -> Ack]
         /\ \A m \in Memory, v \in 0..MaxVersion, g \in 0..MaxGeneration :
              AcksAfter(m, v, g) \in [Memory -> Ack]
<1>1. NoAck \in Ack
  BY StoreAssumption DEF NoAck, Ack, StoreAssumption
<1>2. QED
  BY <1>1 DEF StoreTypeOK, WithoutAcks, AcksAfter, Ack

(* A reconcile that has read nothing is well typed.                        *)
LEMMA NothingReadType == NothingRead \in ReconState
BY StoreAssumption DEF NothingRead, NoRow, Row, ReconState, StoreAssumption

(* A record without a row, and one with the row that was read, are well    *)
(* typed.                                                                  *)
LEMMA IndexedType ==
  /\ NotIndexed \in Indexed
  /\ \A row \in Seen : [version |-> row.version, text |-> row.text] \in Indexed
BY StoreAssumption DEF NotIndexed, Indexed, Seen, StoreAssumption

(* The numbers that versions are.                                          *)
LEMMA Numbers ==
  ASSUME TypeOK
  PROVE  /\ \A m \in Memory : /\ rows[m].version \in Nat /\ acks[m].version \in Nat
                              /\ fts[m].version \in Nat /\ mark[m] \in Nat /\ highest[m] \in Nat
         /\ \A t \in Task : task[t].row.version \in Nat
BY StoreAssumption
   DEF TypeOK, StoreTypeOK, Row, Ack, Indexed, TaskState, Seen, StoreAssumption

(* The initial states are well typed.                                      *)
THEOREM TypeInit == Init => TypeOK
<1> SUFFICES ASSUME Init
             PROVE  TypeOK
  OBVIOUS
<1>1. StoreTypeOK
  BY StoreAssumption DEF Init, StoreInit, StoreTypeOK, NoRow, NoAck, Row, Ack, Meta, StoreAssumption
<1>2. task \in [Task -> TaskState] /\ recon \in [Sync -> ReconState]
  BY AtType, NothingReadType DEF Init, Resting, PC
<1>3. QED
  BY <1>1, <1>2, IndexedType, StoreAssumption, FtsAssumption
     DEF Init, TypeOK, StoreAssumption, FtsAssumption

(* Every step keeps the variables well typed.                              *)
THEOREM TypeStep == TypeOK /\ [Next]_vars => TypeOK'
<1> SUFFICES ASSUME TypeOK, [Next]_vars
             PROVE  TypeOK'
  OBVIOUS
<1> USE DEF TypeOK
<1>0. \A pc \in PC : At(pc) \in TaskState
  BY AtType
<1>1. ASSUME NEW t \in Task, NEW m \in Memory, ReadCanonical(t, m)
      PROVE  TypeOK'
  <2>1. [task[t] EXCEPT !.pc = "apply", !.mem = m, !.row = Read(m)] \in TaskState
    BY ReadType DEF TaskState
  <2>2. task' \in [Task -> TaskState]
    BY <1>1, <2>1, FinishedType DEF ReadCanonical
  <2>3. QED
    BY <1>1, <2>2 DEF ReadCanonical, storeVars, fileVars, ghosts, StoreTypeOK
<1>2. ASSUME NEW t \in Task, FtsApply(t)
      PROVE  TypeOK'
  <2> DEFINE m == task[t].mem
             row == task[t].row
  <2>1. row \in Seen /\ row.version \in 0..MaxVersion
    BY DEF TaskState, Seen
  <2>2. \A pc \in {"ack", "mark"} : [task[t] EXCEPT !.pc = pc] \in TaskState
    BY DEF TaskState
  <2>3. task' \in [Task -> TaskState]
    BY <1>2, <2>2 DEF FtsApply
  <2>4. fts' \in [Memory -> Indexed]
    BY <1>2, <2>1, IndexedType DEF FtsApply
  <2>5. mark' \in [Memory -> 0..MaxVersion] /\ highest' \in [Memory -> 0..MaxVersion]
    BY <1>2, <2>1 DEF FtsApply, ghosts
  <2>6. forgotten' \subseteq Memory
    BY <1>2 DEF FtsApply, ghosts
  <2>7. QED
    BY <1>2, <2>3, <2>4, <2>5, <2>6 DEF FtsApply, storeVars, StoreTypeOK
<1>3. ASSUME NEW t \in Task, CheckWatermark(t)
      PROVE  TypeOK'
  <2>1. [task[t] EXCEPT !.pc = "ack"] \in TaskState
    BY DEF TaskState
  <2>2. task' \in [Task -> TaskState]
    BY <1>3, <2>1, FinishedType DEF CheckWatermark
  <2>3. QED
    BY <1>3, <2>2 DEF CheckWatermark, storeVars, fileVars, ghosts, StoreTypeOK
<1>4. ASSUME NEW t \in Task, Acknowledge(t)
      PROVE  TypeOK'
  <2>1. acks' \in [Memory -> Ack]
    <3>1. CASE task[t].mem \in Memory
      <4>1. task[t].row.version \in 0..MaxVersion /\ task[t].row.generation \in 0..MaxGeneration
        BY DEF TaskState, Seen
      <4>2. QED
        BY <1>4, <3>1, <4>1, AcksType DEF Acknowledge
    <3>2. CASE task[t].mem \notin Memory
      BY <1>4, <3>2 DEF Acknowledge, AcksAfter, StoreTypeOK
    <3>3. QED
      BY <3>1, <3>2
  <2>2. task' \in [Task -> TaskState]
    BY <1>4, FinishedType DEF Acknowledge
  <2>3. QED
    BY <1>4, <2>1, <2>2 DEF Acknowledge, fileVars, ghosts, StoreTypeOK
<1>5. ASSUME NEW t \in Task, RecordFails(t)
      PROVE  TypeOK'
  <2>1. task' \in [Task -> TaskState]
    BY <1>5, FinishedType DEF RecordFails
  <2>2. faults' \in 0..MaxFaults
    BY <1>5, FtsAssumption DEF RecordFails, Fault, FtsAssumption
  <2>3. QED
    BY <1>5, <2>1, <2>2 DEF RecordFails, storeVars, fileVars, ghosts, StoreTypeOK
<1>6. ASSUME NEW t \in Task, PassFails(t)
      PROVE  TypeOK'
  <2>1. task' \in [Task -> TaskState]
    BY <1>0, <1>6 DEF PassFails, PC, Resting
  <2>2. faults' \in 0..MaxFaults
    BY <1>6, FtsAssumption DEF PassFails, Fault, FtsAssumption
  <2>3. recon' \in [Sync -> ReconState]
    BY <1>6, NothingReadType DEF PassFails
  <2>4. QED
    BY <1>6, <2>1, <2>2, <2>3 DEF PassFails, storeVars, fileVars, ghosts, StoreTypeOK
<1>7. ASSUME NEW t \in Sync, TakeBatch(t)
      PROVE  TypeOK'
  <2>1. [At("next") EXCEPT !.todo = PendingText] \in TaskState
    BY NextType DEF PendingText
  <2>2. task' \in [Task -> TaskState]
    BY <1>0, <1>7, <2>1 DEF TakeBatch, PC, Resting
  <2>3. QED
    BY <1>7, <2>2 DEF TakeBatch, storeVars, fileVars, ghosts, StoreTypeOK
<1>8. ASSUME NEW t \in Sync, StartReconcile(t)
      PROVE  TypeOK'
  <2>1. [NothingRead EXCEPT !.view = rows] \in ReconState
    BY NothingReadType DEF ReconState, StoreTypeOK
  <2>2. QED
    BY <1>0, <1>8, <2>1 DEF StartReconcile, PC, ReconcilePC, storeVars, fileVars, ghosts, StoreTypeOK
<1>9. ASSUME NEW t \in Sync, ScanFile(t)
      PROVE  TypeOK'
  <2>1. [NothingRead EXCEPT !.stale = Stale(recon[t].view),
                            !.strays = Strays(recon[t].view)] \in ReconState
    BY NothingReadType DEF ReconState, Stale, Strays
  <2>2. QED
    BY <1>0, <1>9, <2>1 DEF ScanFile, PC, ReconcilePC, storeVars, fileVars, ghosts, StoreTypeOK
<1>10. ASSUME NEW t \in Sync, Forget(t)
       PROVE  TypeOK'
  <2>1. [NothingRead EXCEPT !.stale = recon[t].stale] \in ReconState
    BY NothingReadType DEF ReconState
  <2>2. fts' \in [Memory -> Indexed] /\ mark' \in [Memory -> 0..MaxVersion]
    BY <1>10, IndexedType, StoreAssumption DEF Forget, MarksWithout, StoreAssumption
  <2>3. forgotten' \subseteq Memory
    BY <1>10 DEF Forget, ReconState
  <2>4. task' \in [Task -> TaskState]
    BY <1>0, <1>10 DEF Forget, PC, ReconcilePC
  <2>5. QED
    BY <1>10, <2>1, <2>2, <2>3, <2>4 DEF Forget, storeVars, StoreTypeOK
<1>11. ASSUME NEW t \in Sync, ResetStale(t)
       PROVE  TypeOK'
  BY <1>0, <1>11, AcksType, NothingReadType DEF ResetStale, PC, fileVars, ghosts, StoreTypeOK
<1>12. ASSUME OpenFile
       PROVE  TypeOK'
  <2>1. /\ fts' \in [Memory -> Indexed]
        /\ mark' \in [Memory -> 0..MaxVersion] /\ highest' \in [Memory -> 0..MaxVersion]
    BY <1>12, IndexedType, StoreAssumption DEF OpenFile, EmptyFile, fileVars, StoreAssumption
  <2>2. QED
    BY <1>12, <2>1 DEF OpenFile, fileVars, storeVars, StoreTypeOK
<1>13. ASSUME BootReset
       PROVE  TypeOK'
  BY <1>13, AcksType DEF BootReset, AcksOfNewFile, fileVars, StoreTypeOK
<1>14. ASSUME BootClear
       PROVE  TypeOK'
  <2>1. fts' \in [Memory -> Indexed] /\ mark' \in [Memory -> 0..MaxVersion]
    BY <1>14, IndexedType, StoreAssumption DEF BootClear, EmptyFile, StoreAssumption
  <2>2. QED
    BY <1>14, <2>1 DEF BootClear, ghosts, storeVars, StoreTypeOK
<1>15. ASSUME BootList
       PROVE  TypeOK'
  <2>1. [At("next") EXCEPT !.todo = {m \in Memory : Exists(m)}] \in TaskState
    BY NextType
  <2>2. task' \in [Task -> TaskState]
    BY <1>0, <1>15, <2>1 DEF BootList, PC, Resting
  <2>3. QED
    BY <1>15, <2>2 DEF BootList, storeVars, fileVars, ghosts, StoreTypeOK
<1>16. ASSUME BootDone
       PROVE  TypeOK'
  BY <1>16 DEF BootDone, storeVars, fileVars, ghosts, StoreTypeOK
<1>17. ASSUME NEW m \in Memory, OtherWrite(m)
       PROVE  TypeOK'
  BY <1>17, WriteRewrites DEF OtherWrite, Rewritten, fileVars, ghosts
<1>18. ASSUME NEW t \in Service, NEW m \in Memory, ServiceWrite(t, m)
       PROVE  TypeOK'
  <2>1. [At("next") EXCEPT !.todo = {m}] \in TaskState
    BY NextType
  <2>2. task' \in [Task -> TaskState]
    BY <1>18, <2>1 DEF ServiceWrite
  <2>3. StoreTypeOK'
    BY <1>18, WriteRewrites DEF ServiceWrite, Repeat, Rewritten, storeVars, StoreTypeOK
  <2>4. QED
    BY <1>18, <2>2, <2>3 DEF ServiceWrite, fileVars, ghosts
<1>19. ASSUME NEW m \in Memory, LoseRow(m)
       PROVE  TypeOK'
  <2>1. fts' \in [Memory -> Indexed] /\ forgotten' \subseteq Memory
    BY <1>19, IndexedType DEF LoseRow
  <2>2. QED
    BY <1>19, <2>1, FtsAssumption DEF LoseRow, Fault, storeVars, StoreTypeOK, FtsAssumption
<1>20. ASSUME NEW S \in SUBSET Memory, OperatorReset(S)
       PROVE  TypeOK'
  BY <1>20, AcksType, FtsAssumption
     DEF OperatorReset, ResetAcks, Fault, fileVars, ghosts, StoreTypeOK, FtsAssumption
<1>21. ASSUME Restart
       PROVE  TypeOK'
  <2>1. task' \in [Task -> TaskState] /\ recon' \in [Sync -> ReconState]
    BY <1>0, <1>21, NothingReadType DEF Restart, PC, Resting
  <2>2. QED
    BY <1>21, <2>1, FtsAssumption
       DEF Restart, Fault, storeVars, fileVars, ghosts, StoreTypeOK, FtsAssumption
<1>22. ASSUME NEW kind \in {"bad", "bare"}, DamageFile(kind)
       PROVE  TypeOK'
  BY <1>22, FtsAssumption DEF DamageFile, Fault, storeVars, StoreTypeOK, FtsAssumption
<1>23. ASSUME NEW model \in Model, Reembed(model)
       PROVE  TypeOK'
  <2>1. meta' \in Meta
    BY <1>23, StoreAssumption DEF Reembed, BumpGeneration, Meta, StoreTypeOK, StoreAssumption
  <2>2. QED
    BY <1>23, <2>1 DEF Reembed, BumpGeneration, fileVars, ghosts, StoreTypeOK
<1>24. CASE UNCHANGED vars
  BY <1>24 DEF vars, StoreTypeOK
<1>25. ASSUME Environment
       PROVE  TypeOK'
  <2>1. CASE \E m \in Memory : OperatorReset({m})
    BY <1>20, <2>1
  <2>2. CASE OperatorReset(Memory)
    BY <1>20, <2>2
  <2>3. QED
    BY <1>5, <1>6, <1>17, <1>18, <1>19, <1>21, <1>22, <1>23, <1>25, <2>1, <2>2 DEF Environment
<1>26. QED
  BY <1>1, <1>2, <1>3, <1>4, <1>5, <1>6, <1>7, <1>8, <1>9, <1>10, <1>11, <1>12, <1>13, <1>14,
     <1>15, <1>16, <1>24, <1>25, FtsAssumption
     DEF Next, ApplyStep, ReconcileStep, Boot, Task

(* The versions that a step leaves are numbers, too.                       *)
LEMMA NextNumbers ==
  ASSUME TypeOK, [Next]_vars
  PROVE  \A m \in Memory : rows'[m].version \in Nat
BY TypeStep, StoreAssumption DEF TypeOK, StoreTypeOK, Row, StoreAssumption

(* In every reachable state the variables have their types.                *)
THEOREM TypeCorrect == Spec => []TypeOK
<1>1. QED
  BY TypeInit, TypeStep, PTL DEF Spec
-----------------------------------------------------------------------------
(* The kinds of steps.  Most actions neither write nor apply a record.     *)

(* A busy task goes on with what it read, or has just read a row; only     *)
(* CheckWatermark and FtsApply bring a task to its acknowledgement.        *)
TasksKept ==
  \A t \in Task : task'[t].pc \in Busy =>
    \/ /\ task[t].pc \in Busy
       /\ task'[t].mem = task[t].mem /\ task'[t].row = task[t].row
       /\ task'[t].pc = "ack" => task[t].pc = "ack"
    \/ /\ task'[t].pc # "ack" /\ task'[t].mem \in Memory
       /\ RowSeen(task[t].mem, task[t].row)'

(* The start goes on, is not in its first steps, or begins again.          *)
BootKept ==
  \/ boot' = boot /\ (boot \in Starting => task' = task)
  \/ boot \notin {"down", "reset", "clear"} /\ boot' \notin Starting
  \/ boot' = "down" /\ \A t \in Task : task'[t] = Resting

(* The store keeps its rows; acknowledgements may go, and so may rows and  *)
(* watermarks of the file if their records are forgotten.                  *)
Calm ==
  /\ rows' = rows /\ highest' = highest
  /\ \A m \in Memory : acks'[m] = acks[m] \/ acks'[m] = NoAck
  /\ \A m \in Memory :
       /\ mark'[m] \in {mark[m], 0} /\ fts'[m] \in {fts[m], NotIndexed}
       /\ m \in forgotten => m \in forgotten'
       /\ m \notin forgotten' => mark'[m] = mark[m] /\ fts'[m] = fts[m]
  /\ file' = file \/ forgotten' = Memory
  /\ TasksKept /\ BootKept

(* Rows gain versions and lose their acknowledgements.                     *)
Written ==
  /\ UNCHANGED <<fts, mark, file, forgotten, highest>>
  /\ \A m \in Memory : \/ rows'[m] = rows[m] /\ acks'[m] = acks[m]
                       \/ rows[m].version < rows'[m].version /\ acks'[m] = NoAck
  /\ TasksKept /\ BootKept

Applies(t) == FtsApply(t) /\ Behind(task[t].mem, task[t].row.version)
Confirms(t) == CheckWatermark(t) /\ ~(mark[task[t].mem] < task[t].row.version)

(* A task that moves to a harmless state leaves the others as they are.    *)
LEMMA MovesKept ==
  ASSUME TypeOK, BootInv, NEW t \in Task, NEW new,
         new.pc \in Busy => /\ new.pc # "ack" /\ task[t].pc \in Busy
                            /\ new.mem = task[t].mem /\ new.row = task[t].row,
         task' = [task EXCEPT ![t] = new], boot' = boot, boot \notin Starting
  PROVE  TasksKept /\ BootKept
<1>1. task'[t] = new /\ \A x \in Task : x # t => task'[x] = task[x]
  BY DEF TypeOK
<1>2. TasksKept
  BY <1>1 DEF TasksKept, Busy
<1>3. QED
  BY <1>2 DEF BootKept

(* A task with something to do shows that the start has listed the records.*)
LEMMA AwakeStarted ==
  ASSUME BootInv, NEW t \in Task, task[t] # Resting
  PROVE  boot \notin Starting
BY DEF BootInv

(* Every step is calm, writes rows, or is one of the steps that apply and  *)
(* acknowledge a record or make a new file.                                *)
LEMMA StepKinds ==
  ASSUME TypeOK, TaskInv, BootInv, [Next]_vars
  PROVE  \/ Calm
         \/ Written
         \/ \E t \in Task : Applies(t) \/ Confirms(t) \/ Acknowledge(t)
         \/ OpenFile \/ BootReset \/ BootClear
<1>0. \A pc : At(pc).pc = pc /\ [At("next") EXCEPT !.todo = PendingText].pc = "next"
  BY DEF At
<1>1. ASSUME NEW t \in Task, NEW m \in Memory, ReadCanonical(t, m)
      PROVE  Calm
  <2> DEFINE new == [task[t] EXCEPT !.pc = "apply", !.mem = m, !.row = Read(m)]
  <2>1. boot \notin Starting
    BY <1>1, AwakeStarted DEF ReadCanonical, Resting, At
  <2>2. TasksKept /\ BootKept
    <3>1. CASE ~Exists(m)
      <4>1. Finished(t, m).pc \notin Busy
        BY FinishedType DEF Busy
      <4>2. QED
        BY <1>1, <2>1, <3>1, <4>1, MovesKept DEF ReadCanonical
    <3>2. CASE Exists(m)
      <4>1. task' = [task EXCEPT ![t] = new]
        BY <1>1, <3>2 DEF ReadCanonical
      <4>2. /\ task'[t].pc = "apply" /\ task'[t].mem = m /\ task'[t].row = Read(m)
            /\ \A x \in Task : x # t => task'[x] = task[x]
        BY <4>1 DEF TypeOK, TaskState
      <4>3. RowSeen(task[t].mem, task[t].row)'
        BY <1>1, <3>2, <4>2, Numbers DEF ReadCanonical, storeVars, RowSeen, Read, Exists
      <4>4. TasksKept
        BY <4>2, <4>3 DEF TasksKept
      <4>5. QED
        BY <1>1, <2>1, <4>4 DEF ReadCanonical, BootKept
    <3>3. QED
      BY <3>1, <3>2
  <2>3. QED
    BY <1>1, <2>2 DEF ReadCanonical, Calm, storeVars, fileVars, ghosts
<1>2. ASSUME NEW t \in Task, FtsApply(t), ~Behind(task[t].mem, task[t].row.version)
      PROVE  Calm
  <2>1. boot \notin Starting
    BY <1>2, AwakeStarted DEF FtsApply, Resting, At
  <2>2. TasksKept /\ BootKept
    <3>1. task' = [task EXCEPT ![t] = [task[t] EXCEPT !.pc = "mark"]]
      BY <1>2 DEF FtsApply
    <3>2. /\ [task[t] EXCEPT !.pc = "mark"].pc = "mark"
          /\ [task[t] EXCEPT !.pc = "mark"].mem = task[t].mem
          /\ [task[t] EXCEPT !.pc = "mark"].row = task[t].row
      BY DEF TypeOK, TaskState
    <3>3. boot' = boot /\ task[t].pc \in Busy
      BY <1>2 DEF FtsApply, Busy
    <3>4. QED
      BY <2>1, <3>1, <3>2, <3>3, MovesKept
  <2>3. QED
    BY <1>2, <2>2 DEF FtsApply, Calm, storeVars, ghosts
<1>3. ASSUME NEW t \in Task, CheckWatermark(t), mark[task[t].mem] < task[t].row.version
      PROVE  Calm
  <2>1. boot \notin Starting
    BY <1>3, AwakeStarted DEF CheckWatermark, Resting, At
  <2>2. Finished(t, task[t].mem).pc \notin Busy
    BY FinishedType DEF Busy
  <2>3. TasksKept /\ BootKept
    BY <1>3, <2>1, <2>2, MovesKept DEF CheckWatermark
  <2>4. QED
    BY <1>3, <2>3 DEF CheckWatermark, Calm, storeVars, fileVars, ghosts
<1>4. ASSUME NEW t \in Sync, TakeBatch(t) \/ StartReconcile(t) \/ ScanFile(t)
      PROVE  Calm
  <2>1. boot \notin Starting
    BY <1>4, AwakeStarted DEF TakeBatch, StartReconcile, ScanFile, Resting, At, Starting, Task
  <2>2. TasksKept /\ BootKept
    <3>1. CASE TakeBatch(t)
      BY <1>0, <2>1, <3>1, MovesKept DEF TakeBatch, Resting, Busy, Task
    <3>2. CASE StartReconcile(t)
      BY <1>0, <2>1, <3>2, MovesKept DEF StartReconcile, Busy, Task
    <3>3. CASE ScanFile(t)
      BY <1>0, <2>1, <3>3, MovesKept DEF ScanFile, Busy, Task
    <3>4. QED
      BY <1>4, <3>1, <3>2, <3>3
  <2>3. QED
    BY <1>4, <2>2 DEF TakeBatch, StartReconcile, ScanFile, Calm, storeVars, fileVars, ghosts
<1>5. ASSUME NEW t \in Sync, Forget(t)
      PROVE  Calm
  <2>1. boot \notin Starting
    BY <1>5, AwakeStarted DEF Forget, Resting, At, Task
  <2>2. TasksKept /\ BootKept
    BY <1>0, <1>5, <2>1, MovesKept DEF Forget, Busy, Task
  <2>3. QED
    BY <1>5, <2>2 DEF Forget, MarksWithout, Calm, storeVars
<1>6. ASSUME NEW t \in Sync, ResetStale(t)
      PROVE  Calm
  <2>1. boot \notin Starting
    BY <1>6, AwakeStarted DEF ResetStale, Resting, At, Task
  <2>2. TasksKept /\ BootKept
    BY <1>0, <1>6, <2>1, MovesKept DEF ResetStale, Busy, Task
  <2>3. QED
    BY <1>6, <2>2 DEF ResetStale, WithoutAcks, Calm, fileVars, ghosts
<1>7. ASSUME NEW t \in Task, RecordFails(t)
      PROVE  Calm
  <2>1. PICK m \in IF task[t].mem = None THEN task[t].todo ELSE {task[t].mem} :
               task' = [task EXCEPT ![t] = Finished(t, m)]
    BY <1>7 DEF RecordFails
  <2>2. boot \notin Starting
    BY <2>1, AwakeStarted DEF Resting, At
  <2>3. Finished(t, m).pc \notin Busy
    BY FinishedType DEF Busy
  <2>4. TasksKept /\ BootKept
    BY <1>7, <2>1, <2>2, <2>3, MovesKept DEF RecordFails
  <2>5. QED
    BY <1>7, <2>4 DEF RecordFails, Calm, storeVars, fileVars, ghosts
<1>8. ASSUME NEW t \in Task, PassFails(t)
      PROVE  Calm
  <2>1. boot \notin Starting
    BY <1>8, AwakeStarted DEF PassFails, Resting, At
  <2>2. TasksKept /\ BootKept
    BY <1>0, <1>8, <2>1, MovesKept DEF PassFails, Resting, Busy
  <2>3. QED
    BY <1>8, <2>2 DEF PassFails, Calm, storeVars, fileVars, ghosts
<1>9. ASSUME BootList
      PROVE  Calm
  <2>1. \A t \in Task : task'[t].pc \in {"idle", "next"}
    <3>1. \A t \in Task : task[t].pc = "idle"
      BY <1>9 DEF BootList, BootInv, Starting, Resting, At
    <3>2. QED
      BY <1>9, <3>1 DEF BootList, Resting, At, TypeOK
  <2>2. TasksKept
    BY <2>1 DEF TasksKept, Busy
  <2>3. BootKept
    BY <1>9 DEF BootList, BootKept, Starting
  <2>4. QED
    BY <1>9, <2>2, <2>3 DEF BootList, Calm, storeVars, fileVars, ghosts
<1>10. ASSUME BootDone
       PROVE  Calm
  BY <1>10 DEF BootDone, Calm, TasksKept, BootKept, Starting, storeVars, fileVars, ghosts
<1>11. ASSUME Restart
       PROVE  Calm
  BY <1>11 DEF Restart, Calm, TasksKept, BootKept, Resting, At, Busy, storeVars, fileVars, ghosts
<1>12. ASSUME \/ \E m \in Memory : LoseRow(m)
              \/ \E kind \in {"bad", "bare"} : DamageFile(kind)
              \/ \E S : OperatorReset(S)
              \/ \E model \in Model : Reembed(model)
              \/ UNCHANGED vars
       PROVE  Calm
  <2>1. TasksKept /\ BootKept
    BY <1>12 DEF LoseRow, DamageFile, OperatorReset, Reembed, vars, TasksKept, BootKept
  <2>2. CASE \E m \in Memory : LoseRow(m)
    BY <2>1, <2>2 DEF LoseRow, Calm, storeVars, TypeOK
  <2>3. CASE \E kind \in {"bad", "bare"} : DamageFile(kind)
    BY <2>1, <2>3 DEF DamageFile, Calm, storeVars, TypeOK
  <2>4. CASE \E S : OperatorReset(S)
    BY <2>1, <2>4 DEF OperatorReset, ResetAcks, WithoutAcks, Calm, fileVars, ghosts
  <2>5. CASE \E model \in Model : Reembed(model)
    BY <2>1, <2>5 DEF Reembed, BumpGeneration, Calm, fileVars, ghosts
  <2>6. CASE UNCHANGED vars
    BY <2>1, <2>6 DEF vars, Calm
  <2>7. QED
    BY <1>12, <2>2, <2>3, <2>4, <2>5, <2>6
<1>13. ASSUME NEW m \in Memory, OtherWrite(m)
       PROVE  Written
  <2>1. TasksKept /\ BootKept
    BY <1>13 DEF OtherWrite, TasksKept, BootKept
  <2>2. Rewritten
    BY <1>13, WriteRewrites DEF OtherWrite, TypeOK
  <2>3. QED
    BY <1>13, <2>1, <2>2 DEF OtherWrite, Rewritten, Written, fileVars, ghosts
<1>14. ASSUME NEW t \in Service, NEW m \in Memory, ServiceWrite(t, m)
       PROVE  Written
  <2>1. boot \notin Starting
    BY <1>14 DEF ServiceWrite, Starting
  <2>2. [At("next") EXCEPT !.todo = {m}].pc \notin Busy
    BY DEF At, Busy
  <2>3. TasksKept /\ BootKept
    BY <1>14, <2>1, <2>2, MovesKept DEF ServiceWrite, Task
  <2>4. \A n \in Memory : \/ rows'[n] = rows[n] /\ acks'[n] = acks[n]
                          \/ rows[n].version < rows'[n].version /\ acks'[n] = NoAck
    BY <1>14, WriteRewrites DEF ServiceWrite, Repeat, Rewritten, storeVars, TypeOK
  <2>5. QED
    BY <1>14, <2>3, <2>4 DEF ServiceWrite, Written, fileVars, ghosts
<1>15. ASSUME NEW t \in Task, ApplyStep(t)
       PROVE  Calm \/ Applies(t) \/ Confirms(t) \/ Acknowledge(t)
  BY <1>1, <1>2, <1>3, <1>7, <1>15 DEF ApplyStep, Applies, Confirms
<1>16. ASSUME NEW t \in Sync, ReconcileStep(t)
       PROVE  Calm
  BY <1>4, <1>5, <1>6, <1>8, <1>16 DEF ReconcileStep, Task
<1>17. ASSUME Environment
       PROVE  Calm \/ Written
  BY <1>7, <1>8, <1>11, <1>12, <1>13, <1>14, <1>17 DEF Environment
<1>18. QED
  BY <1>4, <1>9, <1>10, <1>12, <1>15, <1>16, <1>17 DEF Next, Boot
-----------------------------------------------------------------------------
(* Each part of the invariant is preserved.                                *)

(* What a task applied or confirmed is in its own state afterwards.        *)
LEMMA AckBound ==
  ASSUME TypeOK, NEW t \in Task, Applies(t) \/ Confirms(t)
  PROVE  /\ task[t].pc \in Busy
         /\ task'[t].pc = "ack" /\ task'[t].mem = task[t].mem /\ task'[t].row = task[t].row
         /\ \A x \in Task : x # t => task'[x] = task[x]
         /\ UNCHANGED <<rows, acks, file, boot>>
<1>1. task' = [task EXCEPT ![t] = [task[t] EXCEPT !.pc = "ack"]] /\ UNCHANGED <<rows, acks, file, boot>>
  BY DEF Applies, FtsApply, Confirms, CheckWatermark, storeVars, fileVars
<1>2. task[t].pc \in Busy
  BY DEF Applies, FtsApply, Confirms, CheckWatermark, Busy
<1>3. QED
  BY <1>1, <1>2 DEF TypeOK, TaskState

(* A row that was read stays a past state of the store.                    *)
LEMMA TaskStep == IInv /\ [Next]_vars => TaskInv'
<1> SUFFICES ASSUME IInv, [Next]_vars
             PROVE  TaskInv'
  OBVIOUS
<1> USE Numbers DEF IInv
<1>1. CASE Calm \/ Written
  <2>1. \A m \in Memory : rows'[m].version \in Nat
    BY NextNumbers
  <2>2. ASSUME NEW t \in Task, task'[t].pc \in Busy
        PROVE  task'[t].mem \in Memory /\ RowSeen(task[t].mem, task[t].row)'
    <3>1. CASE /\ task[t].pc \in Busy
               /\ task'[t].mem = task[t].mem /\ task'[t].row = task[t].row
      <4>1. task[t].mem \in Memory /\ RowSeen(task[t].mem, task[t].row)
        BY <3>1 DEF TaskInv
      <4>2. \/ rows'[task[t].mem] = rows[task[t].mem]
            \/ rows[task[t].mem].version < rows'[task[t].mem].version
        BY <1>1, <4>1 DEF Calm, Written
      <4>3. QED
        BY <2>1, <3>1, <4>1, <4>2 DEF RowSeen
    <3>2. QED
      BY <1>1, <2>2, <3>1 DEF Calm, Written, TasksKept
  <2>3. QED
    BY <2>2 DEF TaskInv
<1>2. ASSUME NEW t \in Task, Applies(t) \/ Confirms(t)
      PROVE  TaskInv'
  BY <1>2, AckBound DEF TaskInv, RowSeen
<1>3. ASSUME NEW t \in Task, Acknowledge(t)
      PROVE  TaskInv'
  <2>1. Finished(t, task[t].mem).pc \notin Busy
    BY FinishedType DEF Busy
  <2>2. QED
    BY <1>3, <2>1 DEF Acknowledge, TaskInv, RowSeen, TypeOK
<1>4. CASE OpenFile \/ BootReset \/ BootClear
  BY <1>4 DEF OpenFile, BootReset, BootClear, storeVars, TaskInv, RowSeen
<1>5. QED
  BY <1>1, <1>2, <1>3, <1>4, StepKinds

(* The first steps of a start stay alone with an empty file.               *)
LEMMA BootStep == IInv /\ [Next]_vars => BootInv'
<1> SUFFICES ASSUME IInv, [Next]_vars
             PROVE  BootInv'
  OBVIOUS
<1> USE DEF IInv
<1>1. CASE Calm
  <2>1. CASE boot' = boot /\ (boot \in Starting => task' = task)
    <3>1. boot' \in Starting => \A t \in Task : task'[t] = Resting
      BY <2>1 DEF BootInv
    <3>2. boot' \in {"reset", "clear"} =>
            \A m \in Memory : mark'[m] = 0 /\ highest'[m] = 0 /\ fts'[m] = NotIndexed
      BY <1>1, <2>1 DEF Calm, BootInv
    <3>3. Resting' = Resting /\ NotIndexed' = NotIndexed
      BY DEF Resting, At, Unseen, NotIndexed
    <3>4. QED
      BY <3>1, <3>2, <3>3 DEF BootInv
  <2>2. CASE boot' \notin Starting
    BY <2>2 DEF BootInv, Starting
  <2>3. CASE boot' = "down" /\ \A t \in Task : task'[t] = Resting
    BY <2>3 DEF BootInv, Resting, At, Unseen
  <2>4. QED
    BY <1>1, <2>1, <2>2, <2>3 DEF Calm, BootKept
<1>2. CASE Written
  <2>1. CASE boot' = boot /\ (boot \in Starting => task' = task)
    BY <1>2, <2>1 DEF Written, BootInv, Resting, At, Unseen, NotIndexed
  <2>2. CASE boot' \notin Starting
    BY <2>2 DEF BootInv, Starting
  <2>3. CASE boot' = "down" /\ \A t \in Task : task'[t] = Resting
    BY <2>3 DEF BootInv, Resting, At, Unseen
  <2>4. QED
    BY <1>2, <2>1, <2>2, <2>3 DEF Written, BootKept
<1>3. ASSUME NEW t \in Task, Applies(t) \/ Confirms(t) \/ Acknowledge(t)
      PROVE  BootInv'
  <2>1. boot' = boot /\ task[t] # Resting
    BY <1>3, AckBound DEF Acknowledge, Resting, At, Busy
  <2>2. boot' \notin Starting
    BY <2>1, AwakeStarted
  <2>3. QED
    BY <2>2 DEF BootInv, Starting
<1>4. CASE OpenFile
  BY <1>4 DEF OpenFile, EmptyFile, BootInv, Starting, Resting, At, Unseen, NotIndexed
<1>5. CASE BootReset
  BY <1>5 DEF BootReset, fileVars, BootInv, Starting, Resting, At, Unseen, NotIndexed
<1>6. CASE BootClear
  BY <1>6 DEF BootClear, BootInv, Starting, Resting, At, Unseen
<1>7. QED
  BY <1>1, <1>2, <1>3, <1>4, <1>5, <1>6, StepKinds

(* A lost file stays forgotten, or unacknowledged, until there is a new one.*)
LEMMA FileStep == IInv /\ [Next]_vars => FileInv'
<1> SUFFICES ASSUME IInv, [Next]_vars
             PROVE  FileInv'
  OBVIOUS
<1> USE DEF IInv
<1>1. forgotten \subseteq Memory /\ forgotten' \subseteq Memory
  BY TypeStep DEF TypeOK
<1>2. CASE Calm
  <2>1. CASE file' = "sound" \/ forgotten' = Memory
    BY <2>1 DEF FileInv
  <2>2. CASE file' # "sound" /\ forgotten' # Memory
    <3>1. file # "sound" /\ forgotten # Memory
      BY <1>1, <1>2, <2>2 DEF Calm
    <3>2. boot \in {"down", "reset", "clear"} /\ \A m \in Memory : acks[m] = NoAck
      BY <3>1 DEF FileInv
    <3>3. boot' \in {"down", "reset", "clear"}
      BY <1>2, <3>2 DEF Calm, BootKept
    <3>4. \A m \in Memory : acks'[m] = NoAck
      BY <1>2, <3>2 DEF Calm
    <3>5. QED
      BY <3>3, <3>4 DEF FileInv, NoAck
  <2>3. QED
    BY <2>1, <2>2
<1>3. CASE Written
  <2>1. \A m \in Memory : acks'[m] = acks[m] \/ acks'[m] = NoAck
    BY <1>3 DEF Written
  <2>2. boot \in {"down", "reset", "clear"} => boot' \in {"down", "reset", "clear"}
    BY <1>3 DEF Written, BootKept
  <2>3. QED
    BY <1>3, <2>1, <2>2 DEF Written, FileInv, NoAck
<1>4. ASSUME NEW t \in Task, Applies(t) \/ Confirms(t)
      PROVE  FileInv'
  <2>1. file' = "sound"
    BY <1>4 DEF Applies, FtsApply, Confirms, CheckWatermark, fileVars
  <2>2. QED
    BY <2>1 DEF FileInv
<1>5. ASSUME NEW t \in Task, Acknowledge(t)
      PROVE  FileInv'
  <2>1. boot \notin {"down", "reset", "clear"}
    BY <1>5, AwakeStarted DEF Acknowledge, Resting, At, Starting
  <2>2. QED
    BY <1>5, <2>1 DEF Acknowledge, fileVars, ghosts, FileInv
<1>6. CASE OpenFile
  BY <1>6 DEF OpenFile, fileVars, FileInv
<1>7. CASE BootReset
  BY <1>7 DEF BootReset, AcksOfNewFile, WithoutAcks, FileInv, NoAck
<1>8. CASE BootClear
  BY <1>8 DEF BootClear, FileInv
<1>9. QED
  BY <1>2, <1>3, <1>4, <1>5, <1>6, <1>7, <1>8, StepKinds
(* The watermark stays behind the store, and describes what the file holds.*)
LEMMA MarkStep == IInv /\ [Next]_vars => MarkInv'
<1> SUFFICES ASSUME IInv, [Next]_vars
             PROVE  MarkInv'
  OBVIOUS
<1> USE Numbers DEF IInv
<1>0. NotIndexed.version = 0 /\ \A m \in Memory : rows'[m].version \in Nat
  BY NextNumbers DEF NotIndexed
<1>1. CASE Calm
  BY <1>0, <1>1 DEF Calm, MarkInv, HoldsRow, Exists, NotIndexed
<1>2. CASE Written
  <2>1. ASSUME NEW m \in Memory
        PROVE  /\ mark'[m] <= rows'[m].version /\ highest'[m] <= rows'[m].version
               /\ m \notin forgotten' =>
                    /\ highest'[m] <= mark'[m]
                    /\ fts'[m].version > 0 => fts'[m].version = mark'[m]
                    /\ Exists(m)' /\ mark'[m] = rows'[m].version => HoldsRow(m)'
    <3>1. CASE rows'[m] = rows[m]
      BY <1>2, <3>1 DEF Written, MarkInv, HoldsRow, Exists, NotIndexed
    <3>2. CASE rows[m].version < rows'[m].version
      <4>1. mark[m] < rows'[m].version /\ highest[m] < rows'[m].version
        BY <1>0, <3>2 DEF MarkInv
      <4>2. QED
        BY <1>0, <1>2, <4>1 DEF Written, MarkInv
    <3>3. QED
      BY <1>2, <3>1, <3>2 DEF Written
  <2>2. QED
    BY <2>1 DEF MarkInv
<1>3. ASSUME NEW t \in Task, Applies(t)
      PROVE  MarkInv'
  <2>0. PICK w \in Memory : w = task[t].mem
    BY <1>3 DEF Applies, FtsApply, TaskInv, Busy
  <2> DEFINE row == task[t].row
  <2>1. RowSeen(w, row) /\ mark[w] < row.version
    BY <1>3, <2>0 DEF Applies, FtsApply, Behind, TaskInv, Busy
  <2>2. /\ fts' = [fts EXCEPT ![w] = IF row.deleted THEN NotIndexed
                                     ELSE [version |-> row.version, text |-> row.text]]
        /\ mark' = [mark EXCEPT ![w] = row.version]
        /\ highest' = [highest EXCEPT ![w] = IF @ < row.version THEN row.version ELSE @]
        /\ forgotten' = IF row.version = rows[w].version THEN forgotten \ {w} ELSE forgotten
        /\ rows' = rows
    BY <1>3, <2>0 DEF Applies, FtsApply, storeVars
  <2>3. ASSUME NEW m \in Memory, m # w
        PROVE  /\ mark'[m] = mark[m] /\ highest'[m] = highest[m] /\ fts'[m] = fts[m]
               /\ m \notin forgotten' => m \notin forgotten
    BY <2>0, <2>2, <2>3 DEF TypeOK
  <2>4. /\ mark'[w] = row.version
        /\ highest'[w] = IF highest[w] < row.version THEN row.version ELSE highest[w]
        /\ fts'[w] = IF row.deleted THEN NotIndexed
                     ELSE [version |-> row.version, text |-> row.text]
    BY <2>0, <2>2 DEF TypeOK
  <2>5. mark'[w] <= rows[w].version /\ highest'[w] <= rows[w].version
    BY <2>0, <2>1, <2>4 DEF RowSeen, MarkInv
  <2>6. fts'[w].version > 0 => fts'[w].version = mark'[w]
    BY <1>0, <2>4
  <2>7. w \notin forgotten' => highest'[w] <= mark'[w]
    BY <2>0, <2>1, <2>2, <2>4, <2>5 DEF MarkInv
  <2>8. mark'[w] = rows[w].version => HoldsRow(w)'
    BY <2>0, <2>1, <2>2, <2>4 DEF RowSeen, HoldsRow, NotIndexed
  <2>9. ASSUME NEW m \in Memory, m # w
        PROVE  /\ mark'[m] <= rows'[m].version /\ highest'[m] <= rows'[m].version
               /\ m \notin forgotten' =>
                    /\ highest'[m] <= mark'[m]
                    /\ fts'[m].version > 0 => fts'[m].version = mark'[m]
                    /\ Exists(m)' /\ mark'[m] = rows'[m].version => HoldsRow(m)'
    BY <2>2, <2>3, <2>9 DEF MarkInv, HoldsRow, Exists, NotIndexed
  <2>10. QED
    BY <2>0, <2>2, <2>5, <2>6, <2>7, <2>8, <2>9 DEF MarkInv
<1>4. ASSUME NEW t \in Task, Confirms(t) \/ Acknowledge(t)
      PROVE  MarkInv'
  BY <1>4 DEF Confirms, CheckWatermark, Acknowledge, storeVars, fileVars, ghosts, MarkInv,
              HoldsRow, Exists, NotIndexed
<1>5. CASE OpenFile
  BY <1>0, <1>5 DEF OpenFile, EmptyFile, storeVars, fileVars, MarkInv, HoldsRow, Exists, NotIndexed
<1>6. CASE BootReset
  BY <1>0, <1>6 DEF BootReset, fileVars, BootInv, MarkInv, HoldsRow, Exists, NotIndexed
<1>7. CASE BootClear
  BY <1>0, <1>7 DEF BootClear, EmptyFile, storeVars, ghosts, BootInv, MarkInv, HoldsRow, Exists,
                    NotIndexed
<1>8. QED
  BY <1>1, <1>2, <1>3, <1>4, <1>5, <1>6, <1>7, StepKinds

(* A confirmed version stays at the watermark.                             *)
LEMMA ConfirmStep == IInv /\ [Next]_vars => ConfirmInv'
<1> SUFFICES ASSUME IInv, [Next]_vars
             PROVE  ConfirmInv'
  OBVIOUS
<1> USE Numbers DEF IInv
<1>0. NoAck.version = 0 /\ \A m \in Memory : rows'[m].version \in Nat
  BY NextNumbers DEF NoAck
<1>1. CASE Calm \/ Written
  <2>1. ASSUME NEW m \in Memory, Confirmed(m)'
        PROVE  rows'[m] = rows[m] /\ Confirmed(m)
    <3>1. CASE AckCurrent(m)'
      <4>1. acks'[m] # NoAck
        BY <1>0, <3>1 DEF AckCurrent, Exists
      <4>2. QED
        BY <1>1, <3>1, <4>1 DEF Calm, Written, AckCurrent, Exists, Confirmed
    <3>2. CASE ~AckCurrent(m)'
      <4>1. PICK t \in Task : Acking(t, m)' /\ task'[t].row.version = rows'[m].version
        BY <2>1, <3>2 DEF Confirmed
      <4>2. task[t].pc = "ack" /\ task[t].mem = m /\ task[t].row = task'[t].row
        BY <1>1, <4>1 DEF Calm, Written, TasksKept, Acking, Busy
      <4>3. task[t].row.version <= rows[m].version
        BY <4>2 DEF TaskInv, RowSeen, Busy
      <4>4. rows'[m] = rows[m]
        BY <1>0, <1>1, <4>1, <4>2, <4>3 DEF Calm, Written
      <4>5. QED
        BY <4>1, <4>2, <4>4 DEF Confirmed, Acking
    <3>3. QED
      BY <3>1, <3>2
  <2>2. QED
    BY <1>1, <2>1 DEF Calm, Written, ConfirmInv
<1>2. ASSUME NEW t \in Task, Applies(t) \/ Confirms(t)
      PROVE  ConfirmInv'
  <2>0. PICK w \in Memory : w = task[t].mem
    BY <1>2, AckBound DEF TaskInv
  <2> DEFINE row == task[t].row
  <2>1. RowSeen(w, row)
    BY <1>2, <2>0, AckBound DEF TaskInv
  <2>2. ASSUME NEW m \in Memory, m # w, Confirmed(m)'
        PROVE  mark'[m] = rows'[m].version \/ m \in forgotten'
    <3>1. Confirmed(m)
      BY <1>2, <2>0, <2>2, AckBound DEF Confirmed, AckCurrent, Exists, Acking
    <3>2. mark'[m] = mark[m] /\ (m \in forgotten => m \in forgotten')
      BY <1>2, <2>0, <2>2 DEF Applies, FtsApply, Confirms, CheckWatermark, fileVars, ghosts, TypeOK
    <3>3. QED
      BY <1>2, <3>1, <3>2, AckBound DEF ConfirmInv
  <2>3. ASSUME Confirmed(w)', row.version # rows[w].version
        PROVE  Confirmed(w)
    BY <1>2, <2>0, <2>3, AckBound DEF Confirmed, AckCurrent, Exists, Acking
  <2>4. CASE Applies(t)
    <3>1. /\ mark' = [mark EXCEPT ![w] = row.version] /\ rows' = rows
          /\ forgotten' = IF row.version = rows[w].version THEN forgotten \ {w} ELSE forgotten
          /\ mark[w] < row.version
      BY <2>0, <2>4 DEF Applies, FtsApply, Behind, storeVars
    <3>2. CASE row.version = rows[w].version
      BY <2>0, <2>2, <3>1, <3>2 DEF ConfirmInv, TypeOK
    <3>3. CASE row.version # rows[w].version
      <4>1. Confirmed(w)' => w \in forgotten
        BY <2>0, <2>1, <2>3, <3>1, <3>3 DEF ConfirmInv, RowSeen
      <4>2. QED
        BY <2>2, <3>1, <3>3, <4>1 DEF ConfirmInv
    <3>4. QED
      BY <3>2, <3>3
  <2>5. CASE Confirms(t)
    <3>1. UNCHANGED <<mark, forgotten, rows>> /\ ~(mark[w] < row.version)
      BY <2>0, <2>5 DEF Confirms, CheckWatermark, storeVars, fileVars, ghosts
    <3>2. row.version = rows[w].version => mark[w] = rows[w].version
      BY <2>0, <3>1 DEF MarkInv
    <3>3. QED
      BY <2>2, <2>3, <3>1, <3>2 DEF ConfirmInv
  <2>6. QED
    BY <1>2, <2>4, <2>5
<1>3. ASSUME NEW t \in Task, Acknowledge(t)
      PROVE  ConfirmInv'
  <2>0. PICK w \in Memory : w = task[t].mem
    BY <1>3 DEF Acknowledge, TaskInv, Busy
  <2>1. /\ Acking(t, w)
        /\ UNCHANGED <<rows, mark, forgotten>>
        /\ acks' = AcksAfter(w, task[t].row.version, task[t].row.generation)
    BY <1>3, <2>0 DEF Acknowledge, fileVars, ghosts, Acking
  <2>2. ASSUME NEW x \in Task, task'[x].pc \in Busy
        PROVE  task'[x] = task[x]
    BY <1>3, <2>2, FinishedType DEF Acknowledge, TypeOK, Busy
  <2>3. ASSUME NEW m \in Memory, AckCurrent(m)'
        PROVE  Confirmed(m)
    <3>1. CASE acks'[m] = acks[m]
      BY <2>1, <2>3, <3>1 DEF AckCurrent, Exists, Confirmed
    <3>2. CASE acks'[m] # acks[m]
      <4>1. m = w /\ acks'[m].version = task[t].row.version
        BY <2>1, <3>2 DEF AcksAfter, TypeOK, StoreTypeOK
      <4>2. QED
        BY <2>1, <2>3, <4>1 DEF AckCurrent, Confirmed
    <3>3. QED
      BY <3>1, <3>2
  <2>4. ASSUME NEW m \in Memory, Confirmed(m)'
        PROVE  Confirmed(m)
    BY <2>1, <2>2, <2>3, <2>4 DEF Confirmed, Acking, Busy
  <2>5. QED
    BY <2>1, <2>4 DEF ConfirmInv
<1>4. ASSUME \A t \in Task : task[t] = Resting, UNCHANGED <<rows, task>>,
             \A m \in Memory : AckCurrent(m)' => mark'[m] = rows[m].version \/ m \in forgotten'
      PROVE  ConfirmInv'
  BY <1>4 DEF ConfirmInv, Confirmed, Acking, Resting, At
<1>5. CASE OpenFile
  <2>1. ASSUME NEW m \in Memory, AckCurrent(m)'
        PROVE  mark'[m] = rows[m].version \/ m \in forgotten'
    <3>1. AckCurrent(m) /\ acks[m] # NoAck
      BY <1>0, <1>5, <2>1 DEF OpenFile, storeVars, AckCurrent, Exists
    <3>2. QED
      BY <1>5, <2>1, <3>1 DEF OpenFile, fileVars, FileInv, ConfirmInv, Confirmed
  <2>2. QED
    BY <1>4, <1>5, <2>1 DEF OpenFile, storeVars, BootInv, Starting
<1>6. CASE BootReset
  <2>1. \A m \in Memory : ~AckCurrent(m)'
    BY <1>0, <1>6 DEF BootReset, AcksOfNewFile, WithoutAcks, AckCurrent, Exists
  <2>2. QED
    BY <1>4, <1>6, <2>1 DEF BootReset, BootInv, Starting
<1>7. CASE BootClear
  <2>1. mark' = mark
    BY <1>7 DEF BootClear, EmptyFile, BootInv, TypeOK
  <2>2. QED
    BY <1>4, <1>7, <2>1 DEF BootClear, storeVars, ghosts, BootInv, Starting, ConfirmInv, Confirmed,
       AckCurrent, Exists
<1>8. QED
  BY <1>1, <1>2, <1>3, <1>5, <1>6, <1>7, StepKinds

-----------------------------------------------------------------------------
(* The theorems.                                                           *)

(* The invariant holds initially.                                          *)
LEMMA InvInit == Init => IInv
<1> SUFFICES ASSUME Init
             PROVE  IInv
  OBVIOUS
<1>1. TypeOK
  BY TypeInit
<1>2. /\ \A t \in Task : task[t].pc = "idle"
      /\ \A m \in Memory : /\ rows[m].version = 0 /\ mark[m] = 0 /\ highest[m] = 0
                           /\ fts[m].version = 0
      /\ boot = "up" /\ file = "sound"
  BY DEF Init, StoreInit, Resting, At, NoRow, NotIndexed
<1>3. TaskInv /\ BootInv /\ FileInv
  BY <1>2 DEF TaskInv, BootInv, FileInv, Busy, Starting
<1>4. MarkInv
  <2>1. ASSUME NEW m \in Memory
        PROVE  /\ rows[m].version = 0 /\ mark[m] = 0 /\ highest[m] = 0
               /\ fts[m].version = 0
    BY <1>2
  <2>2. ~(0 > 0) /\ 0 <= 0
    OBVIOUS
  <2>3. QED
    BY <2>1, <2>2 DEF MarkInv, Exists
<1>5. ConfirmInv
  BY <1>2 DEF ConfirmInv, Confirmed, AckCurrent, Exists, Acking
<1>6. QED
  BY <1>1, <1>3, <1>4, <1>5 DEF IInv

(* Every step keeps the invariant.                                         *)
LEMMA InvStep == IInv /\ [Next]_vars => IInv'
BY TypeStep, TaskStep, BootStep, FileStep, MarkStep, ConfirmStep DEF IInv

(* The inductive invariant holds in every reachable state.                 *)
THEOREM Invariance == Spec => []IInv
BY InvInit, InvStep, PTL DEF Spec

(* Whatever the tasks do and whatever the file goes through, a record that *)
(* is acknowledged is in the file as it is in the store, unless its row    *)
(* was lost or forgotten since its version was applied.                    *)
THEOREM Acknowledged == Spec => []AckMeansIndexedUnlessForgotten
<1>1. IInv => AckMeansIndexedUnlessForgotten
  BY DEF IInv, ConfirmInv, Confirmed, MarkInv, AckCurrent, AckMeansIndexedUnlessForgotten
<1>2. QED
  BY <1>1, Invariance, PTL

(* No older row takes the place of one that was applied, or of a tombstone,*)
(* unless the file was made to forget the record.                          *)
THEOREM Kept == Spec => []NeverBroughtBackUnlessForgotten
<1>1. IInv => NeverBroughtBackUnlessForgotten
  <2>1. ASSUME IInv, NEW m \in Memory, fts[m].version > 0, m \notin forgotten
        PROVE  fts[m].version >= highest[m]
    BY <2>1, Numbers DEF IInv, MarkInv
  <2>2. QED
    BY <2>1 DEF NeverBroughtBackUnlessForgotten
<1>2. QED
  BY <1>1, Invariance, PTL
=============================================================================
