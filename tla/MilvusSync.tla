------------------------------ MODULE MilvusSync ------------------------------
(***************************************************************************)
(* The shared "milvus" consumer of the memory store (memory_index.py): the *)
(* collection that every machine's server keeps in step with Postgres.     *)
(*                                                                         *)
(* A task is an asyncio task of one server.  A sync task runs the passes   *)
(* of the memory sync loop: reconcile() when it is due, then tick().  A    *)
(* service task runs the apply() that follows a write.  Every step below   *)
(* is one awaited call, so tasks of one server, and of several servers,    *)
(* interleave between them.  A pass whose timeout left a call running is a *)
(* second sync task of the same server, which moves late and then fails.   *)
(* The keyword half of reconcile() and tick() is FtsSync.                  *)
(*                                                                         *)
(* A Milvus call that raises may have landed or not; the model assumes     *)
(* that it does not land after the caller gave up its record lock.         *)
(***************************************************************************)
EXTENDS CanonicalStore

CONSTANTS
  Host,          \* servers
  Sync,          \* tasks that run the memory sync loop
  Service,       \* tasks that run a write tool and then apply its record
  HostOf,        \* the server a task runs on
  MaxRaces,      \* MAX_EMBED_RACES
  MaxFaults      \* bound on failures, restarts, losses and operator resets

Task == Sync \cup Service

ASSUME SyncAssumption ==
  /\ Sync \cap Service = {}
  /\ HostOf \in [Task -> Host]
  /\ MaxRaces \in Nat \ {0}
  /\ MaxFaults \in Nat
  /\ None \notin Task

VARIABLES
  milvus,      \* the collection: version 0 is a missing entity
  locks,       \* pg_advisory_xact_lock per record: its owner, or None
  hostModel,   \* the local model of each server
  blocked,     \* milvus_blocked of each server's MemoryIndex
  task,        \* the progress of each task
  recon,       \* what each sync task's reconcile has read so far
  purged,      \* records whose entity was lost, or deleted as a stray, since its last write
  faults       \* failures and operator actions so far

vars == <<rows, acks, meta, milvus, locks, hostModel, blocked, task, recon, purged, faults>>

-----------------------------------------------------------------------------
(* The row a task read, with the generation it was read with.              *)
Seen == [version : 0..MaxVersion, text : Text \cup {None}, deleted : BOOLEAN,
         generation : 0..MaxGeneration]
Unseen == [version |-> 0, text |-> None, deleted |-> FALSE, generation |-> 0]

Read(m) == [version |-> rows[m].version, text |-> rows[m].text,
            deleted |-> rows[m].deleted, generation |-> meta.generation]

(* An entity's vector is the text it was computed from and the model used. *)
Entity == [version : 0..MaxVersion, generation : 0..MaxGeneration,
           text : Text \cup {None}, model : Model \cup {None}]
NoEntity == [version |-> 0, generation |-> 0, text |-> None, model |-> None]

ReconcilePC == {"refresh", "scan", "purge", "reset"}
WithRecord == {"read", "check", "lock", "write", "ack"}
ApplyPC == {"next"} \cup WithRecord

TaskState ==
  [pc : {"idle", "tick", "pending"} \cup ReconcilePC \cup ApplyPC,
   todo : SUBSET Memory, mem : Memory \cup {None}, row : Seen,
   text : Text \cup {None}, races : 0..MaxRaces - 1]

At(pc) == [pc |-> pc, todo |-> {}, mem |-> None, row |-> Unseen, text |-> None, races |-> 0]
Resting == At("idle")

(* The rows index_state() returned, then what they say about the scan.     *)
ViewRow == [version : 0..MaxVersion, deleted : BOOLEAN, generation : 0..MaxGeneration]
NoViewRow == [version |-> 0, deleted |-> FALSE, generation |-> 0]
ReconState == [view : [Memory -> ViewRow], stale : SUBSET Memory, strays : SUBSET Memory]
NothingRead == [view |-> [m \in Memory |-> NoViewRow], stale |-> {}, strays |-> {}]

TypeOK ==
  /\ StoreTypeOK
  /\ milvus \in [Memory -> Entity]
  /\ locks \in [Memory -> Task \cup {None}]
  /\ hostModel \in [Host -> Model]
  /\ blocked \in [Host -> BOOLEAN]
  /\ task \in [Task -> TaskState]
  /\ \A t \in Task : task[t].pc \in WithRecord => task[t].mem # None
  /\ recon \in [Sync -> ReconState]
  /\ purged \subseteq Memory
  /\ faults \in 0..MaxFaults

(* Every server has run start(), so some server's model is the memory      *)
(* model and the others found out that theirs is not.                      *)
Init ==
  /\ StoreInit
  /\ milvus = [m \in Memory |-> NoEntity]
  /\ locks = [m \in Memory |-> None]
  /\ hostModel \in [Host -> Model]
  /\ \E h \in Host : meta.model = hostModel[h]
  /\ blocked = [h \in Host |-> hostModel[h] # meta.model]
  /\ task = [t \in Task |-> Resting]
  /\ recon = [t \in Sync |-> NothingRead]
  /\ purged = {}
  /\ faults = 0

-----------------------------------------------------------------------------
(* Helpers for the tasks.                                                  *)

(* The record is done, applied or not; the next of the batch follows.      *)
Finished(t, m) ==
  LET rest == task[t].todo \ {m}
  IN  IF rest = {} THEN Resting ELSE [At("next") EXCEPT !.todo = rest]

(* Mutant: one attempt too many.                                           *)
RacedOnceMore(t) ==
  IF task[t].races < MaxRaces
  THEN [At("read") EXCEPT !.todo = task[t].todo, !.mem = task[t].mem,
                          !.races = task[t].races + 1]
  ELSE Finished(t, task[t].mem)

(* _milvus_write returned None: the text is embedded again, MaxRaces times. *)
Raced(t) ==
  IF task[t].races + 1 < MaxRaces
  THEN [At("read") EXCEPT !.todo = task[t].todo, !.mem = task[t].mem,
                          !.races = task[t].races + 1]
  ELSE Finished(t, task[t].mem)

(* Compare the stored model with this server's and set or clear the block.  *)
Mismatch(h) == hostModel[h] # meta.model
RefreshBlock(h) == blocked' = [blocked EXCEPT ![h] = Mismatch(h)]

-----------------------------------------------------------------------------
(* tick(): refresh the block, read the pending batch, apply each record.   *)

StartTick(t) ==
  /\ task[t].pc \in {"idle", "tick"}
  /\ RefreshBlock(HostOf[t])
  /\ task' = [task EXCEPT ![t] = At("pending")]
  /\ UNCHANGED <<rows, acks, meta, milvus, locks, hostModel, recon, purged, faults>>

TakeBatch(t) ==
  /\ task[t].pc = "pending"
  /\ task' = [task EXCEPT ![t] =
       IF blocked[HostOf[t]] \/ PendingVectors = {} THEN Resting
       ELSE [At("next") EXCEPT !.todo = PendingVectors]]
  /\ UNCHANGED <<rows, acks, meta, milvus, locks, hostModel, blocked, recon, purged, faults>>

(* A write tool commits its transaction and applies the record it changed. *)
(* The records it superseded wait for a tick.                              *)
ServiceWrite(t, m) ==
  /\ task[t].pc = "idle"
  /\ Write(m) \/ Repeat(m)
  /\ task' = [task EXCEPT ![t] = [At("next") EXCEPT !.todo = {m}]]
  /\ UNCHANGED <<milvus, locks, hostModel, blocked, recon, purged, faults>>

(* memory_cli import writes without applying anything.                     *)
CliWrite(m) ==
  /\ Write(m)
  /\ UNCHANGED <<milvus, locks, hostModel, blocked, task, recon, purged, faults>>

-----------------------------------------------------------------------------
(* _apply_milvus(m): read, check the acknowledgement and embed, write      *)
(* under the record lock, acknowledge.                                     *)

ReadCanonical(t, m) ==
  /\ \/ task[t].pc = "next" /\ m \in task[t].todo
     \/ task[t].pc = "read" /\ m = task[t].mem
  /\ task' = [task EXCEPT ![t] =
       IF blocked[HostOf[t]] \/ ~Exists(m) THEN Finished(t, m)
       ELSE [@ EXCEPT !.pc = "check", !.mem = m, !.row = Read(m)]]
  /\ UNCHANGED <<rows, acks, meta, milvus, locks, hostModel, blocked, recon, purged, faults>>

CheckAndEmbed(t) ==
  LET row == task[t].row
      m == task[t].mem
  IN  /\ task[t].pc = "check"
      /\ task' = [task EXCEPT ![t] =
           IF IsAcked(m, row.version, row.generation) THEN Finished(t, m)
           ELSE [@ EXCEPT !.pc = "lock", !.text = IF row.deleted THEN None ELSE row.text]]
      /\ UNCHANGED <<rows, acks, meta, milvus, locks, hostModel, blocked, recon, purged, faults>>

(* Mutant: any vector will do.                                             *)
EmbeddedOnce(t, m) == task[t].text # None

(* The vector at hand was computed from the row's current text.            *)
Embedded(t, m) == task[t].text # None /\ task[t].text = rows[m].text

(* Mutant: the model is not compared under the lock.                       *)
MayWriteAnyModel(t, m) == rows[m].deleted \/ Embedded(t, m)

(* What the read under the lock allows: a delete, or the upsert of a       *)
(* vector of the current text by the memory model.                         *)
MayWrite(t, m) == rows[m].deleted \/ (Embedded(t, m) /\ ~Mismatch(HostOf[t]))

(* Mutant: no advisory lock.                                               *)
Unlocked(m) == m \in Memory

LockFree(m) == locks[m] = None

(* locked_canonical(): the row and the model are read under the lock,      *)
(* which is given up at once when nothing may be written.                  *)
LockAndRead(t) ==
  LET m == task[t].mem
  IN  /\ task[t].pc = "lock"
      /\ LockFree(m)
      /\ \/ /\ MayWrite(t, m)
            /\ locks' = [locks EXCEPT ![m] = t]
            /\ task' = [task EXCEPT ![t] = [@ EXCEPT !.pc = "write", !.row = Read(m)]]
         \/ /\ ~MayWrite(t, m)
            /\ task' = [task EXCEPT ![t] = Raced(t)]
            /\ UNCHANGED locks
      /\ IF ~rows[m].deleted /\ Embedded(t, m) THEN RefreshBlock(HostOf[t]) ELSE UNCHANGED blocked
      /\ UNCHANGED <<rows, acks, meta, milvus, hostModel, recon, purged, faults>>

(* The delete or upsert lands and the transaction ends.                    *)
MilvusWrite(t) ==
  LET m == task[t].mem
      row == task[t].row
  IN  /\ task[t].pc = "write"
      /\ milvus' = [milvus EXCEPT ![m] =
           IF row.deleted THEN NoEntity
           ELSE [version |-> row.version, generation |-> row.generation,
                 text |-> task[t].text, model |-> hostModel[HostOf[t]]]]
      /\ locks' = [locks EXCEPT ![m] = None]
      /\ purged' = purged \ {m}
      /\ task' = [task EXCEPT ![t] = [@ EXCEPT !.pc = "ack"]]
      /\ UNCHANGED <<rows, acks, meta, hostModel, blocked, recon, faults>>

Acknowledge(t) ==
  /\ task[t].pc = "ack"
  /\ acks' = AcksAfter(task[t].mem, task[t].row.version, task[t].row.generation)
  /\ task' = [task EXCEPT ![t] = Finished(t, task[t].mem)]
  /\ UNCHANGED <<rows, meta, milvus, locks, hostModel, blocked, recon, purged, faults>>

-----------------------------------------------------------------------------
(* The Milvus half of reconcile(); the tick follows whatever it did.       *)

IndexState == [m \in Memory |-> [version |-> rows[m].version, deleted |-> rows[m].deleted,
                                 generation |-> meta.generation]]

StartReconcile(t) ==
  /\ task[t].pc = "idle"
  /\ recon' = [recon EXCEPT ![t] = [NothingRead EXCEPT !.view = IndexState]]
  /\ task' = [task EXCEPT ![t] = At("refresh")]
  /\ UNCHANGED <<rows, acks, meta, milvus, locks, hostModel, blocked, purged, faults>>

RefreshForReconcile(t) ==
  /\ task[t].pc = "refresh"
  /\ RefreshBlock(HostOf[t])
  /\ task' = [task EXCEPT ![t] = At(IF Mismatch(HostOf[t]) THEN "tick" ELSE "scan")]
  /\ recon' = IF Mismatch(HostOf[t]) THEN [recon EXCEPT ![t] = NothingRead] ELSE recon
  /\ UNCHANGED <<rows, acks, meta, milvus, locks, hostModel, purged, faults>>

(* The entity differs from the row index_state() returned.                 *)
Differs(seen, entity) ==
  IF seen.deleted THEN entity.version > 0
  ELSE entity.version # seen.version \/ entity.generation # seen.generation

(* Mutant: a record Milvus does not hold is not compared.                  *)
StaleHeld(view) ==
  {m \in Memory : view[m].version > 0 /\ milvus[m].version > 0 /\ Differs(view[m], milvus[m])}

Stale(view) == {m \in Memory : view[m].version > 0 /\ Differs(view[m], milvus[m])}
Strays(view) == {m \in Memory : view[m].version = 0 /\ milvus[m].version > 0}

ScanMilvus(t) ==
  LET stale == Stale(recon[t].view)
      strays == Strays(recon[t].view)
  IN  /\ task[t].pc = "scan"
      /\ recon' = [recon EXCEPT ![t] = [NothingRead EXCEPT !.stale = stale, !.strays = strays]]
      /\ task' = [task EXCEPT ![t] = At(IF strays # {} THEN "purge"
                                        ELSE IF stale # {} THEN "reset" ELSE "tick")]
      /\ UNCHANGED <<rows, acks, meta, milvus, locks, hostModel, blocked, purged, faults>>

PurgeStrays(t) ==
  LET strays == recon[t].strays
  IN  /\ task[t].pc = "purge"
      /\ milvus' = [m \in Memory |-> IF m \in strays THEN NoEntity ELSE milvus[m]]
      /\ purged' = purged \cup strays
      /\ recon' = [recon EXCEPT ![t] = [NothingRead EXCEPT !.stale = recon[t].stale]]
      /\ task' = [task EXCEPT ![t] = At(IF recon[t].stale # {} THEN "reset" ELSE "tick")]
      /\ UNCHANGED <<rows, acks, meta, locks, hostModel, blocked, faults>>

ResetStale(t) ==
  /\ task[t].pc = "reset"
  /\ acks' = WithoutAcks(recon[t].stale)
  /\ recon' = [recon EXCEPT ![t] = NothingRead]
  /\ task' = [task EXCEPT ![t] = At("tick")]
  /\ UNCHANGED <<rows, meta, milvus, locks, hostModel, blocked, purged, faults>>

-----------------------------------------------------------------------------
(* Failures and operators.                                                 *)

Fault == faults < MaxFaults /\ faults' = faults + 1

(* The connection of the task ends, and with it its lock.                  *)
Released(t) == [m \in Memory |-> IF locks[m] = t THEN None ELSE locks[m]]

(* A store, embedding or Milvus call raised: the record stays pending and  *)
(* the batch goes on.                                                      *)
RecordFails(t) ==
  /\ Fault
  /\ \E m \in IF task[t].mem = None THEN task[t].todo ELSE {task[t].mem} :
       task' = [task EXCEPT ![t] = Finished(t, m)]
  /\ locks' = Released(t)
  /\ UNCHANGED <<rows, acks, meta, milvus, hostModel, blocked, recon, purged>>

(* A call of the pass itself raised, or the pass timed out, or a service   *)
(* call was cancelled.  A failed reconcile still hands over to the tick.   *)
PassFails(t) ==
  /\ Fault
  /\ task[t].pc # "idle"
  /\ task' = [task EXCEPT ![t] = IF task[t].pc \in ReconcilePC THEN At("tick") ELSE Resting]
  /\ recon' = [x \in Sync |-> IF x = t THEN NothingRead ELSE recon[x]]
  /\ locks' = Released(t)
  /\ UNCHANGED <<rows, acks, meta, milvus, hostModel, blocked, purged>>

(* The server stops, maybe gets another model, and runs start() again.     *)
Restart(h, model) ==
  /\ Fault
  /\ hostModel' = [hostModel EXCEPT ![h] = model]
  /\ blocked' = [blocked EXCEPT ![h] = model # meta.model]
  /\ task' = [t \in Task |-> IF HostOf[t] = h THEN Resting ELSE task[t]]
  /\ locks' = [m \in Memory |-> IF locks[m] # None /\ HostOf[locks[m]] = h THEN None ELSE locks[m]]
  /\ recon' = [t \in Sync |-> IF HostOf[t] = h THEN NothingRead ELSE recon[t]]
  /\ UNCHANGED <<rows, acks, meta, milvus, purged>>

(* Milvus loses an entity: what reconcile is there to repair.              *)
LoseEntity(m) ==
  /\ Fault
  /\ milvus[m].version > 0
  /\ milvus' = [milvus EXCEPT ![m] = NoEntity]
  /\ purged' = purged \cup {m}
  /\ UNCHANGED <<rows, acks, meta, locks, hostModel, blocked, task, recon>>

(* memory_cli rebuild and reindex, and the reset that ends a reembed.      *)
OperatorReset(S) ==
  /\ Fault
  /\ ResetAcks(S)
  /\ UNCHANGED <<milvus, locks, hostModel, blocked, task, recon, purged>>

(* cleanup.py reembed starts a generation for its machine's model.         *)
Reembed(model) ==
  /\ BumpGeneration(model)
  /\ UNCHANGED <<milvus, locks, hostModel, blocked, task, recon, purged, faults>>

-----------------------------------------------------------------------------
ApplyStep(t) ==
  \/ \E m \in Memory : ReadCanonical(t, m)
  \/ CheckAndEmbed(t)
  \/ LockAndRead(t)
  \/ MilvusWrite(t)
  \/ Acknowledge(t)

TickStep(t) == StartTick(t) \/ TakeBatch(t)

ReconcileStep(t) ==
  \/ RefreshForReconcile(t)
  \/ ScanMilvus(t)
  \/ PurgeStrays(t)
  \/ ResetStale(t)

Environment ==
  \/ \E m \in Memory : CliWrite(m) \/ LoseEntity(m) \/ OperatorReset({m})
  \/ \E t \in Service, m \in Memory : ServiceWrite(t, m)
  \/ OperatorReset(Memory)
  \/ \E t \in Task : RecordFails(t) \/ PassFails(t)
  \/ \E h \in Host, model \in Model : Restart(h, model)
  \/ \E model \in Model : Reembed(model)

Next ==
  \/ \E t \in Task : ApplyStep(t)
  \/ \E t \in Sync : TickStep(t) \/ StartReconcile(t) \/ ReconcileStep(t)
  \/ Environment

Spec == Init /\ [][Next]_vars

(* A server's event loop and worker threads run every task that can move.  *)
(* Its sync loop never ends: ticks follow each other, and a reconcile      *)
(* comes due again and again.  Nothing makes a write, a failure or an      *)
(* operator act.                                                           *)
Fairness ==
  /\ \A t \in Task : WF_vars(ApplyStep(t))
  /\ \A t \in Sync : /\ WF_vars(TickStep(t))
                     /\ WF_vars(ReconcileStep(t))
                     /\ SF_vars(StartReconcile(t))

FairSpec == Spec /\ Fairness

-----------------------------------------------------------------------------
(* Properties.                                                             *)

AckCurrent(m) ==
  /\ Exists(m)
  /\ acks[m].version = rows[m].version
  /\ acks[m].generation = meta.generation

(* Milvus holds the current text under the current version and generation, *)
(* or nothing when the record is deleted.                                  *)
Held(m) ==
  IF rows[m].deleted THEN milvus[m] = NoEntity
  ELSE /\ milvus[m].version = rows[m].version
       /\ milvus[m].generation = meta.generation
       /\ milvus[m].text = rows[m].text

(* An acknowledgement at the current version and generation means that the *)
(* collection holds that version: what ack() and is_acked() say of it, and *)
(* what search relies on when it stops adding Postgres results.            *)
AckMeansHeld == \A m \in Memory : AckCurrent(m) => Held(m)

(* The same, except for a record whose entity Milvus lost or a reconcile   *)
(* deleted as a stray since it was last written: no other interleaving of  *)
(* apply, tick, reconcile, operator reset, re-embed and writes leaves an   *)
(* acknowledged record out of the collection or stale in it.               *)
AckMeansHeldUnlessPurged == \A m \in Memory : AckCurrent(m) => Held(m) \/ m \in purged

(* A vector of the current generation was computed by the memory model,    *)
(* whichever server wrote it and whatever models the servers restarted     *)
(* with, although a server checks the model long before its write lands.   *)
VectorsMatchModel ==
  \A m \in Memory :
    milvus[m].version > 0 /\ milvus[m].generation = meta.generation => milvus[m].model = meta.model

(* A write never replaces an entity by an older version, or by an older    *)
(* generation of the same version, however late its task runs.             *)
NeverOlder ==
  [][\A m \in Memory : milvus[m].version > 0 /\ milvus'[m].version > 0
       => ~Before(milvus'[m], milvus[m])]_vars

(* Once a deletion has been acknowledged the record never comes back.      *)
TombstoneStays ==
  \A m \in Memory : [](rows[m].deleted /\ AckCurrent(m) => [](milvus[m] = NoEntity))

InSync == \A m \in Memory : Exists(m) => AckCurrent(m) /\ Held(m)
SomeHostFits == \E t \in Sync : hostModel[HostOf[t]] = meta.model

(* If from some point on a server runs the memory model, then from some    *)
(* point on every record is acknowledged and held: ticks and reconciles    *)
(* repair whatever failures, restarts, losses, re-embeds and races left.   *)
Converges == <>[]SomeHostFits => <>[]InSync
=============================================================================
