-------------------------------- MODULE FtsSync --------------------------------
(***************************************************************************)
(* One server's "fts:<host>" consumer of the memory store                  *)
(* (memory_index.py): the keyword index in a local SQLite file, with a     *)
(* watermark of the highest version applied to each record.                *)
(*                                                                         *)
(* Sync tasks run the sync loop's reconcile() and tick(), service tasks    *)
(* the apply() that follows a write, and the start task replays the        *)
(* records into a file that start() had to create.  A SQLite transaction   *)
(* is one step; tasks interleave between their awaited calls.  A second    *)
(* sync task is a pass whose timeout left one of its calls running.        *)
(***************************************************************************)
EXTENDS CanonicalStore

CONSTANTS
  Sync,        \* tasks that run the memory sync loop
  Service,     \* tasks that run a write tool and then apply its record
  Start,       \* the task that runs MemoryIndex.start()
  MaxFaults    \* bound on failures, restarts, lost rows and operator resets

Task == Sync \cup Service \cup {Start}

ASSUME FtsAssumption ==
  /\ Sync \cap Service = {}
  /\ Start \notin Sync \cup Service
  /\ MaxFaults \in Nat

VARIABLES
  fts,        \* memories_fts: version 0 is a missing row
  mark,       \* memories_fts_watermark: 0 is a missing watermark
  file,       \* the file is sound, bad (damaged or missing) or bare (sound, without tables)
  boot,       \* how far start() is
  task,       \* the progress of each task
  recon,      \* what each sync task's reconcile has read so far
  forgotten,  \* records whose row was lost or forgotten since their current version was applied
  highest,    \* the highest version ever applied to the present file
  faults      \* failures and operator actions so far

fileVars == <<fts, mark, file>>
ghosts == <<forgotten, highest>>
vars == <<rows, acks, meta, fts, mark, file, boot, task, recon, forgotten, highest, faults>>

-----------------------------------------------------------------------------
Seen == [version : 0..MaxVersion, text : Text \cup {None}, deleted : BOOLEAN,
         generation : 0..MaxGeneration]
Unseen == [version |-> 0, text |-> None, deleted |-> FALSE, generation |-> 0]
Read(m) == [version |-> rows[m].version, text |-> rows[m].text,
            deleted |-> rows[m].deleted, generation |-> meta.generation]

Indexed == [version : 0..MaxVersion, text : Text \cup {None}]
NotIndexed == [version |-> 0, text |-> None]

ReconcilePC == {"scan", "forget", "reset"}
TaskState ==
  [pc : {"idle", "tick", "next", "apply", "mark", "ack"} \cup ReconcilePC,
   todo : SUBSET Memory, mem : Memory \cup {None}, row : Seen]

At(pc) == [pc |-> pc, todo |-> {}, mem |-> None, row |-> Unseen]
Resting == At("idle")

ReconState == [view : [Memory -> Row], stale : SUBSET Memory, strays : SUBSET Memory]
NothingRead == [view |-> [m \in Memory |-> NoRow], stale |-> {}, strays |-> {}]

TypeOK ==
  /\ StoreTypeOK
  /\ fts \in [Memory -> Indexed]
  /\ mark \in [Memory -> 0..MaxVersion]
  /\ file \in {"sound", "bad", "bare"}
  /\ boot \in {"down", "reset", "clear", "list", "replay", "up"}
  /\ task \in [Task -> TaskState]
  /\ recon \in [Sync -> ReconState]
  /\ forgotten \subseteq Memory
  /\ highest \in [Memory -> 0..MaxVersion]
  /\ faults \in 0..MaxFaults

EmptyFile ==
  /\ fts' = [m \in Memory |-> NotIndexed]
  /\ mark' = [m \in Memory |-> 0]

Init ==
  /\ StoreInit
  /\ fts = [m \in Memory |-> NotIndexed]
  /\ mark = [m \in Memory |-> 0]
  /\ file = "sound"
  /\ boot = "up"
  /\ task = [t \in Task |-> Resting]
  /\ recon = [t \in Sync |-> NothingRead]
  /\ forgotten = {}
  /\ highest = [m \in Memory |-> 0]
  /\ faults = 0

Finished(t, m) ==
  LET rest == task[t].todo \ {m}
  IN  IF rest = {} THEN Resting ELSE [At("next") EXCEPT !.todo = rest]

-----------------------------------------------------------------------------
(* Writes, and the apply() of the service that made one.                   *)

ServiceWrite(t, m) ==
  /\ boot = "up" /\ task[t].pc = "idle"
  /\ Write(m) \/ Repeat(m)
  /\ task' = [task EXCEPT ![t] = [At("next") EXCEPT !.todo = {m}]]
  /\ UNCHANGED <<fileVars, boot, recon, ghosts, faults>>

(* Another machine's service, or memory_cli import.                        *)
OtherWrite(m) ==
  /\ Write(m)
  /\ UNCHANGED <<fileVars, boot, task, recon, ghosts, faults>>

-----------------------------------------------------------------------------
(* The keyword half of tick(), and _apply_fts(m).                          *)

TakeBatch(t) ==
  /\ boot = "up" /\ task[t].pc \in {"idle", "tick"}
  /\ task' = [task EXCEPT ![t] = IF PendingText = {} THEN Resting
                                 ELSE [At("next") EXCEPT !.todo = PendingText]]
  /\ UNCHANGED <<storeVars, fileVars, boot, recon, ghosts, faults>>

ReadCanonical(t, m) ==
  /\ task[t].pc = "next" /\ m \in task[t].todo
  /\ task' = [task EXCEPT ![t] =
       IF ~Exists(m) THEN Finished(t, m)
       ELSE [@ EXCEPT !.pc = "apply", !.mem = m, !.row = Read(m)]]
  /\ UNCHANGED <<storeVars, fileVars, boot, recon, ghosts, faults>>

(* Mutant: the watermark is not compared.                                  *)
BehindAny(m, version) == version > 0 /\ m \in Memory

(* The file has no watermark for the record, or an older one.              *)
Behind(m, version) == mark[m] < version

(* MemoryFTS.apply(): the row and its watermark change together.           *)
FtsApply(t) ==
  LET m == task[t].mem
      row == task[t].row
  IN  /\ task[t].pc = "apply" /\ file = "sound"
      /\ \/ /\ Behind(m, row.version)
            /\ fts' = [fts EXCEPT ![m] = IF row.deleted THEN NotIndexed
                                         ELSE [version |-> row.version, text |-> row.text]]
            /\ mark' = [mark EXCEPT ![m] = row.version]
            /\ highest' = [highest EXCEPT ![m] = IF @ < row.version THEN row.version ELSE @]
            /\ forgotten' = IF row.version = rows[m].version THEN forgotten \ {m} ELSE forgotten
            /\ task' = [task EXCEPT ![t].pc = "ack"]
         \/ /\ ~Behind(m, row.version)
            /\ task' = [task EXCEPT ![t].pc = "mark"]
            /\ UNCHANGED <<fts, mark, ghosts>>
      /\ UNCHANGED <<storeVars, file, boot, recon, faults>>

(* Nothing was applied: acknowledge only if the watermark explains it.     *)
CheckWatermark(t) ==
  LET m == task[t].mem
  IN  /\ task[t].pc = "mark" /\ file = "sound"
      /\ task' = [task EXCEPT ![t] = IF mark[m] < task[t].row.version THEN Finished(t, m)
                                     ELSE [@ EXCEPT !.pc = "ack"]]
      /\ UNCHANGED <<storeVars, fileVars, boot, recon, ghosts, faults>>

Acknowledge(t) ==
  /\ task[t].pc = "ack"
  /\ acks' = AcksAfter(task[t].mem, task[t].row.version, task[t].row.generation)
  /\ task' = [task EXCEPT ![t] = Finished(t, task[t].mem)]
  /\ UNCHANGED <<rows, meta, fileVars, boot, recon, ghosts, faults>>

-----------------------------------------------------------------------------
(* The keyword half of reconcile().  The Milvus half runs after the rows   *)
(* are read, and before the file is.                                       *)

StartReconcile(t) ==
  /\ boot = "up" /\ task[t].pc = "idle"
  /\ recon' = [recon EXCEPT ![t] = [NothingRead EXCEPT !.view = rows]]
  /\ task' = [task EXCEPT ![t] = At("scan")]
  /\ UNCHANGED <<storeVars, fileVars, boot, ghosts, faults>>

(* Mutant: a live record without a row is not compared.                    *)
DiffersIfIndexed(seen, held) ==
  held.version > 0 /\ (seen.deleted \/ held.version # seen.version \/ held.text # seen.text)

Differs(seen, held) ==
  IF seen.deleted THEN held.version > 0
  ELSE held.version # seen.version \/ held.text # seen.text

Stale(view) == {m \in Memory : view[m].version > 0 /\ Differs(view[m], fts[m])}
Strays(view) == {m \in Memory : view[m].version = 0 /\ fts[m].version > 0}

ScanFile(t) ==
  LET stale == Stale(recon[t].view)
      strays == Strays(recon[t].view)
  IN  /\ task[t].pc = "scan" /\ file = "sound"
      /\ recon' = [recon EXCEPT ![t] = [NothingRead EXCEPT !.stale = stale, !.strays = strays]]
      /\ task' = [task EXCEPT ![t] = At(IF stale \cup strays # {} THEN "forget" ELSE "tick")]
      /\ UNCHANGED <<storeVars, fileVars, boot, ghosts, faults>>

(* Mutants: the watermark survives its row, or becomes a null.             *)
MarksKept(S) == [m \in S \cup Memory |-> mark[m]]
MarksNulled(S) == [m \in Memory |-> IF m \in S THEN None ELSE mark[m]]

MarksWithout(S) == [m \in Memory |-> IF m \in S THEN 0 ELSE mark[m]]

(* MemoryFTS.forget(): rows and watermarks go together.                    *)
Forget(t) ==
  LET gone == recon[t].stale \cup recon[t].strays
  IN  /\ task[t].pc = "forget" /\ file = "sound"
      /\ fts' = [m \in Memory |-> IF m \in gone THEN NotIndexed ELSE fts[m]]
      /\ mark' = MarksWithout(gone)
      /\ forgotten' = forgotten \cup gone
      /\ recon' = [recon EXCEPT ![t] = [NothingRead EXCEPT !.stale = recon[t].stale]]
      /\ task' = [task EXCEPT ![t] = At(IF recon[t].stale # {} THEN "reset" ELSE "tick")]
      /\ UNCHANGED <<storeVars, file, boot, highest, faults>>

ResetStale(t) ==
  /\ task[t].pc = "reset"
  /\ acks' = WithoutAcks(recon[t].stale)
  /\ recon' = [recon EXCEPT ![t] = NothingRead]
  /\ task' = [task EXCEPT ![t] = At("tick")]
  /\ UNCHANGED <<rows, meta, fileVars, boot, ghosts, faults>>

-----------------------------------------------------------------------------
(* start(): open the file, and replay every record into a new one.  A file *)
(* that was deleted under a running server comes back without tables at    *)
(* the next connection; the start creates them and does not replay.        *)

OpenFile ==
  /\ boot = "down"
  /\ \/ /\ file # "sound"
        /\ EmptyFile
        /\ file' = "sound"
        /\ boot' = IF file = "bad" THEN "reset" ELSE "up"
        /\ highest' = [m \in Memory |-> 0]
     \/ /\ file = "sound"
        /\ boot' = "up"
        /\ UNCHANGED <<fileVars, highest>>
  /\ UNCHANGED <<storeVars, task, recon, forgotten, faults>>

(* Mutant: a new file keeps the acknowledgements of the old one.           *)
AcksOfOldFile == acks

AcksOfNewFile == WithoutAcks(Memory)

BootReset ==
  /\ boot = "reset"
  /\ acks' = AcksOfNewFile
  /\ forgotten' = {}
  /\ boot' = "clear"
  /\ UNCHANGED <<rows, meta, fileVars, task, recon, highest, faults>>

BootClear ==
  /\ boot = "clear" /\ file = "sound"
  /\ EmptyFile
  /\ boot' = "list"
  /\ UNCHANGED <<storeVars, file, task, recon, ghosts, faults>>

BootList ==
  /\ boot = "list"
  /\ LET all == {m \in Memory : Exists(m)}
     IN  task' = [task EXCEPT ![Start] = IF all = {} THEN Resting
                                         ELSE [At("next") EXCEPT !.todo = all]]
  /\ boot' = "replay"
  /\ UNCHANGED <<storeVars, fileVars, recon, ghosts, faults>>

BootDone ==
  /\ boot = "replay" /\ task[Start].pc = "idle"
  /\ boot' = "up"
  /\ UNCHANGED <<storeVars, fileVars, task, recon, ghosts, faults>>

-----------------------------------------------------------------------------
(* Failures and operators.                                                 *)

Fault == faults < MaxFaults /\ faults' = faults + 1

(* A call raised inside _apply_fts: the record stays pending.  Every call  *)
(* on a file that is not sound raises.                                     *)
Raises(t) == file # "sound" /\ task[t].pc \in {"apply", "mark"}

RecordFails(t) ==
  /\ IF Raises(t) THEN UNCHANGED faults ELSE Fault
  /\ \E m \in IF task[t].mem = None THEN task[t].todo ELSE {task[t].mem} :
       task' = [task EXCEPT ![t] = Finished(t, m)]
  /\ UNCHANGED <<storeVars, fileVars, boot, recon, ghosts>>

PassRaises(t) == file # "sound" /\ task[t].pc \in {"scan", "forget"}

(* A pass raised, or ran into its timeout; the tick follows a reconcile.   *)
PassFails(t) ==
  /\ task[t].pc # "idle" /\ t # Start
  /\ IF PassRaises(t) THEN UNCHANGED faults ELSE Fault
  /\ task' = [task EXCEPT ![t] = IF @.pc \in ReconcilePC THEN At("tick") ELSE Resting]
  /\ recon' = [x \in Sync |-> IF x = t THEN NothingRead ELSE recon[x]]
  /\ UNCHANGED <<storeVars, fileVars, boot, ghosts>>

(* The server stops, or start() raised, and it starts again.               *)
Restart ==
  /\ Fault
  /\ boot' = "down"
  /\ task' = [t \in Task |-> Resting]
  /\ recon' = [t \in Sync |-> NothingRead]
  /\ UNCHANGED <<storeVars, fileVars, ghosts>>

(* The file is damaged or deleted.                                         *)
DamageFile(kind) ==
  /\ Fault
  /\ file = "sound"
  /\ kind = "bare" => boot # "down"
  /\ file' = kind
  /\ forgotten' = Memory
  /\ UNCHANGED <<storeVars, fts, mark, boot, task, recon, highest>>

(* A row is gone although its watermark stands.                            *)
LoseRow(m) ==
  /\ Fault
  /\ fts[m].version > 0
  /\ fts' = [fts EXCEPT ![m] = NotIndexed]
  /\ forgotten' = forgotten \cup {m}
  /\ UNCHANGED <<storeVars, mark, file, boot, task, recon, highest>>

(* memory_cli rebuild and reindex.                                         *)
OperatorReset(S) ==
  /\ Fault
  /\ ResetAcks(S)
  /\ UNCHANGED <<fileVars, boot, task, recon, ghosts>>

Reembed(model) ==
  /\ BumpGeneration(model)
  /\ UNCHANGED <<fileVars, boot, task, recon, ghosts, faults>>

-----------------------------------------------------------------------------
ApplyStep(t) ==
  \/ \E m \in Memory : ReadCanonical(t, m)
  \/ FtsApply(t)
  \/ CheckWatermark(t)
  \/ Acknowledge(t)
  \/ Raises(t) /\ RecordFails(t)

ReconcileStep(t) ==
  \/ ScanFile(t)
  \/ Forget(t)
  \/ ResetStale(t)
  \/ PassRaises(t) /\ PassFails(t)

Boot == OpenFile \/ BootReset \/ BootClear \/ BootList \/ BootDone

Environment ==
  \/ \E m \in Memory : OtherWrite(m) \/ LoseRow(m) \/ OperatorReset({m})
  \/ \E t \in Service, m \in Memory : ServiceWrite(t, m)
  \/ OperatorReset(Memory)
  \/ \E t \in Task : RecordFails(t) \/ PassFails(t)
  \/ Restart
  \/ DamageFile("bad") \/ DamageFile("bare")
  \/ \E model \in Model : Reembed(model)

Next ==
  \/ \E t \in Task : ApplyStep(t)
  \/ \E t \in Sync : TakeBatch(t) \/ StartReconcile(t) \/ ReconcileStep(t)
  \/ Boot
  \/ Environment

Spec == Init /\ [][Next]_vars

(* Every task that can move does, start() gets through once no failure     *)
(* stops it, and the sync loop ticks and reconciles again and again.       *)
Fairness ==
  /\ \A t \in Task : WF_vars(ApplyStep(t))
  /\ \A t \in Sync : /\ WF_vars(TakeBatch(t))
                     /\ WF_vars(ReconcileStep(t))
                     /\ SF_vars(StartReconcile(t))
  /\ WF_vars(Boot)

FairSpec == Spec /\ Fairness

-----------------------------------------------------------------------------
(* Properties.                                                             *)

AckCurrent(m) == Exists(m) /\ acks[m].version = rows[m].version

HoldsRow(m) ==
  fts[m] = IF rows[m].deleted THEN NotIndexed
           ELSE [version |-> rows[m].version, text |-> rows[m].text]

(* An acknowledged record is in the file, or gone from it as a tombstone,  *)
(* unless its row was lost or forgotten since its version was applied.  A  *)
(* start over a new file leaves no such record behind.                     *)
AckMeansIndexedUnlessForgotten ==
  \A m \in Memory : AckCurrent(m) => HoldsRow(m) \/ m \in forgotten

(* What MemoryFTS promises: "a delayed older write can never bring back a  *)
(* deleted or newer record".                                               *)
NeverBroughtBack ==
  \A m \in Memory : fts[m].version > 0 => fts[m].version >= highest[m]

(* The same for the records the file was not made to forget.               *)
NeverBroughtBackUnlessForgotten ==
  \A m \in Memory : fts[m].version > 0 => fts[m].version >= highest[m] \/ m \in forgotten

InSync == \A m \in Memory : Exists(m) => AckCurrent(m) /\ HoldsRow(m)
Settled == boot = "up" /\ file = "sound" /\ \A t \in Service : task[t].pc = "idle"

(* If from some point on the server is up with a sound file and no write   *)
(* tool is called, then from some point on every record is acknowledged    *)
(* and indexed, whatever was lost, forgotten, reset or left half done.     *)
(* Calls that go on for ever, though they change nothing, can keep         *)
(* applying records under a reconcile that then forgets them again.        *)
Converges == <>[]Settled => <>[]InSync
=============================================================================
