----------------------------- MODULE Maintenance -----------------------------
(***************************************************************************)
(* An offline tool over the stores of a running server.  The tools share   *)
(* their shape: a worklist from a scan, one row after the other, Milvus    *)
(* before FTS, and a checkpoint from which the next call goes on.          *)
(*   rewrite  strips and re-embeds documents, and deletes short ones       *)
(*   reembed  replaces vectors, which FTS does not hold                    *)
(*   redact, drop   sanitize: rewrites or deletes rows that hold a secret  *)
(*   retag    corrects metadata, and keeps no checkpoint                   *)
(* Batches have one row, and a restart is a run with --restart.            *)
(***************************************************************************)
EXTENDS TurnStores

CONSTANTS
  Tool,
  Killed   \* the cursors of older runs a restart of which was killed before it was saved

ASSUME ToolAssumption ==
  /\ Tool \subseteq {"rewrite", "reembed", "redact", "drop", "retag"}
  /\ Killed \subseteq Nat

VARIABLES
  tool,     \* the tool of this behaviour
  short,    \* the rows too short to keep once they are stripped
  cli,      \* its process
  saved,    \* its checkpoint on disk
  backup,   \* the rows that its backup file holds as they were before
  worklist, \* the rows of its worklist file
  newer,    \* history: the worklist is of a later scan than the checkpoint
  skipped   \* history: the rows that a run passed over, by the cursor of another run

ToolState == [status : {"none", "open", "done"}, scope : SUBSET Doc, todo : SUBSET Doc,
              done : SUBSET Doc, retry : SUBSET Doc, cursor : Nat]

NoState == [status |-> "none", scope |-> {}, todo |-> {}, done |-> {}, retry |-> {},
            cursor |-> 0]

Stopped == [pc |-> "stopped", state |-> NoState, queue |-> {}, doc |-> None,
            text |-> None, ok |-> TRUE]

plan == <<worklist, newer, skipped>>

vars == <<stores, server, astray, faults, tool, short, cli, saved, backup, plan>>

TypeOK ==
  /\ StoresTypeOK
  /\ tool \in Tool /\ short \subseteq Old
  /\ cli.pc \in {"stopped", "begin", "retry", "next", "save", "fetch", "upsert", "remove",
                 "ftsDelete", "ftsInsert", "ftsRemove", "advance"}
  /\ cli.state \in ToolState /\ saved \in ToolState
  /\ cli.queue \subseteq cli.state.retry
  /\ cli.doc \in Doc \cup {None} /\ cli.text \in Content \cup {None}
  /\ cli.ok \in BOOLEAN
  /\ backup \subseteq Doc
  /\ worklist \subseteq Doc /\ newer \in BOOLEAN /\ skipped \subseteq Doc

Sanitizes == tool \in {"redact", "drop"}

(* The tools that keep a worklist file, and in their checkpoint the number *)
(* of its rows that are passed.                                            *)
HasCursor == tool \in {"rewrite", "reembed"}

(* The rows of an older run are gone by now.                               *)
Init ==
  /\ StoresInit
  /\ tool \in Tool
  /\ short \in IF tool = "rewrite" THEN SUBSET Old ELSE {{}}
  /\ cli = Stopped /\ backup = {} /\ skipped = {}
  /\ \/ saved = NoState /\ worklist = {} /\ newer = FALSE
     \/ /\ HasCursor
        /\ \E k \in Killed : saved = [NoState EXCEPT !.status = "open", !.cursor = k]
        /\ worklist = Old /\ newer = TRUE

-----------------------------------------------------------------------------
(* A call of the tool.                                                     *)

Scan ==
  CASE tool = "reembed" -> Stored
    [] tool = "retag" -> {d \in Doc : "before" \in {milvus[d], fts[d]}}
    [] OTHER -> {d \in Doc : milvus[d] = "before"}

Carried == IF tool = "rewrite" THEN saved.retry ELSE {}

(* sanitize and retag write their first checkpoint after the first row.    *)
Begin(state) ==
  /\ cli.pc = "stopped"
  /\ cli' = [Stopped EXCEPT !.pc = IF HasCursor THEN "begin" ELSE "retry",
                            !.state = state, !.queue = state.retry]
  /\ UNCHANGED <<stores, server, astray, tool, short, saved, backup, skipped>>

(* The worklist file is replaced at once, the checkpoint only after the    *)
(* memories have got a new embedding generation.                           *)
StartFresh ==
  /\ Begin([NoState EXCEPT !.status = "open", !.scope = Scan, !.todo = Scan, !.retry = Carried])
  /\ worklist' = IF HasCursor THEN Scan ELSE worklist
  /\ newer' = HasCursor
  /\ IF saved.status = "none" THEN UNCHANGED faults ELSE Fault

(* What the cursor passes of the worklist, whose order is Milvus's.        *)
Passed(rows) ==
  Cardinality(rows) = IF saved.cursor < Cardinality(worklist) THEN saved.cursor
                      ELSE Cardinality(worklist)

(* The cursor goes with the worklist that is there, of whichever scan.     *)
Resumed ==
  IF newer THEN {[saved EXCEPT !.scope = worklist, !.todo = worklist \ rows] :
                   rows \in {r \in SUBSET worklist : Passed(r)}}
           ELSE {saved}

StartAgain ==
  /\ saved.status = "open" /\ tool # "retag"
  /\ \E state \in Resumed : Begin(state)
  /\ UNCHANGED <<worklist, newer, faults>>

FirstSave ==
  /\ cli.pc = "begin"
  /\ saved' = cli.state
  /\ newer' = FALSE
  /\ skipped' = IF newer THEN cli.state.scope \ cli.state.todo ELSE skipped
  /\ cli' = [cli EXCEPT !.pc = "retry"]
  /\ UNCHANGED <<stores, server, astray, faults, tool, short, backup, worklist>>

(* What the next step begins: the write of this row, or the next row.      *)
Step(pc) == cli' = [cli EXCEPT !.pc = pc]

(* _retry_fts: the FTS writes that an earlier batch owes.                  *)
RetryFts(d) ==
  /\ cli.pc = "retry" /\ d \in cli.queue
  /\ cli' = [cli EXCEPT !.doc = d, !.text = milvus[d], !.ok = TRUE,
               !.pc = IF d \notin short /\ milvus[d] # None THEN "ftsDelete" ELSE "remove"]
  /\ UNCHANGED <<stores, server, astray, faults, tool, short, saved, backup, plan>>

RetriesDone ==
  /\ cli.pc = "retry" /\ cli.queue = {}
  /\ Step("next")
  /\ saved' = IF tool = "rewrite" THEN cli.state ELSE saved
  /\ UNCHANGED <<stores, server, astray, faults, tool, short, backup, plan>>

NextCursor == IF HasCursor THEN cli.state.cursor + 1 ELSE cli.state.cursor

(* A row that is gone is passed over; sanitize leaves it on its worklist.  *)
Missing(d) ==
  /\ cli.pc = "next" /\ d \in cli.state.todo /\ milvus[d] = None /\ tool # "retag"
  /\ cli' = [cli EXCEPT !.state.todo = @ \ {d}, !.state.cursor = NextCursor]
  /\ saved' = IF Sanitizes THEN saved ELSE cli'.state
  /\ UNCHANGED <<stores, server, astray, faults, tool, short, backup, plan>>

Read(d) ==
  /\ cli.pc = "next" /\ d \in cli.state.todo
  /\ milvus[d] # None \/ tool = "retag"
  /\ cli' = [cli EXCEPT !.doc = d, !.text = milvus[d], !.ok = TRUE,
               !.pc = CASE tool \in {"rewrite", "reembed"} -> "save"
                        [] tool = "drop" -> "remove"
                        [] OTHER -> "fetch"]
  /\ UNCHANGED <<stores, server, astray, faults, tool, short, saved, backup, plan>>

(* Mutant: the backup is written after the rows.                           *)
BackedUpNot == backup

BackedUp == backup \cup {d \in {cli.doc} : cli.text = "before"}

(* Mutant: an FTS write is owed only once it has failed.                   *)
OwesNot == cli.state

Owes == IF tool = "rewrite" THEN [cli.state EXCEPT !.retry = @ \cup {cli.doc}] ELSE cli.state

(* The batch is embedded, which the budget may refuse, and backed up; the  *)
(* FTS writes are checkpointed before Milvus changes.                      *)
Checkpoint ==
  /\ cli.pc = "save"
  /\ backup' = BackedUp
  /\ cli' = [cli EXCEPT !.state = Owes,
               !.pc = IF tool = "rewrite" /\ cli.doc \in short /\ cli.text = "before"
                      THEN "remove" ELSE "upsert"]
  /\ saved' = IF tool = "rewrite" THEN Owes ELSE saved
  /\ UNCHANGED <<stores, server, astray, faults, tool, short, plan>>

(* upsert_document, update_row_metadata: the row as it is by now.          *)
Fetch ==
  /\ cli.pc = "fetch"
  /\ cli' = IF milvus[cli.doc] = None THEN [cli EXCEPT !.ok = FALSE, !.pc = "advance"]
            ELSE [cli EXCEPT !.text = milvus[cli.doc], !.pc = "upsert"]
  /\ UNCHANGED <<stores, server, astray, faults, tool, short, saved, backup, plan>>

(* The whole row as it was read goes back, with what the tool changed.     *)
Upsert ==
  /\ cli.pc = "upsert"
  /\ milvus' = [milvus EXCEPT ![cli.doc] = "after"]
  /\ astray' = astray \cup {d \in {cli.doc} : milvus[d] # cli.text}
  /\ cli' = [cli EXCEPT !.text = "after", !.pc = IF tool = "reembed" THEN "advance" ELSE "ftsDelete"]
  /\ UNCHANGED <<fts, server, faults, tool, short, saved, backup, plan>>

(* _rewrite_fts_row deletes and then inserts, in two transactions.         *)
FtsDelete ==
  /\ cli.pc = "ftsDelete"
  /\ fts' = [fts EXCEPT ![cli.doc] = None]
  /\ Step("ftsInsert")
  /\ UNCHANGED <<milvus, server, astray, faults, tool, short, saved, backup, plan>>

FtsInsert ==
  /\ cli.pc = "ftsInsert"
  /\ fts' = [fts EXCEPT ![cli.doc] = IF @ = None THEN cli.text ELSE @]
  /\ astray' = astray \cup {d \in {cli.doc} : milvus[d] # cli.text}
  /\ Step("advance")
  /\ UNCHANGED <<milvus, server, faults, tool, short, saved, backup, plan>>

(* delete_by_doc_id, in both stores.                                       *)
Remove ==
  /\ cli.pc = "remove"
  /\ milvus' = [milvus EXCEPT ![cli.doc] = None]
  /\ Step("ftsRemove")
  /\ UNCHANGED <<fts, server, astray, faults, tool, short, saved, backup, plan>>

FtsRemove ==
  /\ cli.pc = "ftsRemove"
  /\ fts' = [fts EXCEPT ![cli.doc] = None]
  /\ Step("advance")
  /\ UNCHANGED <<milvus, server, astray, faults, tool, short, saved, backup, plan>>

(* A write to FTS fails, or to Milvus in upsert_document and               *)
(* update_row_metadata, which is told and does not stop the run.  Nothing  *)
(* looks again for a row that drop has deleted from Milvus alone.          *)
WriteFails ==
  /\ cli.pc \in {"fetch", "upsert", "ftsDelete", "ftsInsert", "ftsRemove"}
  /\ cli.pc = "upsert" => ~HasCursor
  /\ Fault
  /\ cli' = [cli EXCEPT !.ok = FALSE, !.pc = "advance"]
  /\ astray' = IF tool = "drop" THEN astray \cup {cli.doc} ELSE astray
  /\ UNCHANGED <<stores, server, tool, short, saved, backup, plan>>

(* Mutant: a failed FTS write is not told apart.                           *)
SettledAlways == TRUE

(* Mutant: an FTS write that is owed is never settled.                     *)
SettledNever == FALSE

Settled == cli.ok

(* retag counts a row that it could not write, and reports it.             *)
AfterRow ==
  [cli.state EXCEPT
     !.todo = @ \ {cli.doc}, !.cursor = NextCursor,
     !.retry = IF Settled THEN @ \ {cli.doc}
               ELSE IF tool = "retag" THEN @ \cup {cli.doc} ELSE @,
     !.done = IF Sanitizes /\ Settled THEN @ \cup {cli.doc} ELSE @]

Advance ==
  /\ cli.pc = "advance"
  /\ IF cli.doc \in cli.queue
     THEN /\ cli' = [cli EXCEPT !.pc = "retry", !.doc = None, !.text = None,
                       !.queue = @ \ {cli.doc},
                       !.state.retry = IF Settled THEN @ \ {cli.doc} ELSE @]
          /\ UNCHANGED saved
     ELSE /\ cli' = [cli EXCEPT !.pc = "next", !.doc = None, !.text = None, !.state = AfterRow]
          /\ saved' = CASE Sanitizes -> [AfterRow EXCEPT !.todo = AfterRow.scope \ AfterRow.done]
                        [] tool = "retag" -> saved
                        [] OTHER -> AfterRow
  /\ UNCHANGED <<stores, server, astray, faults, tool, short, backup, plan>>

(* The call ends: the run is done when nothing is left and nothing owed.   *)
Complete ==
  IF Sanitizes THEN cli.state.scope \subseteq cli.state.done ELSE cli.state.retry = {}

End ==
  /\ cli.pc = "next" /\ cli.state.todo = {}
  /\ cli' = Stopped
  /\ saved' = [cli.state EXCEPT !.status = IF Complete THEN "done" ELSE "open",
                 !.todo = IF Sanitizes THEN cli.state.scope \ cli.state.done ELSE {}]
  /\ UNCHANGED <<stores, server, astray, faults, tool, short, backup, plan>>

(* The call stops early: its time or its turns are over, the budget denies *)
(* a batch, an upsert raises, or the process dies at any step.             *)
Stop ==
  /\ cli.pc # "stopped" /\ Fault
  /\ cli' = Stopped
  /\ astray' = IF tool = "drop" /\ cli.pc = "ftsRemove" THEN astray \cup {cli.doc} ELSE astray
  /\ UNCHANGED <<stores, server, tool, short, saved, backup, plan>>

Row ==
  \/ \E d \in Doc : RetryFts(d) \/ Missing(d) \/ Read(d)
  \/ FirstSave \/ RetriesDone \/ Checkpoint
  \/ Fetch \/ Upsert \/ FtsDelete \/ FtsInsert
  \/ Remove \/ FtsRemove
  \/ Advance \/ End

Next ==
  \/ StartFresh \/ StartAgain
  \/ Row \/ WriteFails \/ Stop
  \/ ServerNext /\ UNCHANGED <<tool, short, cli, saved, backup, plan>>

(* The process and the server's threads go on, and cleanup.py calls an     *)
(* unfinished run again.  A run after an older one counts as a fault.      *)
Fairness ==
  /\ WF_vars(Row) /\ WF_vars(StartAgain)
  /\ WF_vars(Heal /\ UNCHANGED <<tool, short, cli, saved, backup, plan>>)

Spec == Init /\ [][Next]_vars /\ Fairness

-----------------------------------------------------------------------------
(* Properties.  A row is astray when a writer acted on what it had read    *)
(* before the stores changed, or when a delete failed that nobody repeats. *)

Finished == IF Sanitizes THEN saved.done ELSE IF saved.status = "done" THEN saved.scope ELSE {}

Clean(d) == milvus[d] # "before" /\ (fts[d] # "before" \/ tool = "reembed")

(* What a tool reports as finished is corrected in both stores, whatever   *)
(* crashed or failed on the way, and in whatever order the heal loop and   *)
(* the server wrote the same rows; a row the server is deleting will go.   *)
(* Left out are rows that a run passed over with the cursor of another.    *)
FinishedMeansCorrected ==
  \A d \in Finished \ (astray \cup skipped \cup {removing}) : Clean(d)

(* run() says of restart: "Ignore any existing checkpoint and take a fresh *)
(* snapshot": no finished run passed over rows of its worklist.            *)
RestartIgnoresCheckpoint ==
  \A d \in Finished \ (astray \cup {removing}) : Clean(d)

(* A row that only FTS holds is being deleted, or its delete is owed.      *)
NoOrphan ==
  \A d \in Indexed \ Stored :
    d \in astray \cup {removing, cli.doc} \cup saved.retry

(* No old row is replaced before the backup holds it.                      *)
BackupHoldsOld ==
  tool \in {"rewrite", "reembed"} =>
    \A d \in Old : milvus[d] = "after" => d \in backup

(* The heal loop catches up with Milvus and removes the sentinel, whatever *)
(* failed and whoever writes.                                              *)
Healed == sentinel ~> ~sentinel

(* A run that is called again and again ends.                              *)
RunEnds == (saved.status = "open" /\ tool \in {"rewrite", "reembed"}) ~> saved.status = "done"
=============================================================================
