------------------------- MODULE MaintenanceProofs -------------------------
(***************************************************************************)
(* Theorems of Maintenance, for every set of rows, every set of tools and  *)
(* any number of faults: an offline tool of any kind, stopped or killed    *)
(* and called again at any step, beside a server that adds, deletes and    *)
(* heals the same rows.                                                    *)
(***************************************************************************)
EXTENDS Maintenance, TLAPS

-----------------------------------------------------------------------------
(* The inductive invariant.                                                *)

Batches == UNION {[D -> Content \cup {None}] : D \in SUBSET Doc}

HealRecord == [pc : {"idle", "hydrate", "insert", "finish"}, first : BOOLEAN,
               seen : SUBSET Doc, batch : Batches]

PC == {"stopped", "begin", "retry", "next", "save", "fetch", "upsert", "remove",
       "ftsDelete", "ftsInsert", "ftsRemove", "advance"}

CliRecord == [pc : PC, state : ToolState, queue : SUBSET Doc, doc : Doc \cup {None},
              text : Content \cup {None}, ok : BOOLEAN]

(* The tool has a row in hand.                                             *)
Writing == {"save", "fetch", "upsert", "remove", "ftsDelete", "ftsInsert", "ftsRemove", "advance"}

HealType == heal \in HealRecord

CliType == cli \in CliRecord /\ (cli.pc \in Writing => cli.doc \in Doc)

TypeInv == TypeOK /\ HealType /\ CliType

(* The row is corrected in both stores, or excused.                        *)
Good(d) ==
  \/ d \in astray \cup skipped \cup {removing}
  \/ Clean(d)

(* FTS does not hold the row alone, or it is excused.                      *)
Tidy(d) == fts[d] # None /\ milvus[d] = None => d \in astray \cup {removing}

RemovingInv == removing # None => milvus[removing] # "before"

(* Which tool passes which step.                                           *)
ToolInv ==
  /\ cli.pc = "save" => tool \in {"rewrite", "reembed"}
  /\ cli.pc = "fetch" => tool \in {"redact", "retag"}
  /\ cli.pc = "upsert" => tool # "drop"
  /\ cli.pc \in {"remove", "ftsRemove"} => tool \in {"rewrite", "drop"}
  /\ cli.pc \in {"ftsDelete", "ftsInsert"} => tool \notin {"drop", "reembed"} /\ cli.text # None

(* Only rewrite owes FTS writes across calls, and it saves what it owes    *)
(* before it changes Milvus.                                               *)
RetryInv ==
  /\ cli.pc # "stopped" => cli.state.status = "open"
  /\ tool \notin {"rewrite", "retag"} => cli.state.retry = {} /\ saved.retry = {}
  /\ tool # "rewrite" => cli.queue = {}
  /\ cli.pc \in {"next", "save", "fetch", "upsert"} => cli.queue = {}
  /\ cli.pc \in Writing => cli.doc \in cli.queue \/ (cli.queue = {} /\ cli.doc \in cli.state.todo)
  /\ tool = "rewrite" => cli.state.retry \subseteq saved.retry
  /\ tool = "rewrite" /\ cli.pc \in Writing \ {"save"} => cli.doc \in cli.state.retry

Owed == IF cli.pc = "stopped" THEN saved.retry ELSE cli.state.retry

OwedInv ==
  \A d \in Doc :
    \/ Tidy(d)
    \/ tool = "rewrite" /\ d \in Owed
    \/ tool = "drop" /\ cli.pc = "ftsRemove" /\ d = cli.doc

(* The row in hand is a retry, and is still to be rewritten after it, or   *)
(* its run passed over it.                                                 *)
ToDo == cli.doc \in cli.queue /\ cli.doc \in cli.state.todo \cup skipped

(* How far the row in hand is corrected, step by step.                     *)
DocInv ==
  /\ cli.pc = "ftsDelete" => ToDo \/ (milvus[cli.doc] # "before" /\ cli.text # "before")
  /\ cli.pc = "ftsInsert" =>
       ToDo \/ (milvus[cli.doc] # "before" /\ cli.text # "before" /\ Good(cli.doc))
  /\ cli.pc = "ftsRemove" => milvus[cli.doc] # "before"
  /\ cli.pc = "advance" /\ cli.ok => Tidy(cli.doc) /\ (ToDo \/ Good(cli.doc))
  /\ cli.pc = "advance" /\ ~cli.ok /\ HasCursor => ToDo \/ milvus[cli.doc] # "before"

(* What a checkpoint says of the rows it no longer lists as work.          *)
Kept(state) ==
  /\ \A d \in state.done : Good(d)
  /\ ~Sanitizes => \A d \in state.scope : d \in state.todo \cup state.retry \/ Good(d)
  /\ tool = "rewrite" => \A d \in state.retry \ state.todo : milvus[d] # "before" \/ d \in skipped

WorkInv ==
  /\ Kept(saved) /\ (cli.pc # "begin" => Kept(cli.state))
  /\ ~Sanitizes /\ saved.status = "done" => saved.todo = {} /\ saved.retry = {}

(* A run that has begun is not saved yet: it goes on with the checkpoint,  *)
(* or with the newer worklist, whose scan saw every row to be corrected.   *)
PlanInv ==
  /\ ~HasCursor => ~newer
  /\ newer /\ tool = "rewrite" => \A d \in Doc \ worklist : milvus[d] # "before"
  /\ ~Sanitizes => cli.state.done = {} /\ saved.done = {}
  /\ cli.pc = "begin" =>
       /\ HasCursor /\ cli.state.retry = saved.retry
       /\ IF newer THEN cli.state.scope = worklist ELSE cli.state = saved

BackupInv ==
  tool \in {"rewrite", "reembed"} =>
    /\ \A d \in Old : milvus[d] = "after" => d \in backup
    /\ cli.pc = "save" => cli.text # None
    /\ cli.pc = "save" /\ cli.doc \in Old /\ cli.text = "after" => cli.doc \in backup
    /\ cli.pc = "upsert" /\ cli.doc \in Old => cli.doc \in backup

IInv ==
  /\ TypeInv /\ RemovingInv /\ ToolInv /\ RetryInv
  /\ OwedInv /\ DocInv /\ WorkInv /\ PlanInv /\ BackupInv

-----------------------------------------------------------------------------
(* Types.                                                                  *)

toolVars == <<tool, short, cli, saved, backup, plan>>

(* A batch of rows is a partial function on the rows.                      *)
LEMMA BatchType ==
  ASSUME NEW D \in SUBSET Doc, NEW f \in [D -> Content \cup {None}]
  PROVE  f \in Batches /\ DOMAIN f = D
BY DEF Batches

(* A batch of the heal loop is a function of the rows it copies.           *)
LEMMA BatchDomain ==
  ASSUME NEW f \in Batches
  PROVE  f \in [DOMAIN f -> Content \cup {None}] /\ DOMAIN f \in SUBSET Doc
BY DEF Batches

(* An idle heal loop has an empty batch.                                   *)
LEMMA NoBatch == HealIdle \in HealRecord /\ HealIdle.batch = [d \in {} |-> None]
                 /\ DOMAIN HealIdle.batch = {}
<1>1. [d \in {} |-> None] \in [{} -> Content \cup {None}]
  OBVIOUS
<1>2. [d \in {} |-> None] \in Batches
  BY <1>1, BatchType
<1> QED
  BY <1>2 DEF HealIdle, HealRecord

(* The steps of the server keep the types.                                 *)
LEMMA ServerType ==
  ASSUME TypeInv, ServerNext, UNCHANGED toolVars
  PROVE  TypeInv'
<1> USE StoresAssumption DEF TypeInv, TypeOK, StoresTypeOK, toolVars, plan, stores, Doc, Content
<1>0. CliType' /\ (StoresTypeOK' => TypeOK')
  BY DEF CliType
<1> SUFFICES StoresTypeOK' /\ HealType'
  BY <1>0
<1>1. ASSUME NEW d \in Doc, AddMilvus(d) PROVE StoresTypeOK' /\ HealType'
  BY <1>1 DEF AddMilvus, HealType
<1>2. ASSUME NEW d \in Doc, RemoveMilvus(d) PROVE StoresTypeOK' /\ HealType'
  BY <1>2 DEF RemoveMilvus, HealType
<1>3. ASSUME AddFts PROVE StoresTypeOK' /\ HealType'
  BY <1>3 DEF AddFts, HealType, Fault, Stored
<1>4. ASSUME RemoveFts PROVE StoresTypeOK' /\ HealType'
  BY <1>4 DEF RemoveFts, HealType, Fault
<1>5. ASSUME HealDiff PROVE StoresTypeOK' /\ HealType'
  <2> DEFINE B == [d \in Stored \ Indexed |-> None]
  <2>1. Stored \in SUBSET Doc /\ Stored \ Indexed \in SUBSET Doc
    BY DEF Stored
  <2>2. B \in Batches /\ DOMAIN B = Stored \ Indexed /\ \A d \in DOMAIN B : B[d] = None
    BY <2>1, BatchType
  <2>3. heal' = [heal EXCEPT !.pc = "hydrate", !.first = FALSE, !.seen = Stored, !.batch = B]
    BY <1>5 DEF HealDiff
  <2> HIDE DEF B
  <2>4. heal' \in HealRecord /\ heal'.pc = "hydrate" /\ heal'.batch = B
        /\ heal'.seen = Stored /\ heal'.first = FALSE
    BY <2>1, <2>2, <2>3 DEF HealType, HealRecord
  <2> QED
    BY <2>1, <2>2, <2>4, <1>5 DEF HealDiff, HealType
<1>6. ASSUME HealHydrate PROVE StoresTypeOK' /\ HealType'
  <2> DEFINE B == [d \in Fetched |-> milvus[d]]
  <2>1. Fetched \in SUBSET Doc /\ \A d \in Fetched : milvus[d] \in Content
    BY DEF Fetched, Stored
  <2>2. B \in Batches /\ DOMAIN B = Fetched /\ \A d \in DOMAIN B : B[d] \in Content
    BY <2>1, BatchType
  <2>3. heal' = [heal EXCEPT !.pc = "insert", !.batch = B]
    BY <1>6 DEF HealHydrate
  <2> HIDE DEF B
  <2>4. heal' \in HealRecord /\ heal'.pc = "insert" /\ heal'.batch = B
        /\ heal'.seen = heal.seen /\ heal'.first = heal.first
    BY <2>2, <2>3 DEF HealType, HealRecord
  <2> QED
    BY <2>1, <2>2, <2>4, <1>6 DEF HealHydrate, HealType
<1>7. ASSUME HealInsert PROVE StoresTypeOK' /\ HealType'
  <2>1. heal' \in HealRecord /\ heal'.pc = "finish" /\ DOMAIN heal'.batch = {}
        /\ heal'.seen = heal.seen /\ heal'.first = heal.first
    BY <1>7, NoBatch DEF HealInsert, HealType, HealRecord
  <2>2. \A d \in Hydrated : d \in Doc /\ heal.batch[d] \in Content
    BY <1>7 DEF HealInsert, Hydrated
  <2>3. fts' \in [Doc -> Content \cup {None}]
    BY <1>7, <2>2 DEF HealInsert
  <2>4. astray' \subseteq Doc
    BY <1>7, <2>2 DEF HealInsert
  <2> QED
    BY <1>7, <2>1, <2>3, <2>4 DEF HealInsert, HealType
<1>8. ASSUME HealFinish PROVE StoresTypeOK' /\ HealType'
  <2>1. heal' \in HealRecord /\ heal'.pc = "idle" /\ heal'.batch = heal.batch
        /\ heal'.seen = {} /\ heal'.first = heal.first
    BY <1>8 DEF HealFinish, HealType, HealRecord
  <2>2. sentinel' \in BOOLEAN
    BY <1>8 DEF HealFinish
  <2> QED
    BY <1>8, <2>1, <2>2 DEF HealFinish, HealType
<1>9. ASSUME HealFails PROVE StoresTypeOK' /\ HealType'
  <2>1. heal' \in HealRecord /\ heal'.pc = "idle" /\ DOMAIN heal'.batch = {}
        /\ heal'.seen = {} /\ heal'.first = FALSE
    BY <1>9, NoBatch DEF HealFails, HealIdle
  <2>2. faults' \in 0..MaxFaults
    BY <1>9 DEF HealFails, Fault
  <2> QED
    BY <1>9, <2>1, <2>2 DEF HealFails, HealType
<1>10. ASSUME Restart PROVE StoresTypeOK' /\ HealType'
  <2>1. heal' = [HealIdle EXCEPT !.first = TRUE]
    BY <1>10 DEF Restart
  <2>2. heal' \in HealRecord /\ heal'.pc = "idle" /\ DOMAIN heal'.batch = {}
        /\ heal'.seen = {} /\ heal'.first = TRUE
    BY <2>1, NoBatch DEF HealIdle, HealRecord
  <2>3. faults' \in 0..MaxFaults
    BY <1>10 DEF Restart, Fault
  <2>4. fts' \in [Doc -> Content \cup {None}] /\ sentinel' \in BOOLEAN
    BY <1>10 DEF Restart
  <2> QED
    BY <1>10, <2>2, <2>3, <2>4 DEF Restart, HealType
<1> QED
  BY <1>1, <1>2, <1>3, <1>4, <1>5, <1>6, <1>7, <1>8, <1>9, <1>10 DEF ServerNext, Heal

(* The steps of the tool, but for the first save of a call.                *)
ToolNext ==
  \/ StartFresh \/ StartAgain
  \/ \E d \in Doc : RetryFts(d) \/ Missing(d) \/ Read(d)
  \/ RetriesDone \/ Checkpoint
  \/ Fetch \/ Upsert \/ FtsDelete \/ FtsInsert
  \/ Remove \/ FtsRemove
  \/ Advance \/ End \/ WriteFails \/ Stop

(* A tool that has stopped is well typed.                                  *)
LEMMA StoppedShape ==
  /\ NoState \in ToolState /\ Stopped \in CliRecord
  /\ Stopped.pc = "stopped" /\ Stopped.state = NoState /\ Stopped.queue = {}
  /\ Stopped.doc = None /\ Stopped.text = None /\ Stopped.ok = TRUE
  /\ NoState.status = "none" /\ NoState.scope = {} /\ NoState.todo = {}
  /\ NoState.done = {} /\ NoState.retry = {}
BY DEF Stopped, NoState, CliRecord, ToolState, PC

(* A tool that begins, or resumes, is well typed.                          *)
LEMMA BeginShape ==
  ASSUME TypeInv, NEW state \in ToolState, Begin(state)
  PROVE  /\ cli' \in CliRecord
         /\ cli'.pc = IF HasCursor THEN "begin" ELSE "retry"
         /\ cli'.state = state /\ cli'.queue = state.retry
         /\ cli'.doc = None /\ cli'.text = None /\ cli'.ok = TRUE
         /\ saved' = saved
<1>1. cli' = [Stopped EXCEPT !.pc = IF HasCursor THEN "begin" ELSE "retry",
                             !.state = state, !.queue = state.retry]
  BY DEF Begin
<1>2. state.retry \in SUBSET Doc
  BY DEF ToolState
<1>3. cli' \in CliRecord /\ cli'.pc = (IF HasCursor THEN "begin" ELSE "retry")
      /\ cli'.state = state /\ cli'.queue = state.retry
      /\ cli'.doc = None /\ cli'.text = None /\ cli'.ok = TRUE
  BY <1>1, <1>2, StoppedShape DEF CliRecord, PC
<1> QED
  BY <1>3 DEF Begin

(* What a call may resume: the checkpoint, or its cursor in a later list.  *)
LEMMA ResumedShape ==
  ASSUME TypeInv, NEW state \in Resumed
  PROVE  /\ state \in ToolState
         /\ state.status = saved.status /\ state.retry = saved.retry /\ state.done = saved.done
         /\ IF newer THEN state.scope = worklist ELSE state = saved
<1>1. saved \in ToolState /\ worklist \in SUBSET Doc
  BY DEF TypeInv, TypeOK
<1>2. CASE newer
  <2>1. PICK rows \in SUBSET worklist :
          state = [saved EXCEPT !.scope = worklist, !.todo = worklist \ rows]
    BY <1>2 DEF Resumed
  <2>2. worklist \ rows \in SUBSET Doc
    BY <1>1
  <2> QED
    BY <1>1, <1>2, <2>1, <2>2 DEF ToolState
<1>3. CASE ~newer
  BY <1>1, <1>3 DEF Resumed
<1> QED
  BY <1>2, <1>3

(* The state a fresh run begins with.                                      *)
Fresh == [NoState EXCEPT !.status = "open", !.scope = Scan, !.todo = Scan, !.retry = Carried]

(* A scan makes a worklist of rows.                                        *)
LEMMA FreshShape ==
  ASSUME TypeInv
  PROVE  /\ Fresh \in ToolState
         /\ Fresh.status = "open" /\ Fresh.scope = Scan /\ Fresh.todo = Scan
         /\ Fresh.done = {} /\ Fresh.retry = Carried /\ Fresh.cursor = 0
<1>1. Scan \in SUBSET Doc
  BY DEF Scan, Stored
<1>2. Carried \in SUBSET Doc
  BY DEF Carried, TypeInv, TypeOK, ToolState
<1> QED
  BY <1>1, <1>2, StoppedShape DEF Fresh, NoState, ToolState

(* The checkpoint before a write owes the row that is written.             *)
LEMMA OwesShape ==
  ASSUME TypeInv, cli.pc \in Writing
  PROVE  /\ Owes \in ToolState
         /\ Owes.status = cli.state.status /\ Owes.scope = cli.state.scope
         /\ Owes.todo = cli.state.todo /\ Owes.done = cli.state.done
         /\ Owes.retry = IF tool = "rewrite" THEN cli.state.retry \cup {cli.doc}
                         ELSE cli.state.retry
BY DEF Owes, ToolState, TypeInv, CliType, TypeOK

(* The checkpoint behind a row has it settled, or still to retry.          *)
LEMMA AfterRowShape ==
  ASSUME TypeInv, cli.pc \in Writing
  PROVE  /\ AfterRow \in ToolState
         /\ AfterRow.status = cli.state.status /\ AfterRow.scope = cli.state.scope
         /\ AfterRow.todo = cli.state.todo \ {cli.doc}
         /\ AfterRow.retry = IF Settled THEN cli.state.retry \ {cli.doc}
                             ELSE IF tool = "retag" THEN cli.state.retry \cup {cli.doc}
                             ELSE cli.state.retry
         /\ AfterRow.done = IF Sanitizes /\ Settled THEN cli.state.done \cup {cli.doc}
                            ELSE cli.state.done
<1>1. NextCursor \in Nat
  BY DEF NextCursor, ToolState, TypeInv, TypeOK
<1> QED
  BY <1>1 DEF AfterRow, ToolState, TypeInv, CliType, TypeOK

(* A row that was owed: the retry is taken off, or stays owed.             *)
LEMMA RetriedShape ==
  ASSUME TypeInv, cli.pc = "advance", Advance, cli.doc \in cli.queue
  PROVE  /\ cli' \in CliRecord /\ cli'.pc = "retry" /\ cli'.doc = None /\ cli'.text = None
         /\ cli'.queue = cli.queue \ {cli.doc} /\ cli'.ok = cli.ok
         /\ cli'.state.status = cli.state.status /\ cli'.state.scope = cli.state.scope
         /\ cli'.state.todo = cli.state.todo /\ cli'.state.done = cli.state.done
         /\ cli'.state.retry = IF Settled THEN cli.state.retry \ {cli.doc} ELSE cli.state.retry
         /\ saved' = saved
<1> DEFINE r == IF Settled THEN cli.state.retry \ {cli.doc} ELSE cli.state.retry
           s == [cli.state EXCEPT !.retry = r]
<1>1. cli \in CliRecord /\ cli.state \in ToolState
  BY DEF TypeInv, CliType, CliRecord
<1>2. r \in SUBSET Doc
  BY <1>1 DEF ToolState
<1>3. s \in ToolState /\ s.status = cli.state.status /\ s.scope = cli.state.scope
      /\ s.todo = cli.state.todo /\ s.done = cli.state.done /\ s.retry = r
  BY <1>1, <1>2 DEF ToolState
<1>4. cli' = [cli EXCEPT !.pc = "retry", !.doc = None, !.text = None,
                !.queue = @ \ {cli.doc}, !.state = s]
  BY <1>1 DEF Advance, CliRecord, ToolState
<1> HIDE DEF s
<1>5. saved' = saved
  BY DEF Advance
<1>6. cli' \in CliRecord /\ cli'.pc = "retry" /\ cli'.doc = None /\ cli'.text = None
      /\ cli'.queue = cli.queue \ {cli.doc} /\ cli'.ok = cli.ok /\ cli'.state = s
  BY <1>1, <1>3, <1>4 DEF CliRecord, PC
<1> QED
  BY <1>3, <1>5, <1>6

(* A tool that goes on to its next row is well typed.                      *)
LEMMA AdvancedShape ==
  ASSUME TypeInv, cli.pc = "advance", Advance, cli.doc \notin cli.queue
  PROVE  /\ cli' \in CliRecord /\ cli'.pc = "next" /\ cli'.doc = None /\ cli'.text = None
         /\ cli'.queue = cli.queue /\ cli'.ok = cli.ok /\ cli'.state = AfterRow
         /\ saved' = CASE Sanitizes -> [AfterRow EXCEPT !.todo = AfterRow.scope \ AfterRow.done]
                       [] tool = "retag" -> saved
                       [] OTHER -> AfterRow
<1>1. AfterRow \in ToolState
  BY AfterRowShape DEF Writing
<1> QED
  BY <1>1 DEF Advance, TypeInv, CliType, CliRecord, PC

(* What Advance writes to disk.                                            *)
LEMMA SavedShape ==
  ASSUME NEW s \in ToolState
  PROVE  /\ [s EXCEPT !.todo = s.scope \ s.done] \in ToolState
         /\ [s EXCEPT !.todo = s.scope \ s.done].status = s.status
         /\ [s EXCEPT !.todo = s.scope \ s.done].scope = s.scope
         /\ [s EXCEPT !.todo = s.scope \ s.done].todo = s.scope \ s.done
         /\ [s EXCEPT !.todo = s.scope \ s.done].done = s.done
         /\ [s EXCEPT !.todo = s.scope \ s.done].retry = s.retry
BY DEF ToolState

(* The checkpoint at the end is done when nothing is left to retry.        *)
LEMMA EndShape ==
  ASSUME TypeInv, End
  PROVE  /\ saved' \in ToolState
         /\ saved'.status = IF Complete THEN "done" ELSE "open"
         /\ saved'.scope = cli.state.scope /\ saved'.done = cli.state.done
         /\ saved'.retry = cli.state.retry
         /\ saved'.todo = IF Sanitizes THEN cli.state.scope \ cli.state.done ELSE {}
BY DEF End, TypeInv, TypeOK, ToolState

(* The steps of the tool keep the types.                                   *)
LEMMA ToolType ==
  ASSUME TypeInv, ToolNext
  PROVE  TypeInv'
<1> USE StoresAssumption DEF TypeInv, TypeOK, stores, server, Doc, Content, plan
<1> DEFINE CliOK == /\ cli \in CliRecord /\ (cli.pc \in Writing => cli.doc \in Doc)
                    /\ cli.queue \subseteq cli.state.retry
<1> DEFINE StoresSame == UNCHANGED <<milvus, fts, server, astray, faults>>
<1>0. ASSUME CliOK', saved' \in ToolState, StoresTypeOK' /\ HealType', backup' \subseteq Doc,
             UNCHANGED <<tool, short, skipped>>, worklist' \subseteq Doc, newer' \in BOOLEAN
      PROVE  TypeInv'
  BY <1>0 DEF CliType, CliRecord, PC
<1>00. StoresSame => StoresTypeOK' /\ HealType'
  BY DEF StoresTypeOK, HealType
<1>f. ASSUME Fault PROVE faults' \in 0..MaxFaults
  BY <1>f DEF Fault, StoresTypeOK
<1>ff. ASSUME Fault, UNCHANGED <<milvus, fts, server>>, astray' \subseteq Doc
       PROVE  StoresTypeOK' /\ HealType'
  BY <1>f, <1>ff DEF StoresTypeOK, HealType
<1>1. ASSUME StartFresh PROVE TypeInv'
  <2>1. Begin(Fresh) /\ Fresh \in ToolState
    BY <1>1, FreshShape DEF StartFresh, Fresh
  <2>2. CliOK' /\ saved' \in ToolState
    BY <2>1, BeginShape DEF Writing
  <2>3. StoresTypeOK' /\ HealType'
    BY <1>1, <1>00, <1>ff DEF StartFresh, Begin, StoresTypeOK
  <2>4. worklist' \subseteq Doc /\ newer' \in BOOLEAN
    BY <1>1 DEF StartFresh, Scan, Stored, HasCursor
  <2> QED
    BY <2>2, <2>3, <2>4, <1>0, <1>1 DEF StartFresh, Begin
<1>2. ASSUME StartAgain PROVE TypeInv'
  <2>1. PICK state \in Resumed : Begin(state)
    BY <1>2 DEF StartAgain
  <2>2. CliOK' /\ saved' \in ToolState
    BY <2>1, BeginShape, ResumedShape DEF Writing
  <2> QED
    BY <2>1, <2>2, <1>0, <1>00, <1>2 DEF StartAgain, Begin
<1>3. ASSUME NEW d \in Doc, RetryFts(d) PROVE TypeInv'
  <2>1. CliOK'
    BY <1>3 DEF RetryFts, CliType, CliRecord, PC, Writing, StoresTypeOK
  <2> QED
    BY <2>1, <1>0, <1>00, <1>3 DEF RetryFts
<1>4. ASSUME NEW d \in Doc, Missing(d) PROVE TypeInv'
  <2>0. NextCursor \in Nat
    BY DEF NextCursor, ToolState
  <2>1. CliOK' /\ cli'.state \in ToolState
    BY <1>4, <2>0 DEF Missing, CliType, CliRecord, PC, Writing, ToolState
  <2> QED
    BY <2>1, <1>0, <1>00, <1>4 DEF Missing
<1>5. ASSUME NEW d \in Doc, Read(d) PROVE TypeInv'
  <2>0. cli'.pc \in {"save", "remove", "fetch"} /\ milvus[d] \in Content \cup {None}
    BY <1>5 DEF Read, CliType, CliRecord, StoresTypeOK
  <2>1. CliOK'
    BY <1>5, <2>0 DEF Read, CliType, CliRecord, PC, Writing
  <2> QED
    BY <2>1, <1>0, <1>00, <1>5 DEF Read
<1>6. ASSUME RetriesDone PROVE TypeInv'
  <2>1. CliOK'
    BY <1>6 DEF RetriesDone, Step, CliType, CliRecord, PC, Writing
  <2> QED
    BY <2>1, <1>0, <1>00, <1>6 DEF RetriesDone
<1>7. ASSUME Checkpoint PROVE TypeInv'
  <2>1. cli.doc \in Doc /\ cli.pc \in Writing
    BY <1>7 DEF Checkpoint, CliType, Writing
  <2>2. CliOK'
    BY <1>7, <2>1, OwesShape DEF Checkpoint, CliType, CliRecord, PC, Writing
  <2>3. saved' \in ToolState
    BY <1>7, <2>1, OwesShape DEF Checkpoint
  <2>4. backup' \subseteq Doc
    BY <1>7, <2>1 DEF Checkpoint, BackedUp
  <2> QED
    BY <2>2, <2>3, <2>4, <1>0, <1>00, <1>7 DEF Checkpoint
<1>8. ASSUME Upsert PROVE TypeInv'
  <2>1. cli.doc \in Doc
    BY <1>8 DEF Upsert, CliType, Writing
  <2>2. CliOK'
    BY <1>8, <2>1 DEF Upsert, CliType, CliRecord, PC, Writing
  <2>3. StoresTypeOK' /\ HealType'
    BY <1>8, <2>1 DEF Upsert, StoresTypeOK, HealType
  <2> QED
    BY <2>2, <2>3, <1>0, <1>8 DEF Upsert
<1>9. ASSUME Fetch PROVE TypeInv'
  <2>1. cli.doc \in Doc /\ milvus[cli.doc] \in Content \cup {None}
    BY <1>9 DEF Fetch, CliType, Writing, StoresTypeOK
  <2>2. CliOK'
    BY <1>9, <2>1 DEF Fetch, CliType, CliRecord, PC, Writing
  <2> QED
    BY <2>2, <1>0, <1>00, <1>9 DEF Fetch
<1>10. ASSUME FtsDelete PROVE TypeInv'
  <2>2. CliOK'
    BY <1>10 DEF FtsDelete, Step, CliType, CliRecord, PC, Writing
  <2>3. StoresTypeOK' /\ HealType'
    BY <1>10 DEF FtsDelete, StoresTypeOK, HealType
  <2> QED
    BY <2>2, <2>3, <1>0, <1>10 DEF FtsDelete
<1>11. ASSUME FtsInsert PROVE TypeInv'
  <2>1. cli.doc \in Doc
    BY <1>11 DEF FtsInsert, CliType, Writing
  <2>2. CliOK'
    BY <1>11 DEF FtsInsert, Step, CliType, CliRecord, PC, Writing
  <2>3. StoresTypeOK' /\ HealType'
    BY <1>11, <2>1 DEF FtsInsert, StoresTypeOK, HealType
  <2> QED
    BY <2>2, <2>3, <1>0, <1>11 DEF FtsInsert
<1>12. ASSUME Remove PROVE TypeInv'
  <2>2. CliOK'
    BY <1>12 DEF Remove, Step, CliType, CliRecord, PC, Writing
  <2>3. StoresTypeOK' /\ HealType'
    BY <1>12 DEF Remove, StoresTypeOK, HealType
  <2> QED
    BY <2>2, <2>3, <1>0, <1>12 DEF Remove
<1>13. ASSUME FtsRemove PROVE TypeInv'
  <2>2. CliOK'
    BY <1>13 DEF FtsRemove, Step, CliType, CliRecord, PC, Writing
  <2>3. StoresTypeOK' /\ HealType'
    BY <1>13 DEF FtsRemove, StoresTypeOK, HealType
  <2> QED
    BY <2>2, <2>3, <1>0, <1>13 DEF FtsRemove
<1>14. ASSUME Advance PROVE TypeInv'
  <2>0. cli.pc = "advance" /\ cli.pc \in Writing
    BY <1>14 DEF Advance, Writing
  <2>1. CASE cli.doc \in cli.queue
    <3>1. CliOK' /\ saved' \in ToolState
      BY <2>0, <2>1, <1>14, RetriedShape DEF Writing
    <3> QED
      BY <3>1, <1>0, <1>00, <1>14 DEF Advance
  <2>2. CASE cli.doc \notin cli.queue
    <3>1. CliOK'
      BY <2>0, <2>2, <1>14, AdvancedShape, AfterRowShape DEF Writing
    <3>2. saved' \in ToolState
      BY <2>0, <2>2, <1>14, AdvancedShape, AfterRowShape, SavedShape
    <3> QED
      BY <3>1, <3>2, <1>0, <1>00, <1>14 DEF Advance
  <2> QED
    BY <2>1, <2>2
<1>15. ASSUME End PROVE TypeInv'
  <2>1. CliOK'
    BY <1>15, StoppedShape DEF End, Writing
  <2> QED
    BY <2>1, <1>0, <1>00, <1>15, EndShape DEF End
<1>16. ASSUME WriteFails PROVE TypeInv'
  <2>1. cli.doc \in Doc
    BY <1>16 DEF WriteFails, CliType, Writing
  <2>2. CliOK'
    BY <1>16, <2>1 DEF WriteFails, CliType, CliRecord, PC, Writing
  <2>3. StoresTypeOK' /\ HealType'
    BY <1>16, <1>ff, <2>1 DEF WriteFails, StoresTypeOK
  <2> QED
    BY <2>2, <2>3, <1>0, <1>16 DEF WriteFails
<1>17. ASSUME Stop PROVE TypeInv'
  <2>1. CliOK'
    BY <1>17, StoppedShape DEF Stop, Writing
  <2>2. astray' \subseteq Doc
    BY <1>17 DEF Stop, StoresTypeOK, CliType, Writing
  <2>3. StoresTypeOK' /\ HealType'
    BY <1>17, <1>ff, <2>2 DEF Stop
  <2> QED
    BY <2>1, <2>3, <1>0, <1>17 DEF Stop
<1> QED
  BY <1>1, <1>2, <1>3, <1>4, <1>5, <1>6, <1>7, <1>8, <1>9, <1>10, <1>11, <1>12, <1>13,
     <1>14, <1>15, <1>16, <1>17 DEF ToolNext

-----------------------------------------------------------------------------
(* What a step may never do to a row, whoever takes it.                    *)

Forward(d) ==
  /\ milvus[d] # "before" => milvus'[d] # "before"
  /\ Good(d) => Good(d)'
  /\ d \in Old /\ milvus'[d] = "after" =>
       milvus[d] = "after" \/ (cli.pc = "upsert" /\ d = cli.doc)

TidyKept(d) == Tidy(d) => Tidy(d)'

(* The server's own steps only take rows forward.                          *)
LEMMA ServerForward ==
  ASSUME TypeInv, RemovingInv, ServerNext, UNCHANGED toolVars
  PROVE  RemovingInv' /\ \A d \in Doc : Forward(d) /\ TidyKept(d)
<1> USE StoresAssumption DEF Doc, Content, stores, toolVars, plan, Forward, Good, Clean, Tidy, TidyKept, RemovingInv
<1>1. milvus \in [Doc -> Content \cup {None}] /\ fts \in [Doc -> Content \cup {None}]
      /\ removing \in Doc \cup {None} /\ adding \in Doc \cup {None}
  BY DEF TypeInv, TypeOK, StoresTypeOK
<1>2. ASSUME NEW e \in Doc, AddMilvus(e) PROVE RemovingInv' /\ \A d \in Doc : Forward(d) /\ TidyKept(d)
  BY <1>1, <1>2 DEF AddMilvus
<1>3. ASSUME NEW e \in Doc, RemoveMilvus(e) PROVE RemovingInv' /\ \A d \in Doc : Forward(d) /\ TidyKept(d)
  BY <1>1, <1>3 DEF RemoveMilvus
<1>4. ASSUME AddFts PROVE RemovingInv' /\ \A d \in Doc : Forward(d) /\ TidyKept(d)
  BY <1>1, <1>4 DEF AddFts, Stored
<1>5. ASSUME RemoveFts PROVE RemovingInv' /\ \A d \in Doc : Forward(d) /\ TidyKept(d)
  BY <1>1, <1>5 DEF RemoveFts
<1>6. ASSUME HealInsert PROVE RemovingInv' /\ \A d \in Doc : Forward(d) /\ TidyKept(d)
  <2>1. \A d \in Hydrated : d \in Doc /\ heal.batch[d] \in Content
    BY <1>6 DEF HealInsert, Hydrated, TypeInv, TypeOK, StoresTypeOK
  <2>2. \A d \in Hydrated : d \notin Indexed
    BY DEF Hydrated
  <2>3. \A d \in Doc : \/ fts'[d] = fts[d]
                       \/ fts'[d] \in Content /\ (fts'[d] = milvus[d] \/ d \in astray')
    BY <1>6, <2>1, <2>2 DEF HealInsert
  <2>4. astray \subseteq astray' /\ UNCHANGED <<milvus, removing>>
    BY <1>6 DEF HealInsert
  <2> QED
    BY <1>1, <2>3, <2>4
<1>7. ASSUME HealDiff \/ HealHydrate \/ HealFinish \/ HealFails
      PROVE  RemovingInv' /\ \A d \in Doc : Forward(d) /\ TidyKept(d)
  <2>1. UNCHANGED <<milvus, fts, removing, astray>>
    BY <1>7 DEF HealDiff, HealHydrate, HealFinish, HealFails
  <2> QED
    BY <1>1, <2>1
<1>8. ASSUME Restart PROVE RemovingInv' /\ \A d \in Doc : Forward(d) /\ TidyKept(d)
  BY <1>1, <1>8 DEF Restart
<1> QED
  BY <1>2, <1>3, <1>4, <1>5, <1>6, <1>7, <1>8 DEF ServerNext, Heal

(* A tool's steps only take rows forward, but for what it writes astray.   *)
LEMMA ToolForward ==
  ASSUME TypeInv, RemovingInv, ToolNext
  PROVE  RemovingInv' /\ \A d \in Doc : Forward(d) /\ (TidyKept(d) \/ (Remove /\ d = cli.doc))
<1> DEFINE Goal == RemovingInv' /\ \A d \in Doc : Forward(d) /\ (TidyKept(d) \/ (Remove /\ d = cli.doc))
<1> SUFFICES Goal
  OBVIOUS
<1> USE StoresAssumption DEF Doc, Content, stores, server, plan, Forward, Good, Clean, Tidy, TidyKept, RemovingInv
<1>1. milvus \in [Doc -> Content \cup {None}] /\ fts \in [Doc -> Content \cup {None}]
      /\ removing \in Doc \cup {None} /\ cli.text \in Content \cup {None}
  BY DEF TypeInv, TypeOK, StoresTypeOK
<1>2. cli.pc \in Writing => cli.doc \in Doc
  BY DEF TypeInv, CliType
<1>3. ASSUME Upsert PROVE Goal
  <2>1. cli.pc = "upsert" /\ cli.doc \in Doc
    BY <1>2, <1>3 DEF Upsert, Writing
  <2>2. astray \subseteq astray' /\ UNCHANGED <<fts, removing, tool, skipped>>
    BY <1>3 DEF Upsert
  <2>3. milvus' = [milvus EXCEPT ![cli.doc] = "after"]
    BY <1>3 DEF Upsert
  <2> QED
    BY <1>1, <2>1, <2>2, <2>3
<1>4. ASSUME FtsDelete \/ FtsRemove PROVE Goal
  BY <1>1, <1>4 DEF FtsDelete, FtsRemove
<1>5. ASSUME FtsInsert PROVE Goal
  BY <1>1, <1>5 DEF FtsInsert
<1>6. ASSUME Remove PROVE Goal
  BY <1>1, <1>6 DEF Remove
<1>7. ASSUME UNCHANGED <<milvus, fts, removing, tool, skipped>>, astray \subseteq astray'
      PROVE  Goal
  BY <1>1, <1>7
<1>8. ASSUME WriteFails \/ Stop PROVE Goal
  BY <1>7, <1>8 DEF WriteFails, Stop
<1>9. ASSUME StartFresh \/ StartAgain PROVE Goal
  BY <1>7, <1>9 DEF StartFresh, StartAgain, Begin
<1>10. ASSUME \/ \E d \in Doc : RetryFts(d) \/ Missing(d) \/ Read(d)
              \/ RetriesDone \/ Checkpoint \/ Fetch \/ Advance \/ End
       PROVE  Goal
  BY <1>7, <1>10 DEF RetryFts, Missing, Read, RetriesDone, Checkpoint, Fetch, Advance, End
<1> QED
  BY <1>3, <1>4, <1>5, <1>6, <1>8, <1>9, <1>10 DEF ToolNext

(* The server leaves the tool alone, so what it may do to the rows keeps   *)
(* every part of the invariant.                                            *)
LEMMA ServerStep ==
  ASSUME IInv, ServerNext, UNCHANGED toolVars
  PROVE  IInv'
<1>1. TypeInv' /\ RemovingInv' /\ \A d \in Doc : Forward(d) /\ TidyKept(d)
  BY ServerType, ServerForward DEF IInv
<1>2. UNCHANGED <<tool, short, cli, saved, backup, worklist, newer, skipped>>
  BY DEF toolVars, plan
<1>3. cli.pc \in Writing => cli.doc \in Doc
  BY DEF IInv, TypeInv, CliType
<1>4. ToolInv' /\ RetryInv'
  BY <1>2 DEF IInv, ToolInv, RetryInv
<1>5. OwedInv'
  BY <1>1, <1>2 DEF IInv, OwedInv, Owed, TidyKept
<1>6. DocInv'
  BY <1>1, <1>2, <1>3 DEF IInv, DocInv, ToDo, Forward, TidyKept, Writing, HasCursor
<1>7. WorkInv'
  <2>1. cli.state \in ToolState /\ saved \in ToolState
    BY DEF IInv, TypeInv, TypeOK
  <2>2. Kept(saved)'
    BY <1>1, <1>2, <2>1 DEF IInv, WorkInv, Kept, Forward, ToolState, Sanitizes
  <2>3. (cli.pc # "begin" => Kept(cli.state))'
    BY <1>1, <1>2, <2>1 DEF IInv, WorkInv, Kept, Forward, ToolState, Sanitizes
  <2> QED
    BY <1>2, <2>2, <2>3 DEF IInv, WorkInv, Sanitizes
<1>8. BackupInv'
  BY <1>1, <1>2 DEF IInv, BackupInv, Forward, Doc
<1>9. PlanInv'
  BY <1>1, <1>2 DEF IInv, PlanInv, Forward, HasCursor, Sanitizes
<1> QED
  BY <1>1, <1>4, <1>5, <1>6, <1>7, <1>8, <1>9 DEF IInv

-----------------------------------------------------------------------------
(* The steps of the tool, one after the other.                             *)

Rest == ToolInv /\ RetryInv /\ OwedInv /\ DocInv /\ WorkInv /\ PlanInv /\ BackupInv

(* A checkpoint stays true over a step.                                    *)
KeptNext(state) ==
  /\ \A d \in state.done : Good(d)'
  /\ ~Sanitizes => \A d \in state.scope : d \in state.todo \cup state.retry \/ Good(d)'
  /\ tool = "rewrite" => \A d \in state.retry \ state.todo : milvus'[d] # "before" \/ d \in skipped'

(* What the invariant says of a tool that is at work on a row.             *)
LEMMA ToolFacts ==
  ASSUME IInv, ToolNext
  PROVE  /\ TypeInv /\ TypeInv' /\ RemovingInv' /\ UNCHANGED <<tool, short>>
         /\ \A d \in Doc : Forward(d) /\ (TidyKept(d) \/ (Remove /\ d = cli.doc))
         /\ KeptNext(saved) /\ (cli.pc # "begin" => KeptNext(cli.state))
         /\ UNCHANGED skipped
         /\ cli \in CliRecord /\ cli' \in CliRecord
         /\ cli.state \in ToolState /\ cli'.state \in ToolState
         /\ saved \in ToolState /\ saved' \in ToolState
         /\ tool \in {"rewrite", "reembed", "redact", "drop", "retag"}
<1>1. TypeInv /\ TypeInv' /\ RemovingInv'
      /\ \A d \in Doc : Forward(d) /\ (TidyKept(d) \/ (Remove /\ d = cli.doc))
  BY ToolType, ToolForward DEF IInv
<1>2. UNCHANGED <<tool, short, skipped>>
  BY DEF ToolNext, StartFresh, StartAgain, Begin, RetryFts, Missing, Read, RetriesDone,
         Checkpoint, Fetch, Upsert, FtsDelete, FtsInsert, Remove, FtsRemove,
         Advance, End, WriteFails, Stop, plan
<1>3. cli \in CliRecord /\ cli' \in CliRecord
      /\ cli.state \in ToolState /\ cli'.state \in ToolState
      /\ saved \in ToolState /\ saved' \in ToolState
  BY <1>1 DEF TypeInv, TypeOK, CliType
<1>4. KeptNext(saved)
  BY <1>1, <1>2, <1>3 DEF IInv, WorkInv, Kept, KeptNext, Forward, ToolState
<1>5. cli.pc # "begin" => KeptNext(cli.state)
  BY <1>1, <1>2, <1>3 DEF IInv, WorkInv, Kept, KeptNext, Forward, ToolState
<1> QED
  BY <1>1, <1>2, <1>3, <1>4, <1>5, ToolAssumption DEF TypeInv, TypeOK

(* What Kept says of two states is that of a step which keeps the tool.    *)
LEMMA KeptHere ==
  ASSUME UNCHANGED tool
  PROVE  /\ KeptNext(saved') => Kept(saved)'
         /\ KeptNext(cli'.state) => Kept(cli.state)'
BY DEF Kept, KeptNext, Sanitizes

(* The steps of a tool, each with what it keeps of the invariant.          *)
LEMMA BeginStep ==
  ASSUME IInv, ToolNext, StartFresh \/ StartAgain
  PROVE  Rest'
<1> USE DEF IInv, Rest
<1>1. PICK state \in ToolState :
        /\ Begin(state) /\ state.status = "open"
        /\ tool = "rewrite" => state.retry = saved.retry
        /\ tool # "rewrite" => state.retry = {} /\ (tool # "retag" => saved.retry = {})
        /\ ~HasCursor => KeptNext(state) /\ ~newer'
        /\ ~Sanitizes => state.done = {}
        /\ HasCursor => IF newer' THEN state.scope = worklist' ELSE state = saved
  <2>1. CASE StartFresh
    <3>1. Begin(Fresh)
      BY <2>1 DEF StartFresh, Fresh
    <3>2. tool # "rewrite" => Fresh.retry = {} /\ (tool # "retag" => saved.retry = {})
      BY FreshShape DEF Carried, RetryInv
    <3>3. tool = "rewrite" => Fresh.retry = saved.retry
      BY FreshShape DEF Carried
    <3>4. ~HasCursor => KeptNext(Fresh)
      BY FreshShape DEF KeptNext, HasCursor
    <3>5. newer' = HasCursor /\ (HasCursor => worklist' = Scan)
      BY <2>1 DEF StartFresh
    <3> QED
      BY <3>1, <3>2, <3>3, <3>4, <3>5, FreshShape
  <2>2. CASE StartAgain
    <3>1. PICK state \in Resumed : Begin(state)
      BY <2>2 DEF StartAgain
    <3>2. saved.status = "open" /\ tool # "retag" /\ UNCHANGED <<worklist, newer>>
      BY <2>2 DEF StartAgain
    <3>3. /\ state \in ToolState /\ state.status = "open"
          /\ state.retry = saved.retry /\ state.done = saved.done
          /\ IF newer THEN state.scope = worklist ELSE state = saved
      BY <3>2, ResumedShape
    <3>4. tool # "rewrite" => saved.retry = {}
      BY <3>2 DEF RetryInv
    <3>5. ~HasCursor => ~newer /\ KeptNext(state)
      BY <3>3, ToolFacts DEF PlanInv
    <3> QED
      BY <3>1, <3>2, <3>3, <3>4, <3>5 DEF PlanInv
  <2> QED
    BY <2>1, <2>2
<1>2. cli'.pc = (IF HasCursor THEN "begin" ELSE "retry")
      /\ cli'.state = state /\ cli'.queue = state.retry /\ saved' = saved
  BY <1>1, BeginShape
<1>3. UNCHANGED <<milvus, fts, astray, removing, tool, backup, skipped>> /\ cli.pc = "stopped"
  BY <1>1 DEF Begin, stores, server
<1>4. ToolInv'
  BY <1>2 DEF ToolInv
<1>5. RetryInv'
  BY <1>1, <1>2, <1>3 DEF RetryInv, Writing
<1>6. OwedInv'
  BY <1>1, <1>2, <1>3 DEF OwedInv, Owed, Tidy
<1>7. DocInv'
  BY <1>2 DEF DocInv
<1>8. WorkInv'
  <2>1. Kept(saved)' /\ (cli'.pc # "begin" => Kept(cli.state)')
    BY <1>1, <1>2, <1>3, ToolFacts, KeptHere
  <2> QED
    BY <2>1, <1>2, <1>3 DEF WorkInv, Sanitizes
<1>9. BackupInv'
  BY <1>2, <1>3 DEF BackupInv
<1>10. PlanInv'
  <2>1. newer' /\ tool = "rewrite" => \A d \in Doc \ worklist' : milvus[d] # "before"
    <3>1. CASE StartFresh
      <4>1. HasCursor => worklist' = Scan
        BY <3>1 DEF StartFresh
      <4> QED
        BY <4>1 DEF Scan, HasCursor
    <3>2. CASE StartAgain
      BY <3>2 DEF StartAgain, PlanInv
    <3> QED
      BY <3>1, <3>2
  <2>2. HasCursor => state.retry = saved.retry
    BY <1>1 DEF HasCursor
  <2> QED
    BY <1>1, <1>2, <1>3, <2>1, <2>2 DEF PlanInv, HasCursor, Sanitizes
<1> QED
  BY <1>4, <1>5, <1>6, <1>7, <1>8, <1>9, <1>10

(* The first checkpoint of a call: rows that an older cursor passes in a   *)
(* newer worklist are passed over.                                         *)
LEMMA FirstSaveStep ==
  ASSUME IInv, FirstSave
  PROVE  IInv'
<1> USE DEF IInv
<1>1. UNCHANGED <<milvus, fts, adding, added, removing, heal, sentinel, astray, faults, tool,
                  short, backup, worklist>>
      /\ cli.pc = "begin" /\ saved' = cli.state /\ newer' = FALSE
      /\ skipped' = IF newer THEN cli.state.scope \ cli.state.todo ELSE skipped
  BY DEF FirstSave, stores, server
<1>2. cli \in CliRecord /\ cli.state \in ToolState /\ saved \in ToolState
  BY DEF TypeInv, TypeOK, CliType
<1>3. /\ cli' \in CliRecord /\ cli'.pc = "retry" /\ cli'.queue = cli.queue
      /\ cli'.state = cli.state /\ cli'.doc = cli.doc /\ cli'.text = cli.text /\ cli'.ok = cli.ok
  BY <1>2 DEF FirstSave, CliRecord, PC
<1>4. TypeInv'
  <2>1. skipped' \subseteq Doc
    BY <1>1, <1>2 DEF TypeInv, TypeOK, ToolState
  <2> QED
    BY <1>1, <1>2, <1>3, <2>1 DEF TypeInv, TypeOK, StoresTypeOK, HealType, CliType, Writing
<1>5. RemovingInv' /\ ToolInv' /\ DocInv'
  BY <1>1, <1>3 DEF RemovingInv, ToolInv, DocInv
<1>6. RetryInv'
  BY <1>1, <1>3 DEF RetryInv, Writing
<1>7. OwedInv'
  BY <1>1, <1>3 DEF OwedInv, Owed, Tidy
<1>8. HasCursor /\ ~Sanitizes /\ cli.state.done = {} /\ cli.state.retry = saved.retry
      /\ IF newer THEN cli.state.scope = worklist ELSE cli.state = saved
  BY <1>1 DEF PlanInv, HasCursor, Sanitizes
<1>9. Kept(cli.state)'
  <2>1. CASE newer
    <3>1. \A d \in cli.state.scope : d \in cli.state.todo \/ d \in skipped'
      BY <1>1, <2>1
    <3>2. tool = "rewrite" =>
            \A d \in cli.state.retry \ cli.state.todo : milvus[d] # "before" \/ d \in skipped'
      <4>1. cli.state.retry \subseteq Doc
        BY <1>2 DEF ToolState
      <4>2. tool = "rewrite" => \A d \in Doc \ cli.state.scope : milvus[d] # "before"
        BY <1>8, <2>1 DEF PlanInv
      <4> QED
        BY <3>1, <4>1, <4>2
    <3> QED
      BY <1>1, <1>3, <1>8, <3>1, <3>2 DEF Kept, Good, Sanitizes
  <2>2. CASE ~newer
    <3>1. cli.state = saved /\ skipped' = skipped
      BY <1>1, <1>8, <2>2
    <3> QED
      BY <1>1, <1>3, <3>1 DEF WorkInv, Kept, Good, Clean, Sanitizes
  <2> QED
    BY <2>1, <2>2
<1>10. WorkInv'
  <2>1. cli.state.status = "open"
    BY <1>1 DEF RetryInv
  <2> QED
    BY <1>1, <1>3, <1>9, <2>1 DEF WorkInv, Kept
<1>11. PlanInv'
  BY <1>1, <1>3, <1>8 DEF PlanInv, HasCursor, Sanitizes
<1>12. BackupInv'
  BY <1>1, <1>3 DEF BackupInv
<1> QED
  BY <1>4, <1>5, <1>6, <1>7, <1>10, <1>11, <1>12

LEMMA RetryFtsStep ==
  ASSUME IInv, ToolNext, NEW d \in Doc, RetryFts(d)
  PROVE  Rest'
<1> USE DEF IInv, Rest, plan
<1>1. UNCHANGED <<milvus, fts, astray, removing, tool, saved, backup, plan>>
  BY DEF RetryFts, stores, server
<1>2. cli'.pc \in {"ftsDelete", "remove"} /\ cli'.doc = d /\ cli'.text = milvus[d]
      /\ cli'.queue = cli.queue /\ cli'.state = cli.state
      /\ (cli'.pc = "ftsDelete" => milvus[d] # None)
  BY ToolFacts DEF RetryFts, CliRecord
<1>3. cli.pc = "retry" /\ d \in cli.queue /\ d \in cli.state.retry /\ tool = "rewrite"
  BY DEF RetryFts, RetryInv, TypeInv, TypeOK
<1>4. ToolInv'
  BY <1>1, <1>2, <1>3 DEF ToolInv
<1>5. RetryInv'
  BY <1>1, <1>2, <1>3 DEF RetryInv, Writing
<1>6. OwedInv'
  BY <1>1, <1>2, <1>3 DEF OwedInv, Owed, Tidy
<1>7. DocInv'
  <2>1. milvus[d] # "before" \/ d \in cli.state.todo \cup skipped
    BY <1>3 DEF WorkInv, Kept
  <2> QED
    BY <1>1, <1>2, <1>3, <2>1 DEF DocInv, ToDo
<1>8. WorkInv'
  BY <1>1, <1>2, <1>3, ToolFacts, KeptHere DEF WorkInv, Sanitizes
<1>9. BackupInv'
  BY <1>1, <1>2 DEF BackupInv
<1>10. PlanInv'
  BY <1>1, <1>2, ToolFacts DEF PlanInv, HasCursor, Sanitizes
<1> QED
  BY <1>4, <1>5, <1>6, <1>7, <1>8, <1>9, <1>10

LEMMA RetriesDoneStep ==
  ASSUME IInv, ToolNext, RetriesDone
  PROVE  Rest'
<1> USE DEF IInv, Rest, plan
<1>1. UNCHANGED <<milvus, fts, astray, removing, tool, backup, plan>>
      /\ saved' = IF tool = "rewrite" THEN cli.state ELSE saved
  BY DEF RetriesDone, stores, server
<1>2. cli.pc = "retry" /\ cli.queue = {} /\ cli'.pc = "next"
      /\ cli'.queue = {} /\ cli'.state = cli.state
  BY ToolFacts DEF RetriesDone, Step, CliRecord
<1>4. ToolInv'
  BY <1>2 DEF ToolInv
<1>5. RetryInv'
  BY <1>1, <1>2 DEF RetryInv, Writing
<1>6. OwedInv'
  BY <1>1, <1>2 DEF OwedInv, Owed, Tidy
<1>7. DocInv'
  BY <1>2 DEF DocInv
<1>8. WorkInv'
  BY <1>1, <1>2, ToolFacts, KeptHere DEF WorkInv, Sanitizes, RetryInv
<1>9. BackupInv'
  BY <1>1, <1>2 DEF BackupInv
<1>10. PlanInv'
  BY <1>1, <1>2, ToolFacts DEF PlanInv, HasCursor, Sanitizes
<1> QED
  BY <1>4, <1>5, <1>6, <1>7, <1>8, <1>9, <1>10

LEMMA MissingStep ==
  ASSUME IInv, ToolNext, NEW d \in Doc, Missing(d)
  PROVE  Rest'
<1> USE DEF IInv, Rest, plan
<1>1. UNCHANGED <<milvus, fts, astray, removing, tool, backup, plan>>
      /\ saved' = (IF Sanitizes THEN saved ELSE cli'.state)
      /\ milvus[d] = None /\ cli.pc = "next"
  BY DEF Missing, stores, server
<1>2. cli'.pc = "next" /\ cli'.queue = {}
      /\ cli'.state.status = cli.state.status /\ cli'.state.scope = cli.state.scope
      /\ cli'.state.todo = cli.state.todo \ {d} /\ cli'.state.done = cli.state.done
      /\ cli'.state.retry = cli.state.retry
  BY ToolFacts DEF Missing, CliRecord, ToolState, RetryInv
<1>3. KeptNext(cli'.state)
  <2>1. ~Sanitizes => Good(d)' \/ d \in cli.state.retry
    BY <1>1, StoresAssumption DEF OwedInv, Owed, Tidy, Good, Clean, Sanitizes
  <2>2. tool = "rewrite" => milvus'[d] # "before"
    BY <1>1, StoresAssumption
  <2> QED
    BY <1>1, <1>2, <2>1, <2>2, ToolFacts DEF KeptNext
<1>4. ToolInv'
  BY <1>2 DEF ToolInv
<1>5. RetryInv'
  BY <1>1, <1>2 DEF RetryInv, Writing, Sanitizes
<1>6. OwedInv'
  BY <1>1, <1>2 DEF OwedInv, Owed, Tidy
<1>7. DocInv'
  BY <1>2 DEF DocInv
<1>8. WorkInv'
  BY <1>1, <1>2, <1>3, ToolFacts, KeptHere DEF WorkInv, Sanitizes, RetryInv
<1>9. BackupInv'
  BY <1>1, <1>2 DEF BackupInv
<1>10. PlanInv'
  BY <1>1, <1>2, ToolFacts DEF PlanInv, HasCursor, Sanitizes
<1> QED
  BY <1>4, <1>5, <1>6, <1>7, <1>8, <1>9, <1>10

LEMMA ReadStep ==
  ASSUME IInv, ToolNext, NEW d \in Doc, Read(d)
  PROVE  Rest'
<1> USE DEF IInv, Rest, plan
<1>1. UNCHANGED <<milvus, fts, astray, removing, tool, saved, backup, plan>>
      /\ cli.pc = "next" /\ d \in cli.state.todo /\ (milvus[d] # None \/ tool = "retag")
  BY DEF Read, stores, server
<1>2. /\ cli'.doc = d /\ cli'.text = milvus[d] /\ cli'.queue = {} /\ cli'.state = cli.state
      /\ cli'.pc \in {"save", "remove", "fetch"}
      /\ cli'.pc = "save" <=> tool \in {"rewrite", "reembed"}
      /\ cli'.pc = "remove" <=> tool = "drop"
  <2>1. cli'.pc = CASE tool \in {"rewrite", "reembed"} -> "save"
                    [] tool = "drop" -> "remove"
                    [] OTHER -> "fetch"
    BY ToolFacts DEF Read, CliRecord
  <2> QED
    BY <2>1, ToolFacts DEF Read, CliRecord, RetryInv
<1>4. ToolInv'
  BY <1>1, <1>2, ToolFacts DEF ToolInv
<1>5. RetryInv'
  BY <1>1, <1>2 DEF RetryInv, Writing
<1>6. OwedInv'
  BY <1>1, <1>2 DEF OwedInv, Owed, Tidy
<1>7. DocInv'
  BY <1>2 DEF DocInv
<1>8. WorkInv'
  BY <1>1, <1>2, ToolFacts, KeptHere DEF WorkInv, Sanitizes
<1>9. BackupInv'
  BY <1>1, <1>2 DEF BackupInv
<1>10. PlanInv'
  BY <1>1, <1>2, ToolFacts DEF PlanInv, HasCursor, Sanitizes
<1> QED
  BY <1>4, <1>5, <1>6, <1>7, <1>8, <1>9, <1>10

LEMMA CheckpointStep ==
  ASSUME IInv, ToolNext, Checkpoint
  PROVE  Rest'
<1> USE DEF IInv, Rest, plan
<1>1. UNCHANGED <<milvus, fts, astray, removing, tool, plan>> /\ backup' = BackedUp
      /\ saved' = (IF tool = "rewrite" THEN Owes ELSE saved)
      /\ cli.pc = "save" /\ cli.pc \in Writing /\ tool \in {"rewrite", "reembed"}
      /\ cli.queue = {} /\ cli.doc \in cli.state.todo /\ cli.doc \in Doc
  BY DEF Checkpoint, stores, server, Writing, ToolInv, RetryInv, TypeInv, CliType
<1>2. /\ cli'.doc = cli.doc /\ cli'.queue = {} /\ cli'.state = Owes
      /\ cli'.pc \in {"remove", "upsert"} /\ (cli'.pc = "remove" => tool = "rewrite")
  BY ToolFacts, <1>1 DEF Checkpoint, CliRecord
<1>3. KeptNext(Owes)
  BY <1>1, OwesShape, ToolFacts DEF KeptNext
<1>4. ToolInv'
  BY <1>1, <1>2, ToolFacts DEF ToolInv
<1>5. RetryInv'
  BY <1>1, <1>2, OwesShape DEF RetryInv, Writing
<1>6. OwedInv'
  BY <1>1, <1>2, OwesShape DEF OwedInv, Owed, Tidy
<1>7. DocInv'
  BY <1>2 DEF DocInv
<1>8. WorkInv'
  BY <1>1, <1>2, <1>3, OwesShape, ToolFacts, KeptHere DEF WorkInv, Sanitizes, RetryInv
<1>9. BackupInv'
  <2>1. cli.text \in {"before", "after"}
    BY <1>1 DEF BackupInv, TypeInv, TypeOK, Content
  <2> QED
    BY <1>1, <1>2, <2>1 DEF BackupInv, BackedUp
<1>10. PlanInv'
  BY <1>1, <1>2, OwesShape, ToolFacts DEF PlanInv, HasCursor, Sanitizes
<1> QED
  BY <1>4, <1>5, <1>6, <1>7, <1>8, <1>9, <1>10

LEMMA UpsertStep ==
  ASSUME IInv, ToolNext, Upsert
  PROVE  Rest'
<1> USE DEF IInv, Rest, plan
<1>1. UNCHANGED <<fts, removing, tool, saved, backup, plan>>
      /\ cli.pc = "upsert" /\ cli.pc \in Writing /\ tool # "drop"
      /\ cli.queue = {} /\ cli.doc \in Doc /\ milvus'[cli.doc] = "after"
  BY DEF Upsert, server, Writing, ToolInv, RetryInv, TypeInv, TypeOK, StoresTypeOK, CliType
<1>2. /\ cli'.doc = cli.doc /\ cli'.queue = {} /\ cli'.state = cli.state
      /\ cli'.text = "after"
      /\ cli'.pc = IF tool = "reembed" THEN "advance" ELSE "ftsDelete"
  BY ToolFacts, <1>1 DEF Upsert, CliRecord
<1>3. \A d \in Doc : TidyKept(d)
  BY <1>1, ToolFacts DEF Remove
<1>4. ToolInv'
  BY <1>1, <1>2, StoresAssumption DEF ToolInv
<1>5. RetryInv'
  BY <1>1, <1>2 DEF RetryInv, Writing
<1>6. OwedInv'
  BY <1>1, <1>2, <1>3 DEF OwedInv, Owed, TidyKept
<1>7. DocInv'
  BY <1>1, <1>2, StoresAssumption DEF DocInv, Tidy, Good, Clean
<1>8. WorkInv'
  BY <1>1, <1>2, ToolFacts, KeptHere DEF WorkInv, Sanitizes
<1>9. BackupInv'
  BY <1>1, <1>2, ToolFacts DEF BackupInv, Forward, Doc
<1>10. PlanInv'
  BY <1>1, <1>2, ToolFacts DEF PlanInv, HasCursor, Sanitizes, Forward
<1> QED
  BY <1>4, <1>5, <1>6, <1>7, <1>8, <1>9, <1>10

LEMMA FetchStep ==
  ASSUME IInv, ToolNext, Fetch
  PROVE  Rest'
<1> USE DEF IInv, Rest, plan
<1>1. UNCHANGED <<milvus, fts, removing, astray, tool, saved, backup, plan>>
      /\ cli.pc = "fetch" /\ cli.pc \in Writing /\ tool \in {"redact", "retag"}
      /\ cli.queue = {} /\ cli.doc \in Doc
  BY DEF Fetch, stores, server, Writing, ToolInv, RetryInv, TypeInv, CliType
<1>2. /\ cli'.doc = cli.doc /\ cli'.queue = {} /\ cli'.state = cli.state
      /\ cli'.pc \in {"advance", "upsert"}
      /\ cli'.pc = "advance" => cli'.ok = FALSE
  BY <1>1, ToolFacts DEF Fetch, CliRecord
<1>4. ToolInv'
  BY <1>1, <1>2 DEF ToolInv
<1>5. RetryInv'
  BY <1>1, <1>2 DEF RetryInv, Writing
<1>6. OwedInv'
  BY <1>1, <1>2 DEF OwedInv, Owed, Tidy
<1>7. DocInv'
  BY <1>1, <1>2 DEF DocInv, HasCursor
<1>8. WorkInv'
  BY <1>1, <1>2, ToolFacts, KeptHere DEF WorkInv, Sanitizes
<1>9. BackupInv'
  BY <1>1 DEF BackupInv
<1>10. PlanInv'
  BY <1>1, <1>2, ToolFacts DEF PlanInv, HasCursor, Sanitizes
<1> QED
  BY <1>4, <1>5, <1>6, <1>7, <1>8, <1>9, <1>10

LEMMA FtsDeleteStep ==
  ASSUME IInv, ToolNext, FtsDelete
  PROVE  Rest'
<1> USE DEF IInv, Rest, plan
<1>1. UNCHANGED <<milvus, removing, astray, tool, saved, backup, plan>>
      /\ cli.pc = "ftsDelete" /\ cli.pc \in Writing /\ cli.doc \in Doc /\ fts'[cli.doc] = None
  BY DEF FtsDelete, server, Writing, TypeInv, TypeOK, StoresTypeOK, CliType
<1>2. /\ cli'.doc = cli.doc /\ cli'.queue = cli.queue /\ cli'.state = cli.state
      /\ cli'.text = cli.text /\ cli'.pc = "ftsInsert"
  BY ToolFacts, <1>1 DEF FtsDelete, Step, CliRecord
<1>3. \A d \in Doc : TidyKept(d)
  BY <1>1, ToolFacts DEF Remove
<1>4. ToolInv'
  BY <1>1, <1>2 DEF ToolInv
<1>5. RetryInv'
  BY <1>1, <1>2 DEF RetryInv, Writing
<1>6. OwedInv'
  BY <1>1, <1>2, <1>3 DEF OwedInv, Owed, TidyKept
<1>7. DocInv'
  BY <1>1, <1>2, StoresAssumption DEF DocInv, ToDo, Good, Clean
<1>8. WorkInv'
  BY <1>1, <1>2, ToolFacts, KeptHere DEF WorkInv, Sanitizes
<1>9. BackupInv'
  BY <1>1, <1>2 DEF BackupInv
<1>10. PlanInv'
  BY <1>1, <1>2, ToolFacts DEF PlanInv, HasCursor, Sanitizes
<1> QED
  BY <1>4, <1>5, <1>6, <1>7, <1>8, <1>9, <1>10

LEMMA FtsInsertStep ==
  ASSUME IInv, ToolNext, FtsInsert
  PROVE  Rest'
<1> USE DEF IInv, Rest, plan
<1>1. UNCHANGED <<milvus, removing, tool, saved, backup, plan>>
      /\ cli.pc = "ftsInsert" /\ cli.pc \in Writing /\ cli.doc \in Doc
      /\ (milvus[cli.doc] # cli.text => cli.doc \in astray')
  BY DEF FtsInsert, server, Writing, TypeInv, CliType
<1>2. /\ cli'.doc = cli.doc /\ cli'.queue = cli.queue /\ cli'.state = cli.state
      /\ cli'.text = cli.text /\ cli'.ok = cli.ok /\ cli'.pc = "advance"
  BY ToolFacts, <1>1 DEF FtsInsert, Step, CliRecord
<1>3. \A d \in Doc : TidyKept(d)
  BY <1>1, ToolFacts DEF Remove
<1>4. ToolInv'
  BY <1>2 DEF ToolInv
<1>5. RetryInv'
  BY <1>1, <1>2 DEF RetryInv, Writing
<1>6. OwedInv'
  BY <1>1, <1>2, <1>3 DEF OwedInv, Owed, TidyKept
<1>7. DocInv'
  BY <1>1, <1>2, ToolFacts DEF DocInv, ToDo, Tidy, Forward, ToolInv
<1>8. WorkInv'
  BY <1>1, <1>2, ToolFacts, KeptHere DEF WorkInv, Sanitizes
<1>9. BackupInv'
  BY <1>1, <1>2 DEF BackupInv
<1>10. PlanInv'
  BY <1>1, <1>2, ToolFacts DEF PlanInv, HasCursor, Sanitizes
<1> QED
  BY <1>4, <1>5, <1>6, <1>7, <1>8, <1>9, <1>10

LEMMA RemoveStep ==
  ASSUME IInv, ToolNext, Remove
  PROVE  Rest'
<1> USE DEF IInv, Rest, plan
<1>1. UNCHANGED <<fts, removing, astray, tool, saved, backup, plan>>
      /\ cli.pc = "remove" /\ cli.pc \in Writing /\ cli.doc \in Doc /\ milvus'[cli.doc] = None
      /\ tool \in {"rewrite", "drop"}
  BY DEF Remove, server, Writing, TypeInv, TypeOK, StoresTypeOK, CliType, ToolInv
<1>2. /\ cli'.doc = cli.doc /\ cli'.queue = cli.queue /\ cli'.state = cli.state
      /\ cli'.text = cli.text /\ cli'.pc = "ftsRemove"
  BY ToolFacts, <1>1 DEF Remove, Step, CliRecord
<1>4. ToolInv'
  BY <1>1, <1>2 DEF ToolInv
<1>5. RetryInv'
  BY <1>1, <1>2 DEF RetryInv, Writing
<1>6. OwedInv'
  <2>1. tool = "rewrite" => cli.doc \in cli.state.retry
    BY <1>1 DEF RetryInv
  <2> QED
    BY <1>1, <1>2, <2>1, ToolFacts DEF OwedInv, Owed, TidyKept
<1>7. DocInv'
  BY <1>1, <1>2, StoresAssumption DEF DocInv
<1>8. WorkInv'
  BY <1>1, <1>2, ToolFacts, KeptHere DEF WorkInv, Sanitizes
<1>9. BackupInv'
  BY <1>1, <1>2, ToolFacts DEF BackupInv, Forward, Doc
<1>10. PlanInv'
  BY <1>1, <1>2, ToolFacts DEF PlanInv, HasCursor, Sanitizes, Forward
<1> QED
  BY <1>4, <1>5, <1>6, <1>7, <1>8, <1>9, <1>10

LEMMA FtsRemoveStep ==
  ASSUME IInv, ToolNext, FtsRemove
  PROVE  Rest'
<1> USE DEF IInv, Rest, plan
<1>1. UNCHANGED <<milvus, removing, astray, tool, saved, backup, plan>>
      /\ cli.pc = "ftsRemove" /\ cli.pc \in Writing /\ cli.doc \in Doc /\ fts'[cli.doc] = None
  BY DEF FtsRemove, server, Writing, TypeInv, TypeOK, StoresTypeOK, CliType
<1>2. /\ cli'.doc = cli.doc /\ cli'.queue = cli.queue /\ cli'.state = cli.state
      /\ cli'.text = cli.text /\ cli'.ok = cli.ok /\ cli'.pc = "advance"
  BY ToolFacts, <1>1 DEF FtsRemove, Step, CliRecord
<1>3. (\A d \in Doc : TidyKept(d)) /\ Tidy(cli.doc)'
  <2>1. \A d \in Doc : TidyKept(d)
    BY <1>1, ToolFacts DEF Remove
  <2> QED
    BY <1>1, <1>2, <2>1 DEF Tidy
<1>4. ToolInv'
  BY <1>2 DEF ToolInv
<1>5. RetryInv'
  BY <1>1, <1>2 DEF RetryInv, Writing
<1>6. OwedInv'
  BY <1>1, <1>2, <1>3 DEF OwedInv, Owed, TidyKept, Tidy
<1>7. DocInv'
  BY <1>1, <1>2, StoresAssumption DEF DocInv, Tidy, Good, Clean
<1>8. WorkInv'
  BY <1>1, <1>2, ToolFacts, KeptHere DEF WorkInv, Sanitizes
<1>9. BackupInv'
  BY <1>1, <1>2 DEF BackupInv
<1>10. PlanInv'
  BY <1>1, <1>2, ToolFacts DEF PlanInv, HasCursor, Sanitizes
<1> QED
  BY <1>4, <1>5, <1>6, <1>7, <1>8, <1>9, <1>10

LEMMA WriteFailsStep ==
  ASSUME IInv, ToolNext, WriteFails
  PROVE  Rest'
<1> USE DEF IInv, Rest, plan
<1>1. UNCHANGED <<milvus, fts, removing, tool, saved, backup, plan>> /\ astray \subseteq astray'
      /\ cli.pc \in {"fetch", "upsert", "ftsDelete", "ftsInsert", "ftsRemove"}
      /\ (cli.pc \in {"fetch", "upsert"} => ~HasCursor)
      /\ cli.pc \in Writing /\ cli.doc \in Doc
      /\ (tool = "drop" => cli.doc \in astray')
  BY DEF WriteFails, stores, server, Writing, TypeInv, CliType, ToolInv, HasCursor
<1>2. /\ cli'.doc = cli.doc /\ cli'.queue = cli.queue /\ cli'.state = cli.state
      /\ cli'.ok = FALSE /\ cli'.pc = "advance"
  BY ToolFacts, <1>1 DEF WriteFails, CliRecord
<1>4. ToolInv'
  BY <1>2 DEF ToolInv
<1>5. RetryInv'
  BY <1>1, <1>2 DEF RetryInv, Writing
<1>6. OwedInv'
  BY <1>1, <1>2 DEF OwedInv, Owed, Tidy
<1>7. DocInv'
  BY <1>1, <1>2 DEF DocInv, ToDo, HasCursor
<1>8. WorkInv'
  BY <1>1, <1>2, ToolFacts, KeptHere DEF WorkInv, Sanitizes
<1>9. BackupInv'
  BY <1>1, <1>2 DEF BackupInv
<1>10. PlanInv'
  BY <1>1, <1>2, ToolFacts DEF PlanInv, HasCursor, Sanitizes
<1> QED
  BY <1>4, <1>5, <1>6, <1>7, <1>8, <1>9, <1>10

LEMMA StopStep ==
  ASSUME IInv, ToolNext, Stop
  PROVE  Rest'
<1> USE DEF IInv, Rest, plan
<1>1. UNCHANGED <<milvus, fts, removing, tool, saved, backup, plan>> /\ astray \subseteq astray'
      /\ cli.pc # "stopped"
      /\ (tool = "drop" /\ cli.pc = "ftsRemove" => cli.doc \in astray')
  BY DEF Stop, stores, server
<1>2. cli'.queue = {} /\ cli'.state = NoState /\ cli'.pc = "stopped"
  BY StoppedShape DEF Stop
<1>4. ToolInv'
  BY <1>2 DEF ToolInv
<1>5. RetryInv'
  BY <1>1, <1>2, StoppedShape DEF RetryInv, Writing
<1>6. OwedInv'
  BY <1>1, <1>2 DEF OwedInv, Owed, Tidy, RetryInv
<1>7. DocInv'
  BY <1>2 DEF DocInv
<1>8. WorkInv'
  <2>1. KeptNext(NoState)
    BY StoppedShape DEF KeptNext
  <2> QED
    BY <1>1, <1>2, <2>1, ToolFacts, KeptHere DEF WorkInv, Sanitizes
<1>9. BackupInv'
  BY <1>1, <1>2 DEF BackupInv
<1>10. PlanInv'
  BY <1>1, <1>2, StoppedShape, ToolFacts DEF PlanInv, HasCursor, Sanitizes
<1> QED
  BY <1>4, <1>5, <1>6, <1>7, <1>8, <1>9, <1>10

LEMMA EndStep ==
  ASSUME IInv, ToolNext, End
  PROVE  Rest'
<1> USE DEF IInv, Rest, plan
<1>1. UNCHANGED <<milvus, fts, removing, astray, tool, backup, plan>>
      /\ cli.pc = "next" /\ cli.state.todo = {}
  BY DEF End, stores, server
<1>2. cli'.queue = {} /\ cli'.state = NoState /\ cli'.pc = "stopped"
  BY StoppedShape DEF End
<1>4. ToolInv'
  BY <1>2 DEF ToolInv
<1>5. RetryInv'
  BY <1>1, <1>2, StoppedShape, EndShape DEF RetryInv, Writing
<1>6. OwedInv'
  BY <1>1, <1>2, EndShape DEF OwedInv, Owed, Tidy
<1>7. DocInv'
  BY <1>2 DEF DocInv
<1>8. WorkInv'
  <2>1. KeptNext(NoState)
    BY StoppedShape DEF KeptNext
  <2>2. KeptNext(saved')
    BY <1>1, EndShape, ToolFacts DEF KeptNext, Sanitizes
  <2>3. ~Sanitizes /\ saved'.status = "done" => saved'.todo = {} /\ saved'.retry = {}
    BY EndShape DEF Complete
  <2> QED
    BY <1>1, <1>2, <2>1, <2>2, <2>3, KeptHere DEF WorkInv, Sanitizes
<1>9. BackupInv'
  BY <1>1, <1>2 DEF BackupInv
<1>10. PlanInv'
  BY <1>1, <1>2, StoppedShape, EndShape, ToolFacts DEF PlanInv, HasCursor, Sanitizes
<1> QED
  BY <1>4, <1>5, <1>6, <1>7, <1>8, <1>9, <1>10

LEMMA AdvanceStep ==
  ASSUME IInv, ToolNext, Advance
  PROVE  Rest'
<1> USE DEF IInv, Rest, plan
<1>1. UNCHANGED <<milvus, fts, removing, astray, tool, backup, plan>>
      /\ cli.pc = "advance" /\ cli.pc \in Writing /\ cli.doc \in Doc
  BY DEF Advance, stores, server, Writing, TypeInv, CliType
<1>2. CASE cli.doc \in cli.queue
  <2>1. /\ cli'.pc = "retry" /\ cli'.queue = cli.queue \ {cli.doc} /\ saved' = saved
        /\ cli'.state.status = cli.state.status /\ cli'.state.scope = cli.state.scope
        /\ cli'.state.todo = cli.state.todo /\ cli'.state.done = cli.state.done
        /\ cli'.state.retry = IF Settled THEN cli.state.retry \ {cli.doc} ELSE cli.state.retry
    BY <1>1, <1>2, RetriedShape
  <2>2. tool = "rewrite"
    BY <1>2 DEF RetryInv
  <2>3. Settled => \A d \in {cli.doc} : Tidy(d)' /\ (d \in cli.state.todo \/ Good(d)')
    <3>1. Settled => Tidy(cli.doc) /\ (cli.doc \in cli.state.todo \/ Good(cli.doc))
      BY <1>1 DEF DocInv, Settled, ToDo, Good
    <3> QED
      BY <1>1, <3>1 DEF Tidy, Good, Clean
  <2>4. KeptNext(cli'.state)
    BY <1>1, <2>1, <2>3, ToolFacts DEF KeptNext
  <2>5. ToolInv'
    BY <2>1 DEF ToolInv
  <2>6. RetryInv'
    BY <1>1, <2>1, <2>2 DEF RetryInv, Writing
  <2>7. OwedInv'
    <3> SUFFICES ASSUME NEW d \in Doc PROVE Tidy(d)' \/ d \in cli'.state.retry
      BY <1>1, <2>1, <2>2 DEF OwedInv, Owed
    <3>1. Tidy(d)' \/ d \in cli.state.retry
      BY <1>1, <2>2 DEF OwedInv, Owed, Tidy
    <3>2. d = cli.doc /\ Settled => Tidy(d)'
      BY <2>3
    <3> QED
      BY <2>1, <3>1, <3>2
  <2>8. DocInv'
    BY <2>1 DEF DocInv
  <2>9. WorkInv'
    BY <1>1, <2>1, <2>4, ToolFacts, KeptHere DEF WorkInv, Sanitizes
  <2>10. BackupInv'
    BY <1>1, <2>1 DEF BackupInv
  <2>11. PlanInv'
    BY <1>1, <2>1, ToolFacts DEF PlanInv, HasCursor, Sanitizes
  <2> QED
    BY <2>5, <2>6, <2>7, <2>8, <2>9, <2>10, <2>11
<1>3. CASE cli.doc \notin cli.queue
  <2> DEFINE A == AfterRow
             B == [A EXCEPT !.todo = A.scope \ A.done]
  <2>1. /\ cli'.pc = "next" /\ cli'.queue = {} /\ cli'.state = A
        /\ Sanitizes => saved' = B
        /\ tool = "retag" => saved' = saved
        /\ tool \in {"rewrite", "reembed"} => saved' = A
        /\ cli.doc \in cli.state.todo /\ cli.queue = {}
    <3>1. cli.doc \in cli.state.todo /\ cli.queue = {}
      BY <1>1, <1>3 DEF RetryInv
    <3> QED
      BY <1>1, <1>3, <3>1, AdvancedShape DEF Sanitizes
  <2>2. /\ A \in ToolState /\ A.status = cli.state.status /\ A.scope = cli.state.scope
        /\ A.todo = cli.state.todo \ {cli.doc}
        /\ A.retry = IF Settled THEN cli.state.retry \ {cli.doc}
                     ELSE IF tool = "retag" THEN cli.state.retry \cup {cli.doc}
                     ELSE cli.state.retry
        /\ A.done = IF Sanitizes /\ Settled THEN cli.state.done \cup {cli.doc}
                    ELSE cli.state.done
    BY <1>1, AfterRowShape
  <2>3. /\ B.status = A.status /\ B.scope = A.scope /\ B.done = A.done /\ B.retry = A.retry
    BY <2>2, SavedShape
  <2> HIDE DEF A, B
  <2>4. Settled => \A d \in {cli.doc} : Tidy(d)' /\ Good(d)'
    <3>1. Settled => Tidy(cli.doc) /\ Good(cli.doc)
      BY <1>1, <1>3 DEF DocInv, Settled, ToDo
    <3> QED
      BY <1>1, <3>1 DEF Tidy, Good, Clean
  <2>5. ~Settled /\ HasCursor => milvus'[cli.doc] # "before"
    BY <1>1, <1>3 DEF DocInv, Settled, ToDo
  <2>6. KeptNext(A)
    <3>1. \A d \in A.done : Good(d)'
      BY <1>1, <2>2, <2>4, ToolFacts DEF KeptNext
    <3>2. ~Sanitizes => \A d \in {cli.doc} : d \in A.retry \/ Good(d)'
      <4>1. tool = "rewrite" => cli.doc \in cli.state.retry
        BY <1>1 DEF RetryInv
      <4>2. tool = "reembed" /\ ~Settled => \A d \in {cli.doc} : Good(d)'
        BY <1>1, <2>5 DEF Good, Clean, HasCursor
      <4> QED
        BY <2>2, <2>4, <4>1, <4>2, ToolFacts DEF Sanitizes
    <3>3. ~Sanitizes => \A d \in A.scope : d \in A.todo \cup A.retry \/ Good(d)'
      <4>1. ASSUME ~Sanitizes, NEW d \in A.scope, d # cli.doc
            PROVE  d \in A.todo \cup A.retry \/ Good(d)'
        BY <1>1, <2>2, <4>1, ToolFacts DEF KeptNext
      <4> QED
        BY <3>2, <4>1
    <3>4. tool = "rewrite" => \A d \in A.retry \ A.todo : milvus'[d] # "before" \/ d \in skipped'
      <4> SUFFICES ASSUME tool = "rewrite", NEW d \in A.retry \ A.todo
                   PROVE  milvus'[d] # "before" \/ d \in skipped'
        OBVIOUS
      <4>1. CASE d = cli.doc
        BY <2>2, <2>5, <4>1 DEF HasCursor
      <4>2. CASE d # cli.doc
        BY <1>1, <2>2, <4>2, ToolFacts DEF KeptNext
      <4> QED
        BY <4>1, <4>2
    <3> QED
      BY <3>1, <3>3, <3>4 DEF KeptNext
  <2>7. Sanitizes => KeptNext(B)
    BY <2>3, <2>6 DEF KeptNext, Sanitizes
  <2>8. KeptNext(saved')
    BY <2>1, <2>6, <2>7, ToolFacts DEF Sanitizes
  <2>9. ToolInv'
    BY <2>1 DEF ToolInv
  <2>10. RetryInv'
    <3>1. tool \notin {"rewrite", "retag"} => A.retry = {} /\ saved'.retry = {}
      BY <2>1, <2>2, <2>3, ToolFacts DEF RetryInv, Sanitizes
    <3>2. tool = "rewrite" => A.retry \subseteq saved'.retry
      BY <2>1
    <3> QED
      BY <1>1, <2>1, <2>2, <3>1, <3>2 DEF RetryInv, Writing
  <2>11. OwedInv'
    <3> SUFFICES ASSUME NEW d \in Doc PROVE Tidy(d)' \/ (tool = "rewrite" /\ d \in A.retry)
      BY <1>1, <2>1 DEF OwedInv, Owed
    <3>1. Tidy(d)' \/ (tool = "rewrite" /\ d \in cli.state.retry)
      BY <1>1 DEF OwedInv, Owed, Tidy
    <3>2. d = cli.doc /\ Settled => Tidy(d)'
      BY <2>4
    <3> QED
      BY <2>2, <3>1, <3>2
  <2>12. DocInv'
    BY <2>1 DEF DocInv
  <2>13. WorkInv'
    <3>1. ~Sanitizes /\ saved'.status = "done" => saved'.todo = {} /\ saved'.retry = {}
      BY <1>1, <2>1, <2>2, ToolFacts DEF WorkInv, RetryInv, Sanitizes
    <3> QED
      BY <1>1, <2>1, <2>6, <2>8, <3>1, KeptHere DEF WorkInv, Sanitizes
  <2>14. BackupInv'
    BY <1>1, <2>1 DEF BackupInv
  <2>15. PlanInv'
    <3>1. ~Sanitizes => A.done = {} /\ saved'.done = {}
      BY <2>1, <2>2, ToolFacts DEF PlanInv, Sanitizes
    <3> QED
      BY <1>1, <2>1, <3>1, ToolFacts DEF PlanInv, HasCursor, Sanitizes
  <2> QED
    BY <2>9, <2>10, <2>11, <2>12, <2>13, <2>14, <2>15
<1> QED
  BY <1>2, <1>3

(* Every step of a tool keeps the invariant.                               *)
LEMMA ToolStep ==
  ASSUME IInv, ToolNext
  PROVE  IInv'
<1>1. Rest'
  BY BeginStep, RetryFtsStep, RetriesDoneStep, MissingStep, ReadStep, CheckpointStep,
     UpsertStep, FetchStep, FtsDeleteStep, FtsInsertStep, RemoveStep, FtsRemoveStep,
     WriteFailsStep, StopStep, EndStep, AdvanceStep DEF ToolNext
<1> QED
  BY <1>1, ToolFacts DEF IInv, Rest

-----------------------------------------------------------------------------
(* The invariant, and what it is for.                                      *)

(* The invariant holds at first.                                           *)
LEMMA Initially ==
  ASSUME Init
  PROVE  IInv
<1>0. 0 \in 0..MaxFaults
  BY StoresAssumption
<1> USE StoresAssumption, ToolAssumption DEF Init, StoresInit
<1>1. heal \in HealRecord /\ heal.pc = "idle" /\ heal.first = TRUE /\ heal.seen = {}
      /\ DOMAIN heal.batch = {}
  BY NoBatch DEF HealIdle, HealRecord
<1>2. milvus \in [Doc -> Content \cup {None}] /\ fts \in [Doc -> Content \cup {None}]
  BY DEF Doc, Content
<1>3. StoresTypeOK
  <2>1. astray \subseteq Doc
    OBVIOUS
  <2>2. sentinel \in BOOLEAN /\ faults = 0
    OBVIOUS
  <2> QED
    BY <1>0, <1>1, <1>2, <2>1, <2>2 DEF StoresTypeOK
<1>a. /\ saved \in ToolState /\ saved.scope = {} /\ saved.todo = {}
      /\ saved.done = {} /\ saved.retry = {} /\ saved.status # "done"
      /\ cli.pc = "stopped" /\ cli.state = NoState /\ cli.queue = {} /\ cli \in CliRecord
      /\ cli.state.scope = {} /\ cli.state.todo = {} /\ cli.state.done = {} /\ cli.state.retry = {}
  <2>1. PICK k \in Nat : saved = NoState \/ saved = [NoState EXCEPT !.status = "open", !.cursor = k]
    OBVIOUS
  <2>2. [NoState EXCEPT !.status = "open", !.cursor = k] \in ToolState
    BY DEF NoState, ToolState
  <2>3. saved \in ToolState /\ saved.scope = {} /\ saved.todo = {}
        /\ saved.done = {} /\ saved.retry = {} /\ saved.status # "done"
    BY <2>1, <2>2, StoppedShape DEF NoState
  <2> QED
    BY <2>3, StoppedShape
<1>4. TypeInv
  BY <1>1, <1>3, <1>a, StoppedShape DEF TypeInv, TypeOK, HealType, CliType, Doc, Writing
<1>5. RemovingInv /\ ToolInv /\ DocInv
  BY StoppedShape DEF RemovingInv, ToolInv, DocInv
<1>6. RetryInv
  BY <1>a DEF RetryInv, Writing
<1>7. \A d \in Doc : fts[d] # None => milvus[d] # None
  BY DEF Doc
<1>8. OwedInv
  BY <1>7 DEF OwedInv, Tidy
<1>9. WorkInv
  BY <1>a DEF WorkInv, Kept
<1>10. BackupInv
  BY StoppedShape DEF BackupInv, Doc
<1>11. PlanInv
  BY <1>a DEF PlanInv, Doc, Sanitizes, HasCursor
<1> QED
  BY <1>4, <1>5, <1>6, <1>8, <1>9, <1>10, <1>11 DEF IInv

(* No step of the tool or of the server breaks the invariant.              *)
THEOREM Invariance == Spec => []IInv
<1>1. Init => IInv
  BY Initially
<1>2. IInv /\ [Next]_vars => IInv'
  <2> SUFFICES ASSUME IInv, [Next]_vars PROVE IInv'
    OBVIOUS
  <2>1. CASE ToolNext
    BY <2>1, ToolStep
  <2>2. CASE ServerNext /\ UNCHANGED toolVars
    BY <2>2, ServerStep
  <2>4. CASE FirstSave
    BY <2>4, FirstSaveStep
  <2>3. CASE UNCHANGED vars
    BY <2>3 DEF vars, plan, stores, server, PlanInv, HasCursor, Clean, IInv, TypeInv, TypeOK, StoresTypeOK, HealType, CliType,
      RemovingInv, ToolInv, RetryInv, OwedInv, Owed, Tidy, Good, DocInv, ToDo, WorkInv, Kept,
      Sanitizes, BackupInv
  <2> QED
    BY <2>1, <2>2, <2>3, <2>4 DEF Next, Row, ToolNext, toolVars
<1> QED
  BY <1>1, <1>2, PTL DEF Spec

(* The stores, the heal loop's batch, the tool's process and its           *)
(* checkpoint keep their types.                                            *)
THEOREM TypeCorrect == Spec => []TypeOK
<1>1. IInv => TypeOK
  BY DEF IInv, TypeInv
<1> QED
  BY <1>1, Invariance, PTL

(* What a tool reports as finished is corrected in both stores, however    *)
(* often it was stopped and called again, but for rows that a killed       *)
(* restart made it pass over.                                              *)
THEOREM Corrected == Spec => []FinishedMeansCorrected
<1>1. IInv => FinishedMeansCorrected
  <2> SUFFICES ASSUME IInv, NEW d \in Finished \ (astray \cup skipped \cup {removing})
               PROVE  Clean(d)
    BY DEF FinishedMeansCorrected
  <2>1. Good(d)
    BY DEF IInv, WorkInv, Kept, Finished
  <2> QED
    BY <2>1 DEF Good
<1> QED
  BY <1>1, Invariance, PTL

(* A row that FTS holds alone is in some writer's hands or on the list of  *)
(* what is owed: no crash leaves one behind that nobody looks for.         *)
THEOREM NoRowIsOrphaned == Spec => []NoOrphan
<1>1. IInv => NoOrphan
  <2> SUFFICES ASSUME IInv, NEW d \in Indexed \ Stored
               PROVE  d \in astray \cup {removing, cli.doc} \cup saved.retry
    BY DEF NoOrphan
  <2>1. d \in Doc /\ fts[d] # None /\ milvus[d] = None
    BY DEF Indexed, Stored
  <2>2. tool = "rewrite" => Owed \subseteq saved.retry
    BY DEF IInv, RetryInv, Owed
  <2> QED
    BY <2>1, <2>2 DEF IInv, OwedInv, Tidy
<1> QED
  BY <1>1, Invariance, PTL

(* The backup file holds an old row before Milvus loses it.                *)
THEOREM BackupFirst == Spec => []BackupHoldsOld
<1>1. IInv => BackupHoldsOld
  BY DEF IInv, BackupInv, BackupHoldsOld
<1> QED
  BY <1>1, Invariance, PTL
=============================================================================
