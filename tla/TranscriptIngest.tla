----------------------------- MODULE TranscriptIngest -----------------------------
(***************************************************************************)
(* How Claude Code transcripts become rows of the index: the file watcher, *)
(* the /index hook, the /watch backfill and the provider jobs, each with   *)
(* its own copy of index_state.json, and add_turns on one executor thread. *)
(*                                                                         *)
(* Coroutines run one at a time and give way only where they await.  A     *)
(* parse and the wait for the embed semaphore are one segment, so turns    *)
(* are added in the order in which files were read.                        *)
(***************************************************************************)
EXTENDS TranscriptParse, SequencesExt

CONSTANTS
  File,        \* transcripts
  Script,      \* what a session may write: lines, in order
  None,        \* no file, no coroutine
  Together,    \* bound: the sets of coroutines that may be under way at once
  MaxFaults    \* bound on crashes, failed and deferred embeddings, failed lookups

ASSUME IngestAssumption == MaxFaults \in Nat

VARIABLES
  lines,       \* each transcript: its lines, which grow one whole line at a time
  disk,        \* index_state.json: two cursors for each transcript
  rows,        \* turns stored in Milvus
  pending,     \* the watcher's changed files; its debounce timer runs while there are any
  queued,      \* the provider job is in the backfill queue
  task,        \* the four ways to ingest
  addq,        \* who holds and who waits for the embed semaphore, in order
  running,     \* the coroutine that has the event loop
  deferred,    \* history: turns whose embedding the budget denied
  untidy,      \* history: turns whose older versions could not be deleted
  faults

loop == <<task, addq, running>>
vars == <<lines, disk, rows, pending, queued, loop, deferred, untidy, faults>>

-----------------------------------------------------------------------------
Task == {"watch", "hook", "backfill", "job"}

(* transcripts[path], and the provider's own cursor for the same file.     *)
Cursor == [resume : Nat, consumed : Nat \cup {-1}]
NoCursor == [resume |-> 0, consumed |-> -1]
State == [File -> [path : Cursor, source : Cursor]]

Row == [file : File, turn : Turn]

Idle == [pc |-> "idle", copy |-> [f \in File |-> [path |-> NoCursor, source |-> NoCursor]],
         todo |-> {}, file |-> None, turns |-> {}, cursor |-> NoCursor]

TypeOK ==
  /\ lines \in [File -> Seq(LineKind)]
  /\ disk \in State
  /\ rows \subseteq Row /\ deferred \subseteq Row /\ untidy \subseteq File \X Nat
  /\ pending \subseteq File
  /\ queued \in BOOLEAN
  /\ \A k \in Task :
       /\ task[k].pc \in {"idle", "read", "queued", "landed", "added", "failed"}
       /\ task[k].copy \in State
       /\ task[k].todo \subseteq File
       /\ task[k].file \in File \cup {None}
       /\ task[k].turns \subseteq Turn
       /\ task[k].cursor \in Cursor
  /\ \A i \in 1..Len(addq) : addq[i] \in Task
  /\ running \in Task \cup {None}
  /\ faults \in 0..MaxFaults

Init ==
  /\ lines = [f \in File |-> <<>>]
  /\ disk = [f \in File |-> [path |-> NoCursor, source |-> NoCursor]]
  /\ rows = {} /\ deferred = {} /\ untidy = {}
  /\ pending = {}
  /\ queued = FALSE
  /\ task = [k \in Task |-> Idle]
  /\ addq = <<>> /\ running = None
  /\ faults = 0

Fault == faults < MaxFaults /\ faults' = faults + 1

-----------------------------------------------------------------------------
(* A session writes its transcript, and the observer enqueues the file.    *)

WriteLine(f) ==
  /\ \E t \in Script : \E kind \in LineKind :
       /\ IsPrefix(Append(lines[f], kind), t)
       /\ lines' = [lines EXCEPT ![f] = Append(@, kind)]
  /\ pending' = pending \cup {f}
  /\ UNCHANGED <<disk, rows, queued, loop, deferred, untidy, faults>>

-----------------------------------------------------------------------------
(* The coroutines.                                                         *)

(* load_index_state: a transcript without a provider cursor gets its own   *)
(* resume offset.                                                          *)
Loaded ==
  [f \in File |->
    IF disk[f].source = NoCursor /\ disk[f].path # NoCursor
    THEN [disk[f] EXCEPT !.source = [resume |-> disk[f].path.resume, consumed |-> 0]]
    ELSE disk[f]]

Size(f) == FileSize(lines[f], FALSE)

Begin(k, todo) ==
  /\ running = None /\ task[k].pc = "idle"
  /\ \E some \in Together : {k} \cup {j \in Task : task[j].pc # "idle"} \subseteq some
  /\ task' = [task EXCEPT ![k] = [Idle EXCEPT !.pc = "read", !.copy = Loaded, !.todo = todo]]
  /\ running' = k
  /\ UNCHANGED <<lines, disk, rows, queued, addq, deferred, untidy, faults>>

(* The debounce timer fires.  A batch that still runs puts it off.         *)
ProcessBatch ==
  /\ pending # {} /\ Begin("watch", pending)
  /\ pending' = {}

Index(f) == Begin("hook", {f}) /\ UNCHANGED pending

Backfill ==
  LET behind == {f \in File : disk[f].path.consumed < Size(f)}
  IN  /\ behind # {} /\ Begin("backfill", behind)
      /\ UNCHANGED pending

Enqueue ==
  /\ ~queued /\ queued' = TRUE
  /\ UNCHANGED <<lines, disk, rows, pending, loop, deferred, untidy, faults>>

Drain == queued /\ Begin("job", File) /\ UNCHANGED pending

CursorOf(k, f) == IF k = "job" THEN task[k].copy[f].source ELSE task[k].copy[f].path

WithCursor(k, f, c) ==
  IF k = "job" THEN [task[k].copy EXCEPT ![f].source = c]
               ELSE [task[k].copy EXCEPT ![f].path = c]

(* A provider source that has not grown is not parsed again.               *)
Unread(k, f) == k = "job" /\ CursorOf(k, f).consumed = Size(f)

HasLoop(k) == running \in {None, k}

Skip(k, f) ==
  /\ task[k].pc = "read" /\ f \in task[k].todo /\ HasLoop(k)
  /\ Unread(k, f)
  /\ task' = [task EXCEPT ![k].todo = @ \ {f}]
  /\ running' = k
  /\ UNCHANGED <<lines, disk, rows, pending, queued, addq, deferred, untidy, faults>>

(* Mutant: the last to parse is the first to add.                          *)
EnqueuedFirst(k) == <<k>> \o addq

Enqueued(k) == Append(addq, k)

(* The file is parsed, and its turns wait for the embed semaphore.         *)
Read(k, f) ==
  LET p == Parse(lines[f], FALSE, CursorOf(k, f).resume)
      c == [resume |-> p.resume, consumed |-> p.consumed]
  IN  /\ task[k].pc = "read" /\ f \in task[k].todo /\ HasLoop(k)
      /\ ~Unread(k, f)
      /\ IF p.turns = {}
         THEN /\ task' = [task EXCEPT ![k].copy = WithCursor(k, f, c), ![k].todo = @ \ {f}]
              /\ running' = IF k = "backfill" THEN None ELSE k
              /\ addq' = addq
         ELSE /\ task' = [task EXCEPT ![k].pc = "queued", ![k].file = f,
                                      ![k].turns = p.turns, ![k].cursor = c]
              /\ running' = None
              /\ addq' = Enqueued(k)
      /\ UNCHANGED <<lines, disk, rows, pending, queued, deferred, untidy, faults>>

(* Mutant: the offset moves although the turns were not added.             *)
MovesOn(k) == task[k].pc \in {"added", "failed"}

Moves(k) == task[k].pc = "added"

(* add_turns returned or raised: the copy's cursor moves, or stays.  The   *)
(* hook's request fails with it, and the backfill sleeps after each file.  *)
Resume(k) ==
  LET f == task[k].file
  IN  /\ task[k].pc \in {"added", "failed"} /\ HasLoop(k)
      /\ IF task[k].pc = "failed" /\ k = "hook"
         THEN task' = [task EXCEPT ![k] = Idle] /\ running' = None
         ELSE /\ task' = [task EXCEPT ![k] =
                    [Idle EXCEPT !.pc = "read", !.todo = task[k].todo \ {f},
                       !.copy = IF Moves(k) THEN WithCursor(k, f, task[k].cursor)
                                ELSE task[k].copy]]
              /\ running' = IF k = "backfill" THEN None ELSE k
      /\ UNCHANGED <<lines, disk, rows, pending, queued, addq, deferred, untidy, faults>>

(* The whole copy is saved over index_state.json, whatever was saved since *)
(* it was loaded.  A job leaves the queue, one asked for again with it.    *)
Finish(k) ==
  /\ task[k].pc = "read" /\ task[k].todo = {} /\ HasLoop(k)
  /\ disk' = task[k].copy
  /\ task' = [task EXCEPT ![k] = Idle]
  /\ running' = None
  /\ queued' = (queued /\ k # "job")
  /\ UNCHANGED <<lines, rows, pending, addq, deferred, untidy, faults>>

-----------------------------------------------------------------------------
(* add_turns, on the executor thread and under the write lock.             *)

Place(r) == <<r.file, r.turn.at>>
RowsOf(k) == {[file |-> task[k].file, turn |-> t] : t \in task[k].turns}

(* What is not stored yet and worth storing.                               *)
NewRows(k) ==
  {r \in RowsOf(k) \ rows : WouldStore(lines[r.file], r.turn)}

Adds(k) == addq # <<>> /\ Head(addq) = k /\ task[k].pc = "queued"

Land(k, kept) ==
  /\ Adds(k)
  /\ rows' = rows \cup kept
  /\ deferred' = (deferred \cup NewRows(k)) \ kept
  /\ task' = [task EXCEPT ![k].pc = "landed",
                ![k].turns = {r.turn : r \in (RowsOf(k) \cap rows) \cup kept}]
  /\ UNCHANGED <<lines, disk, pending, queued, addq, running, untidy>>

AddTurns(k) == Land(k, NewRows(k)) /\ UNCHANGED faults

(* The budget denies a batch, and denies it again after its wait: the      *)
(* turns of that batch and of all later ones are dropped.                  *)
DeferTurns(k, from) ==
  /\ Fault
  /\ \E r \in NewRows(k) : r.turn.at = from
  /\ Land(k, {r \in NewRows(k) : r.turn.at < from})

EmbedFails(k) ==
  /\ Adds(k) /\ NewRows(k) # {} /\ Fault
  /\ task' = [task EXCEPT ![k].pc = "failed"]
  /\ addq' = Tail(addq)
  /\ UNCHANGED <<lines, disk, rows, pending, queued, running, deferred, untidy>>

(* _replace_stale_turns: other versions of a turn that has landed.         *)
Landed(k) == {r \in RowsOf(k) : r.turn.kind = "turn"}

(* Mutant: the older versions stay.                                        *)
NothingStale(k) == {}

Stale(k) ==
  {r \in rows : r.turn.kind = "turn" /\ r \notin Landed(k)
                  /\ \E l \in Landed(k) : Place(l) = Place(r)}

ReplaceStale(k) ==
  /\ task[k].pc = "landed"
  /\ \/ /\ rows' = rows \ Stale(k)
        /\ untidy' = untidy \ {Place(r) : r \in Landed(k)}
        /\ UNCHANGED faults
     \/ /\ Fault
        /\ untidy' = untidy \cup {Place(r) : r \in Landed(k)}
        /\ UNCHANGED rows
  /\ task' = [task EXCEPT ![k].pc = "added"]
  /\ addq' = Tail(addq)
  /\ UNCHANGED <<lines, disk, pending, queued, running, deferred>>

-----------------------------------------------------------------------------
(* The server dies and starts again: its start-up backfill is queued.      *)
Crash ==
  /\ Fault
  /\ task' = [k \in Task |-> Idle]
  /\ addq' = <<>> /\ running' = None
  /\ pending' = {}
  /\ queued' = TRUE
  /\ untidy' = untidy \cup
       UNION {{Place(r) : r \in Landed(k)} : k \in {k \in Task : task[k].pc = "landed"}}
  /\ UNCHANGED <<lines, disk, rows, deferred>>

Run(k) ==
  \/ \E f \in File : Skip(k, f) \/ Read(k, f)
  \/ Resume(k) \/ Finish(k)

Add(k) ==
  \/ AddTurns(k) \/ \E t \in task[k].turns : DeferTurns(k, t.at)
  \/ EmbedFails(k)
  \/ ReplaceStale(k)

Next ==
  \/ \E f \in File : WriteLine(f)
  \/ ProcessBatch \/ \E f \in File : Index(f)
  \/ Backfill \/ Enqueue \/ Drain
  \/ \E k \in Task : Run(k) \/ Add(k)
  \/ Crash

(* The event loop, the executor and the timer go on; the hourly agent asks *)
(* for the job again and again.                                            *)
Fairness ==
  /\ \A k \in Task : WF_vars(Run(k) \/ Add(k))
  /\ SF_vars(ProcessBatch) /\ SF_vars(Drain) /\ WF_vars(Enqueue)

Spec == Init /\ [][Next]_vars /\ Fairness

-----------------------------------------------------------------------------
(* Properties.                                                             *)

Wanted(f) ==
  {[file |-> f, turn |-> t] :
     t \in {t \in Parse(lines[f], FALSE, 0).turns : WouldStore(lines[f], t)}}

(* A turn before a saved resume offset is stored, in its last version: a   *)
(* crash, a failed embedding or an offset saved over another one never     *)
(* skips a turn.  Only the budget does, which drops what it denies.        *)
OffsetMeansStored ==
  \A f \in File : \A c \in {disk[f].path, disk[f].source} :
    \A r \in Wanted(f) : r.turn.at < c.resume => r \in rows \cup deferred

(* The stored version of a turn is only ever replaced by one with more of  *)
(* its replies, whoever read the file and whenever the rows are added.     *)
NewestStays ==
  [][\A r \in rows : \E s \in rows' :
       Place(s) = Place(r) /\ s.turn.kind = r.turn.kind /\ r.turn.replies \subseteq s.turn.replies]_vars

(* One version of each turn is searchable whenever no add is under way,    *)
(* unless a lookup failed or a crash came first and the turn has not been  *)
(* added since.                                                            *)
OneVersion ==
  (\A k \in Task : task[k].pc # "landed") =>
    \A r, s \in rows : Place(r) = Place(s) => r = s \/ Place(r) \in untidy

(* Every turn of every transcript is searchable in the end, although       *)
(* events are lost in crashes, adds fail and saves overwrite each other.   *)
EverySearchable == <>[](\A f \in File : Wanted(f) \subseteq rows \cup deferred)
=============================================================================
