# SessionFlow in TLA+

SessionFlow indexes coding-session transcripts and a store of long-lived
*memories*, and serves both to coding agents over MCP. This directory holds a
TLA+ model of it, the TLC configurations that check it, and machine-checked
proofs. Paths below are relative to the repository's root as `src/`.

## 1. The system

| Component | State | Operations | Talks to | What is hard, and what must hold |
|---|---|---|---|---|
| Memory store (`memory_store.py`, `sql/memory/`) | Postgres: `memories`, `memory_versions`, `memory_index_acks`, `memory_index_meta` | add, update, delete, ack, reset_acks, pending, locked_canonical, bump_generation | every server, the CLI, the import | row locks against unique indexes, retries; one live record per text and per topic; a new version never has an old acknowledgement |
| Milvus index sync (`memory_index.py`) | the shared `memories` collection, each server's model block | apply, tick, reconcile, rebuild | store (acks, advisory lock), Milvus, embedder | several servers, stale reads over awaits, lost entities, model changes; an acknowledged record is held; deletions are final; everything converges |
| Keyword index sync (`memory_index.py`, `MemoryFTS`) | one SQLite file per server: rows and watermarks | apply, tick, reconcile, replay at start | store, local file | late writes, damaged or deleted files, half-done replays; no version comes back; everything converges |
| Memory service (`memory_service.py`) | none | add/update/delete then apply, search, list, audit | store, both indexes | hits that are stale, pages that change while they are read |
| Memory sync loop (`http_server.py`) | clock stamps, last error | reconcile when due, then tick, each bounded | `MemoryIndex`, store worker pool | calls that outlive their timeout, worker starvation, retry after a failed reconcile |
| Restore check (`memory_index.py`, `http_server.py`) | temporary collection, file and database | rebuild, compare with the manifest | store, Milvus | what a crashed check left behind; an honest answer |
| Model and generation (`memory_store.py`, `reembed.py`) | `memory_index_meta` | claim at start, bump by a re-embed | every server | model changes under running servers; vectors of one generation come from one model |
| Memory CLI, import | none | reset acknowledgements; import records | store | writes that nobody applies |
| Transcript ingestion (`rag_engine.py`, `transcript_parser.py`, `/index`) | `sessions` collection, FTS sidecar, `index_state.json` | parse from an offset, deduplicate, embed, insert, move the offset | embedder, budget, Milvus, SQLite | load, await and save of one state file by four writers, deferred batches, a failed second write; no turn is lost, none stays in two versions |
| Provider adapters (`provider_*.py`) | a cursor per source | discover, parse | ingestion | half-written sources, sources that grow between visits; what is stored does not depend on the visits |
| Provider backfill queue (`backfill_manager.py`, `provider_ingestion.py`) | jobs, pauses, the state file | enqueue, run, pause, resume, drain, complete | ingestion, budget, CLI | a job queued while its twin runs, crashes, edits of the file under a running server; jobs run, pauses hold |
| File watcher (`file_watcher.py`) | pending files, debounce timer | event, batch, backfill | ingestion | events during a batch; a file at rest is read |
| Throttle and budget (`embedding_control.py`) | cooldown, turn count, pause | before/after batch, wait | ingestion, memory embeds, reranker | three kinds of work stamp one cooldown |
| Transcript FTS and healing (`fts_hybrid.py`, `http_server.py`) | sidecar file, sentinel, backoff | migrate, insert, delete, heal | Milvus | rows deleted or rewritten while they are copied; healing ends |
| Re-embed, rewrite, passage backfill | checkpoint, worklist, backups | scan, run, resume, restart | Milvus, FTS, budget | crashes between write and checkpoint |
| Sanitize, cleanup, dedupe, retag | checkpoint, audit file | scan, apply | Milvus, FTS | a write that fails in one store; a repair that is run again |
| Redaction, passages, rank fusion, listing, project scope | none | pure functions | | overlapping secrets, byte limits, cursors, passages against their turn |
| Server lifecycle (`http_server.py`, `sessionflow-server.sh`) | start-up state, PID file | start, stop, restart | all | background work over a stop |
| Installation, hooks, evaluation | none | scripts | | not modelled |

How they interact: a write tool commits a Postgres transaction and then calls
`MemoryIndex.apply`; nothing else connects the store with its indexes except
`memory_index_acks`. An acknowledgement says that a consumer (`milvus`, or
`fts:<host>`) holds a version of a record at an embedding generation. Records
whose acknowledgement is missing or behind are pending; the sync loop of every
server applies them. Every write deletes the acknowledgements of the records it
changes in its own transaction. `reconcile` compares an index with Postgres and
deletes the acknowledgements of what differs.

Transcripts take another path: watcher, hook, backfill and provider jobs parse
files and call `add_turns`, which writes Milvus and then the FTS sidecar, one
caller at a time. They share `index_state.json`, which each loads, changes and
saves whole. The heal loop copies to the sidecar what it misses. Maintenance
tools are processes of their own on the same two stores.

## 2. Modules

| Module | Models |
|---|---|
| `CanonicalStore` | the store as the indexes see it: committed writes, acknowledgements, the generation. It is the abstract specification of the store |
| `MemoryWrites` | the write transactions: row locks, unique indexes, retries, supersede marks, history; it implements `CanonicalStore` |
| `MilvusSync` | the shared consumer: apply, tick, reconcile, record lock, model block, failures |
| `FtsSync` | one server's keyword consumer: the file, watermarks, apply, tick, reconcile, start |
| `TranscriptParse` | a transcript read from an offset: turns, where to resume, what is worth storing |
| `TranscriptIngest` | watcher, hook, backfill and provider job over one state file, and `add_turns` |
| `TurnStores` | Milvus and the FTS sidecar under a running server: add, delete, heal, restart |
| `Maintenance` | rewrite, reembed, sanitize (redact, drop) and retag over `TurnStores` |
| `Server` | composes `StorePool`, `SharedScan`, `FileDebounce`, `EmbedControl`, `BackfillQueue`, `RestoreCheck` |
| `RankFusion`, `RankOrder`, `TurnSearch`, `MemorySearch` | fusion of lists; their order by relevance, time or both; the search for turns; search, pages and audit of memories |
| `TurnListing`, `SessionListing` | recent turns, the timeline of an issue, sessions by issue; session lists, windows and tails |
| `ToolScope` | which projects a call reads |
| `ProviderReading`, `ProviderDiscovery` | what visits to a source yield; which sources there are |
| `TurnText` | masking, stripping, passages, what `add_turns` embeds |
| `TurnRepair` | dedupe-turns, dedupe-codex, retag-project, restamp-codex |
| `Algorithms` | extends `TurnRepair`, `TurnText`, `ProviderReading` and `ProviderDiscovery`, instantiates the other modules of functions, and calls each function on each input |
| `MilvusSyncProofs`, `FtsSyncProofs`, `MemoryWritesProofs`, `TranscriptIngestProofs`, `MaintenanceProofs`, `ServerProofs`, `SourceProofs`, `AlgorithmsProofs` | theorems |
| `MC...` | instances for TLC |

Definitions whose comment starts with "Mutant" are what a plausible bug would
make of the definition that follows. Nothing uses them.

How the modules compose. Both consumers extend `CanonicalStore`, each with the
acknowledgements of its own consumer. They share no state besides the store:
`apply` and `tick` run the two halves one after the other, and each half reads
the store afresh, so the halves are checked separately. `reconcile` reads the
store once for both; in `FtsSync` the Milvus half is simply time that passes
between `StartReconcile` and `ScanFile`. `MemoryWrites` checks, as the property
`RefinesStore`, that what its transactions commit is a write of
`CanonicalStore`: what the consumers are checked against is therefore what the
transactions do, not an assumption about them. `Maintenance` extends
`TurnStores`, so that each tool meets the server's ingest, expiry and heal loop.
The parts of `Server` share no state that its properties tell apart, and each
behaviour moves one of them: composing their steps would multiply the states
and relate nothing. `StorePool` is where searches and the sync loop meet.

### State and code: memories

| TLA+ | code |
|---|---|
| `rows[m]` (`CanonicalStore`) | the row of `memories`: version, text (as told apart by `content_hash`), tombstone; version 0 is a row never inserted |
| `acks[m]` | the consumer's row of `memory_index_acks`; version 0 is a missing one |
| `meta` | `memory_index_meta`: generation; model name and dimension as one value |
| `rows`, `history`, `seq` (`MemoryWrites`) | `memories` with topic key, status and supersedes list; `memory_versions`; the sequence of `change_seq` |
| `tx[t]` | a client's call of `add`, `update` or `delete`: `todo` and `locked` are the rows of `_lock`, `mem` and `row` the uncommitted write, `tries` the loop of `_with_retries` |
| `milvus[m]` | the entity: version and generation as stored, and, unseen by the code, the text and model its vector was computed from |
| `locks[m]` | `pg_advisory_xact_lock` of `locked_canonical` |
| `blocked[h]` | `MemoryIndex.milvus_blocked` |
| `fts[m]`, `mark[m]` | `memories_fts`, `memories_fts_watermark` |
| `file` | `sound`; `bad`: damaged, or missing when the server starts; `bare`: deleted under a running server, whose next connection creates an empty database without tables |
| `boot` | the progress of `start()` and `_rebuild_fts()` |
| `task[t]` | an asyncio task: where it is, its batch, its record, the row it read, the text it embedded, its attempts |
| `recon[t]` | the local variables of `reconcile()` |

In the consumers each action is one awaited call (one `run_db` call, one Milvus
call, one embed), because tasks of a server interleave at awaits and tasks of
different servers anywhere. `_milvus_write` is two actions: `LockAndRead` takes
the lock and reads under it, `MilvusWrite` lands the delete or upsert and ends
the transaction; other records, and writes of Postgres rows, go on in between.
`ReadCanonical` contains the checks of the block around the read. `Acknowledge`
is the insert or conditional update of `ack()`.

In `MemoryWrites` a transaction chooses its rows in one snapshot, locks them one
by one in the order of `memory_id`, each read again under its lock (READ
COMMITTED), decides with all of them locked, and then writes its row, which
enters the unique indexes on text and topic one after the other. `EnterIndex`
waits for whoever wrote the same key and has not committed; `Violation` is the
`UniqueViolation` that `_with_retries` answers with a new attempt. The marks of
`_supersede` touch locked rows only, so they are part of `Commit`.

### State and code: transcripts

| TLA+ | code |
|---|---|
| `lines[f]` | a transcript, as kinds of lines, each one byte long |
| `disk[f]` | `index_state.json`: `transcripts[path]` and the provider's cursor of the same file |
| `task[k].copy` | what the coroutine got from `load_index_state` and will save |
| `addq`, `running` | the embed semaphore with its waiters in order; the coroutine between two awaits |
| `rows` (`TranscriptIngest`) | turns in Milvus; a turn is where it starts and which replies it holds, as its doc_id |
| `milvus`, `fts` (`TurnStores`) | each row of the two stores, as "before" or "after" its correction |
| `sentinel`, `heal` | the file `fts_backfill_required`; `_fts_heal_run_once`: difference, hydration, insert, end |
| `cli`, `saved`, `worklist`, `backup` | a tool's process, its checkpoint file, its worklist file, its backup file |
| `jobs`, `paused`, `disk`, `drain` (`BackfillQueue`) | `BackfillManager`, its state file, and who holds `_backfill_drain_lock` |
| `queue`, `running`, `left` (`StorePool`) | the `ThreadPoolExecutor` of the store: waiting, running, and running with no one waiting |
| `pending`, `timer`, `batch` (`FileDebounce`) | `_pending_files`, the debounce handle, the files of `_process_batch` |

Coroutines of the server run one at a time. In `TranscriptIngest` a segment
between two awaits is a series of steps of the task `running`, and no other task
steps meanwhile. Parsing a file and queueing for the semaphore is one step
because nothing is awaited between them; that is why turns are added in the
order in which files were read, on which `NewestStays` rests.

### Functions

`Algorithms` holds no protocol. A behaviour picks an area and an input, one step
calls the function, and an invariant compares the result with what a reference
definition says of that input: the whole scan instead of pages, the set instead
of the ranked list, the whole text instead of chunks, one visit instead of many.
The functions are those of the code with their order of cuts, filters and
fallbacks; scores of models, patterns that find a secret and timestamps are
inputs. A query for turns says how many times the page is fetched: 3 in the code,
and 1 as well, so that few rows are enough for passages to exhaust the pool. For
the same reason `MemoryPoolFactor` is 1 in the run. The theorems hold for any.

### History variables

Never read by a guard: `purged` (the entity was lost, or deleted by
a reconcile as a stray, since it was last written), `forgotten` (the row was lost
or removed by `forget()` since its current version was applied), `highest` (the
highest version applied to the present file), `deferred` (turns the budget
denied), `untidy` (turns whose older versions could not be deleted, or were cut
off by a crash), `astray` (rows written from a read that the stores had passed,
or left by a delete that nobody repeats), `newer` (the worklist file is of a later
scan than the checkpoint; it stands for what the two files are, and decides whether
a resumed run reads the rows of its own scan), `skipped` (rows that such a run
passed over), `told` (pauses that hold), `owed` (jobs
that were queued and have not run), `unread` (files with a change that no batch
has read).

### Abstractions

* A memory is its text, topic, status, tombstone and supersedes list in
  `MemoryWrites`, its text and tombstone for the indexes; a change of metadata
  is a change with the same text.
* All calls of `MemoryWrites` are of one (user, project): the queries and the
  indexes are scoped to it. `seq` is drawn in the order of commits.
* A batch of `tick` is the whole pending set; `TICK_BATCH` (256) is not modelled.
* A Milvus call that raises may have landed (a failure after `MilvusWrite`) or
  not (a failure before it). It does not land after the task gave up its lock.
  A pass that times out leaves its calls running: this is a second sync task,
  since a call left over does what a task of its own would do.
* The fingerprint of a model is part of the model.
* A transcript grows by whole lines; the half-written line is checked apart, in
  `ProviderReading`. Deduplication, stripping and the length limits are a
  judgement on a turn (`WouldStore`).
* The maintenance tools work one row at a time: a batch of several is one
  checkpoint for the rows it holds, and each row's order of writes is the same.
  A run that begins writes its worklist first and its checkpoint some steps later.
  `astray` and `skipped` exempt a row from what a tool promises: see section 6.
* `WriteFails` is a write to FTS that fails, and a query or an upsert of
  `upsert_document` and `update_row_metadata` that does (`rag_engine.py:3240`,
  `3364`), which the tools count as a failed row. An upsert of rewrite or reembed
  that raises ends the call (`Stop`).
* `TranscriptIngest`: the backfill's save every 100 files (`file_watcher.py:432`) is
  left out, since it lists one file; rows are a set, so a turn inserted again after
  the query for known doc_ids failed (`rag_engine.py:1308`) is the row it was; and
  where `delete_by_doc_id` raises for a stale version, `add_turns` raises after
  the turn has landed, while the model goes on as `untidy`, which is the case the
  properties leave out.
* Seconds, hours and load of the throttle are one cooldown and one pause. The
  two reads of the budget by a batch are two steps.
* `Shutdown` is modelled when no run action is in progress, and a CLI edit of
  the queue's file is one step, its load and save together.
* What the text functions are given (`TextAssumption`, checked on every input and
  used by the proof). The places of one value do not overlap in a text (`Apart`).
  Where they do and one of them is masked already, redaction masks a later place
  that the audit's scan, whose cursor moves past a place it skips, does not list
  (`secret_redaction.py`, `_collect_spans`). A placeholder takes the place of what
  it masks, position by position, and all rules have one. What the patterns find
  in a text is an input, and what they find in the redacted text is another: see
  section 6 for what this says of redacting twice.
* What a source may be (`ReadingAssumption`, checked on every input and used by
  the proof). Transcripts, step files and rollouts are appended to. The last
  state of a Claude transcript has no half-written line: a visit that meets one
  leaves the open turn to the next, and an earlier visit may have stored it. The readable copies of a Codex
  session are earlier states of one rollout, which has task events from the start
  or never (`Steady`): without them a task ends at each user message, and a first
  event later on would renumber the tasks. A copy that was read once is not lost.
  The database of OpenCode has a session once, and a path names one rollout.
* What rows a listing is given (`ListingAssumption`, and `LimitsAssumption` for the
  caps, checked on every input and used by the proof): a doc_id is the key of an
  index, and a turn that two indexes hold is the same in both. Message indices are
  distinct within a session where `WindowExact` compares them. Where more FTS rows
  name an issue than the keyword query fetches (`FtsWindow`), `TimelineExact` and
  `SessionsExact` say nothing of the rows.
* The sessions of issues come from what the timeline of each issue gives: rows
  tagged with it and FTS hits that name it, cut together at `ScanLimit`
  (`SESSION_SCAN_LIMIT`), then the first of each doc_id, without rows that have no
  session.
* What a repair is given (`RepairAssumption`, checked on every input and used by
  the proof). The rows of one index are versions of one turn: they grow, keep
  their reply, and the transcript has the latest; what only FTS holds is older
  than what Milvus holds, as a failed delete leaves it. A doc_id is a hash of
  the row, so it names one. The root in FTS is that of Milvus, none, or the one
  from before a retag whose write to FTS failed.
* A channel of a search fails or answers in each of the two passes by itself. A
  page of memories is right for the pass it comes from: where the second pass
  replaces the page of the first (`memory_service.py:583`) and a channel fails only
  in the second, that page may be the shorter one.
* Lists of an index and their ranks are what a search is given, of any length
  (`RowAssumption`, `MemoryAssumption`, `SearchAssumption`, checked on every input
  and used by the proof): memories are numbers, so that the order of ids is one of
  numbers; times and recency scores are natural numbers, and weights percentages.
  The gain of a rank is a fraction; it is scaled to an integer that is exact for
  the first four ranks. The proof needs of it only that a sum of gains is an
  integer, since a page is compared by the scores it was ranked by.
* What roots and projects there may be (`ScopeAssumption`, checked likewise).
* The vectors of an audit do not change while it runs, so two records are near
  each other or not; who is near whom is an input.
* `RetagSound` leaves out roots that lie under `--from` once they are moved:
  section 6.

## 3. Runs

| Run | Instance | Shows |
|---|---|---|
| `milvus_two_servers` | 2 servers with a sync task each, 1 record, 3 versions, 2 texts, 2 models, 2 generations, 1 fault; 1.6 million states | `AckMeansHeldUnlessPurged`: no interleaving leaves an acknowledged record missing or stale; `VectorsMatchModel`: no vector of the generation by another model; `NeverOlder`: no write goes backwards |
| `milvus_converges` | 1 server with a sync task and a write tool, 2 versions, fair, in two scenarios (`MCMilvusSync`): 1 record with 2 texts, 2 models, 2 generations and 1 fault; or 2 records that may supersede each other, of one text and model and without faults; 372 thousand states | `Converges`: every record ends acknowledged and held, a superseded one too, which only the loop applies; `TombstoneStays`: an acknowledged deletion is final |
| `milvus_stray_race` | 1 record, 1 version, no fault | a violation: see section 6 |
| `fts_host` | 1 server with a sync task, a write tool and its start, 1 record, 3 versions, 2 faults, fair; 130 thousand states | `AckMeansIndexedUnlessForgotten`, `NeverBroughtBackUnlessForgotten`, `Converges` |
| `fts_late_write` | 1 server with a sync task and two write tools, 2 versions, no fault | a violation: see section 6 |
| `memory_writes` | 2 clients with 1 and 3 calls of any operation, 2 records, 2 texts, 1 topic, 4 versions, one client retries once and one never; 435 thousand states | `OneLiveRecord`: texts and topics are unique among live records; `HistoryComplete`; `RowLocksOrdered`: row locks close no cycle; `AddAnswered`: an answered add is true; `RefinesStore`: every commit is a write of `CanonicalStore` |
| `memory_newer` | 1 client with 5 adds and deletes, 3 records, 3 texts, 1 topic | a violation: see section 6 |
| `transcript_ingest` | 1 transcript of either of two scripts, watcher with provider job or hook with backfill, 1 fault, fair; 163 thousand states | `OffsetMeansStored`: no saved offset passes a turn that is not stored, but for turns the budget denied; `OneVersion` and `NewestStays`: of a turn one version stays, the one with the most replies; `EverySearchable` |
| `maintenance` | 1 old and 1 new row, each of 5 tools, which begin with nothing or with what an older run left whose restart was killed, ingest, expiry and heal loop, 1 fault, fair; 806 thousand states | `FinishedMeansCorrected`: what a tool calls finished is corrected in both stores; `NoOrphan`: a row in FTS only is about to go; `BackupHoldsOld`; `Healed`; `RunEnds` |
| `maintenance_restart` | the same | a violation: see section 6 |
| `server` | 3 workers and 2 clients; 2 askers; 2 files with 4 changes; 3 kinds of work and a limit of 2 batches; 2 providers, 1 of them enabled, and 1 stop; 2 records, 1 of them live; fair; 88 thousand states | `SearchAnswered`: hung calls leave searches a worker; `QuietFileIndexed`; `EmbedSpaced`: one cooldown holds for all; `QueueServed`: a queued job runs; `PauseHolds`; `RestoreHonest` |
| `algorithms` | some 170 thousand inputs in 21 areas; 340 thousand states | what the functions return is what one look at all the data gives: `SearchSound` (pages of turns and memories, pages by cursors while records come and go, the audit, which projects a call reads), `ListingSound`, `ReadingSound`, `TextSound`, `RepairSound` |

Every passing run of a state machine also checks its `TypeOK`.

Why the bounds are enough.

* Indexes. Records meet only in three places: a supersede (a scenario of `milvus_converges`, with two
  records), a batch, and the set operations of reconcile, which treat each
  record by itself; elsewhere one record with more versions is enough. The two
  scenarios of `milvus_converges` restrict what the environment may do (write,
  fail, restart, re-embed), and no step that is fair.
  Three versions allow a task to hold an old one, another a middle one, while
  the store has the newest. Two attempts (`MaxRaces`) instead of three reach both
  branches of the loop. Two generations and two models give one switch under
  way, and a restart can switch a server back. A fault is spent by every
  failure, restart, loss and operator reset: one reaches every single failure;
  two, in the keyword run, reach a restart over a damaged file.
* `memory_writes`. Every conflict is between two transactions; what a third
  could add is a longer chain of waits, which the theorems cover. Two records
  with two texts and a topic let a key of each kind be held by the other record;
  three calls against one let the store change twice under a waiting client. An
  add begins only while an id is left, which is the bound `Room`.
* `transcript_ingest`. The two scripts hold a reply that arrives after its turn
  was stored, a second turn, and lines that store nothing. `Together` lets two
  writers of the state file overlap: one that parses events with one that works
  a list. Files meet in a batch only, whose steps treat each by itself.
* `maintenance`. Every step of a tool is about one row; the old row meets all of
  the server's writers, the new one meets the tool's scan. A repeated run of a
  tool counts as a fault. A kill of a restart is a fault after a fault; so that one
  fault is enough, a behaviour of rewrite and reembed may begin where an older run
  left a cursor (`Killed`), none of whose rows is left, and its restart was killed
  after the new worklist was written.
* `server`. Three workers are the least number at which the loop may hold one,
  a hung call another, and a search the third. Four changes reach a change
  before, during and after a batch. A job of the start and one that was asked for
  are two jobs of one provider.
* `algorithms`. The inputs are all sequences over small sets up to a length at
  which each cut, cap and fallback is reached on both sides; the caps are
  constants and set to 1 to 4.

Deadlock is checked except in `maintenance`, `server` and `algorithms`. There
behaviours really stop: tools end when their faults are spent and nothing is left
to correct, files stop changing, and a function returns once. In `memory_writes`
a transaction that waits for ever would be reported: `Resting` allows an end only
when all clients have made their calls. Symmetry over texts is used only where
no liveness is checked (`RefinesStore` has no fairness).

## 4. Fairness

Indexes. Every task that can take a step of `apply` eventually does: the event
loop and its worker threads run what is ready, and a call either returns or times
out. The sync worker is an endless loop (`_memory_sync_worker`), so ticks and the
steps of a reconcile are weakly fair, and starting a reconcile, possible only
between ticks, is strongly fair: it comes due every six hours for ever.
`locked_canonical` waits for a lock whose owner moves on. Nothing makes a write,
a fault, a restart or an operator act happen. `Converges` assumes that some server
keeps the memory's model (otherwise nobody may write vectors), and in `FtsSync`
that the server is up with a sound file and write tools are quiet: calls that
change nothing still apply their record, and TLC shows that an endless series of
them can cross reconcile's reads each time.

Ingestion. A coroutine that can go on does, as does the executor's thread (`WF`
of `Run` or `Add`). The debounce timer and the drain worker come round for ever,
but find their place taken by another task at times (`SF` of `ProcessBatch` and
`Drain`), and the hourly agent asks for a provider job again (`WF` of `Enqueue`).
Sessions, hooks, backfills and faults are not made to happen: `EverySearchable`
rests on the repeated job, not on the event of the write.

Maintenance. A process that runs goes on, an unfinished run is called again (by the
operator, or by the `drive` loop of `cleanup.py`, which gives up only after
several crashes in a row), and the heal worker is an endless loop.

Server. Store workers take the next call, and clients' calls return. Nothing is
assumed of the sync loop's calls but that its timeouts fire, nor of calls that a
timeout left: they may hang for ever, and `SearchAnswered` still holds. Timers
fire, batches and scans end, the drain worker polls, jobs end, and a server that
has died is started again, by the watchdog of `sessionflow-server.sh` or by hand.

## 5. Proofs

Theorems hold for every value of the constants, and use only the assumptions
named in the modules that declare them: sets that are disjoint, bounds that are
natural numbers, sets of records that are finite where rows are counted, and, in
`Algorithms`, what section 2 says of a source, a text, a query, the roots and the
input of a repair.

`MilvusSyncProofs`: `TypeCorrect`; `Acknowledged` (`AckMeansHeldUnlessPurged`);
`ModelKept` (`VectorsMatchModel`); `Forward` (`NeverOlder`); `Buried`
(`TombstoneStays`); `Invariance`, the invariant `IInv` behind the last four. None
of these properties is inductive. `AckMeansHeldUnlessPurged` looks at the instant
after an acknowledgement, but what makes it true is what a *writer* knew when it
took the lock. `IInv` says, in this order: a task that writes a record owns its
lock (`LockInv`); what a writer or acknowledger read under the lock was a state of
the store, with the vector of that text, by the memory's model as long as the
generation stands, and the entity is not newer (`WriterInv`); entities and
acknowledgements are never ahead of the store (`EntityInv`); and once the current
version is confirmed, by an acknowledgement or by a task about to write one, the
collection holds it and every writer of the record has that same version
(`ConfirmInv`). The last clause is the heart: it forbids a late writer from
undoing what was acknowledged. `Buried` follows from it: when a deletion is
acknowledged, whoever may still write the record has read the tombstone (`Tomb`),
and no later reader reads anything else.

`FtsSyncProofs`: `TypeCorrect`; `Acknowledged`
(`AckMeansIndexedUnlessForgotten`); `Kept` (`NeverBroughtBackUnlessForgotten`);
`Invariance`. No lock orders the writers of this file; the watermark does. It
never passes the store (`MarkInv`), so a task that applies what it read, or finds
the watermark at its version, has seen the current row exactly when the watermark
is the row's version, and then the file holds that row. A current acknowledgement
was given by such a task (`ConfirmInv`). `BootInv` and `FileInv` say that a start
which puts an empty file in the place of a lost one lets no task run before it
has dropped all acknowledgements.

`MemoryWritesProofs`: `TypeCorrect`; `OneLive` (`OneLiveRecord`); `HistoryKept`
(`HistoryComplete`); `Answered` (`AddAnswered`); `Refines` (`RefinesStore`);
`LocksOrdered` (`RowLocksOrdered`); `Invariance`. Row locks keep apart the
transactions that write or mark the same rows, so what a transaction decided
with its rows locked still holds when it commits (`LockInv`, `WriteInv`). Rows it
did not lock are kept apart by the unique indexes: who has entered a key excludes
every other live row and every other transaction with that key (`KeyInv`). The
refinement follows: a commit writes a row that is live or new, marks others that
are live, and clears the acknowledgements of all of them; an acknowledgement is
the store's own; every other step stutters. `RowLocksOrdered` has an invariant of
its own, `OrderInv`: what a transaction has locked is below what it still has to
lock. In a cycle of waits each member would therefore wait for one with fewer
rows ahead, and the one with the least has none to wait for.

`SourceProofs`, about `TranscriptParse`: `ParseMeans`, `ParseResumes`, `Incremental`, about the
parse of any transcript from any offset: it returns the turns that start there or
later, each as a reading of the whole file has it; the offset to resume from
never goes back; and a turn before it never grows again. The parse is a recursive
function of the line. `ReadTo` gives its value in closed form, as a set
comprehension over the lines; it satisfies the recursion, so there is no first
line at which the two differ. This argument by the least counterexample takes the
place of an induction schema, which the provers cannot instantiate.

`TranscriptIngestProofs`: `TypeCorrect`; `NothingSkipped` (`OffsetMeansStored`);
`OneSearchable` (`OneVersion`); `NewestKept` (`NewestStays`); `Invariance`. None
of the properties says anything of the turns a coroutine carries, and all depend
on them. The invariant says of these: they are versions of turns of the file
(`VersionInv`); each has the replies of a stored version, and of one queued ahead
of it (`OrderInv`), because files are read and queued in one step; a landed turn
stays stored until its coroutine is done with it, so that the older rows it
replaces are always covered (`LandedInv`, `OneInv`). Of the four writers of the
state file it says that every copy of an offset, however old, was true when it
was made and stays true, since rows in their last version are never removed
(`CursorInv`); and that what a coroutine carries past its old offset is in its
hands until it is stored (`CarriedInv`). This is why load, await and save of
the whole file, without a lock, lose no turn: a stale save moves an offset back.

`MaintenanceProofs`: `TypeCorrect`; `Corrected` (`FinishedMeansCorrected`);
`NoRowIsOrphaned` (`NoOrphan`); `BackupFirst` (`BackupHoldsOld`); `Invariance`.
Server and tool share only the stores, and the proof is split there: no step of
either takes a row back (`Forward`: a corrected row stays corrected or goes, and
only an `astray` row is excused), and each step of a tool keeps its promises
given that rows move forward. The promises: which rows a checkpoint has settled
(`Kept`), for the saved one and the one in memory alike, as a kill may come
between the two, and which rows its cursor passed over in a worklist that is not
its own (`PlanInv`); who looks for a row that FTS alone holds (`OwedInv`: the tool's
retry list, the tool at that row, or the server); that rewrite saves what it owes
in FTS before it changes Milvus (`RetryInv`); and how far the row in hand is
corrected at each step (`DocInv`, `BackupInv`).

`ServerProofs`: `TypeCorrect`; `Paused` (`PauseHolds`); `Honest`
(`RestoreHonest`); `Spaced` (`EmbedSpaced`); `Invariance`. Each pause that holds
is in the state file, and in the memory of a server that runs: every save, of a
job, a pause or a shutdown, keeps both. The keyword file of a restore check is
empty before the rows are applied, so what it holds of a record afterwards is the
restored row; the collection, which is not emptied, has only versions to compare,
and could not vouch for a text alone. `TypeCorrect` includes that the pool never
runs more calls than it has workers, counting those that a timeout left.

`AlgorithmsProofs`: `Repairs` (`RepairSound`), for all stores, transcripts,
rollouts and failures. `restamp-codex` and `retag-project` are shown document by
document. In `dedupe-codex` a planned row is always repeated by one that stays,
since the order of the rows with equal turns is strict (`Survivor`), and deleting
them leaves no row to plan (`GoneOnce`). `dedupe-turns` goes through the groups in
the order of their indices. The repair of a group reads and changes the rows of
its index only (`RepairLocal`, `RepairRest`), so the loop amounts to repairing
each group of the original stores (`LoopIs`, by the least set of groups for which
this would fail), and each repaired group is sound (`RepairedSound`). The proof
found two errors in the model, one of them in what it claimed of the code
(nested roots, section 6), and both are corrected.

`SourceProofs`, for `Texts` (`TextSound`) in `AlgorithmsProofs`: whatever the
text, the secrets, the tokens and the sizes. The functions are recursions, over
the positions of a text or over the sets of places already taken. A recursive
function equals its body only if some function does, so that is shown first
(`Iterates`, `SetIterates`); what it computes is then read off by induction, as
the least counterexample (`Induction`). For redaction: whatever a value holds, a
mask hides characters of found values alone, and something of each place that
starts outside a placeholder. The rest needs values without placeholders
(`Plain`): the spans kept are then those of the first secret in order that no
earlier one covers, no two of them meet (`MaskingApart`), a text is masked where a
span was claimed and nowhere else (`MaskedHolds`), and a second redaction whose
values start in a placeholder, or were masked before, changes nothing
(`MaskedAgain`); together they give `RedactionHolds`. Stripping counts
the words left of a section (`StripHolds`); passages start at the multiples of
the step and reach the end of the turn, by division with a rest
(`PassagesHold`); a turn is stored when all its rows are in batches that were
embedded (`UnitsHold`). The proof showed that the model asked too much of its
inputs: that no value overlaps itself, where `Apart` is enough.

`AlgorithmsProofs`: `Searched` (`SearchSound`), in four parts. `BestShown`
(`FoundSound`), for any lists the indexes answer, any failure of one, any order and
size of page: what a list is sorted by is a set
of pairs, and a strict total order of a finite set has a rank for each member
(`Orders`, `Ranks`, `Arranged`): from this follows that a stable sort shows every
member of the list once and none before one that comes ahead of it, that the
positions kept of a list are counted in their order, and that the fused list
shows the union of its lists by score. Of turns the first row is then the best of its turn,
so cutting the pool after passages are collapsed, and only then, loses no turn
that the page has room for; and a blend of score and recency puts nothing ahead of
what is better in both. Of memories, the three lists of a pass (vectors, keywords and, for a query of
several words with an identifier, the identifiers) are fused with their weights;
what a search checks and drops is made up for by the second, longer fetch, which
reaches what the first one did in each channel that still answers.
`Paged` (`PagingSound`): the cursor moves strictly on in the order of the listing,
so a memory that is there all the time is behind it, and on one of the pages, or
ahead of it, by induction over the pages. `Clustered` (`ClustersSound`): each
record that has been joined has the root of all that is near it, and a class of
records with one root never falls apart (`Forest`, `JoinedForest`, `JoinedSolid`).
`Scoped` (`ScopeSound`): by the ways a call names its project.

`SourceProofs`, for `Readings` (`ReadingSound`) in `AlgorithmsProofs`: for all
sources and visits. Each adapter needs another reason why many visits come to one,
and that reason is an invariant over the visits. For Codex (`CodexReadingHolds`): the tasks
of a copy are those of a longer copy, read less far (`TasksGrow`), so of two texts
of one task the longer continues the shorter, and the longest copy decides what a
visit shows (`LongestShown`, `ShownIs`); a later visit shows every index that an earlier
one did (`ShownGrows`), so replacing by index leaves exactly its turns, and an
unreadable copy changes neither rows nor cursor. For Antigravity
(`AntigravityHolds`): the lines up to the last visit say nothing to a reading that
starts at its cursor (`Silent`, `IdleRead`), so a visit goes on where one reading of
the whole file would be (`VisitPasses`). For Claude (`ClaudeHolds`): between visits
the rows are versions of turns of the file as it is, one to an index, and hold the
last version of each turn before the offset (`Held`); `Incremental` carries this
over a visit, and once the file is consumed nothing else is left (`HeldExact`).
OpenCode adds (`OpenCodeHolds`). Discovery (`DiscoveryHolds`): a root read from a
record is absolute and in no sandbox; a record of another conversation, or one that
cannot be read, never was the last that counts
(`HistoryRemoval`, `SummariesRemoval`); the longest old path of a Cowork map exists and
decides (`RemappedIs`); and legacy OpenCode sessions are added once each
(`ListMoreHolds`).

`AlgorithmsProofs`: `ListedExactly` (`ListingSound`), for any rows in any order, any
filters, limits and page sizes; the lemmas about `TurnListing` are in
`SourceProofs`. What the two collectors keep of a stream is the
best of each doc_id's first row, whatever is dropped on the way (`GatheredIs`, by
induction over the stream), and sorting it gives their order (`CollectedIs`). A
timeline is that of its two sources, the row of Milvus first (`TimelineHolds`). The
sessions of issues are counted over what the timelines give, the first copy of each
turn (`FirstCopiesAre`, `IssueHolds`); a session list over groups of rows, each with
its title (`AggregatesAre`, `PickedIs`); a window and a tail are cuts of one sorted
list.

How the proofs are laid out. Most actions do not touch what an invariant is
about, so steps are first sorted (`StepKinds`) into a few kinds, such as calm
steps, writes, locking, landing and acknowledging; each conjunct is then shown to
survive each kind. Every invariant was model-checked before it was proved.

Only model-checked. Liveness (`Converges`, `EverySearchable`, `Healed`,
`RunEnds`, `SearchAnswered`, `QuietFileIndexed`, `QueueServed`), which is out of
the prover's reach.

## 6. Findings

Four runs end in a violation; the reader will find each trace by running it.

* `milvus_stray_race`: `reconcile` deletes as a stray a record that was added,
  applied and acknowledged between its read of Postgres and its scan of Milvus
  (`memory_index.py:626` to `647`). The acknowledgement stays, so the record is
  missing from vector search and not pending until the next reconcile, six hours
  later. `AckMeansHeld` says what `ack()` documents; `AckMeansHeldUnlessPurged`
  is what the code guarantees, and `Converges` shows that a later reconcile
  repairs it.
* `fts_late_write`: `forget()` removes the watermark with the row, so a delayed
  apply brings an older version back after a reconcile that raced a newer write,
  against the promise of `MemoryFTS` (`memory_index.py:102`). The reset that
  follows makes the record pending again, so a tick repairs it, unless the task
  that had applied the newer version was still about to acknowledge it: then
  the record counts as done until the next reconcile. `Converges` covers both.
* `memory_newer`: `newer_records` (`memory_store.py:512`) names "the later active
  records". When a superseded record is revived by a topic replacement and
  superseded again by a record that is then deleted, it names the first
  superseder, which was written before the text it is said to supersede.

* `maintenance_restart`: `rewrite` and `reembed` promise of `--restart` to "ignore any
  existing checkpoint" (`rewrite.py:404`, `reembed.py:396`). They replace the worklist
  (`rewrite.py:427`), start a memory generation (`432`) and then save their state
  (`435`). Where a kill comes in between and an older run was open, its cursor now
  counts rows of the new worklist: the next call resumes (`406`), passes over as many
  rows as the older run had done, and ends as done. The trace: such a state at the
  start, `StartAgain` with the old row passed over, `FirstSave`, `RetriesDone`, `End`.
  `FinishedMeansCorrected` leaves out these rows (`skipped`) and no others.

What the properties exempt, because the code leaves it so:

* `deferred` (`rag_engine.py:1346`). Turns whose batch the budget denies are
  dropped while their offset moves on, and nothing reads them again. A pause of
  all providers pauses the budget, so turns that the watcher reads meanwhile go
  that way. After a restart the pause is back and the budget's is not.
* `untidy`. When older versions of a turn could not be looked up or deleted, both
  stay until the turn is added again.
* `astray`. Rewrite and reembed upsert whole rows as they were read before the
  embedding, over a change or a deletion in between; the heal loop inserts a row
  it fetched before a tool or the server changed or deleted it; a delete that
  failed in FTS is not repeated. For sanitize `drop` this leaves the text of a
  dropped row in the sidecar: Milvus has lost it, and both the resumed and a fresh
  run look for rows in Milvus (`sanitize.py`).
* A pause of all providers that arrives during a drain stops the next drain, not
  this one. A pause or resume by `cleanup.py backfill` is overwritten by a running
  server's next save. A job queued again while its twin runs leaves with it, and a
  shutdown removes the job it cancels; the next start or the hourly agent queues
  the provider again.
* Deadlocks through the two unique indexes are possible (`DeadlockVictim`):
  Postgres fails one transaction, and `_with_retries` does not retry that error.

* `redact` says of itself that `redact(redact(x)) == redact(x)`
  (`secret_redaction.py:16`). A password that ends in a token of a known form is
  first redacted to `password=abc[REDACTED:GITHUB]`. In this text the assignment
  rule finds a value that begins outside the placeholder and holds it, and
  `_replace_outside_placeholders` (`322`) asks only where a value starts: a second
  pass gives `password=[REDACTED:ASSIGNMENT]`. The audit leaves a value out that any
  placeholder overlaps (`_collect_spans`, `532`), so of the first text it lists
  nothing, while redaction masks it. What the patterns find in a redacted text is an
  input of the model (`q.again`), so this is a condition of `RedactionSound` and not
  a run of its own: that the audit lists what is masked is claimed, and proved, for
  values that hold no placeholder, and that a second pass changes nothing where all
  it finds starts in a placeholder or was masked by the first.

Seen while modelling, and not part of a property: `date_to` ends at `T23:59:59`
and so leaves out turns of the day's last second with a fraction
(`rag_engine.py:1729`; `UpTo` models it). OpenCode turns that were read while a
message was still being written keep their earlier states. Antigravity drops
later lines whose step is not above the last one. A JSON line that is not an
object stops the discovery of Antigravity and Codex. The search of memories by
keyword compares issue ids without the trimming that the vector search and the
store do. A retag to a folder below its source is refused (`cleanup.py:515`), but
one to an ancestor is not, and leaves a nested root under `--from`: `/a/b/b` moves
from `/a/b` to `/a`, and becomes `/a/b`. Each run moves it again, and a root that
FTS still has from before takes the row of Milvus back
(`find_doc_ids_by_project_root`).

## 7. What is left

The plan of the project is done but for these, in this order:

1. `TICK_BATCH`: 256 records that fail every time would starve the records
   behind them (`memory_index.py:606`). With the limit in the model, `Converges`
   fails for those; what holds instead is convergence once failures end.
2. `IndexModel`: the claim of a model at start, unresolved fingerprints and the
   `COALESCE` of `bump_generation` (`memory_store.py:1063`).
3. A passage backfill of its own in `Maintenance`; it adds rows where the other
   tools replace them.

An abstract consumer that `MilvusSync` and `FtsSync` both implement was
considered and dropped: what they promise in common, up to `purged` and `forgotten`,
is what the theorems `Acknowledged` say.

## 8. Not modelled

* Installation and hooks: one-shot scripts that copy files, write configuration
  and post a request; they keep no state of the system. Evaluation tools: they
  measure and change nothing.
* The stamp of the transcript collection (`rag_engine.py`, model identity and
  dimension at start). Two servers that start at once may both pass its
  read-back; what then matters is which vectors a model produced, which no state
  of the code records.
* Server lifecycle: the early bind of the port, the order of the shutdown and
  the start script with its PID file. They depend on sockets, signals and
  processes. The work they start and stop is in `Server`.
* Migrations of the SQL schema, the reports of the CLI, the audit file, the mapping
  of imported records, health answers, statistics, titles and timestamps of
  provider sources: formatting and I/O.
* The content of regular expressions and byte formats, and the scores of
  models: inputs of the functions.
* Two restore checks at once share their collection and file
  (`memory_index.py:738`); no property of their answers could hold. A Postgres
  connection that breaks while the Milvus call of its record still runs
  (`memory_store.py:971`) leaves nothing in the code that orders the two writes.
  Both are listed as hazards without a property.
