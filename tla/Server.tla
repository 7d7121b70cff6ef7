------------------------------- MODULE Server -------------------------------
(***************************************************************************)
(* The background work of the HTTP server: worker threads, shared scans,   *)
(* the watcher's debounce, the embedding thread, the backfill queue and    *)
(* the restore check.  They share no state that the properties tell apart, *)
(* so a behaviour moves the part it is about and the others rest.          *)
(***************************************************************************)
EXTENDS StorePool, SharedScan, FileDebounce, EmbedControl, BackfillQueue, RestoreCheck

VARIABLE part   \* the part that moves

Part == {"pool", "scan", "debounce", "embed", "backfill", "check"}

vars == <<part, pool, scan, debounce, embed, backfill, check>>

(* Every part's variables hold the values its operations use.              *)
TypeOK ==
  /\ part \in Part
  /\ PoolTypeOK /\ ScanTypeOK /\ DebounceTypeOK
  /\ EmbedTypeOK /\ QueueTypeOK /\ CheckTypeOK

Init ==
  /\ part \in Part
  /\ PoolInit /\ ScanInit /\ DebounceInit /\ EmbedInit /\ QueueInit /\ CheckInit

PoolMoves(A) == part = "pool" /\ A /\ UNCHANGED <<part, scan, debounce, embed, backfill, check>>

ScanMoves(A) == part = "scan" /\ A /\ UNCHANGED <<part, pool, debounce, embed, backfill, check>>

DebounceMoves(A) == part = "debounce" /\ A /\ UNCHANGED <<part, pool, scan, embed, backfill, check>>

EmbedMoves(A) == part = "embed" /\ A /\ UNCHANGED <<part, pool, scan, debounce, backfill, check>>

QueueMoves(A) == part = "backfill" /\ A /\ UNCHANGED <<part, pool, scan, debounce, embed, check>>

CheckMoves(A) == part = "check" /\ A /\ UNCHANGED <<part, pool, scan, debounce, embed, backfill>>

Next ==
  \/ PoolMoves(PoolNext) \/ ScanMoves(ScanNext) \/ DebounceMoves(DebounceNext)
  \/ EmbedMoves(EmbedNext) \/ QueueMoves(QueueNext) \/ CheckMoves(CheckNext)

(* A worker runs the next call and a client's call returns; nothing is     *)
(* assumed of the sync loop's calls, nor of calls that were left.          *)
PoolFairness ==
  /\ WF_vars(PoolMoves(StartCall))
  /\ \A c \in Caller : WF_vars(PoolMoves(FinishCall(c)))
  /\ WF_vars(PoolMoves(StepTimesOut))

(* Timers fire, batches and scans end, and files come to rest.             *)
WatchFairness ==
  /\ WF_vars(ScanMoves(ScanEnds))
  /\ WF_vars(DebounceMoves(\E f \in Transcript : DrainEvent(f)))
  /\ WF_vars(DebounceMoves(TimerFires /\ ~busy))
  /\ WF_vars(DebounceMoves(BatchEnds \/ \E f \in Transcript : ReadFile(f)))

(* The drain worker polls, jobs end, and a server that died is started     *)
(* again by the watchdog of sessionflow-server.sh or by hand.              *)
QueueFairness ==
  /\ WF_vars(QueueMoves(WorkerDrains)) /\ WF_vars(QueueMoves(NextJob \/ FinishJob))
  /\ WF_vars(QueueMoves(Start))

Spec == Init /\ [][Next]_vars /\ PoolFairness /\ WatchFairness /\ QueueFairness

-----------------------------------------------------------------------------
(* A search that waits for a worker gets one although calls that timeouts  *)
(* left may hang for ever, and whoever waits for the shared scan is        *)
(* answered (_memory_sync_run_once, known_project_roots).                  *)
SearchAnswered ==
  /\ \A c \in Caller : c \in ToSet(queue) ~> c \notin ToSet(queue) \cup running
  /\ \A a \in Asker : a \in waiting ~> a \notin waiting

(* A file that has come to rest is read after its last change, also when   *)
(* the change came while a batch was running (_trigger_processing).        *)
QuietFileIndexed == \A f \in Transcript : f \in unread ~> f \notin unread

(* No batch of any kind begins in the cooldown that another one of the     *)
(* thread has left (EmbeddingThrottle).                                    *)
EmbedSpaced ==
  [][\A k \in Kind : work[k] # "embed" /\ work'[k] = "embed" => ~cooling]_vars

(* A job that was queued runs, across crashes and restarts, unless its     *)
(* provider or all of them are paused or a shutdown cancels it             *)
(* (BackfillManager).                                                      *)
QueueServed ==
  \A j \in Job : j \in owed ~> j \notin owed \/ paused \cap {j[1], All} # {}

(* A pause holds across restarts until a resume: no job of its provider    *)
(* starts, and under a pause of all no drain (pause, load_state).          *)
PauseHolds ==
  [][/\ drain'.job \notin {None, drain.job} => drain'.job[1] \notin told
     /\ drain.by = None /\ drain'.by # None => All \notin told]_vars

(* The restore check says ok only of a database that holds each live       *)
(* record of the manifest as it was dumped (run_restore_check).            *)
RestoreHonest == verdict = "ok" => \A r \in Live : restored[r] = "good"
=============================================================================
