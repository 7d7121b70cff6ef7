--------------------------- MODULE BackfillQueue ---------------------------
(***************************************************************************)
(* The durable queue of provider backfill jobs and the drains that empty   *)
(* it: the worker that polls, the run action of the endpoint and the       *)
(* drain at start.  One lock lets one of them drain at a time.             *)
(***************************************************************************)
EXTENDS Integers, FiniteSets

CONSTANTS
  Provider,   \* the providers
  Enabled,    \* those the server queues at start
  All,        \* a pause that names no provider
  None,
  MaxStops    \* bound on the crashes and shutdowns

ASSUME EnabledAssumption == Enabled \subseteq Provider
ASSUME AllAssumption == All \notin Provider
ASSUME StopsAssumption == MaxStops \in Nat

VARIABLES
  up,        \* the server runs
  jobs,      \* BackfillManager.jobs
  paused,    \* paused_providers, and All for global_paused
  disk,      \* the state file
  budget,    \* the embedding budget is paused
  drain,     \* who drains, the jobs of its snapshot that are left, the current job
  waiters,   \* who waits for the lock
  stops,
  told,      \* the pauses that hold: history
  owed       \* the jobs that were queued and have not run: history

backfill == <<up, jobs, paused, disk, budget, drain, waiters, stops, told, owed>>

(* _job_key: the jobs of the start carry a limit, so they are others.      *)
Job == (Provider \X {"asked"}) \cup (Enabled \X {"startup"})

Startup == Enabled \X {"startup"}

Target == Provider \cup {All}

NoDrain == [by |-> None, todo |-> {}, job |-> None]

QueueTypeOK ==
  /\ up \in BOOLEAN /\ budget \in BOOLEAN
  /\ jobs \subseteq Job /\ owed \subseteq Job
  /\ paused \subseteq Target /\ told \subseteq Target
  /\ disk.jobs \subseteq Job /\ disk.paused \subseteq Target
  /\ drain.by \in {None, "worker", "run", "startup"}
  /\ drain.todo \subseteq jobs /\ drain.job \in jobs \cup {None}
  /\ waiters \subseteq {"run", "startup"}
  /\ stops \in 0..MaxStops
  /\ ~up => drain = NoDrain /\ waiters = {}

QueueInit ==
  /\ up = TRUE /\ jobs = {} /\ paused = {} /\ disk = [jobs |-> {}, paused |-> {}]
  /\ budget = FALSE /\ drain = NoDrain /\ waiters = {"startup"}
  /\ stops = 0 /\ told = {} /\ owed = {}

(* save_state *)
Save == disk' = [jobs |-> jobs', paused |-> paused']

(* Mutant: a new job is saved with the first change after it.              *)
SavedLater == UNCHANGED disk

Saved == Save

Queue(new) ==
  /\ jobs' = jobs \cup new
  /\ owed' = owed \cup new
  /\ UNCHANGED paused
  /\ IF new \subseteq jobs THEN UNCHANGED disk ELSE Saved

Enqueue(p) ==
  /\ up
  /\ Queue({<<p, "asked">>})
  /\ UNCHANGED <<up, budget, drain, waiters, stops, told>>

(* The run action queues every provider and drains what is there.          *)
Run ==
  /\ up /\ "run" \notin waiters \cup {drain.by}
  /\ Queue(Provider \X {"asked"})
  /\ waiters' = waiters \cup {"run"}
  /\ UNCHANGED <<up, budget, drain, stops, told>>

(* Mutant: a pause is not written to the state file.                       *)
PauseUnsaved(t) ==
  /\ up /\ t \notin paused
  /\ paused' = paused \cup {t} /\ told' = told \cup {t}
  /\ budget' = (budget \/ t = All)
  /\ UNCHANGED <<up, jobs, disk, drain, waiters, stops, owed>>

Pause(t) ==
  /\ up /\ t \notin paused
  /\ paused' = paused \cup {t} /\ told' = told \cup {t}
  /\ budget' = (budget \/ t = All)
  /\ UNCHANGED jobs /\ Save
  /\ UNCHANGED <<up, drain, waiters, stops, owed>>

Resume(t) ==
  /\ up /\ t \in paused
  /\ paused' = paused \ {t} /\ told' = told \ {t}
  /\ budget' = (budget /\ t # All)
  /\ UNCHANGED jobs /\ Save
  /\ UNCHANGED <<up, drain, waiters, stops, owed>>

-----------------------------------------------------------------------------
(* A drain holds _backfill_drain_lock to its end.                          *)

Halted == All \in paused

Drains(by, todo) ==
  drain' = IF All \in paused \/ todo = {}
           THEN NoDrain ELSE [by |-> by, todo |-> todo, job |-> None]

WorkerDrains ==
  /\ up /\ drain = NoDrain /\ ~Halted /\ jobs # {}
  /\ Drains("worker", jobs)
  /\ UNCHANGED <<up, jobs, paused, disk, budget, waiters, stops, told, owed>>

RunDrains ==
  /\ "run" \in waiters /\ drain = NoDrain
  /\ waiters' = waiters \ {"run"}
  /\ Drains("run", jobs)
  /\ UNCHANGED <<up, jobs, paused, disk, budget, stops, told, owed>>

StartupDrains ==
  /\ "startup" \in waiters /\ drain = NoDrain
  /\ waiters' = waiters \ {"startup"}
  /\ Queue(Startup)
  /\ Drains("startup", jobs')
  /\ UNCHANGED <<up, budget, stops, told>>

(* The jobs of the start have the higher priority.                         *)
First(todo) == IF todo \cap Startup # {} THEN todo \cap Startup ELSE todo

Rests(todo) == IF todo = {} THEN NoDrain ELSE [drain EXCEPT !.todo = todo, !.job = None]

(* A pause of the provider counts when its job comes, one of all does not. *)
NextJob ==
  /\ drain.todo # {} /\ drain.job = None
  /\ \E j \in First(drain.todo) :
       drain' = IF j[1] \in paused THEN Rests(drain.todo \ {j})
                ELSE [drain EXCEPT !.todo = @ \ {j}, !.job = j]
  /\ UNCHANGED <<up, jobs, paused, disk, budget, waiters, stops, told, owed>>

(* complete_job: the sources of the job ran, some with an error.           *)
FinishJob ==
  /\ drain.job # None
  /\ jobs' = jobs \ {drain.job} /\ owed' = owed \ {drain.job}
  /\ drain' = Rests(drain.todo)
  /\ UNCHANGED paused /\ Save
  /\ UNCHANGED <<up, budget, waiters, stops, told>>

-----------------------------------------------------------------------------
Down ==
  /\ stops < MaxStops /\ stops' = stops + 1
  /\ up' = FALSE /\ jobs' = {} /\ paused' = {} /\ budget' = FALSE
  /\ drain' = NoDrain /\ waiters' = {}
  /\ UNCHANGED told

Crash == up /\ Down /\ UNCHANGED <<disk, owed>>

(* The job a shutdown cancels is removed by the finally of process_job.    *)
Shutdown ==
  /\ up /\ "run" \notin waiters \cup {drain.by}
  /\ Down
  /\ owed' = owed \ {drain.job}
  /\ disk' = IF drain.job = None THEN disk
             ELSE [jobs |-> jobs \ {drain.job}, paused |-> paused]

(* load_state; the budget is not told of a pause that was loaded.          *)
Start ==
  /\ ~up
  /\ up' = TRUE /\ jobs' = disk.jobs /\ paused' = disk.paused
  /\ waiters' = {"startup"}
  /\ UNCHANGED <<disk, budget, drain, stops, told, owed>>

(* cleanup.py backfill pause or resume: it changes the state file, and a   *)
(* server that runs does not see it and overwrites it.                     *)
CliPause(t) ==
  /\ disk' = [disk EXCEPT !.paused = @ \cup {t}]
  /\ told' = IF up THEN told ELSE told \cup {t}
  /\ UNCHANGED <<up, jobs, paused, budget, drain, waiters, stops, owed>>

CliResume(t) ==
  /\ disk' = [disk EXCEPT !.paused = @ \ {t}]
  /\ told' = told \ {t}
  /\ UNCHANGED <<up, jobs, paused, budget, drain, waiters, stops, owed>>

CliEnqueue(p) ==
  /\ ~up
  /\ disk' = [disk EXCEPT !.jobs = @ \cup {<<p, "asked">>}]
  /\ owed' = owed \cup {<<p, "asked">>}
  /\ UNCHANGED <<up, jobs, paused, budget, drain, waiters, stops, told>>

QueueNext ==
  \/ \E p \in Provider : Enqueue(p) \/ CliEnqueue(p)
  \/ \E t \in Target : Pause(t) \/ Resume(t) \/ CliPause(t) \/ CliResume(t)
  \/ Run \/ WorkerDrains \/ RunDrains \/ StartupDrains \/ NextJob \/ FinishJob
  \/ Crash \/ Shutdown \/ Start
=============================================================================
