----------------------------- MODULE StorePool -----------------------------
(***************************************************************************)
(* The worker threads for memory store calls, which the sync loop shares   *)
(* with the searches.  A pass that times out leaves its call running in a  *)
(* worker; the loop rests while too many workers are busy.                 *)
(***************************************************************************)
EXTENDS Integers, Sequences, SequencesExt, FiniteSets

CONSTANTS
  Workers,   \* DB_WORKERS
  Caller,    \* the searches and tool calls of clients
  Loop       \* the sync loop

ASSUME WorkersAssumption == Workers \in Nat \ {0, 1}
ASSUME LoopAssumption == Loop \notin Caller

VARIABLES
  pass,     \* what the sync loop does: "sleep", "reconcile" or "tick"
  due,      \* the reconcile is due
  queue,    \* the calls that wait for a worker
  running,  \* the callers whose call a worker runs
  left      \* the workers that run a call a timeout has left

pool == <<pass, due, queue, running, left>>

PoolTypeOK ==
  /\ pass \in {"sleep", "reconcile", "tick"} /\ due \in BOOLEAN
  /\ ToSet(queue) \subseteq Caller \cup {Loop} /\ IsInjective(queue)
  /\ running \subseteq Caller \cup {Loop}
  /\ ToSet(queue) \cap running = {}
  /\ left \in 0..Workers - Cardinality(running)
  /\ pass = "sleep" => Loop \notin running \cup ToSet(queue)

PoolInit ==
  /\ pass = "sleep" /\ due = TRUE
  /\ queue = << >> /\ running = {} /\ left = 0

Busy == Cardinality(running) + left

(* Mutant: the loop rests only when every worker is busy.                  *)
SaturatedFull == Busy >= Workers

(* _store_workers_saturated *)
Saturated == Busy >= Workers - 1

Call(c) ==
  /\ c \in Caller /\ c \notin ToSet(queue) \cup running
  /\ queue' = Append(queue, c)
  /\ UNCHANGED <<pass, due, running, left>>

StartCall ==
  /\ queue # << >> /\ Busy < Workers
  /\ running' = running \cup {Head(queue)}
  /\ queue' = Tail(queue)
  /\ UNCHANGED <<pass, due, left>>

FinishCall(c) ==
  /\ c \in running \ {Loop}
  /\ running' = running \ {c}
  /\ UNCHANGED <<pass, due, queue, left>>

(* A call that was left running may return, or hang for ever.              *)
LeftReturns ==
  /\ left > 0
  /\ left' = left - 1
  /\ UNCHANGED <<pass, due, queue, running>>

-----------------------------------------------------------------------------
(* _memory_sync_run_once: capacity is checked before the pass and between  *)
(* its two steps.                                                          *)

Wake ==
  /\ pass = "sleep" /\ ~Saturated
  /\ pass' = IF due THEN "reconcile" ELSE "tick"
  /\ UNCHANGED <<due, queue, running, left>>

(* A step makes its store calls one after the other.                       *)
LoopCall ==
  /\ pass # "sleep" /\ Loop \notin ToSet(queue) \cup running
  /\ queue' = Append(queue, Loop)
  /\ UNCHANGED <<pass, due, running, left>>

LoopReturns ==
  /\ Loop \in running
  /\ running' = running \ {Loop}
  /\ UNCHANGED <<pass, due, queue, left>>

(* What follows a step: the tick after a reconcile, unless it must rest.   *)
After(step) == IF step = "reconcile" /\ ~Saturated' THEN "tick" ELSE "sleep"

(* A failed reconcile stays due after its retry delay: that is DueAgain.   *)
StepEnds ==
  /\ pass # "sleep" /\ Loop \notin ToSet(queue) \cup running
  /\ UNCHANGED <<queue, running, left>>
  /\ pass' = After(pass)
  /\ due' = (due /\ pass # "reconcile")

(* A timeout cancels the step: a queued call goes, a running one stays.    *)
StepTimesOut ==
  /\ pass # "sleep" /\ Loop \in ToSet(queue) \cup running
  /\ queue' = IF Loop \in running THEN queue
              ELSE RemoveAt(queue, CHOOSE i \in DOMAIN queue : queue[i] = Loop)
  /\ running' = running \ {Loop}
  /\ left' = IF Loop \in running THEN left + 1 ELSE left
  /\ pass' = After(pass)
  /\ due' = (due /\ pass # "reconcile")

DueAgain ==
  /\ ~due
  /\ due' = TRUE
  /\ UNCHANGED <<pass, queue, running, left>>

PoolNext ==
  \/ \E c \in Caller : Call(c) \/ FinishCall(c)
  \/ StartCall \/ LeftReturns
  \/ Wake \/ LoopCall \/ LoopReturns \/ StepEnds \/ StepTimesOut \/ DueAgain
=============================================================================
