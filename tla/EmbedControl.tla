---------------------------- MODULE EmbedControl ----------------------------
(***************************************************************************)
(* Who embeds on the single mlx-embed thread.  A transcript batch asks the *)
(* budget, which may deny it; a memory text and a rerank wait out the      *)
(* cooldown.  All of them stamp the same throttle when they are done.      *)
(***************************************************************************)
EXTENDS Integers, FiniteSets

CONSTANTS
  Memory, Turns, Rerank,   \* the three kinds of work
  MaxTurns                 \* max_turns_per_run

ASSUME KindsAssumption == Cardinality({Memory, Turns, Rerank}) = 3
ASSUME TurnsAssumption == MaxTurns \in Nat

VARIABLES
  work,       \* what each kind of work waits for
  cooling,    \* the cooldown after the last batch is not over
  turnsDone,  \* the transcript batches that the budget has counted
  embedPaused \* the budget is paused

embed == <<work, cooling, turnsDone, embedPaused>>

Kind == {Memory, Turns, Rerank}

EmbedTypeOK ==
  /\ work \in [Kind -> {"none", "throttle", "queued", "thread", "retry", "embed"}]
  /\ Cardinality({k \in Kind : work[k] \in {"thread", "retry", "embed"}}) <= 1
  /\ cooling \in BOOLEAN /\ embedPaused \in BOOLEAN
  /\ turnsDone \in 0..MaxTurns

EmbedInit ==
  /\ work = [k \in Kind |-> "none"]
  /\ cooling = FALSE /\ turnsDone = 0 /\ embedPaused = FALSE

Free == \A k \in Kind : work[k] \in {"none", "throttle", "queued"}

Goes(k, to) == work' = [work EXCEPT ![k] = to]

(* A memory embed waits on the event loop before it goes to the thread.    *)
AskEmbed(k) ==
  /\ work[k] = "none"
  /\ Goes(k, IF k = Memory THEN "throttle" ELSE "queued")
  /\ UNCHANGED <<cooling, turnsDone, embedPaused>>

ThrottleWaited ==
  /\ work[Memory] = "throttle" /\ ~cooling
  /\ Goes(Memory, "queued")
  /\ UNCHANGED <<cooling, turnsDone, embedPaused>>

TakeThread(k) ==
  /\ work[k] = "queued" /\ Free
  /\ Goes(k, "thread")
  /\ UNCHANGED <<cooling, turnsDone, embedPaused>>

(* Mutant: the wait before the queue is the only one.                      *)
WaitedBefore(k) == k = Memory \/ ~cooling

(* wait_blocking *)
Waited(k) == ~cooling

BeginEmbed(k) ==
  /\ k # Turns /\ work[k] = "thread" /\ Waited(k)
  /\ Goes(k, "embed")
  /\ UNCHANGED <<cooling, turnsDone, embedPaused>>

HardDenied == embedPaused \/ turnsDone = MaxTurns

(* before_batch, a second time after the cooldown it names.                *)
BeforeBatch ==
  /\ \/ work[Turns] = "thread"
     \/ work[Turns] = "retry" /\ ~cooling
  /\ Goes(Turns, CASE HardDenied -> "none"
                   [] ~HardDenied /\ ~cooling -> "embed"
                   [] ~HardDenied /\ cooling -> IF work[Turns] = "thread" THEN "retry" ELSE "none")
  /\ UNCHANGED <<cooling, turnsDone, embedPaused>>

(* after_batch and done: the batch ends, or fails, and is stamped.         *)
EndEmbed(k) ==
  /\ work[k] = "embed"
  /\ Goes(k, "none")
  /\ cooling' = TRUE
  /\ \/ turnsDone' = IF k = Turns THEN turnsDone + 1 ELSE turnsDone
     \/ UNCHANGED turnsDone
  /\ UNCHANGED embedPaused

CooldownEnds == cooling /\ cooling' = FALSE /\ UNCHANGED <<work, turnsDone, embedPaused>>

PauseEmbeds == embedPaused' = ~embedPaused /\ UNCHANGED <<work, cooling, turnsDone>>

EmbedNext ==
  \/ \E k \in Kind : AskEmbed(k) \/ TakeThread(k) \/ BeginEmbed(k) \/ EndEmbed(k)
  \/ ThrottleWaited \/ BeforeBatch \/ CooldownEnds \/ PauseEmbeds
=============================================================================
