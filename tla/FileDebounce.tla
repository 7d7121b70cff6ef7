---------------------------- MODULE FileDebounce ----------------------------
(***************************************************************************)
(* The file watcher's debounce: events gather in a set, and the set is     *)
(* processed once no event has come for a while.                           *)
(***************************************************************************)
EXTENDS Integers, FiniteSets

CONSTANTS
  Transcript,   \* the files
  MaxChanges    \* bound on the changes

ASSUME ChangesAssumption == MaxChanges \in Nat

VARIABLES
  changes,   \* the number of changes so far
  unread,    \* files with a change that no batch has read
  events,    \* the queue of the observer's events
  pending,   \* files of the next batch
  timer,     \* the debounce timer is set
  batch,     \* the files that are being processed
  busy       \* a batch is being processed

debounce == <<changes, unread, events, pending, timer, batch, busy>>

DebounceTypeOK ==
  /\ changes \in 0..MaxChanges
  /\ unread \subseteq Transcript /\ events \subseteq Transcript
  /\ pending \subseteq Transcript /\ batch \subseteq Transcript
  /\ timer \in BOOLEAN /\ busy \in BOOLEAN
  /\ batch # {} => busy
  /\ pending # {} => timer \/ busy

DebounceInit ==
  /\ changes = 0 /\ unread = {} /\ events = {} /\ pending = {}
  /\ timer = FALSE /\ batch = {} /\ busy = FALSE

Change(f) ==
  /\ changes < MaxChanges
  /\ changes' = changes + 1
  /\ unread' = unread \cup {f} /\ events' = events \cup {f}
  /\ UNCHANGED <<pending, timer, batch, busy>>

(* _drain_queue: every event starts the timer anew.                        *)
DrainEvent(f) ==
  /\ f \in events
  /\ events' = events \ {f}
  /\ pending' = pending \cup {f} /\ timer' = TRUE
  /\ UNCHANGED <<changes, unread, batch, busy>>

(* _trigger_processing: while a batch runs, the timer is set again.        *)
TimerFires ==
  /\ timer
  /\ IF busy
     THEN UNCHANGED <<timer, pending, batch, busy>>
     ELSE /\ timer' = FALSE
          /\ busy' = (pending # {}) /\ batch' = pending /\ pending' = {}
  /\ UNCHANGED <<changes, unread, events>>

ReadFile(f) ==
  /\ f \in batch
  /\ unread' = unread \ {f} /\ batch' = batch \ {f}
  /\ UNCHANGED <<changes, events, pending, timer, busy>>

(* Mutant: the pending files are cleared at the end of the batch.          *)
KeptNone == {}

Kept == pending

BatchEnds ==
  /\ busy /\ batch = {}
  /\ busy' = FALSE
  /\ pending' = Kept
  /\ timer' = (timer \/ Kept # {})
  /\ UNCHANGED <<changes, unread, events, batch>>

DebounceNext ==
  \/ \E f \in Transcript : Change(f) \/ DrainEvent(f) \/ ReadFile(f)
  \/ TimerFires \/ BatchEnds
=============================================================================
