----------------------------- MODULE TurnStores -----------------------------
(***************************************************************************)
(* The two stores of transcript rows, Milvus and the FTS sidecar, and what *)
(* the server does to them: it adds and deletes rows, in one store after   *)
(* the other, and its heal loop copies rows that FTS misses from Milvus.   *)
(*                                                                         *)
(* A row is abstracted to whether a maintenance tool has corrected it: its *)
(* content is "before" or "after".  A new row is written as it should be.  *)
(***************************************************************************)
EXTENDS Integers, FiniteSets

CONSTANTS
  Old,        \* rows stored before the tool runs
  New,        \* rows the server may add meanwhile
  None,       \* no row
  MaxFaults   \* bound on failed calls, crashes, restarts, pauses and repeated runs

ASSUME StoresAssumption ==
  /\ Old \cap New = {}
  /\ None \notin Old \cup New \cup {"before", "after"}
  /\ MaxFaults \in Nat

VARIABLES
  milvus, fts,  \* the content of each row in each store
  sentinel,     \* the file fts_backfill_required exists
  adding,       \* the row that is in Milvus and not yet offered to FTS
  added,        \* the new rows that were added: a turn is ingested once
  removing,     \* the row that is deleted from Milvus and not yet from FTS
  heal,         \* the heal worker
  astray,       \* history: rows that were written, or left, against the stores' later state
  faults

stores == <<milvus, fts>>
server == <<sentinel, adding, added, removing, heal>>

Doc == Old \cup New
Content == {"before", "after"}

HealIdle == [pc |-> "idle", first |-> FALSE, seen |-> {}, batch |-> [d \in {} |-> None]]

StoresTypeOK ==
  /\ milvus \in [Doc -> Content \cup {None}]
  /\ fts \in [Doc -> Content \cup {None}]
  /\ sentinel \in BOOLEAN
  /\ added \subseteq New
  /\ adding \in added \cup {None} /\ removing \in Doc \cup {None}
  /\ heal.pc \in {"idle", "hydrate", "insert", "finish"} /\ heal.first \in BOOLEAN
  /\ heal.seen \subseteq Doc
  /\ DOMAIN heal.batch \subseteq Doc
  /\ \A d \in DOMAIN heal.batch :
       heal.batch[d] \in IF heal.pc = "hydrate" THEN {None} ELSE Content
  /\ astray \subseteq Doc
  /\ faults \in 0..MaxFaults

(* A failed FTS insert may have left a row out of the sidecar.             *)
StoresInit ==
  /\ milvus = [d \in Doc |-> IF d \in Old THEN "before" ELSE None]
  /\ \E missing \in SUBSET Old :
       fts = [d \in Doc |-> IF d \in Old \ missing THEN "before" ELSE None]
  /\ sentinel = FALSE
  /\ adding = None /\ added = {} /\ removing = None
  /\ heal = [HealIdle EXCEPT !.first = TRUE]
  /\ astray = {} /\ faults = 0

Fault == faults < MaxFaults /\ faults' = faults + 1

Stored == {d \in Doc : milvus[d] # None}
Indexed == {d \in Doc : fts[d] # None}

-----------------------------------------------------------------------------
(* add_turns: Milvus first; a failed FTS insert is only logged.            *)

AddMilvus(d) ==
  /\ adding = None /\ d \in New \ added
  /\ milvus' = [milvus EXCEPT ![d] = "after"]
  /\ adding' = d /\ added' = added \cup {d}
  /\ UNCHANGED <<fts, sentinel, removing, heal, astray, faults>>

AddFts ==
  /\ adding # None
  /\ \/ /\ fts' = [fts EXCEPT ![adding] = IF @ = None THEN "after" ELSE @]
        /\ astray' = astray \cup ({adding} \ Stored)
        /\ UNCHANGED faults
     \/ Fault /\ UNCHANGED <<fts, astray>>
  /\ adding' = None
  /\ UNCHANGED <<milvus, sentinel, added, removing, heal>>

(* Expiry, and the older versions of a turn: the same in both stores, and  *)
(* a failed FTS delete is only logged.                                     *)
RemoveMilvus(d) ==
  /\ removing = None /\ milvus[d] # None
  /\ milvus' = [milvus EXCEPT ![d] = None]
  /\ removing' = d
  /\ UNCHANGED <<fts, sentinel, adding, added, heal, astray, faults>>

RemoveFts ==
  /\ removing # None
  /\ \/ /\ fts' = [fts EXCEPT ![removing] = None]
        /\ UNCHANGED <<astray, faults>>
     \/ /\ Fault
        /\ astray' = astray \cup {removing}
        /\ UNCHANGED fts
  /\ removing' = None
  /\ UNCHANGED <<milvus, sentinel, adding, added, heal>>

-----------------------------------------------------------------------------
(* The heal worker: once after a start, and then while the sentinel stands.*)

(* Mutant: only the start heals.                                           *)
HealDueOnce == heal.first

HealDue == heal.first \/ sentinel

HealDiff ==
  /\ heal.pc = "idle" /\ HealDue
  /\ heal' = [heal EXCEPT !.pc = "hydrate", !.first = FALSE, !.seen = Stored,
                          !.batch = [d \in Stored \ Indexed |-> None]]
  /\ UNCHANGED <<stores, sentinel, adding, added, removing, astray, faults>>

(* Mutant: a row that is gone by now comes back empty.                     *)
FetchedAll == DOMAIN heal.batch

Fetched == DOMAIN heal.batch \cap Stored

HealHydrate ==
  /\ heal.pc = "hydrate"
  /\ heal' = [heal EXCEPT !.pc = "insert",
                !.batch = [d \in Fetched |-> milvus[d]]]
  /\ UNCHANGED <<stores, sentinel, adding, added, removing, astray, faults>>

(* Mutant: a row that was indexed meanwhile is written again.              *)
HydratedAny == DOMAIN heal.batch

(* The insert skips the rows that are indexed by now.                      *)
Hydrated == DOMAIN heal.batch \ Indexed

HealInsert ==
  /\ heal.pc = "insert"
  /\ fts' = [d \in Doc |-> IF d \in Hydrated THEN heal.batch[d] ELSE fts[d]]
  /\ heal' = [heal EXCEPT !.pc = "finish", !.batch = HealIdle.batch]
  /\ astray' = astray \cup {d \in Hydrated \ Indexed : milvus[d] # heal.batch[d]}
  /\ UNCHANGED <<milvus, sentinel, adding, added, removing, faults>>

(* The sentinel goes once FTS has as many rows as the scan saw in Milvus.  *)
HealFinish ==
  /\ heal.pc = "finish"
  /\ sentinel' = (sentinel /\ Cardinality(Indexed) < Cardinality(heal.seen))
  /\ heal' = [heal EXCEPT !.pc = "idle", !.seen = {}]
  /\ UNCHANGED <<stores, adding, added, removing, astray, faults>>

HealFails ==
  /\ heal.pc # "idle" /\ Fault
  /\ heal' = HealIdle
  /\ UNCHANGED <<stores, sentinel, adding, added, removing, astray>>

Heal == HealDiff \/ HealHydrate \/ HealInsert \/ HealFinish

(* The server dies and starts again, perhaps with another FTS schema: the  *)
(* table is then dropped and the sentinel written.                         *)
Restart ==
  /\ Fault
  /\ adding' = None /\ removing' = None
  /\ heal' = [HealIdle EXCEPT !.first = TRUE]
  /\ astray' = astray \cup ({removing} \ {None})
  /\ \/ UNCHANGED <<fts, sentinel>>
     \/ fts' = [d \in Doc |-> None] /\ sentinel' = TRUE
  /\ UNCHANGED <<milvus, added>>

ServerNext ==
  \/ \E d \in Doc : AddMilvus(d) \/ RemoveMilvus(d)
  \/ AddFts \/ RemoveFts
  \/ Heal \/ HealFails
  \/ Restart
=============================================================================
