---------------------------- MODULE CanonicalStore ----------------------------
(***************************************************************************)
(* What the index layer relies on from the Postgres memory store           *)
(* (memory_store.py, sql/memory/001_initial.sql): the current row of every *)
(* memory, the acknowledgements of ONE consumer (memory_index_acks), and   *)
(* the embedding generation (memory_index_meta).                           *)
(*                                                                         *)
(* Each action is one committed transaction.  A write names the record it  *)
(* changes and the records it supersedes; all of them gain a version and   *)
(* lose their acknowledgements in the same transaction, so no reader sees  *)
(* a new version with an old acknowledgement.                              *)
(***************************************************************************)
EXTENDS Naturals

CONSTANTS
  Memory,         \* memory_id values
  Text,           \* texts, told apart by their content_hash
  Model,          \* embedding models (name and dimension)
  None,           \* no text, no model, no owner
  MaxVersion,     \* bound on a row's version
  MaxGeneration   \* bound on the embedding generation

ASSUME StoreAssumption ==
  /\ MaxVersion \in Nat \ {0}
  /\ MaxGeneration \in Nat \ {0}
  /\ None \notin Memory \cup Text \cup Model

VARIABLES
  rows,   \* memories: version 0 stands for a row that was never inserted
  acks,   \* this consumer's rows of memory_index_acks: version 0 is a missing one
  meta    \* memory_index_meta: generation and model

storeVars == <<rows, acks, meta>>

Row == [version : 0..MaxVersion, text : Text \cup {None}, deleted : BOOLEAN]
Ack == [version : 0..MaxVersion, generation : 0..MaxGeneration]
Meta == [generation : 1..MaxGeneration, model : Model]

NoRow == [version |-> 0, text |-> None, deleted |-> FALSE]
NoAck == [version |-> 0, generation |-> 0]

StoreTypeOK ==
  /\ rows \in [Memory -> Row]
  /\ acks \in [Memory -> Ack]
  /\ meta \in Meta

StoreInit ==
  /\ rows = [m \in Memory |-> NoRow]
  /\ acks = [m \in Memory |-> NoAck]
  /\ meta \in [generation : {1}, model : Model]

Exists(m) == rows[m].version > 0
Live(m) == Exists(m) /\ ~rows[m].deleted

-----------------------------------------------------------------------------
(* Writes.  olds are the live records the write marks superseded.          *)

Superseded(r) == [r EXCEPT !.version = @ + 1]

Commit(m, row, olds) ==
  /\ olds \subseteq {n \in Memory \ {m} : Live(n) /\ rows[n].version < MaxVersion}
  /\ rows' = [n \in Memory |-> IF n = m THEN row
                               ELSE IF n \in olds THEN Superseded(rows[n])
                               ELSE rows[n]]
  /\ acks' = [n \in Memory |-> IF n \in olds \cup {m} THEN NoAck ELSE acks[n]]
  /\ UNCHANGED meta

Add(m, t, olds) ==
  /\ ~Exists(m)
  /\ Commit(m, [version |-> 1, text |-> t, deleted |-> FALSE], olds)

(* An update, or an add that replaces a topic's record; t may be the text  *)
(* the row already has, when only its metadata changes.                    *)
Change(m, t, olds) ==
  /\ Live(m) /\ rows[m].version < MaxVersion
  /\ Commit(m, [rows[m] EXCEPT !.version = @ + 1, !.text = t], olds)

(* A delete leaves a tombstone with a final version.                       *)
Delete(m) ==
  /\ Live(m) /\ rows[m].version < MaxVersion
  /\ Commit(m, [rows[m] EXCEPT !.version = @ + 1, !.deleted = TRUE], {})

(* An add that finds the text already stored, or an update to what is there. *)
Repeat(m) == Live(m) /\ UNCHANGED storeVars

Write(m) ==
  \/ \E t \in Text, olds \in SUBSET (Memory \ {m}) : Add(m, t, olds) \/ Change(m, t, olds)
  \/ Delete(m)

-----------------------------------------------------------------------------
(* Acknowledgements.                                                       *)

Before(a, b) ==
  \/ a.version < b.version
  \/ a.version = b.version /\ a.generation < b.generation

(* ack(): an insert, or an update that moves (version, generation) forward. *)
AcksAfter(m, version, generation) ==
  LET new == [version |-> version, generation |-> generation]
  IN  IF Before(acks[m], new) THEN [acks EXCEPT ![m] = new] ELSE acks

(* Mutant: the generation is not compared.                                 *)
IsAckedVersion(m, version, generation) == acks[m].version >= version

IsAcked(m, version, generation) ==
  ~Before(acks[m], [version |-> version, generation |-> generation])

WithoutAcks(S) == [n \in Memory |-> IF n \in S THEN NoAck ELSE acks[n]]

ResetAcks(S) ==
  /\ acks' = WithoutAcks(S)
  /\ UNCHANGED <<rows, meta>>

(* Mutant: pending("milvus") compares versions only.                       *)
PendingVersions == {m \in Memory : Exists(m) /\ acks[m].version < rows[m].version}

(* pending("milvus"): the generation counts.                               *)
PendingVectors ==
  {m \in Memory : Exists(m) /\ \/ acks[m].version < rows[m].version
                               \/ acks[m].generation < meta.generation}

(* pending("fts:<host>"): generations are ignored.                          *)
PendingText == {m \in Memory : Exists(m) /\ acks[m].version < rows[m].version}

-----------------------------------------------------------------------------
(* reembed starts a generation for a model; its reset_acks is a later      *)
(* transaction, see ResetAcks.                                             *)
BumpGeneration(model) ==
  /\ meta.generation < MaxGeneration
  /\ meta' = [generation |-> meta.generation + 1, model |-> model]
  /\ UNCHANGED <<rows, acks>>

-----------------------------------------------------------------------------
(* The store by itself: what its transactions may do to what indexes see.  *)

AckVersion(m) ==
  \E v \in 1..rows[m].version, g \in 1..meta.generation :
    /\ acks' = AcksAfter(m, v, g)
    /\ UNCHANGED <<rows, meta>>

StoreNext ==
  \/ \E m \in Memory : Write(m) \/ AckVersion(m)
  \/ \E S \in SUBSET Memory : ResetAcks(S)
  \/ \E model \in Model : BumpGeneration(model)

StoreSpec == StoreInit /\ [][StoreNext]_storeVars
=============================================================================
