----------------------------- MODULE MemoryWrites -----------------------------
(***************************************************************************)
(* The write transactions of memory_store.py on one (user, project):       *)
(* add, update and delete under READ COMMITTED, with the row locks of      *)
(* _lock, the two partial unique indexes and the retries of _with_retries. *)
(*                                                                         *)
(* A transaction chooses its rows in one statement's snapshot, locks them  *)
(* in memory_id order, each one read again once its lock is held, decides, *)
(* writes one row and waits in each unique index for whoever wrote the     *)
(* same key and has not committed.  Its supersede marks touch rows it has  *)
(* locked, so they are part of its commit.                                 *)
(***************************************************************************)
EXTENDS Integers, Sequences, FiniteSets

CONSTANTS
  Memory,      \* memory_id values, ordered as Postgres orders them
  Text,        \* texts, told apart by their content_hash
  Topic,       \* topic keys
  None,        \* no text, no topic, no record
  Keep,        \* an update that does not name a topic_key
  Writer,      \* clients, each with one transaction at a time
  Followed,    \* records whose acknowledgements are followed
  Kind,        \* the operations they call: add, update, delete
  MaxVersion,  \* bound on a row's version
  MaxRetries,  \* MAX_WRITE_RETRIES, for each client
  MaxCalls     \* bound on the calls of each client, [Writer -> Nat]

ASSUME WritesAssumption ==
  /\ Memory \subseteq Nat /\ IsFiniteSet(Memory)
  /\ None \notin Memory \cup Text \cup Topic
  /\ Keep \notin Topic \cup {None}
  /\ MaxVersion \in Nat \ {0}
  /\ MaxRetries \in [Writer -> Nat]
  /\ Followed \subseteq Memory
  /\ MaxCalls \in [Writer -> Nat]

VARIABLES
  rows,      \* memories: version 0 stands for a row that was never inserted
  history,   \* memory_versions: the snapshots of each record, oldest first
  acks,      \* the version one consumer has acknowledged, 0 for no row
  seq,       \* the last change_seq, drawn here in the order of commits
  tx         \* each client's transaction

vars == <<rows, history, acks, seq, tx>>

-----------------------------------------------------------------------------
Row == [version : 0..MaxVersion, seq : Nat, text : Text \cup {None},
        topic : Topic \cup {None}, superseded : BOOLEAN, deleted : BOOLEAN,
        supersedes : SUBSET Memory]

NoRow == [version |-> 0, seq |-> 0, text |-> None, topic |-> None,
          superseded |-> FALSE, deleted |-> FALSE, supersedes |-> {}]

Op == [kind : {"add", "update", "delete"}, text : Text \cup {None},
       topic : Topic \cup {None, Keep}, mem : Memory \cup {None}, targets : SUBSET Memory]

AddOp(text, topic, targets) ==
  [kind |-> "add", text |-> text, topic |-> topic, mem |-> None, targets |-> targets]
UpdateOp(m, text, topic) ==
  [kind |-> "update", text |-> text, topic |-> topic, mem |-> m, targets |-> {}]
DeleteOp(m) == [kind |-> "delete", text |-> None, topic |-> Keep, mem |-> m, targets |-> {}]
NoOp == DeleteOp(None)

(* mem and row are the row this transaction writes, not yet committed.     *)
Transaction ==
  [pc : {"idle", "again", "select", "lock", "text", "topic", "commit"}, op : Op,
   todo : SUBSET Memory, locked : SUBSET Memory, mem : Memory \cup {None}, row : Row,
   tries : Nat, calls : Nat]

Idle(calls) ==
  [pc |-> "idle", op |-> NoOp, todo |-> {}, locked |-> {}, mem |-> None, row |-> NoRow,
   tries |-> 0, calls |-> calls]

TypeOK ==
  /\ rows \in [Memory -> Row]
  /\ history \in [Memory -> Seq(Row)]
  /\ acks \in [Memory -> 0..MaxVersion]
  /\ seq \in Nat
  /\ tx \in [Writer -> Transaction]
  /\ \A t \in Writer : tx[t].tries <= MaxRetries[t] /\ tx[t].calls <= MaxCalls[t]

Init ==
  /\ rows = [m \in Memory |-> NoRow]
  /\ history = [m \in Memory |-> <<>>]
  /\ acks = [m \in Memory |-> 0]
  /\ seq = 0
  /\ tx = [t \in Writer |-> Idle(0)]

Exists(m) == rows[m].version > 0
Live(m) == Exists(m) /\ ~rows[m].deleted

(* The transaction ends and changed nothing.                               *)
Answer(t) ==
  /\ tx' = [tx EXCEPT ![t] = Idle(@.calls)]
  /\ UNCHANGED <<rows, history, acks, seq>>

-----------------------------------------------------------------------------
(* The rows a transaction locks.                                           *)

SameText(r, text) == text # None /\ r.text = text
SameTopic(r, topic) == topic \in Topic /\ r.topic = topic

(* The WHERE clause of the three statements.                               *)
Matches(op, m) ==
  /\ Exists(m)
  /\ \/ m \in op.targets \cup {op.mem}
     \/ ~rows[m].deleted /\ (SameText(rows[m], op.text) \/ SameTopic(rows[m], op.topic))

(* The first statement: the snapshot of a SELECT ... FOR UPDATE, or the    *)
(* read without a lock with which an update begins.                        *)
Begun(op) ==
  IF op.kind = "update"
  THEN [pc |-> IF Live(op.mem) THEN "select" ELSE "idle", todo |-> {}]
  ELSE [pc |-> "lock", todo |-> {m \in Memory : Matches(op, m)}]

Began(op, tries, calls) ==
  IF Begun(op).pc = "idle" THEN Idle(calls)
  ELSE [Idle(calls) EXCEPT !.op = op, !.tries = tries,
                           !.pc = Begun(op).pc, !.todo = Begun(op).todo]

Call(t, op) ==
  /\ tx[t].pc = "idle" /\ tx[t].calls < MaxCalls[t]
  /\ tx' = [tx EXCEPT ![t] = Began(op, 0, @.calls + 1)]
  /\ UNCHANGED <<rows, history, acks, seq>>

Again(t) ==
  /\ tx[t].pc = "again"
  /\ tx' = [tx EXCEPT ![t] = Began(@.op, @.tries, @.calls)]
  /\ UNCHANGED <<rows, history, acks, seq>>

Select(t) ==
  /\ tx[t].pc = "select"
  /\ tx' = [tx EXCEPT ![t].pc = "lock", ![t].todo = {m \in Memory : Matches(tx[t].op, m)}]
  /\ UNCHANGED <<rows, history, acks, seq>>

(* Mutants: locks in any order, or rows read without a lock.               *)
NextInAnyOrder(t, m) == m \in tx[t].todo
Unlocked(t, m) == m \in tx[t].todo

NextInOrder(t, m) == m \in tx[t].todo /\ \A n \in tx[t].todo : m <= n
LockFree(t, m) == \A u \in Writer \ {t} : m \notin tx[u].locked

(* FOR UPDATE: wait for the lock, then test the row again.                 *)
LockRow(t, m) ==
  /\ tx[t].pc = "lock" /\ NextInOrder(t, m) /\ LockFree(t, m)
  /\ tx' = [tx EXCEPT ![t].todo = @ \ {m},
                      ![t].locked = IF Matches(tx[t].op, m) THEN @ \cup {m} ELSE @]
  /\ UNCHANGED <<rows, history, acks, seq>>

-----------------------------------------------------------------------------
(* The decision, with every row locked.                                    *)

Deciding(t, kind) == tx[t].pc = "lock" /\ tx[t].todo = {} /\ tx[t].op.kind = kind

Scoped(t) == {m \in tx[t].locked : ~rows[m].deleted}
TopicRows(t) == {m \in Scoped(t) : SameTopic(rows[m], tx[t].op.topic)}
TextRows(t) == {m \in Scoped(t) : SameText(rows[m], tx[t].op.text)}

BadTargets(t) == {m \in tx[t].op.targets : m \notin tx[t].locked \/ rows[m].deleted}
Clash(t) == \E m \in TopicRows(t), n \in TextRows(t) : m # n

(* The row is written, and in neither unique index yet.                    *)
Put(t, m, row) ==
  /\ row.version <= MaxVersion
  /\ tx' = [tx EXCEPT ![t].mem = m, ![t].row = row,
                      ![t].pc = IF row.deleted THEN "commit" ELSE "text"]
  /\ UNCHANGED <<rows, history, acks, seq>>

RefuseAdd(t) ==
  /\ Deciding(t, "add")
  /\ \/ BadTargets(t) # {} /\ Answer(t)
     \/ BadTargets(t) = {} /\ Clash(t) /\ Answer(t)

Deduplicate(t) ==
  /\ Deciding(t, "add") /\ BadTargets(t) = {} /\ ~Clash(t)
  /\ TextRows(t) # {}
  /\ Answer(t)

(* A topic's record takes the new text in place, active again, and the new *)
(* supersedes list if there is one.                                        *)
Replace(t, m) ==
  LET op == tx[t].op
  IN  /\ Deciding(t, "add") /\ BadTargets(t) = {} /\ TextRows(t) = {}
      /\ m \in TopicRows(t)
      /\ Put(t, m, [rows[m] EXCEPT !.version = @ + 1, !.text = op.text, !.superseded = FALSE,
                      !.supersedes = IF op.targets = {} THEN @ ELSE op.targets])

Unused(m) == ~Exists(m) /\ \A u \in Writer : tx[u].mem # m

Insert(t, m) ==
  LET op == tx[t].op
  IN  /\ Deciding(t, "add") /\ BadTargets(t) = {}
      /\ TextRows(t) \cup TopicRows(t) = {}
      /\ Unused(m)
      /\ Put(t, m, [NoRow EXCEPT !.version = 1, !.text = op.text, !.topic = op.topic,
                                 !.supersedes = op.targets])

Changed(r, op) ==
  [r EXCEPT !.text = IF op.text = None THEN @ ELSE op.text,
            !.topic = IF op.topic = Keep THEN @ ELSE op.topic]

Update(t) ==
  LET op == tx[t].op
      new == Changed(rows[op.mem], op)
  IN  /\ Deciding(t, "update")
      /\ \/ op.mem \notin Scoped(t) /\ Answer(t)
         \/ op.mem \in Scoped(t) /\ Scoped(t) # {op.mem} /\ Answer(t)
         \/ /\ Scoped(t) = {op.mem} /\ new = rows[op.mem]
            /\ Answer(t)
         \/ /\ Scoped(t) = {op.mem} /\ new # rows[op.mem]
            /\ Put(t, op.mem, [new EXCEPT !.version = @ + 1])

Delete(t) ==
  LET m == tx[t].op.mem
  IN  /\ Deciding(t, "delete")
      /\ \/ m \notin Scoped(t) /\ Answer(t)
         \/ m \in Scoped(t) /\ Put(t, m, [rows[m] EXCEPT !.version = @ + 1, !.deleted = TRUE])

-----------------------------------------------------------------------------
(* The unique indexes, first content_hash and then topic_key.              *)

SameKey(index, r, s) ==
  IF index = "text" THEN SameText(r, s.text) ELSE SameTopic(r, s.topic)

Writing(u) == tx[u].pc \in {"text", "topic", "commit"}
Entered(u, index) == tx[u].pc = "commit" \/ (index = "text" /\ tx[u].pc = "topic")

(* Committed live rows with the key, and transactions that may change it.  *)
Holders(t, index) ==
  {m \in Memory \ {tx[t].mem} : Live(m) /\ SameKey(index, rows[m], tx[t].row)}

InDoubt(t, index) ==
  {u \in Writer \ {t} : Writing(u) /\
     \/ tx[u].mem \in Holders(t, index)
     \/ Entered(u, index) /\ ~tx[u].row.deleted /\ SameKey(index, tx[u].row, tx[t].row)}

(* Mutant: no unique index.                                                *)
FreeAlways(t, index) == tx[t].pc = index

Free(t, index) == InDoubt(t, index) = {} /\ Holders(t, index) = {}

EnterIndex(t, index) ==
  /\ tx[t].pc = index /\ Free(t, index)
  /\ tx' = [tx EXCEPT ![t].pc = IF index = "text" THEN "topic" ELSE "commit"]
  /\ UNCHANGED <<rows, history, acks, seq>>

(* Mutant: one retry too many.                                             *)
ExhaustedLate(t) == tx[t].tries > MaxRetries[t]

Exhausted(t) == tx[t].tries >= MaxRetries[t]

(* UniqueViolation: roll back and start again, up to MAX_WRITE_RETRIES.    *)
Violation(t, index) ==
  /\ tx[t].pc = index /\ InDoubt(t, index) = {} /\ Holders(t, index) # {}
  /\ \/ Exhausted(t) /\ Answer(t)
     \/ /\ ~Exhausted(t)
        /\ tx' = [tx EXCEPT ![t] = [Idle(@.calls) EXCEPT !.op = tx[t].op,
                    !.tries = tx[t].tries + 1, !.pc = "again"]]
        /\ UNCHANGED <<rows, history, acks, seq>>

-----------------------------------------------------------------------------
(* Commit: the row, the marks of _supersede, a snapshot of each changed    *)
(* row, and no acknowledgement left for any of them.                       *)

Marked(t) ==
  {n \in tx[t].op.targets \ {tx[t].mem} : ~rows[n].superseded}

(* Mutants: the superseded keep their acknowledgement, or their history.   *)
WrittenFirst(t) == {tx[t].mem}
SnapshotOfOne(t, m) == IF m = tx[t].mem THEN Append(history[m], [tx[t].row EXCEPT !.seq = seq + 1]) ELSE history[m]

WrittenBy(t) == {tx[t].mem} \cup Marked(t)

RowAfter(t, m) ==
  IF m = tx[t].mem THEN [tx[t].row EXCEPT !.seq = seq + 1]
  ELSE IF m \in Marked(t)
       THEN [rows[m] EXCEPT !.version = @ + 1, !.superseded = TRUE,
                            !.seq = seq + 1 + Cardinality({n \in Marked(t) : n <= m})]
       ELSE rows[m]

Snapshot(t, m) ==
  IF m \in {tx[t].mem} \cup Marked(t) THEN Append(history[m], RowAfter(t, m)) ELSE history[m]

Commit(t) ==
  /\ tx[t].pc = "commit"
  /\ \A n \in Marked(t) : rows[n].version < MaxVersion
  /\ rows' = [m \in Memory |-> RowAfter(t, m)]
  /\ history' = [m \in Memory |-> Snapshot(t, m)]
  /\ acks' = [m \in Memory |-> IF m \in WrittenBy(t) THEN 0 ELSE acks[m]]
  /\ seq' = seq + Cardinality(WrittenBy(t))
  /\ tx' = [tx EXCEPT ![t] = Idle(@.calls)]

-----------------------------------------------------------------------------
(* An index acknowledges a version it read.  A first acknowledgement       *)
(* refers to the row, so it waits for a lock on it.                        *)
Acknowledge(m, version) ==
  /\ version \in 1..rows[m].version /\ acks[m] < version
  /\ acks[m] = 0 => \A u \in Writer : m \notin tx[u].locked
  /\ acks' = [acks EXCEPT ![m] = version]
  /\ UNCHANGED <<rows, history, seq, tx>>

(* Postgres breaks a cycle of waits by failing one of its transactions.    *)
WaitsFor(t) ==
  CASE tx[t].pc = "lock" ->
         {u \in Writer \ {t} : \E m \in tx[u].locked : NextInOrder(t, m)}
    [] tx[t].pc \in {"text", "topic"} -> InDoubt(t, tx[t].pc)
    [] OTHER -> {}

Deadlocked(S) == S # {} /\ \A t \in S : WaitsFor(t) \cap S # {}

DeadlockVictim(t) ==
  /\ \E S \in SUBSET Writer : t \in S /\ Deadlocked(S)
  /\ Answer(t)

-----------------------------------------------------------------------------
Calls == {op \in
  {AddOp(x, k, T) : x \in Text, k \in Topic \cup {None}, T \in SUBSET Memory} \cup
  {UpdateOp(m, x, k) : m \in Memory, x \in Text \cup {None}, k \in Topic \cup {None, Keep}} \cup
  {DeleteOp(m) : m \in Memory} : op.kind \in Kind}

(* Names of records are answers of the store: a call names records that    *)
(* exist, a deleted one included.                                          *)
Known(op) == \A m \in op.targets \cup ({op.mem} \ {None}) : Exists(m)

(* Memory is a bound: an add begins only if there is an id left for it.    *)
Room(op) ==
  op.kind = "add" => Cardinality({m \in Memory : ~Exists(m)})
                       > Cardinality({u \in Writer : tx[u].op.kind = "add"})

Step(t) ==
  \/ Again(t) \/ Select(t)
  \/ \E m \in Memory : LockRow(t, m) \/ Replace(t, m) \/ Insert(t, m)
  \/ RefuseAdd(t) \/ Deduplicate(t) \/ Update(t) \/ Delete(t)
  \/ \E index \in {"text", "topic"} : EnterIndex(t, index) \/ Violation(t, index)
  \/ Commit(t)
  \/ DeadlockVictim(t)

(* Every client has made its calls.  A transaction that waits for ever     *)
(* stops anywhere else, which TLC reports as a deadlock.                   *)
Resting ==
  /\ \A t \in Writer : tx[t].pc = "idle" /\ tx[t].calls = MaxCalls[t]
  /\ UNCHANGED vars

Next ==
  \/ \E t \in Writer : Step(t)
  \/ \E t \in Writer, op \in Calls : Known(op) /\ Room(op) /\ Call(t, op)
  \/ \E m \in Followed, v \in 1..MaxVersion : Acknowledge(m, v)
  \/ Resting

Spec == Init /\ [][Next]_vars

-----------------------------------------------------------------------------
(* Properties.                                                             *)

(* A text, and a topic, has at most one live record whatever writes race.  *)
OneLiveRecord ==
  \A m, n \in Memory : Live(m) /\ Live(n) /\ m # n =>
    /\ rows[m].text # rows[n].text
    /\ rows[m].topic = None \/ rows[m].topic # rows[n].topic

(* The history of a record is its versions 1, 2, ... without a gap, and    *)
(* ends with the row as it is, for every way a write can change a row.     *)
HistoryComplete ==
  \A m \in Memory :
    /\ Len(history[m]) = rows[m].version
    /\ \A i \in 1..Len(history[m]) : history[m][i].version = i
    /\ Exists(m) => history[m][rows[m].version] = rows[m]

(* An add that was answered left its text live in one record; unless it    *)
(* was deduplicated, every other record it supersedes is live and marked.  *)
AddAnswered ==
  [][\A t \in Writer :
       LET op == tx[t].op
           Holding(m) == rows'[m].text = op.text /\ ~rows'[m].deleted
       IN  op.kind = "add" =>
             /\ Deduplicate(t) => \E m \in Memory : Holding(m)
             /\ Commit(t) => Holding(tx[t].mem) /\
                  \A n \in op.targets \ {tx[t].mem} : rows'[n].superseded /\ ~rows'[n].deleted]_vars

(* Row locks alone never close a cycle: every transaction takes them in    *)
(* the order of memory_id.                                                 *)
RowLocksOrdered ==
  \A S \in SUBSET {t \in Writer : tx[t].pc = "lock"} : ~Deadlocked(S)

(* Every commit is one write of the store the indexes see: one record      *)
(* added, changed or deleted, with the records it supersedes, and no       *)
(* acknowledgement of an older version left.                               *)
Store == INSTANCE CanonicalStore WITH
  Model <- {"model"},
  MaxGeneration <- 1,
  rows <- [m \in Memory |-> [version |-> rows[m].version, text |-> rows[m].text,
                             deleted |-> rows[m].deleted]],
  acks <- [m \in Memory |-> [version |-> acks[m],
                             generation |-> IF acks[m] = 0 THEN 0 ELSE 1]],
  meta <- [generation |-> 1, model |-> "model"]

RefinesStore == Store!StoreSpec

(* What newer_records names for a superseded record: the newest active     *)
(* record that lists it.                                                   *)
Listing(m) == {n \in Memory : Live(n) /\ ~rows[n].superseded /\ m \in rows[n].supersedes}

Newer(m) ==
  {n \in Listing(m) : Live(m) /\ rows[m].superseded
     /\ \A k \in Listing(m) : history[k][1].seq <= history[n][1].seq}

(* The change_seq a record had when it was last active.                    *)
LastActive(m) ==
  LET active == {i \in 1..Len(history[m]) : ~history[m][i].superseded}
  IN  history[m][CHOOSE i \in active : \A j \in active : j <= i].seq

(* The record a "Newer:" line names for a superseded one is later: it was  *)
(* written after that record was last active.                              *)
NewerIsLater == \A m \in Memory : \A n \in Newer(m) : rows[n].seq > LastActive(m)
=============================================================================
