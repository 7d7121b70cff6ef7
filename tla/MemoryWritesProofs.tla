-------------------------- MODULE MemoryWritesProofs --------------------------
(***************************************************************************)
(* Proofs about MemoryWrites for every set of records, texts, topics and   *)
(* clients, and every bound.                                               *)
(*                                                                         *)
(* The argument: row locks keep apart the transactions that write or mark  *)
(* the same rows, so what a transaction decided on its locked rows still   *)
(* holds when it commits (LockInv, WriteInv).  The rows it did not lock    *)
(* are kept apart by the unique indexes: one that has entered its key in   *)
(* an index excludes every live row and every other transaction with the   *)
(* same key (KeyInv).  A commit therefore finds the store as its decision  *)
(* left it, where the key counts.  That row locks close no cycle has an    *)
(* invariant of its own (OrderInv): of the transactions that wait for one  *)
(* another, one has the least ahead.                                       *)
(***************************************************************************)
EXTENDS MemoryWrites, FiniteSetTheorems, WellFoundedInduction, TLAPS

-----------------------------------------------------------------------------
(* The inductive invariant.                                                *)

(* An add has a text and names a topic or none; others supersede nothing.  *)
OpInv ==
  \A t \in Writer :
    /\ tx[t].op.kind = "add" => tx[t].op.text \in Text /\ tx[t].op.topic # Keep
    /\ tx[t].op.kind # "add" => tx[t].op.targets = {}

(* A locked row exists, and has one owner.                                 *)
LockInv ==
  /\ \A t \in Writer : \A m \in tx[t].locked : Exists(m)
  /\ \A t, u \in Writer : t # u => tx[t].locked \cap tx[u].locked = {}

(* A row to be written is locked and live, or new; what it supersedes is   *)
(* locked and live.                                                        *)
Prepared(t) ==
  /\ tx[t].mem \in Memory
  /\ \/ tx[t].mem \in tx[t].locked /\ ~rows[tx[t].mem].deleted
     \/ ~Exists(tx[t].mem) /\ ~tx[t].row.deleted
  /\ tx[t].row.version = rows[tx[t].mem].version + 1
  /\ tx[t].row.text # None
  /\ tx[t].row.deleted => tx[t].row.text = rows[tx[t].mem].text /\ tx[t].pc = "commit"
  /\ \A n \in tx[t].op.targets : n \in tx[t].locked /\ ~rows[n].deleted
  /\ tx[t].op.kind = "add" => tx[t].row.text = tx[t].op.text /\ ~tx[t].row.deleted
  /\ tx[t].row.deleted => tx[t].op.targets = {}

WriteInv ==
  /\ \A t \in Writer : Writing(t) => Prepared(t)
  /\ \A t, u \in Writer : t # u /\ Writing(t) /\ Writing(u) => tx[t].mem # tx[u].mem

Claims(t, index) == Entered(t, index) /\ ~tx[t].row.deleted

(* A key that a transaction has entered belongs to no other live row, and  *)
(* no other transaction has entered it.                                    *)
KeyInv ==
  \A t \in Writer, index \in {"text", "topic"} : Claims(t, index) =>
    /\ \A m \in Memory : m # tx[t].mem /\ Live(m) => ~SameKey(index, rows[m], tx[t].row)
    /\ \A u \in Writer : u # t /\ Claims(u, index) => ~SameKey(index, tx[u].row, tx[t].row)

(* A stored row has a text.                                                *)
RowInv == \A m \in Memory : Exists(m) => rows[m].text # None

IInv ==
  /\ TypeOK
  /\ OpInv
  /\ LockInv
  /\ WriteInv
  /\ KeyInv
  /\ RowInv
  /\ OneLiveRecord
  /\ HistoryComplete

-----------------------------------------------------------------------------
(* Type correctness.                                                       *)

(* A transaction of t that is well typed, within its bounds, and calls an  *)
(* operation as clients do.                                                *)
TxOK(x, t) ==
  /\ x \in Transaction
  /\ x.tries <= MaxRetries[t] /\ x.calls <= MaxCalls[t]
  /\ x.op.kind = "add" => x.op.text \in Text /\ x.op.topic # Keep
  /\ x.op.kind # "add" => x.op.targets = {}

(* Bounds and versions are natural numbers.                                *)
LEMMA Numbers ==
  ASSUME TypeOK
  PROVE  /\ \A m \in Memory : rows[m].version \in Nat /\ rows[m].seq \in Nat /\ m \in Nat
         /\ \A t \in Writer : /\ tx[t].tries \in Nat /\ tx[t].calls \in Nat
                              /\ tx[t].row.version \in Nat
                              /\ MaxRetries[t] \in Nat /\ MaxCalls[t] \in Nat
BY WritesAssumption DEF TypeOK, Row, Transaction, WritesAssumption

(* A row that was never inserted has the type of a row.                    *)
LEMMA NoRowType == NoRow \in Row
BY WritesAssumption DEF NoRow, Row, WritesAssumption

(* A client without a transaction is well typed.                           *)
LEMMA IdleType ==
  ASSUME NEW calls \in Nat
  PROVE  /\ Idle(calls) \in Transaction
         /\ Idle(calls).pc = "idle" /\ Idle(calls).locked = {} /\ Idle(calls).mem = None
         /\ Idle(calls).op.kind = "delete" /\ Idle(calls).op.targets = {}
         /\ Idle(calls).tries = 0 /\ Idle(calls).calls = calls
BY NoRowType DEF Idle, Transaction, NoOp, DeleteOp, Op

(* A transaction that begins an operation is well typed, and holds nothing.*)
LEMMA BeganType ==
  ASSUME TypeOK, NEW op \in Op, NEW tries \in Nat, NEW calls \in Nat, NEW t \in Writer,
         tries <= MaxRetries[t], calls <= MaxCalls[t],
         op.kind = "add" => op.text \in Text /\ op.topic # Keep,
         op.kind # "add" => op.targets = {}
  PROVE  /\ TxOK(Began(op, tries, calls), t)
         /\ Began(op, tries, calls).pc \in {"idle", "select", "lock"}
         /\ Began(op, tries, calls).locked = {}
<1>1. CASE Begun(op).pc = "idle"
  BY <1>1, IdleType, Numbers DEF Began, TxOK
<1>2. CASE Begun(op).pc # "idle"
  <2>1. Begun(op).pc \in {"select", "lock"} /\ Begun(op).todo \in SUBSET Memory
    BY <1>2 DEF Begun
  <2>2. Began(op, tries, calls) =
          [Idle(calls) EXCEPT !.op = op, !.tries = tries, !.pc = Begun(op).pc, !.todo = Begun(op).todo]
    BY <1>2 DEF Began
  <2>3. Began(op, tries, calls) =
          [pc |-> Begun(op).pc, op |-> op, todo |-> Begun(op).todo, locked |-> {}, mem |-> None,
           row |-> NoRow, tries |-> tries, calls |-> calls]
    BY <2>2 DEF Idle
  <2>4. Began(op, tries, calls) \in Transaction
    BY <2>1, <2>3, NoRowType DEF Transaction
  <2>5. QED
    BY <2>1, <2>3, <2>4 DEF TxOK
<1>3. QED
  BY <1>1, <1>2

(* What changes one transaction only keeps the types.                      *)
LEMMA MovesType ==
  ASSUME TypeOK, OpInv, NEW t \in Writer, NEW new, TxOK(new, t),
         tx' = [tx EXCEPT ![t] = new], UNCHANGED <<rows, history, acks, seq>>
  PROVE  TypeOK' /\ OpInv'
BY DEF TypeOK, OpInv, TxOK

(* A transaction as it is fits its client.                                 *)
LEMMA StateType ==
  ASSUME TypeOK, OpInv, NEW t \in Writer
  PROVE  TxOK(tx[t], t)
BY DEF TypeOK, OpInv, TxOK

(* Putting down the row to be written keeps the types.                     *)
LEMMA PutType ==
  ASSUME TypeOK, OpInv, NEW t \in Writer, NEW m \in Memory, NEW row \in Row, Put(t, m, row)
  PROVE  TypeOK' /\ OpInv'
<1> DEFINE pc == IF row.deleted THEN "commit" ELSE "text"
           new == [tx[t] EXCEPT !.mem = m, !.row = row, !.pc = pc]
<1>1. TxOK(new, t)
  BY StateType DEF TxOK, Transaction
<1>2. tx' = [tx EXCEPT ![t] = new]
  BY DEF Put
<1>3. QED
  BY <1>1, <1>2, MovesType DEF Put

(* A new row is a row.                                                     *)
LEMMA NewRowType ==
  ASSUME NEW x \in Text \cup {None}, NEW k \in Topic \cup {None}, NEW T \in SUBSET Memory
  PROVE  [NoRow EXCEPT !.version = 1, !.text = x, !.topic = k, !.supersedes = T] \in Row
<1> DEFINE one == [NoRow EXCEPT !.version = 1]
<1>1. 1 \in 0..MaxVersion
  BY WritesAssumption DEF WritesAssumption
<1>2. one \in Row
  BY <1>1, NoRowType DEF Row
<1>3. [NoRow EXCEPT !.version = 1, !.text = x, !.topic = k, !.supersedes = T]
        = [one EXCEPT !.text = x, !.topic = k, !.supersedes = T]
  BY NoRowType DEF Row
<1> HIDE DEF one
<1>4. [one EXCEPT !.text = x, !.topic = k, !.supersedes = T] \in Row
  BY <1>2 DEF Row
<1>5. QED
  BY <1>3, <1>4

(* The row that a commit leaves is a row, and later than the one before it.*)
LEMMA RowAfterType ==
  ASSUME TypeOK, OpInv, WriteInv, NEW t \in Writer, Commit(t), NEW m \in Memory
  PROVE  /\ RowAfter(t, m) \in Row
         /\ m \in WrittenBy(t) => RowAfter(t, m).version = rows[m].version + 1
<1>0. tx[t].row \in Row /\ rows[m] \in Row /\ seq \in Nat
  BY DEF TypeOK, Transaction
<1>1. CASE m = tx[t].mem
  <2>1. RowAfter(t, m) = [tx[t].row EXCEPT !.seq = seq + 1]
    BY <1>1 DEF RowAfter
  <2>2. tx[t].row.version = rows[m].version + 1
    BY <1>1 DEF WriteInv, Prepared, Writing, Commit
  <2>3. QED
    BY <1>0, <2>1, <2>2 DEF Row
<1>2. CASE m # tx[t].mem /\ m \in Marked(t)
  <2> DEFINE place == Cardinality({n \in Marked(t) : n <= m})
  <2>1. RowAfter(t, m) = [rows[m] EXCEPT !.version = rows[m].version + 1, !.superseded = TRUE,
                                         !.seq = seq + 1 + place]
    BY <1>2 DEF RowAfter
  <2>2. {n \in Marked(t) : n <= m} \in SUBSET Memory
    BY DEF Marked, TypeOK, Transaction, Op
  <2>3. place \in Nat
    BY <2>2, FS_Subset, FS_CardinalityType, WritesAssumption DEF WritesAssumption
  <2>4. rows[m].version < MaxVersion
    BY <1>2 DEF Commit
  <2>5. rows[m].version + 1 \in 0..MaxVersion
    BY <1>0, <2>4, WritesAssumption DEF Row, WritesAssumption
  <2>6. seq + 1 + place \in Nat
    BY <1>0, <2>3
  <2> HIDE DEF place
  <2>7. QED
    BY <1>0, <2>1, <2>5, <2>6 DEF Row
<1>3. CASE m # tx[t].mem /\ m \notin Marked(t)
  BY <1>0, <1>3 DEF RowAfter, WrittenBy
<1>4. QED
  BY <1>1, <1>2, <1>3

(* A commit keeps the types.                                               *)
LEMMA CommitType ==
  ASSUME TypeOK, OpInv, WriteInv, NEW t \in Writer, Commit(t)
  PROVE  TypeOK' /\ OpInv'
<1>1. rows' \in [Memory -> Row]
  BY RowAfterType DEF Commit
<1>2. history' \in [Memory -> Seq(Row)]
  <2>1. ASSUME NEW m \in Memory
        PROVE  Snapshot(t, m) \in Seq(Row)
    <3>1. history[m] \in Seq(Row) /\ RowAfter(t, m) \in Row
      BY RowAfterType DEF TypeOK
    <3>2. QED
      BY <3>1 DEF Snapshot
  <2>2. QED
    BY <2>1 DEF Commit
<1>3. acks' \in [Memory -> 0..MaxVersion]
  BY WritesAssumption DEF Commit, TypeOK, WritesAssumption
<1>4. seq' \in Nat
  <2>1. WrittenBy(t) \in SUBSET Memory
    BY DEF WrittenBy, Marked, WriteInv, Prepared, Writing, Commit, TypeOK, Transaction, Op
  <2>2. Cardinality(WrittenBy(t)) \in Nat
    BY <2>1, FS_Subset, FS_CardinalityType, WritesAssumption DEF WritesAssumption
  <2>3. QED
    BY <2>2 DEF Commit, TypeOK
<1>5. tx' = [tx EXCEPT ![t] = Idle(tx[t].calls)] /\ TxOK(Idle(tx[t].calls), t)
  BY IdleType, Numbers DEF Commit, TxOK, TypeOK
<1>6. QED
  BY <1>1, <1>2, <1>3, <1>4, <1>5 DEF TypeOK, OpInv, TxOK

-----------------------------------------------------------------------------
(* What a step does to one transaction.                                    *)

(* Transaction t becomes new, which writes nothing and has new locks on    *)
(* free rows that exist only.                                              *)
Moves(t, new) ==
  /\ tx' = [tx EXCEPT ![t] = new]
  /\ UNCHANGED <<rows, history, acks, seq>>
  /\ TxOK(new, t)
  /\ new.pc \notin {"text", "topic", "commit"}
  /\ \A m \in new.locked : m \in tx[t].locked \/ (Exists(m) /\ LockFree(t, m))

(* Transaction t puts down the row it writes, as its locked rows allow.    *)
Puts(t, m, row) ==
  /\ Put(t, m, row)
  /\ row \in Row
  /\ tx[t].pc = "lock"
  /\ \/ m \in tx[t].locked /\ ~rows[m].deleted
     \/ ~Exists(m) /\ ~row.deleted /\ \A u \in Writer : tx[u].mem # m
  /\ row.version = rows[m].version + 1
  /\ row.text # None
  /\ row.deleted => row.text = rows[m].text /\ tx[t].op.targets = {}
  /\ \A n \in tx[t].op.targets : n \in tx[t].locked /\ ~rows[n].deleted
  /\ tx[t].op.kind = "add" => row.text = tx[t].op.text /\ ~row.deleted

(* A transaction that ends without a change moves.                         *)
LEMMA AnswerMoves ==
  ASSUME TypeOK, OpInv, NEW t \in Writer, Answer(t)
  PROVE  \E new : Moves(t, new)
<1> DEFINE new == Idle(tx[t].calls)
<1>1. /\ tx[t].calls \in Nat /\ tx[t].calls <= MaxCalls[t] /\ MaxRetries[t] \in Nat
  BY Numbers DEF TypeOK
<1>2. TxOK(new, t) /\ new.pc = "idle" /\ new.locked = {}
  BY <1>1, IdleType DEF TxOK
<1> HIDE DEF new
<1>3. tx' = [tx EXCEPT ![t] = new] /\ UNCHANGED <<rows, history, acks, seq>>
  BY DEF Answer, new
<1>4. QED
  BY <1>2, <1>3 DEF Moves

(* So does one that begins an operation, or begins it again.               *)
LEMMA BeganMoves ==
  ASSUME TypeOK, NEW t \in Writer, NEW op \in Op, NEW tries \in Nat, NEW calls \in Nat,
         tries <= MaxRetries[t], calls <= MaxCalls[t],
         op.kind = "add" => op.text \in Text /\ op.topic # Keep,
         op.kind # "add" => op.targets = {},
         tx' = [tx EXCEPT ![t] = Began(op, tries, calls)],
         UNCHANGED <<rows, history, acks, seq>>
  PROVE  \E new : Moves(t, new)
<1> DEFINE new == Began(op, tries, calls)
<1>1. TxOK(new, t) /\ new.pc \in {"idle", "select", "lock"} /\ new.locked = {}
  BY BeganType
<1> HIDE DEF new
<1>2. tx' = [tx EXCEPT ![t] = new]
  BY DEF new
<1>3. QED
  BY <1>1, <1>2 DEF Moves

(* The operations that clients call are well typed.                        *)
LEMMA CallsType ==
  ASSUME NEW op \in Calls
  PROVE  /\ op \in Op
         /\ op.kind = "add" => op.text \in Text /\ op.topic # Keep
         /\ op.kind # "add" => op.targets = {}
<1>0. None \notin Text \cup Topic /\ Keep \notin Topic /\ Keep # None
  BY WritesAssumption DEF WritesAssumption
<1>1. CASE \E x \in Text, k \in Topic \cup {None}, T \in SUBSET Memory : op = AddOp(x, k, T)
  <2>1. PICK x \in Text, k \in Topic \cup {None}, T \in SUBSET Memory : op = AddOp(x, k, T)
    BY <1>1
  <2>2. QED
    BY <1>0, <2>1 DEF AddOp, Op
<1>2. CASE \E m \in Memory, x \in Text \cup {None}, k \in Topic \cup {None, Keep} :
             op = UpdateOp(m, x, k)
  <2>1. PICK m \in Memory, x \in Text \cup {None}, k \in Topic \cup {None, Keep} :
               op = UpdateOp(m, x, k)
    BY <1>2
  <2>2. QED
    BY <2>1 DEF UpdateOp, Op
<1>3. CASE \E m \in Memory : op = DeleteOp(m)
  BY <1>3 DEF DeleteOp, Op
<1> DEFINE adds == {AddOp(x, k, T) : x \in Text, k \in Topic \cup {None}, T \in SUBSET Memory}
           updates == {UpdateOp(m, x, k) : m \in Memory, x \in Text \cup {None},
                                           k \in Topic \cup {None, Keep}}
           deletes == {DeleteOp(m) : m \in Memory}
<1>4. op \in adds \cup updates \cup deletes
  BY DEF Calls
<1>5. op \in adds => \E x \in Text, k \in Topic \cup {None}, T \in SUBSET Memory : op = AddOp(x, k, T)
  OBVIOUS
<1>6. op \in updates => \E m \in Memory, x \in Text \cup {None}, k \in Topic \cup {None, Keep} :
                           op = UpdateOp(m, x, k)
  OBVIOUS
<1>7. op \in deletes => \E m \in Memory : op = DeleteOp(m)
  OBVIOUS
<1> HIDE DEF adds, updates, deletes
<1>8. QED
  BY <1>1, <1>2, <1>3, <1>4, <1>5, <1>6, <1>7

(* A call, a second attempt, and the statements that choose and lock rows  *)
(* only move a transaction.                                                *)
LEMMA LockingMoves ==
  ASSUME TypeOK, OpInv, NEW t \in Writer
  PROVE  /\ \A op \in Calls : Call(t, op) => \E new : Moves(t, new)
         /\ Again(t) => \E new : Moves(t, new)
         /\ Select(t) => \E new : Moves(t, new)
         /\ \A m \in Memory : LockRow(t, m) => \E new : Moves(t, new)
<1>0. /\ tx[t].tries \in Nat /\ tx[t].calls \in Nat /\ MaxRetries[t] \in Nat /\ MaxCalls[t] \in Nat
      /\ tx[t].tries <= MaxRetries[t] /\ tx[t].calls <= MaxCalls[t]
      /\ TxOK(tx[t], t) /\ tx[t] \in Transaction
  BY Numbers, StateType DEF TypeOK
<1>1. ASSUME NEW op \in Calls, Call(t, op)
      PROVE  \E new : Moves(t, new)
  <2>1. tx[t].calls + 1 \in Nat /\ tx[t].calls + 1 <= MaxCalls[t] /\ 0 <= MaxRetries[t]
    BY <1>0, <1>1 DEF Call
  <2>2. tx' = [tx EXCEPT ![t] = Began(op, 0, tx[t].calls + 1)]
    BY <1>1 DEF Call
  <2>3. UNCHANGED <<rows, history, acks, seq>>
    BY <1>1 DEF Call
  <2>4. QED
    BY <2>1, <2>2, <2>3, CallsType, BeganMoves
<1>2. ASSUME Again(t)
      PROVE  \E new : Moves(t, new)
  <2>1. tx[t].op \in Op
    BY <1>0 DEF Transaction
  <2>2. /\ tx[t].op.kind = "add" => tx[t].op.text \in Text /\ tx[t].op.topic # Keep
        /\ tx[t].op.kind # "add" => tx[t].op.targets = {}
    BY DEF OpInv
  <2>3. tx' = [tx EXCEPT ![t] = Began(tx[t].op, tx[t].tries, tx[t].calls)]
    BY <1>2 DEF Again
  <2>4. UNCHANGED <<rows, history, acks, seq>>
    BY <1>2 DEF Again
  <2>5. QED
    BY <1>0, <2>1, <2>2, <2>3, <2>4, BeganMoves
<1>3. ASSUME Select(t)
      PROVE  \E new : Moves(t, new)
  <2> DEFINE new == [tx[t] EXCEPT !.pc = "lock", !.todo = {m \in Memory : Matches(tx[t].op, m)}]
  <2>1. TxOK(new, t) /\ new.pc = "lock" /\ new.locked = tx[t].locked
    BY <1>0 DEF TxOK, Transaction
  <2>2. tx' = [tx EXCEPT ![t] = new]
    BY <1>3 DEF Select
  <2> HIDE DEF new
  <2>3. QED
    BY <1>3, <2>1, <2>2 DEF Moves, Select
<1>4. ASSUME NEW m \in Memory, LockRow(t, m)
      PROVE  \E new : Moves(t, new)
  <2> DEFINE held == IF Matches(tx[t].op, m) THEN tx[t].locked \cup {m} ELSE tx[t].locked
             new == [tx[t] EXCEPT !.todo = tx[t].todo \ {m}, !.locked = held]
  <2>1. held \in SUBSET Memory
    BY <1>0 DEF Transaction
  <2>2. \A n \in held : n \in tx[t].locked \/ (Exists(n) /\ LockFree(t, n))
    BY <1>4 DEF LockRow, Matches
  <2>3. tx' = [tx EXCEPT ![t] = new]
    BY <1>4 DEF LockRow
  <2> HIDE DEF held
  <2>4. TxOK(new, t) /\ new.pc = "lock" /\ new.locked = held
    BY <1>0, <1>4, <2>1 DEF TxOK, Transaction, LockRow
  <2> HIDE DEF new
  <2>5. QED
    BY <1>4, <2>2, <2>3, <2>4 DEF Moves, LockRow
<1>5. QED
  BY <1>1, <1>2, <1>3, <1>4

(* A transaction that a unique violation rolled back, before it begins again. *)
Retried(calls, op, tries) == [Idle(calls) EXCEPT !.op = op, !.tries = tries, !.pc = "again"]

(* It has its operation, and nothing else.                                 *)
LEMMA AgainType ==
  ASSUME NEW calls \in Nat, NEW op \in Op, NEW tries \in Nat
  PROVE  /\ Retried(calls, op, tries) \in Transaction
         /\ Retried(calls, op, tries).pc = "again" /\ Retried(calls, op, tries).locked = {}
         /\ Retried(calls, op, tries).op = op
         /\ Retried(calls, op, tries).tries = tries /\ Retried(calls, op, tries).calls = calls
<1> DEFINE x == Idle(calls)
           new == Retried(calls, op, tries)
<1>1. x \in Transaction /\ x.locked = {} /\ x.calls = calls
  BY IdleType
<1>2. new = [x EXCEPT !.op = op, !.tries = tries, !.pc = "again"]
  BY DEF Retried
<1> HIDE DEF x, new
<1>3. new \in Transaction
  BY <1>1, <1>2 DEF Transaction
<1>4. new.pc = "again" /\ new.locked = {} /\ new.op = op /\ new.tries = tries /\ new.calls = calls
  BY <1>1, <1>2 DEF Transaction
<1>5. QED
  BY <1>3, <1>4 DEF new

(* A unique violation only moves a transaction.                            *)
LEMMA ViolationMoves ==
  ASSUME TypeOK, OpInv, NEW t \in Writer, NEW index \in {"text", "topic"}, Violation(t, index)
  PROVE  \E new : Moves(t, new)
<1>1. CASE Answer(t)
  BY <1>1, AnswerMoves
<1>2. CASE ~Answer(t)
  <2> DEFINE new == Retried(tx[t].calls, tx[t].op, tx[t].tries + 1)
  <2>0. /\ tx[t].tries \in Nat /\ tx[t].calls \in Nat /\ MaxRetries[t] \in Nat
        /\ tx[t].calls <= MaxCalls[t] /\ tx[t].op \in Op
    BY Numbers DEF TypeOK, Transaction
  <2>1. /\ tx[t].op.kind = "add" => tx[t].op.text \in Text /\ tx[t].op.topic # Keep
        /\ tx[t].op.kind # "add" => tx[t].op.targets = {}
    BY DEF OpInv
  <2>2. ~Exhausted(t)
    BY <1>2 DEF Violation
  <2>3. tx' = [tx EXCEPT ![t] = new] /\ UNCHANGED <<rows, history, acks, seq>>
    BY <1>2 DEF Violation, Retried
  <2>4. tx[t].tries + 1 \in Nat /\ tx[t].tries + 1 <= MaxRetries[t]
    BY <2>0, <2>2 DEF Exhausted
  <2>5. /\ new \in Transaction
        /\ new.pc = "again" /\ new.locked = {} /\ new.op = tx[t].op
        /\ new.tries = tx[t].tries + 1 /\ new.calls = tx[t].calls
    BY <2>0, <2>4, AgainType
  <2> HIDE DEF new
  <2>6. TxOK(new, t)
    BY <2>0, <2>1, <2>4, <2>5 DEF TxOK
  <2>7. QED
    BY <2>3, <2>5, <2>6 DEF Moves
<1>3. QED
  BY <1>1, <1>2

(* No target is refused: each is locked and live.                          *)
LEMMA GoodTargets ==
  ASSUME NEW t \in Writer, BadTargets(t) = {}
  PROVE  \A n \in tx[t].op.targets : n \in tx[t].locked /\ ~rows[n].deleted
BY DEF BadTargets

(* A topic's record that takes a text is put down.                         *)
LEMMA ReplacePuts ==
  ASSUME TypeOK, OpInv, LockInv, NEW t \in Writer, NEW m \in Memory, Replace(t, m)
  PROVE  \E row : Puts(t, m, row)
<1> DEFINE op == tx[t].op
           row == [rows[m] EXCEPT !.version = @ + 1, !.text = op.text, !.superseded = FALSE,
                     !.supersedes = IF op.targets = {} THEN @ ELSE op.targets]
<1>1. rows[m] \in Row /\ op \in Op /\ op.text \in Text /\ op.kind = "add" /\ tx[t].pc = "lock"
  BY DEF TypeOK, Transaction, OpInv, Replace, Deciding
<1>2. Put(t, m, row) /\ BadTargets(t) = {} /\ m \in TopicRows(t)
  BY DEF Replace
<1>3. m \in tx[t].locked /\ ~rows[m].deleted
  BY <1>2 DEF TopicRows, Scoped
<1>4. row.version = rows[m].version + 1 /\ row.text = op.text /\ row.deleted = rows[m].deleted
  BY <1>1 DEF Row
<1>5. row.version <= MaxVersion
  BY <1>2 DEF Put
<1>6. op.targets \in SUBSET Memory
  BY <1>1 DEF Op
<1>7. rows[m].version + 1 \in 0..MaxVersion
  <2>1. rows[m].version \in Nat /\ rows[m].version + 1 <= MaxVersion
    BY <1>4, <1>5, Numbers
  <2> HIDE DEF row, op
  <2>2. QED
    BY <2>1, WritesAssumption DEF WritesAssumption
<1>8. row \in Row
  BY <1>1, <1>6, <1>7 DEF Row
<1> HIDE DEF row
<1>9. row.text # None
  BY <1>1, <1>4, WritesAssumption DEF WritesAssumption
<1>10. \A n \in op.targets : n \in tx[t].locked /\ ~rows[n].deleted
  BY <1>2, GoodTargets
<1>11. Puts(t, m, row)
  BY <1>1, <1>2, <1>3, <1>4, <1>8, <1>9, <1>10 DEF Puts
<1>12. QED
  BY <1>11

(* A new row is put down.                                                  *)
LEMMA InsertPuts ==
  ASSUME TypeOK, OpInv, LockInv, NEW t \in Writer, NEW m \in Memory, Insert(t, m)
  PROVE  \E row : Puts(t, m, row)
<1> DEFINE op == tx[t].op
           row == [NoRow EXCEPT !.version = 1, !.text = op.text, !.topic = op.topic,
                                !.supersedes = op.targets]
<1>1. op \in Op /\ op.text \in Text /\ op.topic \in Topic \cup {None} /\ op.kind = "add"
      /\ tx[t].pc = "lock"
  BY DEF TypeOK, Transaction, OpInv, Insert, Deciding, Op
<1>2. Put(t, m, row) /\ BadTargets(t) = {} /\ Unused(m)
  BY DEF Insert
<1>3. op.text \in Text \cup {None} /\ op.targets \in SUBSET Memory
  BY <1>1 DEF Op
<1>4. row \in Row /\ row.version = 1 /\ row.text = op.text /\ row.deleted = FALSE
  <2> HIDE DEF op
  <2>1. row \in Row
    BY <1>1, <1>3, NewRowType
  <2>2. row.version = 1 /\ row.text = op.text /\ row.deleted = FALSE
    BY NoRowType DEF NoRow
  <2>3. QED
    BY <2>1, <2>2
<1>5. rows[m].version = 0
  BY <1>2, Numbers DEF Unused, Exists
<1>6. \A n \in op.targets : n \in tx[t].locked /\ ~rows[n].deleted
  BY <1>2, GoodTargets
<1> HIDE DEF row
<1>7. row.text # None
  BY <1>1, <1>4, WritesAssumption DEF WritesAssumption
<1>8. ~Exists(m) /\ \A u \in Writer : tx[u].mem # m
  BY <1>2 DEF Unused
<1>9. row.version = rows[m].version + 1
  BY <1>4, <1>5
<1>10. Puts(t, m, row)
  BY <1>1, <1>2, <1>4, <1>6, <1>7, <1>8, <1>9 DEF Puts
<1>11. QED
  BY <1>10

(* A changed row is put down, or the update changes nothing.               *)
LEMMA UpdatePuts ==
  ASSUME TypeOK, OpInv, LockInv, RowInv, NEW t \in Writer, Update(t)
  PROVE  Answer(t) \/ \E m \in Memory : \E row : Puts(t, m, row)
<1> DEFINE op == tx[t].op
           m == op.mem
           new == Changed(rows[m], op)
           row == [new EXCEPT !.version = @ + 1]
<1>1. op \in Op /\ op.kind = "update" /\ tx[t].pc = "lock" /\ op.targets = {}
      /\ tx[t].locked \in SUBSET Memory
  BY DEF TypeOK, Transaction, OpInv, Update, Deciding
<1>2. SUFFICES ASSUME ~Answer(t)
               PROVE  \E n \in Memory : \E r : Puts(t, n, r)
  OBVIOUS
<1>3. Scoped(t) = {m} /\ Put(t, m, row)
  BY <1>2 DEF Update
<1>4. m \in tx[t].locked /\ ~rows[m].deleted
  BY <1>3 DEF Scoped
<1>5. m \in Memory /\ rows[m] \in Row /\ Exists(m)
  BY <1>1, <1>4 DEF TypeOK, LockInv
<1>6. rows[m].text # None
  BY <1>5 DEF RowInv
<1>7. new.version = rows[m].version /\ new.deleted = rows[m].deleted
      /\ new.text = (IF op.text = None THEN rows[m].text ELSE op.text) /\ new \in Row
  <2>1. op.text \in Text \cup {None} /\ op.topic \in Topic \cup {None, Keep}
    BY <1>1 DEF Op
  <2>2. QED
    BY <1>5, <2>1 DEF Changed, Row
<1>8. new.text # None
  BY <1>6, <1>7
<1> HIDE DEF new
<1>9. row.version = new.version + 1 /\ row.deleted = new.deleted /\ row.text = new.text
  BY <1>7 DEF Row
<1>10. row.version <= MaxVersion
  BY <1>3 DEF Put
<1>11. rows[m].version + 1 \in 0..MaxVersion
  <2>1. rows[m].version \in Nat /\ rows[m].version + 1 <= MaxVersion
    BY <1>5, <1>7, <1>9, <1>10, Numbers
  <2> HIDE DEF m, op
  <2>2. QED
    BY <2>1, WritesAssumption DEF WritesAssumption
<1>12. row \in Row
  BY <1>7, <1>9, <1>11 DEF Row
<1> HIDE DEF row
<1>13. row.version = rows[m].version + 1 /\ row.text # None /\ row.deleted = rows[m].deleted
  BY <1>7, <1>8, <1>9
<1>14. Puts(t, m, row)
  BY <1>1, <1>3, <1>4, <1>12, <1>13 DEF Puts
<1>15. QED
  BY <1>5, <1>14

(* A deleted row is put down, or there is none to delete.                  *)
LEMMA DeletePuts ==
  ASSUME TypeOK, OpInv, LockInv, RowInv, NEW t \in Writer, Delete(t)
  PROVE  Answer(t) \/ \E m \in Memory : \E row : Puts(t, m, row)
<1> DEFINE op == tx[t].op
           m == op.mem
           row == [rows[m] EXCEPT !.version = @ + 1, !.deleted = TRUE]
<1>1. op \in Op /\ op.kind = "delete" /\ tx[t].pc = "lock" /\ op.targets = {}
      /\ tx[t].locked \in SUBSET Memory
  BY DEF TypeOK, Transaction, OpInv, Delete, Deciding
<1>2. SUFFICES ASSUME ~Answer(t)
               PROVE  \E n \in Memory : \E r : Puts(t, n, r)
  OBVIOUS
<1>3. m \in Scoped(t) /\ Put(t, m, row)
  BY <1>2 DEF Delete
<1>4. m \in tx[t].locked /\ ~rows[m].deleted
  BY <1>3 DEF Scoped
<1>5. m \in Memory /\ rows[m] \in Row /\ Exists(m)
  BY <1>1, <1>4 DEF TypeOK, LockInv
<1>6. rows[m].text # None
  BY <1>5 DEF RowInv
<1>7. row.version = rows[m].version + 1 /\ row.deleted /\ row.text = rows[m].text
  BY <1>5 DEF Row
<1>8. row.version <= MaxVersion
  BY <1>3 DEF Put
<1>9. rows[m].version + 1 \in 0..MaxVersion
  <2>1. rows[m].version \in Nat /\ rows[m].version + 1 <= MaxVersion
    BY <1>5, <1>7, <1>8, Numbers
  <2> HIDE DEF row, m, op
  <2>2. QED
    BY <2>1, WritesAssumption DEF WritesAssumption
<1>10. row \in Row
  BY <1>5, <1>9 DEF Row
<1> HIDE DEF row
<1>11. Puts(t, m, row)
  BY <1>1, <1>3, <1>4, <1>6, <1>7, <1>10 DEF Puts
<1>12. QED
  BY <1>5, <1>11

(* Every step is one of these.                                             *)
LEMMA StepKinds ==
  ASSUME TypeOK, OpInv, LockInv, RowInv, Next
  PROVE  \/ \E t \in Writer : \E new : Moves(t, new)
         \/ \E t \in Writer, m \in Memory : \E row : Puts(t, m, row)
         \/ \E t \in Writer, index \in {"text", "topic"} : EnterIndex(t, index)
         \/ \E t \in Writer : Commit(t)
         \/ \E m \in Memory, v \in 1..MaxVersion : Acknowledge(m, v)
         \/ UNCHANGED vars
<1>1. CASE \E t \in Writer, op \in Calls : Known(op) /\ Room(op) /\ Call(t, op)
  BY <1>1, LockingMoves
<1>2. CASE \E m \in Followed, v \in 1..MaxVersion : Acknowledge(m, v)
  BY <1>2, WritesAssumption DEF WritesAssumption
<1>3. CASE Resting
  BY <1>3 DEF Resting
<1>4. ASSUME NEW t \in Writer, Step(t)
      PROVE  \/ \E new : Moves(t, new)
             \/ \E m \in Memory : \E row : Puts(t, m, row)
             \/ \E index \in {"text", "topic"} : EnterIndex(t, index)
             \/ Commit(t)
  <2>1. CASE Again(t) \/ Select(t) \/ \E m \in Memory : LockRow(t, m)
    BY <2>1, LockingMoves
  <2>2. CASE \E m \in Memory : Replace(t, m) \/ Insert(t, m)
    BY <2>2, ReplacePuts, InsertPuts
  <2>3. CASE RefuseAdd(t) \/ Deduplicate(t) \/ DeadlockVictim(t)
    <3>1. Answer(t)
      BY <2>3 DEF RefuseAdd, Deduplicate, DeadlockVictim
    <3>2. QED
      BY <3>1, AnswerMoves
  <2>4. CASE Update(t) \/ Delete(t)
    BY <2>4, UpdatePuts, DeletePuts, AnswerMoves
  <2>5. CASE \E index \in {"text", "topic"} : EnterIndex(t, index) \/ Violation(t, index)
    BY <2>5, ViolationMoves
  <2>6. CASE Commit(t)
    BY <2>6
  <2>7. QED
    BY <1>4, <2>1, <2>2, <2>3, <2>4, <2>5, <2>6 DEF Step
<1>5. QED
  BY <1>1, <1>2, <1>3, <1>4 DEF Next

-----------------------------------------------------------------------------
(* The steps keep the invariant: types, locks and rows to be written.      *)

(* Entering an index keeps the types.                                      *)
LEMMA EnterType ==
  ASSUME TypeOK, OpInv, NEW t \in Writer, NEW index \in {"text", "topic"}, EnterIndex(t, index)
  PROVE  TypeOK' /\ OpInv'
<1> DEFINE pc == IF index = "text" THEN "topic" ELSE "commit"
           new == [tx[t] EXCEPT !.pc = pc]
<1>1. TxOK(new, t)
  BY StateType DEF TxOK, Transaction
<1>2. tx' = [tx EXCEPT ![t] = new] /\ UNCHANGED <<rows, history, acks, seq>>
  BY DEF EnterIndex
<1> HIDE DEF new
<1>3. QED
  BY <1>1, <1>2, MovesType

(* Every step keeps the types.                                             *)
LEMMA TypeStep ==
  ASSUME IInv, [Next]_vars
  PROVE  TypeOK' /\ OpInv'
<1> USE DEF IInv
<1>1. ASSUME NEW t \in Writer, NEW new, Moves(t, new)
      PROVE  TypeOK' /\ OpInv'
  BY <1>1, MovesType DEF Moves
<1>2. ASSUME NEW t \in Writer, NEW m \in Memory, NEW row, Puts(t, m, row)
      PROVE  TypeOK' /\ OpInv'
  BY <1>2, PutType DEF Puts
<1>3. ASSUME NEW m \in Memory, NEW v \in 1..MaxVersion, Acknowledge(m, v)
      PROVE  TypeOK' /\ OpInv'
  <2>1. v \in 0..MaxVersion
    BY WritesAssumption DEF WritesAssumption
  <2>2. QED
    BY <1>3, <2>1 DEF Acknowledge, TypeOK, OpInv
<1>4. CASE UNCHANGED vars
  BY <1>4 DEF vars, TypeOK, OpInv
<1>5. QED
  BY <1>1, <1>2, <1>3, <1>4, EnterType, CommitType, StepKinds

(* Only rows of its own transaction change in a commit: the row it writes  *)
(* and the rows it marks, which it has locked.                             *)
LEMMA CommitOwn ==
  ASSUME IInv, NEW t \in Writer, Commit(t)
  PROVE  /\ tx[t].mem \in Memory
         /\ \A m \in Marked(t) : m \in tx[t].locked /\ m \in Memory /\ Exists(m) /\ ~rows[m].deleted
         /\ \A m \in Memory : m \notin WrittenBy(t) => rows'[m] = rows[m]
<1>1. Prepared(t) /\ tx[t] \in Transaction
  BY DEF IInv, TypeOK, WriteInv, Writing, Commit
<1>2. tx[t].mem \in Memory
  BY <1>1 DEF Prepared
<1>3. \A m \in Marked(t) : m \in tx[t].locked /\ m \in Memory /\ Exists(m) /\ ~rows[m].deleted
  BY <1>1 DEF IInv, LockInv, Marked, Prepared, Transaction
<1>4. \A m \in Memory : m \notin WrittenBy(t) => rows'[m] = rows[m]
  BY DEF Commit, RowAfter, WrittenBy
<1>5. QED
  BY <1>2, <1>3, <1>4

(* The row it writes is the one it put down; the others it marks keep      *)
(* their text, topic and life.                                             *)
LEMMA CommitRows ==
  ASSUME IInv, NEW t \in Writer, Commit(t), NEW m \in Memory
  PROVE  /\ m = tx[t].mem => /\ rows'[m].version = tx[t].row.version
                             /\ rows'[m].text = tx[t].row.text
                             /\ rows'[m].topic = tx[t].row.topic
                             /\ rows'[m].deleted = tx[t].row.deleted
         /\ m # tx[t].mem => /\ rows'[m].text = rows[m].text
                             /\ rows'[m].topic = rows[m].topic
                             /\ rows'[m].deleted = rows[m].deleted
                             /\ Exists(m)' <=> Exists(m)
         /\ Exists(m) => Exists(m)'
<1>0. tx[t].row \in Row /\ rows[m] \in Row /\ rows[m].version \in Nat
  BY Numbers DEF IInv, TypeOK, Transaction
<1>1. rows'[m] = RowAfter(t, m)
  BY DEF Commit
<1>2. m \in WrittenBy(t) => rows'[m].version = rows[m].version + 1
  BY <1>1, RowAfterType DEF IInv
<1>3. m \in WrittenBy(t) => rows'[m].version > 0
  BY <1>0, <1>2
<1>4. CASE m = tx[t].mem
  <2>1. rows'[m] = [tx[t].row EXCEPT !.seq = seq + 1]
    BY <1>1, <1>4 DEF RowAfter
  <2>2. /\ rows'[m].version = tx[t].row.version /\ rows'[m].text = tx[t].row.text
        /\ rows'[m].topic = tx[t].row.topic /\ rows'[m].deleted = tx[t].row.deleted
    BY <1>0, <2>1 DEF Row
  <2>3. Exists(m)'
    BY <1>3, <1>4 DEF Exists, WrittenBy
  <2>4. QED
    BY <1>4, <2>2, <2>3
<1>5. CASE m # tx[t].mem /\ m \in Marked(t)
  <2> DEFINE s == seq + 1 + Cardinality({n \in Marked(t) : n <= m})
             v == rows[m].version + 1
  <2>1. rows'[m] = [rows[m] EXCEPT !.version = v, !.superseded = TRUE, !.seq = s]
    BY <1>1, <1>5 DEF RowAfter
  <2> HIDE DEF s, v
  <2>2. /\ rows'[m].text = rows[m].text /\ rows'[m].topic = rows[m].topic
        /\ rows'[m].deleted = rows[m].deleted
    BY <1>0, <2>1 DEF Row
  <2>3. Exists(m)' /\ Exists(m)
    BY <1>3, <1>5, CommitOwn DEF Exists, WrittenBy
  <2>4. QED
    BY <1>5, <2>2, <2>3
<1>6. CASE m # tx[t].mem /\ m \notin Marked(t)
  BY <1>1, <1>6 DEF RowAfter, Exists
<1>7. QED
  BY <1>4, <1>5, <1>6

(* What another transaction has locked, or is to write, a commit leaves.   *)
LEMMA CommitLeaves ==
  ASSUME IInv, NEW t \in Writer, Commit(t), NEW u \in Writer, u # t
  PROVE  /\ \A m \in tx[u].locked : rows'[m] = rows[m]
         /\ Writing(u) => rows'[tx[u].mem] = rows[tx[u].mem]
<1>1. Prepared(t) /\ Writing(t)
  BY DEF IInv, WriteInv, Writing, Commit
<1>2. ASSUME NEW m \in tx[u].locked
      PROVE  rows'[m] = rows[m]
  <2>1. m \in Memory /\ Exists(m) /\ m \notin tx[t].locked
    BY DEF IInv, TypeOK, Transaction, LockInv
  <2>2. m \notin WrittenBy(t)
    BY <1>1, <2>1, CommitOwn DEF WrittenBy, Prepared
  <2>3. QED
    BY <2>1, <2>2, CommitOwn
<1>3. ASSUME Writing(u)
      PROVE  rows'[tx[u].mem] = rows[tx[u].mem]
  <2>1. Prepared(u) /\ tx[u].mem # tx[t].mem
    BY <1>1, <1>3 DEF IInv, WriteInv
  <2>2. CASE tx[u].mem \in tx[u].locked
    BY <1>2, <2>2
  <2>3. CASE ~Exists(tx[u].mem)
    <3>1. tx[u].mem \in Memory /\ tx[u].mem \notin WrittenBy(t)
      BY <2>1, <2>3, CommitOwn DEF WrittenBy, Prepared
    <3>2. QED
      BY <3>1, CommitOwn
  <2>4. QED
    BY <2>1, <2>2, <2>3 DEF Prepared
<1>4. QED
  BY <1>2, <1>3

(* Every step keeps locks apart.                                           *)
LEMMA LockStep ==
  ASSUME IInv, [Next]_vars
  PROVE  LockInv'
<1>0. TypeOK /\ OpInv /\ LockInv /\ RowInv /\ tx \in [Writer -> Transaction]
  BY DEF IInv, TypeOK
<1>1. ASSUME NEW t \in Writer, NEW new, Moves(t, new)
      PROVE  LockInv'
  <2>1. tx' = [tx EXCEPT ![t] = new] /\ rows' = rows
    BY <1>1 DEF Moves
  <2>2. \A m \in new.locked : Exists(m) /\ \A u \in Writer \ {t} : m \notin tx[u].locked
    BY <1>0, <1>1 DEF Moves, LockInv, LockFree
  <2>3. QED
    BY <1>0, <2>1, <2>2 DEF LockInv, Exists
<1>2. ASSUME NEW t \in Writer, NEW m \in Memory, NEW row, Puts(t, m, row)
      PROVE  LockInv'
  <2>1. rows' = rows /\ \A u \in Writer : tx'[u].locked = tx[u].locked
    BY <1>0, <1>2 DEF Puts, Put, Transaction
  <2>2. QED
    BY <1>0, <2>1 DEF LockInv, Exists
<1>3. ASSUME NEW t \in Writer, NEW index \in {"text", "topic"}, EnterIndex(t, index)
      PROVE  LockInv'
  <2>1. rows' = rows /\ \A u \in Writer : tx'[u].locked = tx[u].locked
    BY <1>0, <1>3 DEF EnterIndex, Transaction
  <2>2. QED
    BY <1>0, <2>1 DEF LockInv, Exists
<1>4. ASSUME NEW t \in Writer, Commit(t)
      PROVE  LockInv'
  <2>1. \A u \in Writer : tx'[u].locked = IF u = t THEN {} ELSE tx[u].locked
    BY <1>0, <1>4 DEF Commit, Idle
  <2>2. \A m \in Memory : Exists(m) => Exists(m)'
    BY <1>4, CommitRows
  <2>3. \A u \in Writer : tx[u].locked \in SUBSET Memory
    BY <1>0 DEF Transaction
  <2>4. QED
    BY <1>0, <2>1, <2>2, <2>3 DEF LockInv
<1>5. ASSUME NEW m \in Memory, NEW v \in 1..MaxVersion, Acknowledge(m, v)
      PROVE  LockInv'
  BY <1>0, <1>5 DEF Acknowledge, LockInv, Exists
<1>6. CASE UNCHANGED vars
  BY <1>0, <1>6 DEF vars, LockInv, Exists
<1>7. QED
  BY <1>0, <1>1, <1>2, <1>3, <1>4, <1>5, <1>6, StepKinds

(* What is prepared stays prepared while its client and its rows stay.     *)
LEMMA StillPrepared ==
  ASSUME NEW u \in Writer, Prepared(u), tx'[u] = tx[u],
         rows'[tx[u].mem] = rows[tx[u].mem],
         \A n \in tx[u].op.targets : rows'[n] = rows[n]
  PROVE  Prepared(u)'
BY DEF Prepared, Exists

(* Every step keeps the rows to be written prepared, and apart.            *)
LEMMA WriteStep ==
  ASSUME IInv, [Next]_vars
  PROVE  WriteInv'
<1>0. TypeOK /\ OpInv /\ LockInv /\ RowInv /\ WriteInv /\ tx \in [Writer -> Transaction]
  BY DEF IInv, TypeOK
<1>1. ASSUME NEW t \in Writer, NEW new, Moves(t, new)
      PROVE  WriteInv'
  <2>1. tx' = [tx EXCEPT ![t] = new] /\ rows' = rows /\ new.pc \notin {"text", "topic", "commit"}
    BY <1>1 DEF Moves
  <2>2. ASSUME NEW u \in Writer, Writing(u)'
        PROVE  tx'[u] = tx[u] /\ Writing(u) /\ Prepared(u)'
    <3>1. u # t /\ tx'[u] = tx[u]
      BY <1>0, <2>1, <2>2 DEF Writing
    <3>2. Writing(u) /\ Prepared(u)
      BY <1>0, <2>2, <3>1 DEF Writing, WriteInv
    <3>3. QED
      BY <2>1, <3>1, <3>2, StillPrepared
  <2>3. QED
    BY <1>0, <2>2 DEF WriteInv
<1>2. ASSUME NEW t \in Writer, NEW m \in Memory, NEW row, Puts(t, m, row)
      PROVE  WriteInv'
  <2> DEFINE pc == IF row.deleted THEN "commit" ELSE "text"
             new == [tx[t] EXCEPT !.mem = m, !.row = row, !.pc = pc]
  <2>1. tx' = [tx EXCEPT ![t] = new] /\ rows' = rows
    BY <1>2 DEF Puts, Put
  <2>2. /\ new.mem = m /\ new.row = row /\ new.pc = pc
        /\ new.locked = tx[t].locked /\ new.op = tx[t].op
    BY <1>0 DEF Transaction
  <2>3. tx[t].pc = "lock" /\ ~Writing(t)
    BY <1>2 DEF Puts, Writing
  <2>4. tx'[t] = new
    BY <1>0, <2>1
  <2>5. Prepared(t)'
    <3> HIDE DEF new
    <3>1. /\ tx'[t].mem = m /\ tx'[t].row = row /\ tx'[t].pc = pc
          /\ tx'[t].locked = tx[t].locked /\ tx'[t].op = tx[t].op
      BY <2>2, <2>4
    <3>2. QED
      BY <1>2, <2>1, <3>1 DEF Puts, Prepared, Exists
  <2>6. ASSUME NEW u \in Writer, u # t, Writing(u)'
        PROVE  Writing(u) /\ tx'[u] = tx[u] /\ Prepared(u)' /\ tx[u].mem # m
    <3>1. tx'[u] = tx[u]
      BY <1>0, <2>1, <2>6
    <3>2. Writing(u) /\ Prepared(u)
      BY <1>0, <2>6, <3>1 DEF Writing, WriteInv
    <3>3. tx[u].mem # m
      <4>1. CASE m \in tx[t].locked
        BY <1>0, <2>6, <3>2, <4>1 DEF Prepared, LockInv
      <4>2. CASE \A w \in Writer : tx[w].mem # m
        BY <4>2
      <4>3. QED
        BY <1>2, <4>1, <4>2 DEF Puts
    <3>4. QED
      BY <2>1, <3>1, <3>2, <3>3, StillPrepared
  <2>7. tx'[t].mem = m
    BY <2>2, <2>4
  <2> HIDE DEF new
  <2>8. \A u \in Writer : Writing(u)' => Prepared(u)'
    BY <2>5, <2>6
  <2>9. \A u \in Writer : u # t /\ Writing(u)' => tx'[u].mem = tx[u].mem /\ Writing(u) /\ tx[u].mem # m
    BY <2>6
  <2>10. QED
    BY <1>0, <2>7, <2>8, <2>9 DEF WriteInv
<1>3. ASSUME NEW t \in Writer, NEW index \in {"text", "topic"}, EnterIndex(t, index)
      PROVE  WriteInv'
  <2> DEFINE pc == IF index = "text" THEN "topic" ELSE "commit"
             new == [tx[t] EXCEPT !.pc = pc]
  <2>1. tx' = [tx EXCEPT ![t] = new] /\ rows' = rows /\ tx[t].pc = index
    BY <1>3 DEF EnterIndex
  <2>2. /\ new.mem = tx[t].mem /\ new.row = tx[t].row /\ new.op = tx[t].op
        /\ new.locked = tx[t].locked /\ new.pc = pc
    BY <1>0 DEF Transaction
  <2>3. Writing(t) /\ Prepared(t) /\ tx'[t] = new
    BY <1>0, <2>1 DEF Writing, WriteInv
  <2>4. ~tx[t].row.deleted
    BY <2>1, <2>3 DEF Prepared
  <2> HIDE DEF new
  <2>5. /\ tx'[t].mem = tx[t].mem /\ tx'[t].row = tx[t].row /\ tx'[t].op = tx[t].op
        /\ tx'[t].locked = tx[t].locked
    BY <2>2, <2>3
  <2>6. Prepared(t)'
    BY <2>1, <2>3, <2>4, <2>5 DEF Prepared, Exists
  <2>7. ASSUME NEW u \in Writer, u # t, Writing(u)'
        PROVE  Writing(u) /\ tx'[u].mem = tx[u].mem /\ Prepared(u)'
    <3>1. tx'[u] = tx[u]
      BY <1>0, <2>1, <2>7
    <3>2. Writing(u) /\ Prepared(u)
      BY <1>0, <2>7, <3>1 DEF Writing, WriteInv
    <3>3. QED
      BY <2>1, <3>1, <3>2, StillPrepared
  <2>8. \A u \in Writer : Writing(u)' => Prepared(u)' /\ Writing(u) /\ tx'[u].mem = tx[u].mem
    BY <2>3, <2>5, <2>6, <2>7
  <2>9. QED
    BY <1>0, <2>8 DEF WriteInv
<1>4. ASSUME NEW t \in Writer, Commit(t)
      PROVE  WriteInv'
  <2>1. tx'[t].pc = "idle" /\ \A u \in Writer : u # t => tx'[u] = tx[u]
    BY <1>0, <1>4 DEF Commit, Idle
  <2>2. ASSUME NEW u \in Writer, Writing(u)'
        PROVE  u # t /\ tx'[u] = tx[u] /\ Writing(u) /\ Prepared(u)'
    <3>1. u # t /\ tx'[u] = tx[u] /\ Writing(u)
      BY <2>1, <2>2 DEF Writing
    <3>2. Prepared(u)
      BY <1>0, <3>1 DEF WriteInv
    <3>3. \A n \in tx[u].op.targets : n \in tx[u].locked
      BY <3>2 DEF Prepared
    <3>4. QED
      BY <1>4, <3>1, <3>2, <3>3, CommitLeaves, StillPrepared
  <2>3. \A u \in Writer : Writing(u)' => Prepared(u)' /\ Writing(u) /\ tx'[u].mem = tx[u].mem
    BY <2>2
  <2>4. QED
    BY <1>0, <2>3 DEF WriteInv
<1>5. CASE rows' = rows /\ tx' = tx
  BY <1>0, <1>5 DEF WriteInv, Prepared, Writing, Exists
<1>6. ASSUME NEW m \in Memory, NEW v \in 1..MaxVersion, Acknowledge(m, v)
      PROVE  WriteInv'
  BY <1>5, <1>6 DEF Acknowledge
<1>7. CASE UNCHANGED vars
  BY <1>5, <1>7 DEF vars
<1>8. QED
  BY <1>0, <1>1, <1>2, <1>3, <1>4, <1>6, <1>7, StepKinds

-----------------------------------------------------------------------------
(* The steps keep the invariant: keys and stored rows.                     *)

(* What the entered keys exclude follows from rows and from transactions   *)
(* that are as they were, or have given up their claim.                    *)
LEMMA FewerClaims ==
  ASSUME KeyInv, rows' = rows, NEW t \in Writer, tx \in [Writer -> Transaction],
         \A u \in Writer : u # t => tx'[u] = tx[u],
         \A index \in {"text", "topic"} : ~Claims(t, index)'
  PROVE  KeyInv'
<1>1. SUFFICES ASSUME NEW u \in Writer, NEW index \in {"text", "topic"}, Claims(u, index)'
               PROVE  /\ \A m \in Memory : m # tx'[u].mem /\ Live(m)' => ~SameKey(index, rows'[m], tx'[u].row)
                      /\ \A w \in Writer : w # u /\ Claims(w, index)' => ~SameKey(index, tx'[w].row, tx'[u].row)
  BY DEF KeyInv
<1>2. u # t /\ tx'[u] = tx[u] /\ Claims(u, index)
  BY <1>1 DEF Claims, Entered
<1>3. \A m \in Memory : Live(m)' => Live(m)
  BY DEF Live, Exists
<1>4. \A w \in Writer : Claims(w, index)' => tx'[w] = tx[w] /\ Claims(w, index)
  BY DEF Claims, Entered
<1>5. QED
  BY <1>2, <1>3, <1>4 DEF KeyInv

(* Same keys are symmetric.                                                *)
LEMMA SameKeySymmetric ==
  ASSUME NEW index \in {"text", "topic"}, NEW r, NEW s, SameKey(index, r, s)
  PROVE  SameKey(index, s, r)
BY DEF SameKey, SameText, SameTopic

(* A key is of a row's text and topic alone.                               *)
LEMMA SameKeyFields ==
  ASSUME NEW index \in {"text", "topic"}, NEW r, NEW s, NEW q,
         q.text = r.text, q.topic = r.topic
  PROVE  SameKey(index, q, s) <=> SameKey(index, r, s)
BY DEF SameKey, SameText, SameTopic

(* Every step keeps entered keys exclusive.                                *)
LEMMA KeyStep ==
  ASSUME IInv, [Next]_vars
  PROVE  KeyInv'
<1>0. TypeOK /\ OpInv /\ LockInv /\ RowInv /\ WriteInv /\ KeyInv /\ tx \in [Writer -> Transaction]
  BY DEF IInv, TypeOK
<1>1. ASSUME NEW t \in Writer, NEW new, Moves(t, new)
      PROVE  KeyInv'
  <2>1. tx' = [tx EXCEPT ![t] = new] /\ rows' = rows /\ new.pc \notin {"text", "topic", "commit"}
    BY <1>1 DEF Moves
  <2>2. \A index \in {"text", "topic"} : ~Claims(t, index)'
    BY <1>0, <2>1 DEF Claims, Entered
  <2>3. \A u \in Writer : u # t => tx'[u] = tx[u]
    BY <1>0, <2>1
  <2>4. QED
    BY <1>0, <2>1, <2>2, <2>3, FewerClaims
<1>2. ASSUME NEW t \in Writer, NEW m \in Memory, NEW row, Puts(t, m, row)
      PROVE  KeyInv'
  <2>1. /\ tx' = [tx EXCEPT ![t].mem = m, ![t].row = row,
                            ![t].pc = IF row.deleted THEN "commit" ELSE "text"]
        /\ rows' = rows
    BY <1>2 DEF Puts, Put
  <2>2. tx'[t].row = row /\ tx'[t].pc = (IF row.deleted THEN "commit" ELSE "text")
    BY <1>0, <2>1 DEF Transaction
  <2>3. \A index \in {"text", "topic"} : ~Claims(t, index)'
    BY <2>2 DEF Claims, Entered
  <2>4. \A u \in Writer : u # t => tx'[u] = tx[u]
    BY <1>0, <2>1
  <2>5. QED
    BY <1>0, <2>1, <2>3, <2>4, FewerClaims
<1>3. ASSUME NEW t \in Writer, NEW index \in {"text", "topic"}, EnterIndex(t, index)
      PROVE  KeyInv'
  <2>1. /\ tx' = [tx EXCEPT ![t].pc = IF index = "text" THEN "topic" ELSE "commit"]
        /\ rows' = rows /\ tx[t].pc = index /\ Free(t, index)
    BY <1>3 DEF EnterIndex
  <2>2. /\ tx'[t].pc = (IF index = "text" THEN "topic" ELSE "commit")
        /\ tx'[t].row = tx[t].row /\ tx'[t].mem = tx[t].mem
        /\ \A u \in Writer : u # t => tx'[u] = tx[u]
    BY <1>0, <2>1 DEF Transaction
  <2>3. Writing(t) /\ Prepared(t) /\ ~tx[t].row.deleted
    BY <1>0, <2>1 DEF Writing, WriteInv, Prepared
  <2>4. ASSUME NEW m \in Memory, m # tx[t].mem, Live(m)
        PROVE  ~SameKey(index, rows[m], tx[t].row)
    BY <2>1, <2>4 DEF Free, Holders
  <2>5. ASSUME NEW u \in Writer, u # t, Claims(u, index)
        PROVE  ~SameKey(index, tx[u].row, tx[t].row)
    <3>1. Writing(u) /\ Entered(u, index) /\ ~tx[u].row.deleted
      BY <2>5 DEF Claims, Entered, Writing
    <3>2. QED
      BY <2>1, <2>5, <3>1 DEF Free, InDoubt
  <2>6. ASSUME NEW k \in {"text", "topic"}, Claims(t, k)'
        PROVE  k = index \/ Claims(t, k)
    BY <2>1, <2>2, <2>3, <2>6 DEF Claims, Entered
  <2>7. ASSUME NEW k \in {"text", "topic"}, NEW u \in Writer, u # t
        PROVE  Claims(u, k)' <=> Claims(u, k)
    BY <2>2, <2>7 DEF Claims, Entered
  <2>8. \A m \in Memory : Live(m)' <=> Live(m)
    BY <2>1 DEF Live, Exists
  <2>9. ASSUME NEW u \in Writer, NEW k \in {"text", "topic"}, Claims(u, k)'
        PROVE  \A m \in Memory : m # tx[u].mem /\ Live(m) => ~SameKey(k, rows[m], tx[u].row)
    BY <1>0, <2>4, <2>6, <2>7, <2>9 DEF KeyInv
  <2>10. ASSUME NEW u \in Writer, NEW k \in {"text", "topic"}, Claims(u, k)',
                NEW w \in Writer, w # u, Claims(w, k)'
         PROVE  ~SameKey(k, tx[w].row, tx[u].row)
    <3>1. CASE u # t /\ w # t
      BY <1>0, <2>7, <2>10, <3>1 DEF KeyInv
    <3>2. CASE u = t
      <4>1. Claims(w, k)
        BY <2>7, <2>10, <3>2
      <4>2. CASE k = index
        BY <2>5, <2>10, <3>2, <4>1, <4>2
      <4>3. CASE Claims(t, k)
        BY <1>0, <2>10, <3>2, <4>1, <4>3 DEF KeyInv
      <4>4. QED
        BY <2>6, <2>10, <3>2, <4>2, <4>3
    <3>3. CASE w = t
      <4>1. Claims(u, k)
        BY <2>7, <2>10, <3>3
      <4>2. CASE k = index
        <5>1. ~SameKey(k, tx[u].row, tx[t].row)
          BY <2>5, <2>10, <3>3, <4>1, <4>2
        <5>2. QED
          BY <3>3, <5>1, SameKeySymmetric
      <4>3. CASE Claims(t, k)
        BY <1>0, <2>10, <3>3, <4>1, <4>3 DEF KeyInv
      <4>4. QED
        BY <2>6, <2>10, <3>3, <4>2, <4>3
    <3>4. QED
      BY <3>1, <3>2, <3>3
  <2>11. \A u \in Writer : tx'[u].row = tx[u].row /\ tx'[u].mem = tx[u].mem
    BY <2>2
  <2>12. QED
    BY <2>1, <2>8, <2>9, <2>10, <2>11 DEF KeyInv
<1>4. ASSUME NEW t \in Writer, Commit(t)
      PROVE  KeyInv'
  <2>1. tx'[t].pc = "idle" /\ \A u \in Writer : u # t => tx'[u] = tx[u]
    BY <1>0, <1>4 DEF Commit, Idle
  <2>2. ASSUME NEW u \in Writer, NEW k \in {"text", "topic"}, Claims(u, k)'
        PROVE  u # t /\ tx'[u] = tx[u] /\ Claims(u, k)
    BY <2>1, <2>2 DEF Claims, Entered
  <2>3. ASSUME NEW u \in Writer, NEW k \in {"text", "topic"}, u # t, Claims(u, k),
               NEW m \in Memory, m # tx[u].mem, Live(m)'
        PROVE  ~SameKey(k, rows'[m], tx[u].row)
    <3>1. CASE m = tx[t].mem
      <4>1. rows'[m].text = tx[t].row.text /\ rows'[m].topic = tx[t].row.topic
            /\ rows'[m].deleted = tx[t].row.deleted
        BY <1>4, <3>1, CommitRows
      <4>2. Claims(t, k)
        BY <1>4, <2>3, <4>1 DEF Claims, Entered, Commit, Live
      <4>3. ~SameKey(k, tx[t].row, tx[u].row)
        BY <1>0, <2>3, <4>2 DEF KeyInv
      <4>4. QED
        BY <4>1, <4>3, SameKeyFields
    <3>2. CASE m # tx[t].mem
      <4>1. rows'[m].text = rows[m].text /\ rows'[m].topic = rows[m].topic /\ Live(m)
        BY <1>4, <2>3, <3>2, CommitRows DEF Live
      <4>2. ~SameKey(k, rows[m], tx[u].row)
        BY <1>0, <2>3, <4>1 DEF KeyInv
      <4>3. QED
        BY <4>1, <4>2, SameKeyFields
    <3>3. QED
      BY <3>1, <3>2
  <2>4. SUFFICES ASSUME NEW u \in Writer, NEW k \in {"text", "topic"}, Claims(u, k)'
                 PROVE  /\ \A m \in Memory : m # tx'[u].mem /\ Live(m)' => ~SameKey(k, rows'[m], tx'[u].row)
                        /\ \A w \in Writer : w # u /\ Claims(w, k)' => ~SameKey(k, tx'[w].row, tx'[u].row)
    BY DEF KeyInv
  <2>5. u # t /\ tx'[u] = tx[u] /\ Claims(u, k)
    BY <2>2, <2>4
  <2>6. \A w \in Writer : Claims(w, k)' => tx'[w] = tx[w] /\ Claims(w, k)
    BY <2>2
  <2>7. QED
    BY <1>0, <2>3, <2>5, <2>6 DEF KeyInv
<1>5. CASE rows' = rows /\ tx' = tx
  BY <1>0, <1>5 DEF KeyInv, Claims, Entered, Live, Exists
<1>6. ASSUME NEW m \in Memory, NEW v \in 1..MaxVersion, Acknowledge(m, v)
      PROVE  KeyInv'
  BY <1>5, <1>6 DEF Acknowledge
<1>7. CASE UNCHANGED vars
  BY <1>5, <1>7 DEF vars
<1>8. QED
  BY <1>0, <1>1, <1>2, <1>3, <1>4, <1>6, <1>7, StepKinds

(* Only commits change rows and their history.                             *)
LEMMA OnlyCommits ==
  ASSUME IInv, [Next]_vars
  PROVE  (\E t \in Writer : Commit(t)) \/ (rows' = rows /\ history' = history)
<1>1. ASSUME NEW t \in Writer, NEW new, Moves(t, new)
      PROVE  rows' = rows /\ history' = history
  BY <1>1 DEF Moves
<1>2. ASSUME NEW t \in Writer, NEW m \in Memory, NEW row, Puts(t, m, row)
      PROVE  rows' = rows /\ history' = history
  BY <1>2 DEF Puts, Put
<1>3. ASSUME NEW t \in Writer, NEW index \in {"text", "topic"}, EnterIndex(t, index)
      PROVE  rows' = rows /\ history' = history
  BY <1>3 DEF EnterIndex
<1>4. ASSUME NEW m \in Memory, NEW v \in 1..MaxVersion, Acknowledge(m, v)
      PROVE  rows' = rows /\ history' = history
  BY <1>4 DEF Acknowledge
<1>5. CASE UNCHANGED vars
  BY <1>5 DEF vars
<1>6. QED
  BY <1>1, <1>2, <1>3, <1>4, <1>5, StepKinds DEF IInv

(* Every stored row keeps a text.                                          *)
LEMMA RowStep ==
  ASSUME IInv, [Next]_vars
  PROVE  RowInv'
<1>0. TypeOK /\ OpInv /\ LockInv /\ RowInv
  BY DEF IInv
<1>1. CASE rows' = rows
  BY <1>0, <1>1 DEF RowInv, Exists
<1>2. ASSUME NEW t \in Writer, Commit(t)
      PROVE  RowInv'
  <2>1. tx[t].row.text # None
    BY <1>2 DEF IInv, WriteInv, Prepared, Writing, Commit
  <2>2. ASSUME NEW m \in Memory, Exists(m)'
        PROVE  rows'[m].text # None
    BY <1>0, <1>2, <2>1, <2>2, CommitRows DEF RowInv
  <2>3. QED
    BY <2>2 DEF RowInv
<1>3. QED
  BY <1>1, <1>2, OnlyCommits

(* Every step keeps one live record of a text and of a topic.              *)
LEMMA OneLiveStep ==
  ASSUME IInv, [Next]_vars
  PROVE  OneLiveRecord'
<1>0. TypeOK /\ OpInv /\ LockInv /\ RowInv /\ OneLiveRecord
  BY DEF IInv
<1>1. CASE rows' = rows
  BY <1>0, <1>1 DEF OneLiveRecord, Live, Exists
<1>2. ASSUME NEW t \in Writer, Commit(t)
      PROVE  OneLiveRecord'
  <2>0. tx[t].row.text # None /\ tx[t].row.topic \in Topic \cup {None}
    BY <1>0, <1>2 DEF IInv, WriteInv, Prepared, Writing, Commit, TypeOK, Transaction, Row
  <2>1. ASSUME NEW m \in Memory, NEW n \in Memory, m = tx[t].mem, n # m, Live(m)', Live(n)'
        PROVE  /\ rows'[n].text # rows'[m].text
               /\ rows'[m].topic = None \/ rows'[n].topic # rows'[m].topic
    <3>1. /\ rows'[m].text = tx[t].row.text /\ rows'[m].topic = tx[t].row.topic
          /\ rows'[m].deleted = tx[t].row.deleted
      BY <1>2, <2>1, CommitRows
    <3>2. rows'[n].text = rows[n].text /\ rows'[n].topic = rows[n].topic /\ Live(n)
      BY <1>2, <2>1, CommitRows DEF Live
    <3>3. Claims(t, "text") /\ Claims(t, "topic")
      <4>1. tx[t].pc = "commit"
        BY <1>2 DEF Commit
      <4>2. ~tx[t].row.deleted
        BY <2>1, <3>1 DEF Live
      <4>3. QED
        BY <4>1, <4>2 DEF Claims, Entered
    <3>4. ~SameKey("text", rows[n], tx[t].row) /\ ~SameKey("topic", rows[n], tx[t].row)
      BY <2>1, <3>2, <3>3 DEF IInv, KeyInv
    <3>5. QED
      BY <2>0, <3>1, <3>2, <3>4 DEF SameKey, SameText, SameTopic
  <2>2. ASSUME NEW m \in Memory, NEW n \in Memory, m # n, m # tx[t].mem, n # tx[t].mem,
               Live(m)', Live(n)'
        PROVE  /\ rows'[m].text # rows'[n].text
               /\ rows'[m].topic = None \/ rows'[m].topic # rows'[n].topic
    <3>1. /\ rows'[m].text = rows[m].text /\ rows'[m].topic = rows[m].topic /\ Live(m)
          /\ rows'[n].text = rows[n].text /\ rows'[n].topic = rows[n].topic /\ Live(n)
      BY <1>2, <2>2, CommitRows DEF Live
    <3>2. QED
      BY <1>0, <2>2, <3>1 DEF OneLiveRecord
  <2>3. ASSUME NEW m \in Memory, NEW n \in Memory, m # n, Live(m)', Live(n)'
        PROVE  /\ rows'[m].text # rows'[n].text
               /\ rows'[m].topic = None \/ rows'[m].topic # rows'[n].topic
    <3>1. CASE m = tx[t].mem
      BY <2>1, <2>3, <3>1
    <3>2. CASE n = tx[t].mem
      BY <2>1, <2>3, <3>2
    <3>3. QED
      BY <2>2, <2>3, <3>1, <3>2
  <2>4. QED
    BY <2>3 DEF OneLiveRecord
<1>3. QED
  BY <1>1, <1>2, OnlyCommits

(* Every step keeps each record's history complete.                        *)
LEMMA HistoryStep ==
  ASSUME IInv, [Next]_vars
  PROVE  HistoryComplete'
<1>0. TypeOK /\ OpInv /\ LockInv /\ RowInv /\ HistoryComplete
  BY DEF IInv
<1>1. CASE rows' = rows /\ history' = history
  BY <1>0, <1>1 DEF HistoryComplete, Exists
<1>2. ASSUME NEW t \in Writer, Commit(t)
      PROVE  HistoryComplete'
  <2>1. ASSUME NEW m \in Memory, m \in WrittenBy(t)
        PROVE  /\ Len(history'[m]) = rows'[m].version
               /\ \A i \in 1..Len(history'[m]) : history'[m][i].version = i
               /\ history'[m][rows'[m].version] = rows'[m]
    <3> DEFINE h == history[m]
               r == rows'[m]
               v == rows[m].version
    <3>1. r = RowAfter(t, m) /\ history'[m] = Append(h, r)
      BY <1>2, <2>1 DEF Commit, Snapshot, WrittenBy
    <3>2. r \in Row /\ r.version = v + 1 /\ v \in Nat /\ h \in Seq(Row)
      BY <1>0, <1>2, <2>1, <3>1, RowAfterType, Numbers DEF IInv, TypeOK
    <3>3. Len(h) = v /\ \A i \in 1..Len(h) : h[i].version = i
      BY <1>0 DEF HistoryComplete
    <3> HIDE DEF h, v, r
    <3>4. /\ Len(Append(h, r)) = v + 1
          /\ Append(h, r)[v + 1] = r
          /\ \A i \in 1..v : Append(h, r)[i] = h[i]
      BY <3>2, <3>3
    <3>5. ASSUME NEW i \in 1..(v + 1)
          PROVE  Append(h, r)[i].version = i
      <4>1. CASE i = v + 1
        BY <3>2, <3>4, <4>1
      <4>2. CASE i \in 1..v
        BY <3>3, <3>4, <4>2
      <4>3. i = v + 1 \/ i \in 1..v
        BY <3>2, <3>5
      <4>4. QED
        BY <4>1, <4>2, <4>3
    <3>6. /\ Len(history'[m]) = v + 1
          /\ \A i \in 1..Len(history'[m]) : history'[m][i].version = i
          /\ history'[m][v + 1] = r
      BY <3>1, <3>4, <3>5
    <3>7. QED
      BY <3>2, <3>6 DEF r
  <2>2. ASSUME NEW m \in Memory, m \notin WrittenBy(t)
        PROVE  history'[m] = history[m] /\ rows'[m] = rows[m]
    BY <1>2, <2>2, CommitOwn DEF Commit, Snapshot, WrittenBy
  <2>3. QED
    BY <1>0, <2>1, <2>2 DEF HistoryComplete, Exists
<1>3. QED
  BY <1>1, <1>2, OnlyCommits

-----------------------------------------------------------------------------
(* Theorems.                                                               *)

(* A project without a memory satisfies the invariant.                     *)
LEMMA InitInvariant ==
  ASSUME Init
  PROVE  IInv
<1>1. TypeOK
  <2>1. rows \in [Memory -> Row]
    BY NoRowType DEF Init
  <2>2. history \in [Memory -> Seq(Row)]
    BY DEF Init
  <2>3. acks \in [Memory -> 0..MaxVersion]
    BY WritesAssumption DEF Init, WritesAssumption
  <2>4. /\ tx \in [Writer -> Transaction]
        /\ \A t \in Writer : tx[t].tries <= MaxRetries[t] /\ tx[t].calls <= MaxCalls[t]
    BY IdleType, WritesAssumption DEF Init, WritesAssumption
  <2>5. QED
    BY <2>1, <2>2, <2>3, <2>4 DEF Init, TypeOK
<1>2. \A t \in Writer : tx[t] = Idle(0)
  BY DEF Init
<1>3. \A t \in Writer : /\ tx[t].pc = "idle" /\ tx[t].locked = {}
                        /\ tx[t].op.kind = "delete" /\ tx[t].op.targets = {}
  BY <1>2, IdleType
<1>4. OpInv /\ LockInv /\ WriteInv /\ KeyInv
  BY <1>3 DEF OpInv, LockInv, WriteInv, KeyInv, Claims, Entered, Writing
<1>5. \A m \in Memory : rows[m].version = 0 /\ history[m] = <<>>
  BY DEF Init, NoRow
<1>6. \A m \in Memory : ~Exists(m)
  BY <1>5 DEF Exists
<1>7. RowInv /\ OneLiveRecord
  BY <1>6 DEF RowInv, OneLiveRecord, Live
<1>8. HistoryComplete
  BY <1>5, <1>6 DEF HistoryComplete
<1>9. QED
  BY <1>1, <1>4, <1>7, <1>8 DEF IInv

(* The invariant holds of every behaviour of the write transactions.       *)
THEOREM Invariance == Spec => []IInv
<1>1. Init => IInv
  BY InitInvariant
<1>2. IInv /\ [Next]_vars => IInv'
  BY TypeStep, LockStep, WriteStep, KeyStep, RowStep, OneLiveStep, HistoryStep DEF IInv
<1>3. QED
  BY <1>1, <1>2, PTL DEF Spec

(* Rows, snapshots, acknowledgements and transactions keep their types and *)
(* bounds, whatever calls of add, update and delete race.                  *)
THEOREM TypeCorrect == Spec => []TypeOK
<1>1. IInv => TypeOK
  BY DEF IInv
<1>2. QED
  BY <1>1, Invariance, PTL

(* No race of add, update and delete leaves two live records with the same *)
(* text or the same topic.                                                 *)
THEOREM OneLive == Spec => []OneLiveRecord
<1>1. IInv => OneLiveRecord
  BY DEF IInv
<1>2. QED
  BY <1>1, Invariance, PTL

(* Each record's history is its versions without a gap, and ends with the  *)
(* row as it is.                                                           *)
THEOREM HistoryKept == Spec => []HistoryComplete
<1>1. IInv => HistoryComplete
  BY DEF IInv
<1>2. QED
  BY <1>1, Invariance, PTL

(* What an answered add leaves behind.                                     *)
LEMMA AnsweredStep ==
  ASSUME IInv, NEW t \in Writer, tx[t].op.kind = "add"
  PROVE  /\ Deduplicate(t) =>
              \E m \in Memory : rows'[m].text = tx[t].op.text /\ ~rows'[m].deleted
         /\ Commit(t) =>
              /\ rows'[tx[t].mem].text = tx[t].op.text /\ ~rows'[tx[t].mem].deleted
              /\ \A n \in tx[t].op.targets \ {tx[t].mem} :
                   rows'[n].superseded /\ ~rows'[n].deleted
<1>0. tx[t] \in Transaction /\ tx[t].op \in Op
  BY DEF IInv, TypeOK, Transaction
<1>1. ASSUME Deduplicate(t)
      PROVE  \E m \in Memory : rows'[m].text = tx[t].op.text /\ ~rows'[m].deleted
  <2>1. rows' = rows /\ TextRows(t) # {}
    BY <1>1 DEF Deduplicate, Answer
  <2>2. PICK m \in TextRows(t) : TRUE
    BY <2>1
  <2>3. m \in Memory /\ rows[m].text = tx[t].op.text /\ ~rows[m].deleted
    BY <1>0, <2>2 DEF TextRows, Scoped, SameText, Transaction
  <2>4. QED
    BY <2>1, <2>3
<1>2. ASSUME Commit(t)
      PROVE  /\ rows'[tx[t].mem].text = tx[t].op.text /\ ~rows'[tx[t].mem].deleted
             /\ \A n \in tx[t].op.targets \ {tx[t].mem} :
                  rows'[n].superseded /\ ~rows'[n].deleted
  <2>1. Prepared(t)
    BY <1>2 DEF IInv, WriteInv, Writing, Commit
  <2>2. rows'[tx[t].mem].text = tx[t].op.text /\ ~rows'[tx[t].mem].deleted
    BY <1>2, <2>1, CommitRows DEF Prepared
  <2>3. ASSUME NEW n \in tx[t].op.targets, n # tx[t].mem
        PROVE  rows'[n].superseded /\ ~rows'[n].deleted
    <3>1. n \in Memory /\ rows[n] \in Row /\ ~rows[n].deleted
      BY <1>0, <2>1 DEF Prepared, Op, IInv, TypeOK
    <3>2. ~rows'[n].deleted
      BY <1>2, <2>3, <3>1, CommitRows
    <3>3. CASE n \in Marked(t)
      <4> DEFINE s == seq + 1 + Cardinality({k \in Marked(t) : k <= n})
                 v == rows[n].version + 1
      <4>1. rows'[n] = [rows[n] EXCEPT !.version = v, !.superseded = TRUE, !.seq = s]
        BY <1>2, <2>3, <3>1, <3>3 DEF Commit, RowAfter
      <4> HIDE DEF s, v
      <4>2. QED
        BY <3>1, <3>2, <4>1 DEF Row
    <3>4. CASE n \notin Marked(t)
      <4>1. rows[n].superseded
        BY <2>3, <3>4 DEF Marked
      <4>2. rows'[n] = rows[n]
        BY <1>2, <2>3, <3>1, <3>4, CommitOwn DEF WrittenBy
      <4>3. QED
        BY <3>2, <4>1, <4>2
    <3>5. QED
      BY <3>3, <3>4
  <2>4. QED
    BY <2>2, <2>3
<1>3. QED
  BY <1>1, <1>2

(* An add that was answered left its text live in one record, and every    *)
(* other record it supersedes live and marked.                             *)
THEOREM Answered == Spec => AddAnswered
<1>1. IInv /\ [Next]_vars =>
        [\A t \in Writer :
           LET op == tx[t].op
               Holding(m) == rows'[m].text = op.text /\ ~rows'[m].deleted
           IN  op.kind = "add" =>
                 /\ Deduplicate(t) => \E m \in Memory : Holding(m)
                 /\ Commit(t) => Holding(tx[t].mem) /\
                      \A n \in op.targets \ {tx[t].mem} : rows'[n].superseded /\ ~rows'[n].deleted]_vars
  BY AnsweredStep
<1>2. QED
  BY <1>1, Invariance, PTL DEF Spec, AddAnswered

-----------------------------------------------------------------------------
(* The store that indexes see.                                             *)

(* The part of a row that indexes see.                                     *)
Seen(r) == [version |-> r.version, text |-> r.text, deleted |-> r.deleted]

(* The marks of a commit are on live records with room for a version.      *)
LEMMA OldsLive ==
  ASSUME IInv, NEW t \in Writer, Commit(t), NEW n \in Marked(t)
  PROVE  /\ n \in Memory /\ n # tx[t].mem /\ Store!Live(n)
         /\ rows[n].version < MaxVersion
<1>1. n \in Memory /\ Exists(n) /\ ~rows[n].deleted
  BY CommitOwn
<1>2. n # tx[t].mem /\ rows[n].version < MaxVersion
  BY DEF Marked, Commit
<1>3. QED
  BY <1>1, <1>2 DEF Store!Live, Store!Exists, Exists

(* A commit writes one record of the store and marks the others.           *)
LEMMA StoreCommits ==
  ASSUME IInv, NEW t \in Writer, Commit(t), NEW m \in Memory, m = tx[t].mem
  PROVE  /\ Store!Commit(m, Seen(tx[t].row), Marked(t))
         /\ Marked(t) = {} => Store!Commit(m, Seen(tx[t].row), {})
<1>0. \A n \in Memory : rows[n] \in Row
  BY DEF IInv, TypeOK
<1>1. Marked(t) \subseteq {n \in Memory \ {tx[t].mem} : Store!Live(n) /\ rows[n].version < MaxVersion}
  BY OldsLive
<1>2. ASSUME NEW n \in Memory
      PROVE  Seen(rows'[n]) = IF n = tx[t].mem THEN Seen(tx[t].row)
                              ELSE IF n \in Marked(t) THEN [Seen(rows[n]) EXCEPT !.version = @ + 1]
                              ELSE Seen(rows[n])
  <2>1. CASE n = tx[t].mem
    BY <2>1, CommitRows DEF Seen
  <2>2. CASE n # tx[t].mem /\ n \in Marked(t)
    <3>1. rows'[n].text = rows[n].text /\ rows'[n].deleted = rows[n].deleted
      BY <2>2, CommitRows
    <3>2. rows'[n].version = rows[n].version + 1
      BY <2>2, RowAfterType DEF IInv, WrittenBy, Commit
    <3>3. QED
      BY <2>2, <3>1, <3>2 DEF Seen
  <2>3. CASE n # tx[t].mem /\ n \notin Marked(t)
    BY <2>3, CommitOwn DEF WrittenBy
  <2>4. QED
    BY <2>1, <2>2, <2>3
<1>3. ASSUME NEW n \in Memory
      PROVE  acks'[n] = IF n \in Marked(t) \cup {tx[t].mem} THEN 0 ELSE acks[n]
  BY DEF Commit, WrittenBy
<1>4. Store!Commit(m, Seen(tx[t].row), Marked(t))
  BY <1>1, <1>2, <1>3 DEF Store!Commit, Store!Superseded, Store!NoAck, Seen
<1>5. ASSUME Marked(t) = {}
      PROVE  Store!Commit(m, Seen(tx[t].row), {})
  <2>1. ASSUME NEW n \in Memory
        PROVE  Seen(rows'[n]) = IF n = m THEN Seen(tx[t].row)
                                ELSE IF n \in {} THEN [Seen(rows[n]) EXCEPT !.version = @ + 1]
                                ELSE Seen(rows[n])
    BY <1>2, <1>5
  <2>2. ASSUME NEW n \in Memory
        PROVE  acks'[n] = IF n \in {} \cup {m} THEN 0 ELSE acks[n]
    BY <1>3, <1>5
  <2>3. QED
    BY <2>1, <2>2 DEF Store!Commit, Store!Superseded, Store!NoAck, Seen
<1>6. QED
  BY <1>4, <1>5

(* A commit is an add, a change or a delete of the store.                  *)
LEMMA StoreWrites ==
  ASSUME IInv, NEW t \in Writer, Commit(t), NEW m \in Memory, m = tx[t].mem
  PROVE  Store!Write(m)
<1> DEFINE row == tx[t].row
           olds == Marked(t)
           old == [version |-> rows[m].version, text |-> rows[m].text, deleted |-> rows[m].deleted]
           next == rows[m].version + 1
<1>1. Prepared(t) /\ row \in Row /\ rows[m] \in Row /\ rows[m].version \in Nat
  BY Numbers DEF IInv, TypeOK, Transaction, WriteInv, Writing, Commit
<1>2. Store!Commit(m, Seen(row), olds)
  BY StoreCommits
<1>3. olds \in SUBSET (Memory \ {m})
  BY OldsLive
<1>4. row.text \in Text /\ row.deleted \in BOOLEAN /\ rows[m].deleted \in BOOLEAN
  BY <1>1 DEF Prepared, Row
<1>5. row.version = next
  BY <1>1 DEF Prepared
<1>6. CASE ~Exists(m)
  <2>1. rows[m].version = 0 /\ ~row.deleted
    BY <1>1, <1>6 DEF Exists, Prepared, IInv, LockInv
  <2>2. Seen(row) = [version |-> 1, text |-> row.text, deleted |-> FALSE]
    <3>1. row.version = 1 /\ row.deleted = FALSE
      BY <1>4, <1>5, <2>1
    <3> HIDE DEF row
    <3>2. QED
      BY <3>1 DEF Seen
  <2>3. ~Store!Exists(m)
    BY <1>6 DEF Store!Exists, Exists
  <2>4. Store!Add(m, row.text, olds)
    BY <1>2, <2>2, <2>3 DEF Store!Add
  <2>5. QED
    BY <1>3, <1>4, <2>4 DEF Store!Write
<1>7. CASE Exists(m)
  <2>1. ~rows[m].deleted
    BY <1>1, <1>7 DEF Prepared
  <2>2. rows[m].version < MaxVersion
    <3>1. next <= MaxVersion
      BY <1>1, <1>5, WritesAssumption DEF Row, WritesAssumption
    <3>2. QED
      BY <1>1, <3>1, WritesAssumption DEF WritesAssumption
  <2>3. Store!Live(m)
    BY <1>7, <2>1 DEF Store!Live, Store!Exists, Exists
  <2>4. Seen(row) = [version |-> next, text |-> row.text, deleted |-> row.deleted]
    BY <1>5 DEF Seen
  <2>5. CASE ~row.deleted
    <3>1. row.deleted = rows[m].deleted
      BY <1>4, <2>1, <2>5
    <3>2. Seen(row) = [old EXCEPT !.version = next, !.text = row.text]
      <4> DEFINE v == rows[m].version
                 x == rows[m].text
                 d == rows[m].deleted
      <4>1. old = [version |-> v, text |-> x, deleted |-> d]
        OBVIOUS
      <4> HIDE DEF next, row, v, x, d, old
      <4>2. [old EXCEPT !.version = next] = [version |-> next, text |-> x, deleted |-> d]
        BY <4>1
      <4>3. [[version |-> next, text |-> x, deleted |-> d] EXCEPT !.text = row.text]
              = [version |-> next, text |-> row.text, deleted |-> d]
        OBVIOUS
      <4>4. [old EXCEPT !.version = next, !.text = row.text]
              = [[old EXCEPT !.version = next] EXCEPT !.text = row.text]
        BY <4>1
      <4>5. QED
        BY <2>4, <3>1, <4>2, <4>3, <4>4 DEF d
    <3>3. Store!Change(m, row.text, olds)
      BY <1>2, <2>2, <2>3, <3>2 DEF Store!Change
    <3>4. QED
      BY <1>3, <1>4, <3>3 DEF Store!Write
  <2>6. CASE row.deleted
    <3>1. row.text = rows[m].text /\ tx[t].op.targets = {} /\ row.deleted = TRUE
      BY <1>1, <1>4, <2>6 DEF Prepared
    <3> DEFINE yes == TRUE
               deleted == [old EXCEPT !.version = next, !.deleted = yes]
    <3>2. Seen(row) = deleted
      <4> DEFINE v == rows[m].version
                 x == rows[m].text
                 d == rows[m].deleted
      <4>1. old = [version |-> v, text |-> x, deleted |-> d] /\ row.deleted = yes
        BY <3>1
      <4> HIDE DEF next, row, v, x, d, old, yes
      <4>2. [old EXCEPT !.version = next] = [version |-> next, text |-> x, deleted |-> d]
        BY <4>1
      <4>3. [[version |-> next, text |-> x, deleted |-> d] EXCEPT !.deleted = yes]
              = [version |-> next, text |-> x, deleted |-> yes]
        OBVIOUS
      <4>4. [old EXCEPT !.version = next, !.deleted = yes]
              = [[old EXCEPT !.version = next] EXCEPT !.deleted = yes]
        BY <4>1
      <4>5. Seen(row) = [version |-> next, text |-> x, deleted |-> yes]
        BY <2>4, <3>1, <4>1 DEF x
      <4>6. QED
        BY <4>2, <4>3, <4>4, <4>5
    <3>3. Store!Commit(m, Seen(row), {})
      BY <3>1, StoreCommits DEF Marked
    <3>4. Store!Delete(m)
      BY <2>2, <2>3, <3>2, <3>3 DEF Store!Delete
    <3>5. QED
      BY <3>4 DEF Store!Write
  <2>7. QED
    BY <2>5, <2>6
<1>8. QED
  BY <1>6, <1>7

(* An acknowledgement is an acknowledgement of the store.                  *)
LEMMA StoreAcks ==
  ASSUME IInv, NEW m \in Memory, NEW v \in 1..MaxVersion, Acknowledge(m, v)
  PROVE  Store!AckVersion(m)
<1>0. /\ v \in 1..rows[m].version /\ acks[m] < v /\ acks \in [Memory -> 0..MaxVersion]
      /\ v # 0 /\ acks[m] \in Nat
  BY WritesAssumption DEF IInv, TypeOK, Acknowledge, WritesAssumption
<1>1. acks' = [acks EXCEPT ![m] = v] /\ rows' = rows
  BY DEF Acknowledge
<1> DEFINE ack(n) == [version |-> acks[n], generation |-> IF acks[n] = 0 THEN 0 ELSE 1]
           new == [version |-> v, generation |-> 1]
<1>2. Store!Before(ack(m), new)
  BY <1>0 DEF Store!Before
<1>3. [n \in Memory |-> [version |-> acks'[n], generation |-> IF acks'[n] = 0 THEN 0 ELSE 1]]
        = [[n \in Memory |-> ack(n)] EXCEPT ![m] = new]
  BY <1>0, <1>1
<1>4. Store!AcksAfter(m, v, 1) = [[n \in Memory |-> ack(n)] EXCEPT ![m] = new]
  BY <1>2 DEF Store!AcksAfter
<1>5. 1 \in 1..1
  OBVIOUS
<1>6. QED
  BY <1>0, <1>1, <1>3, <1>4, <1>5 DEF Store!AckVersion

(* Every step is a step of the store, or leaves what indexes see.          *)
LEMMA StoreStep ==
  ASSUME IInv, [Next]_vars
  PROVE  [Store!StoreNext]_(Store!storeVars)
<1>0. TypeOK /\ OpInv /\ LockInv /\ RowInv
  BY DEF IInv
<1>1. ASSUME NEW t \in Writer, Commit(t)
      PROVE  Store!StoreNext
  <2>1. PICK m \in Memory : m = tx[t].mem
    BY <1>1, CommitOwn
  <2>2. Store!Write(m)
    BY <1>1, <2>1, StoreWrites
  <2>3. QED
    BY <2>2 DEF Store!StoreNext
<1>2. ASSUME NEW m \in Memory, NEW v \in 1..MaxVersion, Acknowledge(m, v)
      PROVE  Store!StoreNext
  BY <1>2, StoreAcks DEF Store!StoreNext
<1>3. CASE rows' = rows /\ acks' = acks
  BY <1>3 DEF Store!storeVars
<1>4. ASSUME NEW t \in Writer, NEW new, Moves(t, new)
      PROVE  rows' = rows /\ acks' = acks
  BY <1>4 DEF Moves
<1>5. ASSUME NEW t \in Writer, NEW m \in Memory, NEW row, Puts(t, m, row)
      PROVE  rows' = rows /\ acks' = acks
  BY <1>5 DEF Puts, Put
<1>6. ASSUME NEW t \in Writer, NEW index \in {"text", "topic"}, EnterIndex(t, index)
      PROVE  rows' = rows /\ acks' = acks
  BY <1>6 DEF EnterIndex
<1>7. CASE UNCHANGED vars
  BY <1>3, <1>7 DEF vars
<1>8. QED
  BY <1>0, <1>1, <1>2, <1>3, <1>4, <1>5, <1>6, <1>7, StepKinds

(* A project without a memory is an empty store.                           *)
LEMMA StoreStart ==
  ASSUME Init
  PROVE  Store!StoreInit
<1>1. /\ \A m \in Memory : Seen(rows[m]) = Store!NoRow
      /\ \A m \in Memory : acks[m] = 0
  BY DEF Init, NoRow, Seen, Store!NoRow
<1>2. QED
  BY <1>1 DEF Store!StoreInit, Store!NoAck, Seen

(* The write transactions implement the store that the indexes are modelled*)
(* against: every commit adds, changes or deletes one record, marks others *)
(* live, and leaves no acknowledgement of an older version.                *)
THEOREM Refines == Spec => RefinesStore
<1>1. Init => Store!StoreInit
  BY StoreStart
<1>2. IInv /\ [Next]_vars => [Store!StoreNext]_(Store!storeVars)
  BY StoreStep
<1>3. QED
  BY <1>1, <1>2, Invariance, PTL DEF Spec, RefinesStore, Store!StoreSpec

-----------------------------------------------------------------------------
(* Row locks close no cycle.                                               *)

(* A transaction holds no lock before its locking statement, and has       *)
(* locked rows below all it has still to lock.                             *)
Ordered(x) ==
  /\ x.pc \in {"idle", "again", "select"} => x.locked = {}
  /\ x.pc = "lock" => \A m \in x.locked, n \in x.todo : m < n

OrderInv == \A t \in Writer : Ordered(tx[t])

(* A transaction that begins or ends is ordered.                           *)
LEMMA FreshOrdered ==
  ASSUME NEW x, x.locked = {}
  PROVE  Ordered(x)
BY DEF Ordered

(* Every step of a client leaves its transaction ordered.                  *)
LEMMA OrderedStep ==
  ASSUME IInv, OrderInv, NEW t \in Writer
  PROVE  /\ \A op \in Calls : Call(t, op) => Ordered(tx'[t])
         /\ Step(t) => Ordered(tx'[t])
<1>0. TypeOK /\ OpInv /\ LockInv /\ RowInv /\ tx \in [Writer -> Transaction] /\ Ordered(tx[t])
      /\ tx[t].calls \in Nat /\ tx[t].tries \in Nat
  BY Numbers DEF IInv, TypeOK, OrderInv
<1>1. ASSUME Answer(t)
      PROVE  Ordered(tx'[t])
  <2>1. tx'[t] = Idle(tx[t].calls)
    BY <1>0, <1>1 DEF Answer
  <2>2. QED
    BY <1>0, <2>1, IdleType, FreshOrdered
<1>2. ASSUME NEW op, NEW tries, NEW calls, tx' = [tx EXCEPT ![t] = Began(op, tries, calls)]
      PROVE  Ordered(tx'[t])
  <2>1. tx'[t] = Began(op, tries, calls)
    BY <1>0, <1>2
  <2>2. Began(op, tries, calls).locked = {}
    BY DEF Began, Idle
  <2>3. QED
    BY <2>1, <2>2, FreshOrdered
<1>3. ASSUME NEW op \in Calls, Call(t, op)
      PROVE  Ordered(tx'[t])
  BY <1>2, <1>3 DEF Call
<1>4. ASSUME Again(t)
      PROVE  Ordered(tx'[t])
  BY <1>2, <1>4 DEF Again
<1>5. ASSUME Select(t)
      PROVE  Ordered(tx'[t])
  <2>1. tx'[t].locked = tx[t].locked /\ tx[t].pc = "select"
    BY <1>0, <1>5 DEF Select, Transaction
  <2>2. tx'[t].locked = {}
    BY <1>0, <2>1 DEF Ordered
  <2>3. QED
    BY <2>2, FreshOrdered
<1>6. ASSUME NEW m \in Memory, LockRow(t, m)
      PROVE  Ordered(tx'[t])
  <2>1. /\ tx'[t].pc = "lock" /\ tx[t].pc = "lock"
        /\ tx'[t].todo = tx[t].todo \ {m}
        /\ tx'[t].locked \subseteq tx[t].locked \cup {m}
    BY <1>0, <1>6 DEF LockRow, Transaction
  <2>2. m \in tx[t].todo /\ \A n \in tx[t].todo : m <= n
    BY <1>6 DEF LockRow, NextInOrder
  <2>3. \A k \in tx[t].locked, n \in tx[t].todo : k < n
    BY <1>0, <2>1 DEF Ordered
  <2>4. \A n \in tx[t].todo : n \in Nat
    BY <1>0, Numbers DEF Transaction
  <2>5. \A n \in tx[t].todo \ {m} : m < n
    BY <2>2, <2>4
  <2>6. QED
    BY <2>1, <2>3, <2>5 DEF Ordered
<1>7. ASSUME NEW m \in Memory, NEW row, Put(t, m, row)
      PROVE  Ordered(tx'[t])
  <2>1. tx'[t].pc \in {"text", "commit"}
    BY <1>0, <1>7 DEF Put, Transaction
  <2>2. QED
    BY <2>1 DEF Ordered
<1>8. ASSUME NEW index \in {"text", "topic"}, EnterIndex(t, index)
      PROVE  Ordered(tx'[t])
  <2>1. tx'[t].pc \in {"topic", "commit"}
    BY <1>0, <1>8 DEF EnterIndex, Transaction
  <2>2. QED
    BY <2>1 DEF Ordered
<1>9. ASSUME NEW index \in {"text", "topic"}, Violation(t, index), ~Answer(t)
      PROVE  Ordered(tx'[t])
  <2>1. tx' = [tx EXCEPT ![t] = Retried(tx[t].calls, tx[t].op, tx[t].tries + 1)]
    BY <1>9 DEF Violation, Retried
  <2>2. tx'[t] = Retried(tx[t].calls, tx[t].op, tx[t].tries + 1)
    BY <1>0, <2>1
  <2>3. tx[t].op \in Op /\ tx[t].tries + 1 \in Nat
    BY <1>0 DEF Transaction
  <2>4. QED
    BY <1>0, <2>2, <2>3, AgainType, FreshOrdered
<1>10. ASSUME Commit(t)
       PROVE  Ordered(tx'[t])
  <2>1. tx'[t] = Idle(tx[t].calls)
    BY <1>0, <1>10 DEF Commit
  <2>2. QED
    BY <1>0, <2>1, IdleType, FreshOrdered
<1>11. ASSUME Step(t)
       PROVE  Ordered(tx'[t])
  <2>1. CASE RefuseAdd(t) \/ Deduplicate(t) \/ DeadlockVictim(t)
    BY <1>1, <2>1 DEF RefuseAdd, Deduplicate, DeadlockVictim
  <2>2. CASE \E m \in Memory : Replace(t, m) \/ Insert(t, m)
    BY <1>0, <1>7, <2>2, ReplacePuts, InsertPuts DEF Puts
  <2>3. CASE Update(t) \/ Delete(t)
    BY <1>0, <1>1, <1>7, <2>3, UpdatePuts, DeletePuts DEF Puts
  <2>4. QED
    BY <1>1, <1>4, <1>5, <1>6, <1>8, <1>9, <1>10, <1>11, <2>1, <2>2, <2>3 DEF Step
<1>12. QED
  BY <1>3, <1>11

(* A client's step leaves the other transactions alone.                    *)
LEMMA OthersStay ==
  ASSUME IInv, NEW t \in Writer, Step(t) \/ \E op \in Calls : Call(t, op),
         NEW u \in Writer, u # t
  PROVE  tx'[u] = tx[u]
<1>0. TypeOK /\ OpInv /\ LockInv /\ RowInv /\ tx \in [Writer -> Transaction]
  BY DEF IInv, TypeOK
<1>1. ASSUME NEW new, tx' = [tx EXCEPT ![t] = new]
      PROVE  tx'[u] = tx[u]
  BY <1>0, <1>1
<1>2. Answer(t) => tx'[u] = tx[u]
  BY <1>0 DEF Answer
<1>3. \A m \in Memory : \A row : Put(t, m, row) => tx'[u] = tx[u]
  BY <1>0 DEF Put
<1>4. \A op \in Calls : Call(t, op) => tx'[u] = tx[u]
  BY <1>0 DEF Call
<1>5. (Again(t) \/ Select(t) \/ \E m \in Memory : LockRow(t, m)) => tx'[u] = tx[u]
  BY <1>0 DEF Again, Select, LockRow
<1>6. \A index \in {"text", "topic"} : EnterIndex(t, index) => tx'[u] = tx[u]
  BY <1>0 DEF EnterIndex
<1>7. \A index \in {"text", "topic"} : Violation(t, index) => tx'[u] = tx[u]
  BY <1>0, <1>2 DEF Violation
<1>8. Commit(t) => tx'[u] = tx[u]
  BY <1>0 DEF Commit
<1>9. (RefuseAdd(t) \/ Deduplicate(t) \/ DeadlockVictim(t)) => tx'[u] = tx[u]
  BY <1>2 DEF RefuseAdd, Deduplicate, DeadlockVictim
<1>10. (\E m \in Memory : Replace(t, m) \/ Insert(t, m)) => tx'[u] = tx[u]
  BY <1>0, <1>3, ReplacePuts, InsertPuts DEF Puts
<1>11. (Update(t) \/ Delete(t)) => tx'[u] = tx[u]
  BY <1>0, <1>2, <1>3, UpdatePuts, DeletePuts DEF Puts
<1>12. QED
  BY <1>4, <1>5, <1>6, <1>7, <1>8, <1>9, <1>10, <1>11 DEF Step

(* Every step keeps transactions ordered.                                  *)
LEMMA OrderStep ==
  ASSUME IInv, OrderInv, [Next]_vars
  PROVE  OrderInv'
<1>1. ASSUME NEW t \in Writer, Step(t) \/ \E op \in Calls : Call(t, op)
      PROVE  OrderInv'
  <2>1. Ordered(tx'[t])
    BY <1>1, OrderedStep
  <2>2. ASSUME NEW u \in Writer, u # t
        PROVE  Ordered(tx'[u])
    <3>1. tx'[u] = tx[u]
      BY <1>1, <2>2, OthersStay
    <3>2. Ordered(tx[u])
      BY DEF OrderInv
    <3>3. QED
      BY <3>1, <3>2
  <2>3. QED
    BY <2>1, <2>2 DEF OrderInv
<1>2. CASE tx' = tx
  BY <1>2 DEF OrderInv
<1>3. ASSUME NEW m \in Followed, NEW v \in 1..MaxVersion, Acknowledge(m, v)
      PROVE  tx' = tx
  BY <1>3 DEF Acknowledge
<1>4. QED
  BY <1>1, <1>2, <1>3 DEF Next, Resting, vars

(* The rows a transaction may still lock or pass by.                       *)
Ahead(t) == {x \in Memory : \E n \in tx[t].todo : n <= x}

(* One that waits has more ahead than the one it waits for.                *)
LEMMA LessAhead ==
  ASSUME TypeOK, OrderInv, NEW t \in Writer, NEW u \in Writer,
         tx[t].pc = "lock", tx[u].pc = "lock", u \in WaitsFor(t)
  PROVE  /\ Cardinality(Ahead(u)) \in Nat /\ Cardinality(Ahead(t)) \in Nat
         /\ Cardinality(Ahead(u)) < Cardinality(Ahead(t))
<1>0. tx[t].todo \in SUBSET Memory /\ tx[u].todo \in SUBSET Memory /\ \A m \in Memory : m \in Nat
  BY Numbers DEF TypeOK, Transaction
<1>1. PICK m \in tx[u].locked : NextInOrder(t, m)
  BY DEF WaitsFor
<1>2. m \in Memory /\ m \in Nat /\ m \in tx[t].todo
  BY <1>0, <1>1 DEF NextInOrder
<1>3. \A n \in tx[u].todo : m < n
  BY <1>1 DEF OrderInv, Ordered
<1>4. m \in Ahead(t) /\ m \notin Ahead(u)
  <2>1. m \in Ahead(t)
    BY <1>2 DEF Ahead
  <2>2. ASSUME NEW n \in tx[u].todo, n <= m
        PROVE  FALSE
    <3>1. n \in Nat /\ m \in Nat /\ m < n
      BY <1>0, <1>2, <1>3
    <3>2. QED
      BY <2>2, <3>1
  <2>3. QED
    BY <2>1, <2>2 DEF Ahead
<1>5. Ahead(u) \subseteq Ahead(t)
  <2>1. ASSUME NEW x \in Memory, NEW n \in tx[u].todo, n <= x
        PROVE  m <= x
    <3>1. n \in Nat /\ m \in Nat /\ x \in Nat /\ m < n
      BY <1>0, <1>2, <1>3
    <3>2. QED
      BY <2>1, <3>1
  <2>2. QED
    BY <1>2, <2>1 DEF Ahead
<1>6. IsFiniteSet(Ahead(t))
  BY FS_Subset, WritesAssumption DEF Ahead, WritesAssumption
<1>7. /\ IsFiniteSet(Ahead(u)) /\ Cardinality(Ahead(u)) <= Cardinality(Ahead(t))
      /\ Cardinality(Ahead(u)) # Cardinality(Ahead(t))
  BY <1>4, <1>5, <1>6, FS_Subset
<1>8. Cardinality(Ahead(u)) \in Nat /\ Cardinality(Ahead(t)) \in Nat
  BY <1>6, <1>7, FS_CardinalityType
<1>9. QED
  BY <1>7, <1>8

(* So among waiting transactions one waits for none of them: the one with  *)
(* least ahead.                                                            *)
LEMMA NoCycle ==
  ASSUME TypeOK, OrderInv
  PROVE  RowLocksOrdered
<1>1. SUFFICES ASSUME NEW S \in SUBSET {t \in Writer : tx[t].pc = "lock"}, Deadlocked(S)
               PROVE  FALSE
  BY DEF RowLocksOrdered
<1>2. S # {} /\ \A t \in S : \E u \in S : u \in WaitsFor(t)
  BY <1>1 DEF Deadlocked
<1> DEFINE ahead == {Cardinality(Ahead(t)) : t \in S}
           less == OpToRel(<, Nat)
<1>3. ASSUME NEW t \in S
      PROVE  \E u \in S : /\ Cardinality(Ahead(u)) \in Nat /\ Cardinality(Ahead(t)) \in Nat
                          /\ Cardinality(Ahead(u)) < Cardinality(Ahead(t))
  BY <1>2, LessAhead
<1>4. ahead \subseteq Nat /\ ahead # {}
  BY <1>2, <1>3
<1>5. \A x \in ahead : \E y \in ahead : <<y, x>> \in less
  BY <1>3 DEF OpToRel
<1> HIDE DEF ahead, less
<1>6. IsWellFoundedOn(less, Nat)
  BY NatLessThanWellFounded DEF less
<1>7. QED
  BY <1>4, <1>5, <1>6, WFMin

(* Row locks alone never close a cycle, for any number of clients and      *)
(* records: each transaction locks its rows in the order of memory_id.     *)
THEOREM LocksOrdered == Spec => []RowLocksOrdered
<1>1. Init => OrderInv
  BY IdleType, FreshOrdered DEF Init, OrderInv
<1>2. IInv /\ OrderInv /\ [Next]_vars => OrderInv'
  BY OrderStep
<1>3. IInv /\ OrderInv => RowLocksOrdered
  BY NoCycle DEF IInv
<1>4. QED
  BY <1>1, <1>2, <1>3, Invariance, PTL DEF Spec
=============================================================================
