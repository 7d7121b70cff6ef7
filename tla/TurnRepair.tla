----------------------------- MODULE TurnRepair -----------------------------
(***************************************************************************)
(* The commands that repair stored turns: dedupe-turns, dedupe-codex,      *)
(* retag-project and restamp-codex.  Each plans from both stores, writes   *)
(* only with --apply and --yes, and is run again when a write has failed.  *)
(* The stores are [milvus, fts]; "fails" are the documents whose write or  *)
(* delete in FTS fails in a run.                                           *)
(***************************************************************************)
EXTENDS Integers, Sequences, SequencesExt, FiniteSets, FiniteSetsExt

(* The gate before every read: a run applies only with --yes.              *)
Applies(args) == args.apply /\ args.yes

Both(stores) == stores.milvus \cup stores.fts

DocsOf(rows) == {r.doc : r \in rows}

(* delete_by_doc_id: Milvus first, then FTS, which may fail.               *)
DeleteDocs(stores, docs, fails) ==
  [milvus |-> {r \in stores.milvus : r.doc \notin docs},
   fts |-> {r \in stores.fts : r.doc \notin docs \ fails}]

-----------------------------------------------------------------------------
(* dedupe_turns: a row is [doc, index, reply, size] of one session.        *)

(* _indexed_rows: each document once, the row of Milvus before that of FTS.*)
IndexedRows(stores) ==
  stores.milvus \cup {r \in stores.fts : r.doc \notin DocsOf(stores.milvus)}

Group(stores, i) == {r \in IndexedRows(stores) : r.index = i}

(* plan: the groups with a duplicate, and the turns without a reply.       *)
Affected(stores) ==
  {i \in {r.index : r \in IndexedRows(stores)} :
     Cardinality(Group(stores, i)) > 1 \/ \A r \in Group(stores, i) : ~r.reply}

(* _longest: rows come from Milvus first, and the first of equals wins.    *)
Longest(stores, rows) ==
  LET Ahead(r, s) ==
        \/ r.reply /\ ~s.reply
        \/ r.reply = s.reply /\ r.size > s.size
        \/ /\ r.reply = s.reply /\ r.size = s.size
           /\ \/ r \in stores.milvus /\ s \notin stores.milvus
              \/ (r \in stores.milvus <=> s \in stores.milvus) /\ r.doc < s.doc
  IN  CHOOSE r \in rows : \A s \in rows \ {r} : Ahead(r, s)

(* add_turns and _replace_stale_turns: a turn that Milvus holds by then    *)
(* takes the place of the other rows of its index there.                   *)
StoreTurn(stores, turn, fails) ==
  LET indexed == IF turn.doc \in DocsOf(stores.milvus) \/ turn.doc \in fails THEN {} ELSE {turn}
      added == [milvus |-> stores.milvus \cup {turn},
                fts |-> {r \in stores.fts : r.doc \notin DocsOf(indexed)} \cup indexed]
      stale == {r \in added.milvus : r.index = turn.index /\ r.doc # turn.doc}
  IN  DeleteDocs(added, DocsOf(stale), fails)

Refused(stores, turn, run) ==
  turn.index \in run.deferred /\ turn.doc \notin DocsOf(stores.milvus)

OldDocs(stores, turn) == DocsOf(Group(stores, turn.index)) \ {turn.doc}

(* Mutant: old rows go whether their replacement was stored or not.        *)
RebuildAlways(stores, turn, run) ==
  LET added == IF Refused(stores, turn, run) THEN stores ELSE StoreTurn(stores, turn, run.fails)
  IN  DeleteDocs(added, OldDocs(stores, turn), run.fails)

(* A turn is rebuilt when add_turns stores it: an old row goes only then.  *)
Rebuild(stores, turn, run) ==
  IF Refused(stores, turn, run) THEN stores
  ELSE DeleteDocs(StoreTurn(stores, turn, run.fails), OldDocs(stores, turn), run.fails)

KeepLongest(stores, i, run) ==
  LET rows == Group(stores, i)
  IN  DeleteDocs(stores, DocsOf(rows \ {Longest(stores, rows)}), run.fails)

RepairGroup(stores, transcript, i, run) ==
  LET turns == {t \in transcript : t.index = i}
  IN  IF turns # {} THEN Rebuild(stores, CHOOSE t \in turns : TRUE, run)
      ELSE IF Cardinality(Group(stores, i)) > 1 THEN KeepLongest(stores, i, run)
      ELSE stores

DedupeTurns(stores, transcript, run) ==
  LET upTo[S \in SUBSET Affected(stores)] ==     \* in the order of their indices
        IF S = {} THEN stores
        ELSE RepairGroup(upTo[S \ {Max(S)}], transcript, Max(S), run)
  IN  IF Applies(run) THEN upTo[Affected(stores)] ELSE stores

(* The rows of an index are versions of one turn: a later one is longer    *)
(* and keeps the reply, the transcript has the latest, and a row that only *)
(* FTS holds is older than those in Milvus.  A doc_id hashes its text.     *)
TurnVersions(q) ==
  LET rows == Both(q.stores) \cup q.transcript
  IN  /\ q.stores = [milvus |-> q.stores.milvus, fts |-> q.stores.fts]
      /\ rows \subseteq [doc : Nat, index : Nat, reply : BOOLEAN, size : Nat]
      /\ IsFiniteSet(rows)
      /\ \A r, s \in rows : r.doc = s.doc => r = s
      /\ \A r, s \in rows : r.index = s.index /\ r.size <= s.size /\ r.reply => s.reply
      /\ \A t \in q.transcript : \A r \in rows :
           r.index = t.index => r.size <= t.size /\ (r \in q.transcript => r = t)
      /\ \A r \in q.stores.fts \ q.stores.milvus : \A s \in q.stores.milvus :
           r.index = s.index => r.size < s.size

(* No turn leaves Milvus and no reply is lost, whatever fails; and a run   *)
(* in which nothing fails leaves one row of each turn that Milvus holds,   *)
(* the same in both stores, with the reply if any row or the transcript    *)
(* had it (dedupe_turns.apply).                                            *)
DedupeTurnsSound(q, out) ==
  /\ ~Applies(q.run) => out = q.stores
  /\ \A i \in {r.index : r \in q.stores.milvus} :
       LET before == {r \in q.stores.milvus : r.index = i}
           after == {r \in out.milvus : r.index = i}
       IN  /\ after # {}
           /\ (\E r \in before : r.reply) => \E r \in after : r.reply
           /\ Applies(q.run) /\ q.run.fails = {} /\ q.run.deferred = {} =>
                /\ Cardinality(after) = 1
                /\ DocsOf({r \in out.fts : r.index = i}) \subseteq DocsOf(after)
                /\ (\E r \in after : r.reply)
                     <=> \E r \in Both(q.stores) \cup q.transcript : r.index = i /\ r.reply

-----------------------------------------------------------------------------
(* dedupe_codex: a row is [doc, user, reply], one session at a time; user  *)
(* is 0 in a row that holds the reply alone.  The rollout is [state, docs, *)
(* dropped]: what its parse yields, and what ingestion would not store.    *)

SameTurn(r, s) == r.user = s.user /\ r.reply = s.reply

(* Whether s holds all of r, the reply of a row without the user's words.  *)
Repeats(r, s) == SameTurn(r, s) \/ (r.user = 0 /\ s.user # 0 /\ r.reply = s.reply)

(* Mutant: a row only FTS holds counts as a copy.                          *)
DuplicatesAnywhere(stores) ==
  {r \in IndexedRows(stores) : \E s \in IndexedRows(stores) :
     r # s /\ Repeats(r, s) /\ (SameTurn(r, s) => s.doc < r.doc)}

(* _duplicate_rows: the first of equal rows stays, those of Milvus first;  *)
(* a row of Milvus goes only when a row of Milvus holds its turn.          *)
Duplicates(stores) ==
  LET InMilvus(r) == r \in stores.milvus
      Ahead(s, r) == \/ InMilvus(s) /\ ~InMilvus(r)
                     \/ (InMilvus(s) <=> InMilvus(r)) /\ s.doc < r.doc
  IN  {r \in IndexedRows(stores) : \E s \in IndexedRows(stores) \ {r} :
         \/ SameTurn(r, s) /\ Ahead(s, r)
         \/ /\ r.user = 0 /\ s.user # 0 /\ r.reply = s.reply
            /\ InMilvus(r) => \E t \in stores.milvus : SameTurn(s, t)}

Within(a, b) == \E i \in 0..Len(b) - Len(a) : SubSeq(b, i + 1, i + Len(a)) = a

(* _covered: a stored row of the parse holds the whole reply.              *)
Covered(r, stores, docs) ==
  r.reply # << >> /\ \E s \in stores.milvus : s.doc \in docs /\ Within(r.reply, s.reply)

CodexPlan(stores, rollout) ==
  CASE rollout.state = "gone" -> DocsOf(Duplicates(stores))
    [] rollout.state = "unreadable" -> {}
    [] /\ rollout.state = "read"
       /\ rollout.docs \ rollout.dropped \subseteq DocsOf(stores.milvus) ->
         DocsOf({r \in IndexedRows(stores) :
                   r.doc \notin rollout.docs /\ Covered(r, stores, rollout.docs)})
    [] OTHER -> {}

DedupeCodex(stores, rollout, run) ==
  IF Applies(run) THEN DeleteDocs(stores, CodexPlan(stores, rollout), run.fails) ELSE stores

(* A doc_id names one row.                                                 *)
CodexRows(q) ==
  LET rows == Both(q.stores)
  IN  /\ q.stores = [milvus |-> q.stores.milvus, fts |-> q.stores.fts]
      /\ rows \subseteq [doc : Nat, user : Nat, reply : Seq(Nat)]
      /\ \A r, s \in rows : r.doc = s.doc => r = s
      /\ q.rollout.state \in {"gone", "unreadable", "read"}

(* Search loses no reply: what Milvus held of a turn it still holds, and   *)
(* what only FTS held is still in one of them; a session that waits for    *)
(* the backfill or cannot be read is left alone; and after a run in which  *)
(* nothing fails there is nothing left to plan (dedupe_codex.plan).        *)
DedupeCodexSound(q, out) ==
  LET Holds(rows, r) ==
        \E s \in rows : IF q.rollout.state = "gone" THEN Repeats(r, s) ELSE Within(r.reply, s.reply)
  IN  /\ ~Applies(q.run) => out = q.stores
      /\ \A r \in q.stores.milvus : Holds(out.milvus, r)
      /\ \A r \in q.stores.fts : Holds(Both(out), r)
      /\ q.rollout.state = "unreadable" => out = q.stores
      /\ q.rollout.state = "read" /\ out # q.stores =>
           q.rollout.docs \ q.rollout.dropped \subseteq DocsOf(out.milvus)
      /\ Applies(q.run) /\ q.run.fails = {} => CodexPlan(out, q.rollout) = {}

-----------------------------------------------------------------------------
(* retag_project: a root is a sequence of folders; the stores map a doc to *)
(* its root, << >> for a doc that a store does not hold.                   *)

(* path_has_prefix                                                         *)
Under(root, prefix) == root # << >> /\ IsPrefix(prefix, root)

(* find_doc_ids_by_project_root: the root of Milvus before that of FTS.    *)
FoundRoots(stores, from) ==
  [d \in {x \in DOMAIN stores.milvus : Under(stores.milvus[x], from) \/ Under(stores.fts[x], from)}
     |-> IF Under(stores.milvus[d], from) THEN stores.milvus[d] ELSE stores.fts[d]]

Moved(root, from, to) == to \o SubSeq(root, Len(from) + 1, Len(root))

ValidMove(from, to) == ~IsPrefix(from, to)

(* update_row_metadata rewrites the row of Milvus and then that of FTS,    *)
(* and neither when Milvus does not hold it (or fails: run.lost).  The FTS *)
(* row is deleted and inserted: a run can fail before both (run.fails) or  *)
(* between the two (run.gone).                                             *)
RetagProject(stores, from, to, run) ==
  LET found == FoundRoots(stores, from)
      written == {d \in DOMAIN found : stores.milvus[d] # << >>} \ run.lost
      Value(d) == Moved(found[d], from, to)
  IN  IF ~Applies(run) \/ ~ValidMove(from, to) THEN stores
      ELSE [milvus |-> [d \in DOMAIN stores.milvus |->
                          IF d \in written THEN Value(d) ELSE stores.milvus[d]],
            fts |-> [d \in DOMAIN stores.fts |->
                       IF d \notin written \ run.fails THEN stores.fts[d]
                       ELSE IF d \in run.gone THEN << >> ELSE Value(d)]]

(* FTS has the root of Milvus, none, or the one from before a run whose    *)
(* write to FTS failed.                                                    *)
RootsAgree(q) ==
  /\ q.from \in Seq(STRING) /\ q.to \in Seq(STRING) \ {<< >>}
  /\ DOMAIN q.stores.fts = DOMAIN q.stores.milvus
  /\ \A d \in DOMAIN q.stores.milvus :
       LET root == q.stores.milvus[d]
           lagging == q.stores.fts[d]
       IN  /\ root \in Seq(STRING) /\ lagging \in Seq(STRING)
           /\ \/ lagging \in {root, << >>}
              \/ Under(lagging, q.from) /\ root = Moved(lagging, q.from, q.to)

(* Run again after any failure, the command converges: each row is moved   *)
(* once, in both stores, and no other row is touched (cmd_retag_project);  *)
(* a row that FTS has lost waits for the heal worker.  A root that lies    *)
(* under --from once it is moved is left out: each run moves it again, and *)
(* one that FTS still has takes the row of Milvus back.                    *)
RetagSound(q, once, twice) ==
  /\ ~Applies(q.run) \/ ~ValidMove(q.from, q.to) => once = q.stores
  /\ \A d \in DOMAIN q.stores.milvus :
       LET root == q.stores.milvus[d]
           Leaves(r) == Under(r, q.from) => ~Under(Moved(r, q.from, q.to), q.from)
       IN  root # << >> /\ Leaves(root) /\ Leaves(q.stores.fts[d]) /\ ValidMove(q.from, q.to) =>
             /\ once.milvus[d] \in {root, Moved(root, q.from, q.to)}
             /\ Applies(q.run) =>
                  /\ twice.milvus[d] =
                       IF Under(root, q.from) THEN Moved(root, q.from, q.to) ELSE root
                  /\ twice.fts[d] \in {twice.milvus[d], << >>}
                  /\ q.stores.fts[d] # << >> /\ d \notin q.run.gone => twice.fts[d] # << >>

-----------------------------------------------------------------------------
(* restamp_codex: wanted is what the rollouts on disk say of a document, 0 *)
(* when they say nothing; the stores map a document to its stamp, -1 when  *)
(* they do not hold it.                                                    *)
Stamps(stores, d) == {s[d] : s \in {stores.milvus, stores.fts}} \ {-1}

Restamps(stores, wanted) ==
  {d \in DOMAIN wanted : wanted[d] # 0 /\ \E v \in Stamps(stores, d) : v # wanted[d]}

Restamp(stores, wanted, run) ==
  LET written == {d \in Restamps(stores, wanted) : stores.milvus[d] # -1} \ run.lost
  IN  IF ~Applies(run) THEN stores
      ELSE [milvus |-> [d \in DOMAIN wanted |->
                          IF d \in written THEN wanted[d] ELSE stores.milvus[d]],
            fts |-> [d \in DOMAIN wanted |->
                       IF d \notin written \ run.fails THEN stores.fts[d]
                       ELSE IF d \in run.gone THEN -1 ELSE wanted[d]]]

StampsOfDocs(q) ==
  /\ DOMAIN q.stores.milvus = DOMAIN q.wanted /\ DOMAIN q.stores.fts = DOMAIN q.wanted
  /\ \A d \in DOMAIN q.wanted : q.wanted[d] \in Nat

(* Run again, the stamps of both stores are those of the rollouts, and a   *)
(* row whose rollout is gone keeps its own (cmd_restamp_codex).            *)
RestampSound(q, once, twice) ==
  /\ ~Applies(q.run) => once = q.stores
  /\ \A d \in DOMAIN q.wanted :
       /\ q.wanted[d] = 0 => twice.milvus[d] = q.stores.milvus[d] /\ twice.fts[d] = q.stores.fts[d]
       /\ Applies(q.run) /\ q.wanted[d] # 0 /\ q.stores.milvus[d] # -1 =>
            /\ twice.milvus[d] = q.wanted[d]
            /\ twice.fts[d] \in {q.wanted[d], -1}
            /\ q.stores.fts[d] # -1 /\ d \notin q.run.gone => twice.fts[d] = q.wanted[d]
=============================================================================
