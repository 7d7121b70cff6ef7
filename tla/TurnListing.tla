---------------------------- MODULE TurnListing ----------------------------
(***************************************************************************)
(* What is read from the index of turns without a query vector: recency    *)
(* listings, the timeline of an issue, and sessions.  Of a row, tags are   *)
(* its issue_ids, names the issues its text holds, agent says that its     *)
(* session is a subagent's, words is what its user text is, and stored is  *)
(* which copy of the turn it is (Milvus or keyword index).  at is 0        *)
(* without a time, else 10 times the day plus the part of the day; part 9  *)
(* is its last second.                                                     *)
(***************************************************************************)
EXTENDS RankFusion, FiniteSetsExt

CONSTANTS
  FtsCap,       \* _TIMELINE_FTS_FETCH_CAP
  ScanLimit,    \* SESSION_SCAN_LIMIT
  TitleTurns,   \* SESSION_TITLE_CANDIDATES
  WrappedChunk  \* WRAPPED_CHUNK

StoredRow ==
  [doc : Nat, at : Nat, session : Nat, thread : Nat, index : Nat,
   provider : STRING, root : STRING, words : STRING, stored : STRING,
   agent : BOOLEAN, passage : BOOLEAN, tags : SUBSET Nat, names : SUBSET Nat]

(* The rows of an index; doc_id is their key.                              *)
KeyedRows(rows) ==
  /\ rows \in Seq(StoredRow)
  /\ \A i, j \in 1..Len(rows) : rows[i].doc = rows[j].doc => i = j

In(v, allowed) == allowed = {} \/ v \in allowed

(* date_to covers its day up to T23:59:59: a time in that second is longer *)
(* than the bound, so it comes after it.                                   *)
UpTo(row, to) == to = 0 \/ row.at < 10 * to + 9

(* _build_milvus_filter; an empty set or 0 leaves a field unfiltered.      *)
Selected(row, f) ==
  /\ In(row.session, f.sessions)
  /\ In(row.root, f.roots)
  /\ In(row.provider, f.providers)
  /\ row.at >= 10 * f.from
  /\ UpTo(row, f.to)
  /\ f.issues # {} => row.tags \cap f.issues # {}

NoFilter == [sessions |-> {}, roots |-> {}, providers |-> {}, from |-> 0, to |-> 0, issues |-> {}]

Query(rows, f) == Among(rows, {r \in ToSet(rows) : Selected(r, f)})

WithoutPassages(rows) == Among(rows, {r \in ToSet(rows) : ~r.passage})

-----------------------------------------------------------------------------
Older(x, y) == x.at < y.at \/ (x.at = y.at /\ x.doc < y.doc)

Newer(x, y) == Older(y, x)

ComesBefore(newest, x, y) == IF newest THEN Newer(x, y) ELSE Older(x, y)

InTime(newest, set) == {p \in set \X set : ComesBefore(newest, p[1], p[2])}

(* _OldestN.add and _NewestN.add: the worst row gives way to a better one. *)
AddRow(kept, row, limit, newest) ==
  LET worst == CHOOSE r \in kept : \A s \in kept : ~ComesBefore(newest, r, s)
  IN  IF \E r \in kept : r.doc = row.doc THEN kept
      ELSE IF Cardinality(kept) < limit THEN kept \cup {row}
      ELSE IF kept # {} /\ ComesBefore(newest, row, worst) THEN (kept \ {worst}) \cup {row}
      ELSE kept

(* What is kept after each row.                                            *)
Gathered(rows, limit, newest) ==
  LET kept[i \in 0..Len(rows)] ==
        IF i = 0 THEN {} ELSE AddRow(kept[i - 1], rows[i], limit, newest)
  IN  kept[Len(rows)]

Collected(rows, limit, newest) ==
  LET kept == Gathered(rows, limit, newest)
  IN  Sorted(kept, InTime(newest, kept))

(* _recent_listing: the doc_ids of the newest rows are scanned first, then *)
(* their rows are fetched; rows may be gone or stored anew by then.        *)
DocIds(rows) == {r.doc : r \in ToSet(rows)}

RecentListing(scan, fetch, f, n) ==
  LET newest == Collected(WithoutPassages(Query(scan, f)), n, TRUE)
      found == WithoutPassages(Query(fetch, f))
      rows == Among(found, {r \in ToSet(found) : r.doc \in DocIds(newest)})
  IN  IF n = 0 THEN << >> ELSE Collected(rows, n, TRUE)

-----------------------------------------------------------------------------
(* The first n of a set of rows, and a list of a set in its order.         *)
Best(set, n, newest) ==
  {r \in set : Cardinality({s \in set : ComesBefore(newest, s, r)}) < n}

Shows(list, set, newest) ==
  /\ ToSet(list) = set
  /\ \A i, j \in 1..Len(list) : i < j => ComesBefore(newest, list[i], list[j])

ListingQuery(q) ==
  /\ KeyedRows(q.scan) /\ KeyedRows(q.fetch) /\ q.n \in Nat
  /\ \A r \in ToSet(q.scan), s \in ToSet(q.fetch) : r.doc = s.doc => r = s

(* A listing is the newest rows that match, whatever order the scan gave   *)
(* them in; a row deleted between the scans only leaves a gap.             *)
ListingExact(q, list) ==
  LET right == {r \in ToSet(q.scan) : Selected(r, q.filter) /\ ~r.passage}
  IN  Shows(list, {r \in Best(right, q.n, TRUE) : r.doc \in DocIds(q.fetch)}, TRUE)

-----------------------------------------------------------------------------
(* get_issue_timeline: q.rows and q.hits are what Milvus and the keyword   *)
(* index hold, hits by relevance.                                          *)
TimelineFilter(q) == [NoFilter EXCEPT !.from = q.from, !.to = q.to, !.issues = {q.issue}]

TimelineMatches(q, r) ==
  /\ ~r.passage
  /\ In(r.provider, q.providers)
  /\ r.at >= 10 * q.from
  /\ UpTo(r, q.to)
  /\ q.issue \in r.tags \cup r.names

TimelineHidden(q, r) == ~q.subagents /\ r.agent

FtsWindow(q) == IF q.limit > FtsCap THEN q.limit ELSE FtsCap

(* _fts_hits; hits that fail (q.fts is FALSE) are none.                    *)
FtsHits(q, agents) ==
  LET wanted == {r \in ToSet(q.hits) : /\ q.issue \in r.names
                                       /\ r.at >= 10 * q.from
                                       /\ UpTo(r, q.to)
                                       /\ r.agent \in agents}
  IN  IF q.fts THEN First(Among(q.hits, wanted), FtsWindow(q)) ELSE << >>

VisibleHits(q) == FtsHits(q, IF q.subagents THEN BOOLEAN ELSE {FALSE})

HiddenHits(q) == IF q.subagents THEN << >> ELSE FtsHits(q, {TRUE})

TimelineStream(q) == Query(q.rows, TimelineFilter(q)) \o VisibleHits(q) \o HiddenHits(q)

Timeline(q) ==
  LET matching == {r \in ToSet(TimelineStream(q)) : TimelineMatches(q, r)}
      shown == {r \in matching : ~TimelineHidden(q, r)}
  IN  [entries |-> Collected(Among(TimelineStream(q), shown), q.limit, q.newest),
       hidden |-> Cardinality({r.doc : r \in matching \ shown}),
       capped |-> Len(HiddenHits(q)) >= FtsWindow(q)]

(* A turn that both indexes hold is the same in both.                      *)
TimelineQuery(q) ==
  /\ KeyedRows(q.rows) /\ KeyedRows(q.hits) /\ q.limit \in Nat
  /\ {q.newest, q.subagents, q.fts} \subseteq BOOLEAN
  /\ \A r \in ToSet(q.rows), s \in ToSet(q.hits) :
       r.doc = s.doc => s = [r EXCEPT !.stored = s.stored]

(* Both sources answer with one row per turn, the Milvus one when there is *)
(* one; the entries are the oldest or newest of all that match, and the    *)
(* hidden count is exact unless it says that it is capped.                 *)
TimelineExact(q, line) ==
  LET tagged == {r \in ToSet(q.rows) : q.issue \in r.tags}
      named == {r \in IF q.fts THEN ToSet(q.hits) ELSE {} :
                  q.issue \in r.names /\ r.doc \notin {s.doc : s \in tagged}}
      right == {r \in tagged \cup named : TimelineMatches(q, r)}
      shown == {r \in right : ~TimelineHidden(q, r)}
      whole == Cardinality({r \in ToSet(q.hits) : q.issue \in r.names}) <= FtsWindow(q)
  IN  /\ whole => Shows(line.entries, Best(shown, q.limit, q.newest), q.newest)
      /\ ~line.capped => line.hidden = Cardinality(right \ shown)

-----------------------------------------------------------------------------
(* _session_key                                                            *)
SessionKey(r) ==
  <<r.provider, IF r.provider = "codex" /\ r.thread # 0 THEN r.thread ELSE r.session>>

(* get_issue_timeline for one of the issues; q.hits has what the keyword   *)
(* index answers for each, << >> where it fails.                           *)
IssueLine(q, issue) ==
  Timeline([rows |-> q.rows, hits |-> q.hits[issue], issue |-> issue, providers |-> {},
            from |-> 0, to |-> 0, limit |-> ScanLimit, newest |-> TRUE,
            subagents |-> TRUE, fts |-> TRUE]).entries

DayRows(rows, day) ==
  Among(rows, {r \in ToSet(rows) : ~r.passage /\ r.at \div 10 \in day - 1..day + 1})

(* The rows of the issues, one issue after the other.                      *)
IssuesRead(q) ==
  LET order == Sorted(q.issues, {p \in q.issues \X q.issues : p[1] < p[2]})
      read[i \in 0..Len(order)] ==
        IF i = 0 THEN << >> ELSE read[i - 1] \o IssueLine(q, order[i])
  IN  read[Len(order)]

(* seen_docs: of the rows of a turn, the first that comes.                 *)
FirstCopies(rows) ==
  At(rows, {i \in 1..Len(rows) : \A j \in 1..i - 1 : rows[j].doc # rows[i].doc})

LastAt(set) == Max({r.at : r \in set})

(* sessions_by_issue: day is 0 for every day, except the session left out. *)
SessionsByIssue(q) ==
  LET found == IF q.issues # {} THEN IssuesRead(q)
               ELSE IF q.day # 0 /\ q.roots # {} THEN DayRows(q.rows, q.day)
               ELSE << >>
      read == FirstCopies(found)
      used == {r \in ToSet(read) : /\ In(r.root, q.roots)
                                   /\ q.day # 0 => r.at \div 10 = q.day /\ r.at # 0
                                   /\ SessionKey(r)[2] \notin {0, q.except}}
      Of(key) == {r \in used : SessionKey(r) = key}
      rows == Among(read, used)
      keys == Distinct([i \in 1..Len(rows) |-> SessionKey(rows[i])])
      last == [key \in ToSet(keys) |-> LastAt(Of(key))]
      sorted == First(StableSort(keys, Descending(last)), q.limit)
  IN  [i \in 1..Len(sorted) |->
         [key |-> sorted[i], turns |-> Cardinality(Of(sorted[i])), last |-> last[sorted[i]],
          issues |-> UNION {r.tags : r \in Of(sorted[i])}]]

(* A turn is the same in all that the indexes hold and answer.             *)
IssueQuery(q) ==
  LET kept == ToSet(q.rows) \cup UNION {ToSet(q.hits[i]) : i \in q.issues}
  IN  /\ q.limit \in Nat /\ q.day \in Nat /\ q.issues \in SUBSET Nat /\ IsFiniteSet(q.issues)
      /\ KeyedRows(q.rows) /\ \A i \in q.issues : KeyedRows(q.hits[i])
      /\ \A r, s \in kept : r.doc = s.doc => s = [r EXCEPT !.stored = s.stored]

(* The turns of an issue: the rows that are tagged with it, and the hits   *)
(* of others that name it.                                                 *)
Naming(q, issue) ==
  LET tagged == {r \in ToSet(q.rows) : issue \in r.tags}
      named == {r \in ToSet(q.hits[issue]) : issue \in r.names}
  IN  {r \in tagged \cup {h \in named : h.doc \notin {s.doc : s \in tagged}} : ~r.passage}

(* A session is listed once, with every turn of it that is among the       *)
(* newest ScanLimit turns of one of the issues, and no session that is     *)
(* left out has a later one; no issue may have more hits than are fetched. *)
SessionsExact(q, list) ==
  LET found == IF q.issues # {}
               THEN UNION {Best(Naming(q, i), ScanLimit, TRUE) : i \in q.issues}
               ELSE IF q.day # 0 /\ q.roots # {} THEN {r \in ToSet(q.rows) : ~r.passage} ELSE {}
      right == {r \in found : /\ In(r.root, q.roots) /\ SessionKey(r)[2] \notin {0, q.except}
                              /\ q.day # 0 => r.at \div 10 = q.day}
      Of(key) == {r \in right : SessionKey(r) = key}
      keys == {SessionKey(r) : r \in right}
      listed == {e.key : e \in ToSet(list)}
      whole == \A i \in q.issues :
                 Cardinality({r \in ToSet(q.hits[i]) : i \in r.names})
                   <= FtsWindow([limit |-> ScanLimit])
  IN  whole =>
        /\ Len(list) = Cardinality(listed)
        /\ Len(list) = IF Cardinality(keys) < q.limit THEN Cardinality(keys) ELSE q.limit
        /\ \A e \in ToSet(list) : /\ e.turns = Cardinality({r.doc : r \in Of(e.key)})
                                  /\ \A k \in keys \ listed : \A r \in Of(k) : r.at <= e.last
=============================================================================
