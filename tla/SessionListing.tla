--------------------------- MODULE SessionListing ---------------------------
(***************************************************************************)
(* The list of sessions with their titles and wrapped flags, and the turns *)
(* of one session.  Rows are those of TurnListing; a session is the pair   *)
(* of its id and its provider.                                             *)
(***************************************************************************)
EXTENDS TurnListing

KeyOf(r) == <<r.session, r.provider>>

Earlier(x, y) == x.index < y.index \/ (x.index = y.index /\ x.doc > y.doc)

Earliest(set) == Sorted(set, {p \in set \X set : Earlier(p[1], p[2])})

(* list_sessions: one aggregate per session, with its earliest turns.      *)
Aggregates(rows, f) ==
  LET read == {r \in ToSet(rows) : Selected(r, f) /\ ~r.passage /\ r.session # 0}
      here == Among(rows, read)
      keys == Distinct([i \in 1..Len(here) |-> KeyOf(here[i])])
      Of(key) == {r \in read : KeyOf(r) = key}
      sorted == StableSort(keys, Descending([key \in ToSet(keys) |-> LastAt(Of(key))]))
  IN  [i \in 1..Len(sorted) |->
         [key |-> sorted[i], agent |-> \E r \in Of(sorted[i]) : r.agent,
          turns |-> Cardinality(Of(sorted[i])), last |-> LastAt(Of(sorted[i])),
          first |-> First(Earliest(Of(sorted[i])), TitleTurns)]]

(* The page of the newest n sessions: q.wrapped is a set of flags wanted,  *)
(* empty without the filter; q.known says that memory answers.             *)
ChunkSize(q) == IF q.wrapped # {} /\ WrappedChunk > q.n THEN WrappedChunk ELSE q.n

WantedSession(q, s) == q.wrapped = {} \/ (s.key[1] \in q.summarised) \in q.wrapped

(* The wanted sessions of the first chunks.                                *)
PickedFrom(q, rows, chunks) ==
  LET read == First(rows, chunks * ChunkSize(q))
  IN  Among(read, {s \in ToSet(read) : WantedSession(q, s)})

(* Mutant: a page is filled from the first chunk alone.                    *)
PickedOnce(q, rows) == PickedFrom(q, rows, 1)

(* Chunks are read until the page is full, or none is left.                *)
Picked(q, rows) ==
  LET enough == {c \in 1..Len(rows) : \/ Len(PickedFrom(q, rows, c)) >= q.n
                                      \/ c * ChunkSize(q) >= Len(rows)}
  IN  IF rows = << >> THEN << >>
      ELSE PickedFrom(q, rows, IF q.wrapped = {} THEN 1 ELSE Min(enough))

(* session_titles: the first turn with user text; a command marker is the  *)
(* title only when no turn has text, and the whole session is read when    *)
(* its earliest turns are not enough.                                      *)
FirstOf(rows, words) == Among(rows, {r \in ToSet(rows) : r.words = words})

InOrder(rows) ==
  StableSort(rows, {p \in ToSet(rows) \X ToSet(rows) : p[1].index < p[2].index})

FirstWords(rows, key) ==
  First(InOrder(Among(rows, {r \in ToSet(rows) : KeyOf(r) = key /\ ~r.passage
                                                 /\ r.words = "text"})), 1)

Title(rows, s) ==
  LET here == FirstOf(s.first, "text")
      text == IF here = << >> /\ s.turns > Len(s.first) THEN FirstWords(rows, s.key) ELSE here
      titles == text \o FirstOf(s.first, "command")
  IN  IF titles = << >> THEN 0 ELSE titles[1].doc

ListSessions(q) ==
  LET all == Aggregates(q.rows, q.filter)
      rows == Among(all, {s \in ToSet(all) : q.subagents \/ ~s.agent})
      page == First(Picked(q, rows), q.n)
  IN  IF q.wrapped # {} /\ ~q.known /\ rows # << >> THEN [available |-> FALSE, page |-> << >>]
      ELSE [available |-> TRUE,
            page |-> [i \in 1..Len(page) |->
              [key |-> page[i].key, turns |-> page[i].turns, title |-> Title(q.rows, page[i]),
               wrapped |-> IF q.known THEN {page[i].key[1] \in q.summarised} ELSE {}]]]

(* A subagent's turns have a session of their own.                         *)
SessionQuery(q) ==
  /\ KeyedRows(q.rows) /\ q.n \in Nat \ {0} /\ q.subagents \in BOOLEAN
  /\ \A r, s \in ToSet(q.rows) : r.session = s.session => r.agent = s.agent

(* The newest sessions that pass the filter, however far down the list the *)
(* wanted ones are, each with the text of its earliest turn that has any.  *)
SessionPageExact(q, answer) ==
  LET page == answer.page
      right == {r \in ToSet(q.rows) :
                  /\ Selected(r, q.filter) /\ ~r.passage /\ r.session # 0
                  /\ q.subagents \/ ~r.agent
                  /\ q.wrapped = {} \/ (r.session \in q.summarised) \in q.wrapped}
      Of(key) == {r \in right : KeyOf(r) = key}
      keys == {KeyOf(r) : r \in right}
      shown == {s.key : s \in ToSet(page)}
      Spoken(key) == {r \in Of(key) : r.words = "text"}
  IN  answer.available =>
        /\ shown \subseteq keys /\ Cardinality(shown) = Len(page)
        /\ Len(page) = IF Cardinality(keys) < q.n THEN Cardinality(keys) ELSE q.n
        /\ \A a \in shown, b \in keys \ shown : LastAt(Of(a)) >= LastAt(Of(b))
        /\ q.filter = NoFilter => \A s \in ToSet(page) :
             Spoken(s.key) # {} =>
               \E r \in Spoken(s.key) : r.doc = s.title /\ \A x \in Spoken(s.key) : r.index <= x.index

-----------------------------------------------------------------------------
(* get_turns: the turn nearest to the index, and those around it.          *)
SessionRows(rows, session) ==
  InOrder(Among(rows, {r \in ToSet(rows) : r.session = session /\ ~r.passage}))

Away(r, index) == IF r.index > index THEN r.index - index ELSE index - r.index

GetTurns(rows, session, index, context) ==
  LET turns == SessionRows(rows, session)
      near == Min({Away(turns[i], index) : i \in 1..Len(turns)})
      target == Min({i \in 1..Len(turns) : Away(turns[i], index) = near})
      start == IF target - context < 1 THEN 1 ELSE target - context
      end == IF target + context > Len(turns) THEN Len(turns) ELSE target + context
  IN  IF turns = << >> THEN << >> ELSE SubSeq(turns, start, end)

(* sessions_with_prefix, prefix being the ids that it may stand for.       *)
SessionsWithPrefix(rows, prefix) ==
  {r.session : r \in {x \in ToSet(rows) : x.session \in prefix}}

(* _turns_or_error: an id that is not known is taken as a prefix.          *)
TurnsOrError(q) ==
  LET exact == GetTurns(q.rows, q.id, q.index, q.context)
      matches == SessionsWithPrefix(q.rows, q.prefix)
  IN  IF exact # << >> THEN exact
      ELSE IF Cardinality(matches) = 1
           THEN GetTurns(q.rows, CHOOSE s \in matches : TRUE, q.index, q.context)
      ELSE << >>

(* The turns of a session have indices of their own.                       *)
WindowQuery(q) ==
  /\ KeyedRows(q.rows) /\ q.index \in Nat /\ q.context \in Nat
  /\ \A r, s \in {x \in ToSet(q.rows) : ~x.passage} :
       r.session = s.session /\ r.index = s.index => r = s

(* The window is an unbroken run of one session's turns around the nearest *)
(* one, and a prefix that two sessions share shows none of them.           *)
WindowExact(q, window) ==
  LET sessions == {r.session : r \in ToSet(window)}
      there == {r.session : r \in {x \in ToSet(q.rows) : ~x.passage}}
      own == {r \in ToSet(q.rows) : r.session \in sessions /\ ~r.passage}
      near == {r \in own : \A x \in own : Away(r, q.index) <= Away(x, q.index)}
      Between(t, r) == {x \in own : \/ x.index > t.index /\ x.index < r.index
                                    \/ x.index < t.index /\ x.index > r.index}
  IN  /\ Cardinality(sessions) <= 1 /\ sessions \subseteq {q.id} \cup q.prefix
      /\ q.id \in there => sessions = {q.id}
      /\ q.id \notin there /\ Cardinality(q.prefix \cap there) > 1 => sessions = {}
      /\ sessions # {} =>
           \E t \in near : /\ t \in ToSet(window)
                           /\ \A r \in own \ {t} :
                                r \in ToSet(window) <=> Cardinality(Between(t, r)) < q.context

-----------------------------------------------------------------------------
(* session_turns: the last turns of a session, or of a Codex thread.       *)
SessionTurns(q) ==
  LET own == {r \in ToSet(q.rows) : /\ ~r.passage /\ In(r.provider, q.provider)
                                    /\ q.id = IF q.provider = {"codex"} THEN r.thread ELSE r.session}
      turns == InOrder(Among(q.rows, own))
  IN  SubSeq(turns, IF Len(turns) > q.limit THEN Len(turns) - q.limit + 1 ELSE 1, Len(turns))

TailQuery(q) == KeyedRows(q.rows) /\ q.limit \in Nat \ {0}

(* The tail of a session is its last turns: none that is left out comes    *)
(* after one that is shown (session_turns).                                *)
TailExact(q, tail) ==
  LET right == {r \in ToSet(q.rows) :
                  /\ ~r.passage /\ In(r.provider, q.provider)
                  /\ q.id = IF q.provider = {"codex"} THEN r.thread ELSE r.session}
  IN  /\ ToSet(tail) \subseteq right
      /\ Len(tail) = IF Cardinality(right) < q.limit THEN Cardinality(right) ELSE q.limit
      /\ \A i, j \in 1..Len(tail) : i < j => tail[i].index <= tail[j].index
      /\ \A r \in right \ ToSet(tail), t \in ToSet(tail) : r.index <= t.index
=============================================================================
