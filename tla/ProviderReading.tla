--------------------------- MODULE ProviderReading ---------------------------
(***************************************************************************)
(* The provider adapters: what a visit to a source yields, given the       *)
(* cursor of the visit before, and what the index then holds.  A message   *)
(* is told by its position; a turn is [index, text], and a doc_id hashes   *)
(* both, so a turn stands for its doc_id.                                  *)
(***************************************************************************)
EXTENDS TranscriptParse, SequencesExt, FiniteSets, FiniteSetsExt

(* add_turns; a turn with REPLACE_SAME_TURN drops the other rows of its    *)
(* index.                                                                  *)
Stored(rows, turns, replaces) ==
  turns \cup {r \in rows : ~replaces \/ \A t \in turns : t.index # r.index}

(* process_job: what a visit yields is stored, and its cursor is kept.     *)
Kept(s, visit, replaces) ==
  [rows |-> Stored(s.rows, visit.turns, replaces), cursor |-> visit.cursor]

-----------------------------------------------------------------------------
(* Codex: the entries of a rollout are "start" and "complete" of a task,   *)
(* "import" for the start of an imported one, "user" and "reply".          *)
Starts == {"start", "import"}
Entry == Starts \cup {"complete", "user", "reply"}

NewTask(entry) == [importing |-> entry = "import", user |-> 0, parts |-> << >>]

Said(task, entries, i) ==
  IF entries[i] = "user" /\ task.parts = << >> THEN [task EXCEPT !.user = i]
  ELSE [task EXCEPT !.parts = Append(@, i)]

(* Opens a task: the first message, and without task events each user      *)
(* message after a reply.                                                  *)
OpensTask(entries, s, i) ==
  \/ s.current = 0
  \/ /\ ToSet(entries) \cap Starts = {}
     /\ entries[i] = "user" /\ s.tasks[s.current].parts # << >>

ReadEntry(entries, s, i) ==
  CASE entries[i] \in Starts ->
         [tasks |-> Append(s.tasks, NewTask(entries[i])), current |-> Len(s.tasks) + 1]
    [] entries[i] = "complete" -> [s EXCEPT !.current = 0]
    [] OTHER ->
         LET tasks == IF OpensTask(entries, s, i) THEN Append(s.tasks, NewTask("user")) ELSE s.tasks
             k == IF OpensTask(entries, s, i) THEN Len(tasks) ELSE s.current
         IN  [tasks |-> IF tasks[k].importing THEN tasks
                        ELSE [tasks EXCEPT ![k] = Said(@, entries, i)],
              current |-> k]

(* _parse_tasks                                                            *)
ReadEntries(entries) ==
  LET s[i \in 0..Len(entries)] ==
        IF i = 0 THEN [tasks |-> << >>, current |-> 0] ELSE ReadEntry(entries, s[i - 1], i)
  IN  s

Tasks(entries) == ReadEntries(entries)[Len(entries)].tasks

TaskTurns(entries) ==
  LET tasks == Tasks(entries)
  IN  {[index |-> k - 1, text |-> <<tasks[k].user>> \o tasks[k].parts] :
         k \in {j \in DOMAIN tasks : ~tasks[j].importing /\ tasks[j].parts # << >>}}

(* Mutant: what can be read of a rollout is used.                          *)
CodexVisitPartial(copies, emitted) ==
  LET all == UNION {TaskTurns(copies[c].entries) : c \in DOMAIN copies}
      turns == {t \in all : \A u \in all : u.index = t.index => Len(u.text) <= Len(t.text)}
  IN  [turns |-> turns \ emitted, cursor |-> turns]

(* CodexAdapter.parse_source over the copies of a session; bad says that   *)
(* a line, or the file, cannot be read.  The longer text of a task wins.   *)
CodexVisit(copies, emitted) ==
  LET all == UNION {TaskTurns(copies[c].entries) : c \in DOMAIN copies}
      turns == {t \in all : \A u \in all : u.index = t.index => Len(u.text) <= Len(t.text)}
  IN  IF \E c \in DOMAIN copies : copies[c].bad THEN [turns |-> {}, cursor |-> emitted]
      ELSE [turns |-> turns \ emitted, cursor |-> turns]

CodexAfter(s, copies) == Kept(s, CodexVisit(copies, s.cursor), TRUE)

CodexReads(visits) ==
  LET at[v \in 0..Len(visits)] ==
        IF v = 0 THEN [rows |-> {}, cursor |-> {}]
        ELSE CodexAfter(at[v - 1], visits[v])
  IN  at

Readable(copies) == \A c \in DOMAIN copies : ~copies[c].bad

(* A rollout has task events from the start or never.                      *)
Steady(entries) == entries = << >> \/ entries[1] \in Starts \/ ToSet(entries) \cap Starts = {}

(* Rollouts are appended to, and the copies of a session are earlier       *)
(* states of one of them.                                                  *)
RolloutsGrow(visits) ==
  /\ visits \in Seq(Seq([entries : Seq(Entry), bad : BOOLEAN]))
  /\ \A v \in DOMAIN visits : Readable(visits[v]) => \A c, d \in DOMAIN visits[v] :
       /\ Steady(visits[v][c].entries)
       /\ \/ IsPrefix(visits[v][c].entries, visits[v][d].entries)
          \/ IsPrefix(visits[v][d].entries, visits[v][c].entries)
  /\ \A v, w \in DOMAIN visits : v <= w /\ Readable(visits[v]) /\ Readable(visits[w]) =>
       \A c \in DOMAIN visits[v] : \E d \in DOMAIN visits[w] :
         IsPrefix(visits[v][c].entries, visits[w][d].entries)

-----------------------------------------------------------------------------
(* OpenCode: messages[i] is the number of text parts of message i, 0 also  *)
(* without a role; a legacy session is read when its files are settled.    *)
OpenCodeVisit(session, emitted) ==
  LET turns == {[index |-> i - 1, text |-> <<i, session.messages[i]>>] :
                  i \in {j \in DOMAIN session.messages : session.messages[j] > 0}}
  IN  IF session.legacy /\ ~session.settled THEN [turns |-> {}, cursor |-> emitted]
      ELSE [turns |-> turns \ emitted, cursor |-> emitted \cup turns]

OpenCodeAfter(s, session) == Kept(s, OpenCodeVisit(session, s.cursor), FALSE)

OpenCodeReads(visits) ==
  LET at[v \in 0..Len(visits)] ==
        IF v = 0 THEN [rows |-> {}, cursor |-> {}]
        ELSE OpenCodeAfter(at[v - 1], visits[v])
  IN  at

Sessions(visits) == visits \in Seq([messages : Seq(Nat), legacy : BOOLEAN, settled : BOOLEAN])

-----------------------------------------------------------------------------
(* Antigravity: a line has a step (0 without one, when its line number     *)
(* counts; -1 when it is no number) and may have a text; the last line may *)
(* be half written.                                                        *)
StepOf(lines, i) == IF lines[i].step = 0 THEN i ELSE lines[i].step

ReadStep(file, s, i) ==
  LET line == file.lines[i]
      turn == [index |-> StepOf(file.lines, i), text |-> <<i>>]
  IN  IF \/ file.half /\ i = Len(file.lines)
         \/ line.step = -1 \/ StepOf(file.lines, i) <= s.last
         \/ ~line.text \/ turn \in s.emitted
      THEN s
      ELSE [last |-> StepOf(file.lines, i), emitted |-> s.emitted \cup {turn},
            turns |-> s.turns \cup {turn}]

ReadSteps(file, cursor) ==
  LET s[i \in 0..Len(file.lines)] ==
        IF i = 0 THEN [last |-> cursor.last, emitted |-> cursor.emitted, turns |-> {}]
        ELSE ReadStep(file, s[i - 1], i)
  IN  s

AntigravityVisit(file, cursor) ==
  LET s == ReadSteps(file, cursor)[Len(file.lines)]
  IN  [turns |-> s.turns, cursor |-> [last |-> s.last, emitted |-> s.emitted]]

AntigravityAfter(s, file) == Kept(s, AntigravityVisit(file, s.cursor), FALSE)

AntigravityReads(visits) ==
  LET at[v \in 0..Len(visits)] ==
        IF v = 0 THEN [rows |-> {}, cursor |-> [last |-> -1, emitted |-> {}]]
        ELSE AntigravityAfter(at[v - 1], visits[v])
  IN  at

WholeLines(file) == IF file.half THEN Front(file.lines) ELSE file.lines

StepsGrow(visits) ==
  /\ visits \in Seq([lines : Seq([step : Nat \cup {-1}, text : BOOLEAN]), half : BOOLEAN])
  /\ \A v, w \in DOMAIN visits : v <= w => IsPrefix(WholeLines(visits[v]), WholeLines(visits[w]))

-----------------------------------------------------------------------------
(* Claude: the file is read from the offset of the turn that was open; one *)
(* of the size that was consumed is not read.                              *)
ClaudeVisit(file, cursor) ==
  LET parsed == Parse(file.lines, file.half, cursor.offset)
      turns == {[index |-> t.at, text |-> <<t.kind, t.replies>>] : t \in parsed.turns}
  IN  IF cursor.consumed = FileSize(file.lines, file.half)
      THEN [turns |-> {}, cursor |-> cursor]
      ELSE [turns |-> turns, cursor |-> [offset |-> parsed.resume, consumed |-> parsed.consumed]]

ClaudeAfter(s, file) == Kept(s, ClaudeVisit(file, s.cursor), TRUE)

ClaudeReads(visits) ==
  LET at[v \in 0..Len(visits)] ==
        IF v = 0 THEN [rows |-> {}, cursor |-> [offset |-> 0, consumed |-> -1]]
        ELSE ClaudeAfter(at[v - 1], visits[v])
  IN  at

(* A transcript grows, and no line of its last state is half written.      *)
TranscriptGrows(visits) ==
  /\ visits \in Seq([lines : Seq(LineKind), half : BOOLEAN])
  /\ \A v, w \in DOMAIN visits : v <= w => IsPrefix(visits[v].lines, visits[w].lines)
  /\ ~visits[Len(visits)].half

-----------------------------------------------------------------------------
ReadSource(provider, visits) ==
  LET n == Len(visits)
  IN  CASE provider = "codex" -> CodexReads(visits)[n].rows
        [] provider = "opencode" -> OpenCodeReads(visits)[n].rows
        [] provider = "antigravity" -> AntigravityReads(visits)[n].rows
        [] provider = "claude" -> ClaudeReads(visits)[n].rows

(* What a source may be: it is visited, and it grows.                      *)
SourceGrows(q) ==
  /\ q.visits # << >>
  /\ \/ q.provider = "codex" /\ RolloutsGrow(q.visits)
     \/ q.provider = "opencode" /\ Sessions(q.visits)
     \/ q.provider = "antigravity" /\ StepsGrow(q.visits)
     \/ q.provider = "claude" /\ TranscriptGrows(q.visits)

(* A source that grows between visits leaves the rows that one visit to    *)
(* its last state would: no turn is lost at a line that was half written,  *)
(* at a turn that was still open or at a read that failed, and an earlier  *)
(* state of a turn is gone.  OpenCode keeps the earlier states of a        *)
(* message (parse_source of each adapter).                                 *)
ReadingExact(q, rows) ==
  LET last == q.visits[Len(q.visits)]
      once == ReadSource(q.provider, <<last>>)
  IN  CASE q.provider = "codex" /\ ~Readable(last) ->
             rows = ReadSource(q.provider, Front(q.visits))
        [] q.provider = "opencode" ->
             /\ once \subseteq rows
             /\ \A r \in rows : \E v \in DOMAIN q.visits :
                  /\ r.index < Len(q.visits[v].messages)
                  /\ r.text[2] = q.visits[v].messages[r.index + 1]
        [] OTHER -> rows = once
=============================================================================
