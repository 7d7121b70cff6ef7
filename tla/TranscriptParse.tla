----------------------------- MODULE TranscriptParse -----------------------------
(***************************************************************************)
(* transcript_parser.py: one transcript, read from a byte offset.  A line  *)
(* is as long as one byte here, so line i starts at offset i - 1, and a    *)
(* half-written line makes the file one byte longer than its lines.        *)
(***************************************************************************)
EXTENDS Integers, Sequences

(* user: a user's message; brief: one too short to index without a reply; *)
(* noise: one that is all harness boilerplate; reply: an assistant's text; *)
(* summary: a compaction summary; other: any line without conversation.    *)
LineKind == {"user", "brief", "noise", "reply", "summary", "other"}

(* A turn's doc_id hashes its start and its text, so it is told apart by   *)
(* where it starts and which replies it holds.                             *)
Turn == [kind : {"turn", "summary"}, at : Nat, replies : SUBSET (Nat \ {0})]

FileSize(lines, half) == Len(lines) + (IF half THEN 1 ELSE 0)

(* _build_turn: a turn under MIN_TURN_CHARS is dropped.                    *)
Built(lines, open) ==
  IF open.user = 0 \/ (lines[open.user] = "brief" /\ open.replies = {}) THEN {}
  ELSE {[kind |-> "turn", at |-> open.user - 1, replies |-> open.replies]}

ReadLine(lines, s, i) ==
  CASE lines[i] = "summary" ->
         [turns |-> s.turns \cup Built(lines, s)
                      \cup {[kind |-> "summary", at |-> i - 1, replies |-> {}]},
          user |-> 0, replies |-> {}]
    [] lines[i] \in {"user", "brief", "noise"} ->
         [turns |-> s.turns \cup Built(lines, s), user |-> i, replies |-> {}]
    [] lines[i] = "reply" -> [s EXCEPT !.replies = @ \cup {i}]
    [] OTHER -> s

Nothing == [turns |-> {}, user |-> 0, replies |-> {}]

(* Mutant: the open turn is not read again.                                *)
ResumeAtEnd(s, end) == end

(* Mutant: no turn need be open.                                           *)
ResumeAtUser(s, end) == s.user - 1

ResumeAt(s, end) == IF s.user = 0 THEN end ELSE s.user - 1

(* What has been read before each line from start on.                      *)
Scan(lines, start) ==
  LET upTo[i \in start..Len(lines)] ==
        IF i = start THEN Nothing ELSE ReadLine(lines, upTo[i - 1], i)
  IN  upTo

(* Only whole lines are read.  A turn open before a half-written line is   *)
(* not built, and a turn open at the end is built and read again later.    *)
Parse(lines, half, start) ==
  LET end == Len(lines)
      s == Scan(lines, start)[end]
  IN  IF start >= FileSize(lines, half)
      THEN [turns |-> {}, consumed |-> FileSize(lines, half), resume |-> FileSize(lines, half)]
      ELSE IF half /\ s.user # 0
           THEN [turns |-> s.turns, consumed |-> s.user - 1, resume |-> s.user - 1]
           ELSE [turns |-> s.turns \cup Built(lines, s), consumed |-> end,
                 resume |-> ResumeAt(s, end)]

(* _apply_boilerplate: what is left of the turn is worth storing.          *)
WouldStore(lines, t) ==
  t.kind = "summary" \/ lines[t.at + 1] # "noise" \/ t.replies # {}
=============================================================================
