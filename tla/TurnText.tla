------------------------------ MODULE TurnText ------------------------------
(***************************************************************************)
(* What is done to the text of a turn before it is stored: harness         *)
(* boilerplate is stripped, secrets are masked, and a long turn is cut     *)
(* into passages.  A text to mask is a sequence of characters, one to      *)
(* strip a sequence of pieces, one to cut a sequence of tokens.            *)
(***************************************************************************)
EXTENDS Integers, Sequences, SequencesExt, FiniteSets, FiniteSetsExt

(* _aggregate_maskable_candidates: a candidate is [value, tier, force,     *)
(* allowed, shaped]; the lowest tier of a value counts, and force if any.  *)
Counted(found) == {i \in DOMAIN found : ~found[i].allowed /\ ~(found[i].tier = 3 /\ found[i].shaped)}

Finds(found, v) == {i \in Counted(found) : found[i].value = v}

Tier(found, v) == Min({found[i].tier : i \in Finds(found, v)})

Forced(found, v) == \E i \in Finds(found, v) : found[i].force

Maskable(found) ==
  {v \in {found[i].value : i \in Counted(found)} :
     v # << >> /\ (Tier(found, v) < 3 \/ Forced(found, v))}

(* _maskable_values: by tier, then longest first, then as they were found. *)
Precedes(found, v, w) ==
  \/ Tier(found, v) < Tier(found, w)
  \/ /\ Tier(found, v) = Tier(found, w)
     /\ \/ Len(v) > Len(w)
        \/ Len(v) = Len(w) /\ Min(Finds(found, v)) < Min(Finds(found, w))

LastOf(found, values) == CHOOSE v \in values : \A w \in values \ {v} : Precedes(found, w, v)

Occurs(text, v, i) == i + Len(v) - 1 <= Len(text) /\ SubSeq(text, i, i + Len(v) - 1) = v

Reach(v, i) == i..(i + Len(v) - 1)

(* A character 0 belongs to a placeholder, which is as long as what it     *)
(* hides; the placeholders of all rules look the same.                     *)
Hidden(text) == {i \in DOMAIN text : text[i] = 0}

Blanked(text, reach) == [i \in DOMAIN text |-> IF i \in reach THEN 0 ELSE text[i]]

(* _replace_outside_placeholders: the places of a value, from the left;    *)
(* one that starts in a placeholder is passed over.                        *)
MaskValue(text, v) ==
  LET scan[i \in 0..Len(text)] ==
        IF i = 0 THEN [cursor |-> 1, reach |-> {}]
        ELSE IF i >= scan[i - 1].cursor /\ Occurs(text, v, i)
        THEN [cursor |-> i + Len(v),
              reach |-> scan[i - 1].reach \cup (IF text[i] = 0 THEN {} ELSE Reach(v, i))]
        ELSE scan[i - 1]
  IN  Blanked(text, scan[Len(text)].reach)

(* Mutant: the values are masked in the order they were found.             *)
RedactAsFound(text, found) ==
  LET Latest(values) ==
        CHOOSE v \in values : \A w \in values : Min(Finds(found, w)) <= Min(Finds(found, v))
      out[values \in SUBSET Maskable(found)] ==
        IF values = {} THEN text
        ELSE MaskValue(out[values \ {Latest(values)}], Latest(values))
  IN  out[Maskable(found)]

(* redact: tier by tier, the longest values first.                         *)
Redact(text, found) ==
  LET out[values \in SUBSET Maskable(found)] ==
        IF values = {} THEN text
        ELSE MaskValue(out[values \ {LastOf(found, values)}], LastOf(found, values))
  IN  out[Maskable(found)]

(* _collect_spans: the occurrences in the original text, those that an     *)
(* earlier span or a placeholder overlaps left out.                        *)
SpansOf(text, masked, claimed, v) ==
  LET scan[i \in 0..Len(text)] ==
        IF i = 0 THEN [cursor |-> 1, claimed |-> claimed]
        ELSE IF i >= scan[i - 1].cursor /\ Occurs(text, v, i)
        THEN [cursor |-> i + Len(v),
              claimed |-> IF Reach(v, i) \cap (masked \cup UNION scan[i - 1].claimed) # {}
                          THEN scan[i - 1].claimed
                          ELSE scan[i - 1].claimed \cup {Reach(v, i)}]
        ELSE scan[i - 1]
  IN  scan[Len(text)].claimed

Spans(text, found) ==
  LET out[values \in SUBSET Maskable(found)] ==
        IF values = {} THEN {}
        ELSE SpansOf(text, Hidden(text), out[values \ {LastOf(found, values)}], LastOf(found, values))
  IN  out[Maskable(found)]

(* The positions a snippet shows: the window around the span, without the  *)
(* spans that reach into it.                                               *)
Snippet(text, spans, span, pad) ==
  LET window == (Min(span) - pad)..(Max(span) + pad) \cap DOMAIN text
  IN  window \ UNION {s \in spans : s \cap window # {}}

(* A text, the candidates found in it and those found again in what it is  *)
(* redacted to.  No two places of a value overlap in the text.             *)
Apart(text, v) ==
  \A i, j \in DOMAIN text : i < j /\ Occurs(text, v, i) /\ Occurs(text, v, j) => i + Len(v) <= j

SecretsFound(q) ==
  /\ q.text \in Seq(Nat)
  /\ {q.found, q.again} \subseteq Seq([value : Seq(Nat), tier : 1..3, force : BOOLEAN,
                                       allowed : BOOLEAN, shaped : BOOLEAN])
  /\ \A i \in DOMAIN q.found : Apart(q.text, q.found[i].value)

Plain(v) == \A k \in DOMAIN v : v[k] # 0

(* Only characters of found values are masked, and a value that starts     *)
(* outside a placeholder cannot be read afterwards.  While no value holds  *)
(* a placeholder, the audit reports exactly what is masked and a snippet   *)
(* shows nothing of it.  Redacting what was redacted changes nothing, if   *)
(* all that is found in it starts in a placeholder or was masked before    *)
(* (secret_redaction.redact, scan_spans).                                  *)
RedactionSound(q, out) ==
  LET values == Maskable(q.found)
      spans == Spans(q.text, q.found)
  IN  /\ Len(out) = Len(q.text)
      /\ \A i \in DOMAIN out :
           \/ out[i] = q.text[i]
           \/ out[i] = 0 /\ \E v \in values : \E k \in DOMAIN v : v[k] = q.text[i]
      /\ \A v \in values : v[1] # 0 =>
           \A i \in DOMAIN q.text : Occurs(q.text, v, i) =>
             \E k \in Reach(v, i) : q.text[k] # 0 /\ out[k] = 0
      (* A value of the first tier is masked as a whole.                   *)
      /\ \A v \in values :
           v[1] # 0 /\ Tier(q.found, v) = 1 /\ (\A w \in values \ {v} : Tier(q.found, w) > 1) =>
             \A i \in DOMAIN q.text : Occurs(q.text, v, i) => Reach(v, i) \subseteq Hidden(out)
      /\ \A s, t \in spans : s # t => s \cap t = {}
      /\ (\A v \in values : Plain(v)) =>
           /\ Hidden(out) = Hidden(q.text) \cup UNION spans
           /\ \A s \in spans : Snippet(q.text, spans, s, 2) \cap Hidden(out) \subseteq Hidden(q.text)
      /\ (\A v \in Maskable(q.again) : v[1] = 0 \/ (v \in values /\ Plain(v))) =>
           Redact(out, q.again) = out

-----------------------------------------------------------------------------
(* boilerplate.strip: the pieces of a section are "words" and "brief" of   *)
(* text, a "block" of harness text, an "open" one that never ends, the     *)
(* "echo" of a command and a "shell" input; both echoes become a "marker". *)
Piece == {"words", "brief", "block", "open", "echo", "shell", "marker"}

StripSection(pieces) ==
  LET Open == {i \in DOMAIN pieces : pieces[i] = "open"}
      kept == {i \in DOMAIN pieces : pieces[i] # "block" /\ \A o \in Open : i < o}
      Echoed(i) == \E j \in kept : /\ j < i /\ {pieces[j], pieces[i]} = {"echo"}
                                  /\ \A k \in kept : k <= j \/ k >= i
      Shown(piece) == IF piece \in {"echo", "shell"} THEN "marker" ELSE piece
      text[i \in 0..Len(pieces)] ==
        IF i = 0 THEN << >>
        ELSE IF i \in kept /\ ~Echoed(i) THEN Append(text[i - 1], Shown(pieces[i]))
        ELSE text[i - 1]
  IN  text[Len(pieces)]

Removed(turn) == (ToSet(turn.user) \cup ToSet(turn.reply)) \cap {"block", "open", "echo"} # {}

Strip(turn) ==
  IF ~Removed(turn) THEN turn
  ELSE [user |-> StripSection(turn.user), reply |-> StripSection(turn.reply)]

Enough(turn) == "words" \in ToSet(turn.user) \cup ToSet(turn.reply)

(* _apply_boilerplate and would_store                                      *)
StoredTurn(turn) == ~Removed(turn) \/ Enough(Strip(turn))

Sections(turn) ==
  /\ turn = [user |-> turn.user, reply |-> turn.reply]
  /\ turn.user \in Seq(Piece) /\ turn.reply \in Seq(Piece)

(* Stripping again changes nothing, no words go but those behind a block   *)
(* that never ends, and only a turn left with nothing is dropped.          *)
StripSound(turn, stripped) ==
  LET Words(pieces) ==
        Cardinality({i \in DOMAIN pieces :
                       pieces[i] = "words" /\ \A o \in 1..i : pieces[o] # "open"})
  IN  /\ Strip(stripped) = stripped
      /\ Words(stripped.user) = Words(turn.user)
      /\ Words(stripped.reply) = Words(turn.reply)
      /\ Enough(stripped) => StoredTurn(turn)

-----------------------------------------------------------------------------
(* passage_spans: windows of size tokens that step by size - overlap; the  *)
(* last one ends at the last token.  Empty tokens do not count.            *)
Passages(tokens, size, overlap) ==
  LET n == Cardinality({i \in DOMAIN tokens : tokens[i]})
      count == (n - size + (size - overlap) - 1) \div (size - overlap) + 1
      Start(k) == IF k = count THEN n - size + 1 ELSE (k - 1) * (size - overlap) + 1
  IN  IF n <= size THEN << >> ELSE [k \in 1..count |-> [from |-> Start(k), to |-> Start(k) + size - 1]]

(* _with_passages: without the tokenizer, a turn is stored alone.          *)
PassagesOf(q) == IF q.tokenizer THEN Passages(q.tokens, q.size, q.overlap) ELSE << >>

Windows(q) ==
  /\ q.tokens \in Seq(BOOLEAN) /\ q.tokenizer \in BOOLEAN
  /\ q.size \in Nat /\ q.overlap \in Nat /\ q.overlap < q.size

(* The passages of a turn cover all of its tokens in order, each of them   *)
(* whole, and what spans two neighbours is whole in one if it is no longer *)
(* than the overlap.                                                       *)
PassagesSound(q, list) ==
  LET n == Cardinality({i \in DOMAIN q.tokens : q.tokens[i]})
  IN  /\ list # << >> <=> (q.tokenizer /\ n > q.size)
      /\ list # << >> =>
           /\ list[1].from = 1 /\ list[Len(list)].to = n
           /\ \A k \in DOMAIN list : list[k].to - list[k].from + 1 = q.size
           /\ \A k \in DOMAIN list : k > 1 =>
                list[k].from > list[k - 1].from /\ list[k].from <= list[k - 1].to + 1 - q.overlap
           /\ \A i \in 1..n - q.overlap : \E k \in DOMAIN list :
                list[k].from <= i /\ list[k].to >= i + q.overlap

-----------------------------------------------------------------------------
(* add_turns: the rows of all units, a turn and its passages each, are     *)
(* embedded in batches; at the first batch refused the rest is left, and a *)
(* unit that is not whole by then is not stored.  sizes are the rows of    *)
(* each unit, refused is the batch refused (0 for none).                   *)
Ends(sizes) ==
  LET ends[u \in 0..Len(sizes)] == IF u = 0 THEN 0 ELSE ends[u - 1] + sizes[u]
  IN  ends

RowCount(q) == Ends(q.sizes)[Len(q.sizes)]

Embedded(q) ==
  LET before == (q.refused - 1) * q.batch
  IN  IF q.refused = 0 \/ before >= RowCount(q) THEN RowCount(q) ELSE before

StoredUnits(q) == {u \in DOMAIN q.sizes : Ends(q.sizes)[u] <= Embedded(q)}

Units(q) ==
  /\ q.sizes \in Seq(Nat \ {0}) /\ q.batch \in Nat \ {0} /\ q.refused \in Nat

(* No turn lands without its passages, a turn is left only for want of     *)
(* embeddings, and turns are stored from the first on, without a gap.      *)
UnitsSound(q, stored) ==
  LET batches == 1..(IF q.refused = 0 THEN RowCount(q) ELSE q.refused - 1)
      InBatches(row) == \E b \in batches : row \in (b - 1) * q.batch + 1..b * q.batch
      RowsOf(u) == Ends(q.sizes)[u] - q.sizes[u] + 1..Ends(q.sizes)[u]
  IN  stored = {u \in DOMAIN q.sizes : \A row \in RowsOf(u) : InBatches(row)}
=============================================================================
