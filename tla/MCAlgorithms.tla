----------------------------- MODULE MCAlgorithms -----------------------------
EXTENDS Algorithms, SequencesExt, FiniteSets, FiniteSetsExt, TLC

(* The injective sequences over a set, up to a length.                     *)
Lists(set, n) == {s \in SeqOf(set, n) : IsInjective(s)}

Prefix(list, n) == SubSeq(list, 1, n)

-----------------------------------------------------------------------------
MCRow == {<<1, 0>>, <<1, 1>>, <<1, 2>>, <<2, 0>>, <<3, 0>>}
MCRowRecency == [x \in MCRow |-> CASE x[1] = 1 -> 200 [] x[1] = 2 -> 900 [] OTHER -> 500]
MCRowMoment == [x \in MCRow |-> CASE x[1] = 1 -> 1 [] x[1] = 2 -> 3 [] OTHER -> 0]

Setting(n, sort, kind, reranker) ==
  [n |-> n, sort |-> sort, kind |-> kind, reranker |-> reranker, ids |-> <<<<1, 2>>>>,
   likes |-> <<1, 2, 3>>]

TurnQueries ==
  LET settings == {Setting(1, "relevance", "plain", "off"), Setting(1, "hybrid", "plain", "off"),
                   Setting(1, "recency", "plain", "off"), Setting(1, "relevance", "identifier", "off"),
                   Setting(1, "temporal", "mixed", "off"), Setting(2, "hybrid", "plain", "off"),
                   Setting(2, "relevance", "plain", "qwen3"), Setting(1, "temporal", "plain", "jina")}
      With(q, v, k, f) == [n |-> q.n, sort |-> q.sort, kind |-> q.kind, reranker |-> q.reranker,
                        ids |-> q.ids, likes |-> q.likes, vec |-> v, kw |-> k, factor |-> f]
  IN  {With(q, v, k, f) : q \in settings, v \in Lists(MCRow, 3), k \in Lists(MCRow \ {<<1, 2>>}, 2),
                          f \in {1, 3}}

MCMemory == 1..4
MCMatching == {1, 2, 3}
MCMemoryRecency == <<300, 800, 300, 500>>
MCMemoryMoment == <<1, 2, 1, 3>>

MemoryQueries ==
  LET Hits(n) == {[i \in DOMAIN s |-> [memory |-> s[i], current |-> c[s[i]]]] :
                    s \in Lists(MCMemory, n), c \in [MCMemory -> BOOLEAN]}
      HitOf(x, current) == [memory |-> x, current |-> current]
      Asked(n, sort, kind, ids, first, second) ==
        [n |-> n, sort |-> sort, kind |-> kind, ids |-> ids, down |-> <<first, second>>]
      settings == {Asked(1, "relevance", "plain", << >>, {}, {}),
                   Asked(1, "recency", "identifier", << >>, {"fts"}, {}),
                   Asked(2, "hybrid", "mixed", <<HitOf(3, TRUE)>>, {}, {"ids"}),
                   Asked(2, "relevance", "mixed", <<HitOf(2, FALSE), HitOf(1, TRUE)>>, {"vector"}, {}),
                   Asked(1, "temporal", "mixed", <<HitOf(4, TRUE), HitOf(2, TRUE)>>, {}, {"vector"})}
  IN  {[vec |-> v, kw |-> k, ids |-> q.ids, n |-> q.n, sort |-> q.sort, kind |-> q.kind, down |-> q.down] :
         v \in Hits(3), k \in Hits(1), q \in settings}

Listings == [lives : [1..3 -> SUBSET MCMemory], limit : {1, 2}]

AuditInputs == [near : SUBSET {p \in SUBSET MCMemory : Cardinality(p) = 2}, ids : SUBSET MCMemory]

-----------------------------------------------------------------------------
TurnRow(doc, at, session, index, tags, names) ==
  [doc |-> doc, at |-> at, session |-> session, thread |-> session, provider |-> "claude",
   root |-> "p", index |-> index, agent |-> FALSE, passage |-> FALSE, tags |-> tags,
   names |-> names, words |-> "text", stored |-> "milvus"]

Copy(row) == [row EXCEPT !.stored = "fts"]

R1 == TurnRow(1, 11, 1, 1, {1}, {1})
R2 == [TurnRow(2, 11, 1, 2, {1}, {1}) EXCEPT !.words = "command"]
R3 == [TurnRow(3, 19, 2, 1, {}, {1}) EXCEPT !.agent = TRUE]
R4 == [TurnRow(4, 25, 3, 1, {2}, {1, 2}) EXCEPT !.provider = "codex", !.thread = 1, !.root = "q"]
R5 == [TurnRow(5, 22, 1, 3, {1}, {}) EXCEPT !.passage = TRUE]
R6 == [TurnRow(6, 0, 4, 2, {1}, {1, 2}) EXCEPT !.root = "q"]
R7 == TurnRow(7, 12, 0, 1, {1}, {1, 2})

Filters == {NoFilter, [NoFilter EXCEPT !.from = 1, !.to = 1],
            [NoFilter EXCEPT !.roots = {"q"}], [NoFilter EXCEPT !.issues = {1}]}

ListingInputs ==
  {[scan |-> s, fetch |-> SelectSeq(Reverse(s), LAMBDA r : r.doc # gone), filter |-> f, n |-> n] :
     s \in Lists({R1, R2, R4, R5, R6}, 3), gone \in 0..2, f \in Filters, n \in 0..2}

TimelineInputs ==
  LET options == {[limit |-> 1, newest |-> TRUE, subagents |-> FALSE, fts |-> TRUE],
                  [limit |-> 2, newest |-> FALSE, subagents |-> FALSE, fts |-> TRUE],
                  [limit |-> 2, newest |-> TRUE, subagents |-> TRUE, fts |-> TRUE],
                  [limit |-> 2, newest |-> TRUE, subagents |-> FALSE, fts |-> FALSE]}
      dates == {<<0, 0, {}>>, <<1, 1, {}>>, <<0, 0, {"claude"}>>}
  IN  {[rows |-> r, hits |-> [i \in DOMAIN h |-> Copy(h[i])], issue |-> 1, providers |-> d[3],
        from |-> d[1], to |-> d[2], limit |-> o.limit, newest |-> o.newest,
        subagents |-> o.subagents, fts |-> o.fts] :
         r \in Lists({R1, R2, R3, R5}, 2), h \in Lists({R1, R3, R4, R6}, 3), o \in options, d \in dates}

IssueInputs ==
  LET Answers(h, issues) == [i \in issues |-> IF i = 1 THEN h ELSE Reverse(h)]
      Ask(r, h, i, d, p, x, n) ==
        [rows |-> r, hits |-> Answers([k \in DOMAIN h |-> Copy(h[k])], i), issues |-> i,
         day |-> d, roots |-> p, except |-> x, limit |-> n]
  IN  {Ask(r, h, i, d, w[1], w[2], n) :
         r \in Lists({R1, R2, R4, R5, R6}, 2), h \in Lists({R1, R3, R4, R7}, 2),
         i \in {{1}, {1, 2}}, d \in 0..1, w \in {<<{}, 0>>, <<{}, 1>>, <<{"p"}, 0>>}, n \in 1..2}
      \cup {Ask(r, << >>, {}, d, {"p"}, x, n) :
              r \in Lists({R1, R2, R3, R5, R7}, 3), d \in 0..1, x \in {0, 1}, n \in 1..2}

SessionInputs ==
  {[rows |-> r, filter |-> f, subagents |-> a, wrapped |-> w[1], known |-> w[2],
    summarised |-> {1, 3}, n |-> n] :
     r \in Lists({R1, R2, R3, R4, R6}, 4), f \in {NoFilter, [NoFilter EXCEPT !.from = 1]},
     a \in BOOLEAN, w \in {<<{}, TRUE>>, <<{}, FALSE>>, <<{TRUE}, TRUE>>, <<{FALSE}, TRUE>>, <<{TRUE}, FALSE>>},
     n \in {1, 2}}

WindowRows == {R1, R2, [R1 EXCEPT !.doc = 7, !.index = 5], [R4 EXCEPT !.session = 2], R3, R5}

WindowInputs ==
  {[rows |-> r, id |-> s[1], prefix |-> s[2], index |-> i, context |-> c] :
     r \in Lists(WindowRows \ {R3}, 4), s \in {<<1, {}>>, <<9, {1, 2}>>, <<9, {2}>>},
     i \in {0, 3, 4}, c \in 0..1}

TailInputs ==
  {[rows |-> r, id |-> s[1], provider |-> s[2], limit |-> n] :
     r \in Lists(WindowRows, 3), s \in {<<1, {"claude"}>>, <<1, {"codex"}>>, <<1, {}>>}, n \in 1..2}

-----------------------------------------------------------------------------
KnownRoots == {<< >>, <<"a">>, <<"a", "b">>, <<"a", "b", "c">>, <<"d", "b">>, <<"ab">>}

Targets == {None, [kind |-> "star"]}
           \cup {[kind |-> "path", path |-> p] :
                   p \in {<<"a">>, <<"a", "b">>, <<"a", "b", "wt", "x">>, <<"a", "e">>, <<"d">>, <<"f">>}}
           \cup {[kind |-> "name", name |-> n] : n \in {"b", "e"}}

EmptyCall == [tool |-> "get_turns", valid |-> TRUE, session |-> FALSE, arg |-> None,
              client |-> None, header |-> None, selectors |-> {}, apply |-> FALSE,
              confirm |-> FALSE, drop |-> FALSE]

ScopedCalls ==
  {[EmptyCall EXCEPT !.tool = t, !.session = s, !.arg = a, !.client = c, !.header = h] :
     t \in {"search_session", "search_all_sessions", "list_sessions", "get_session_stats"},
     s \in BOOLEAN, a \in Targets,
     c \in {None, [kind |-> "path", path |-> <<"a", "b">>]},
     h \in {None, [kind |-> "path", path |-> <<"d", "b">>]}}

ChangingCalls ==
  {[EmptyCall EXCEPT !.tool = t, !.valid = v, !.selectors = s, !.apply = a, !.confirm = c, !.drop = d] :
     t \in {"cleanup_sessions", "sanitize_index", "get_turns", "get_issue_timeline"}, v \in BOOLEAN,
     s \in SUBSET {"session", "older"}, a \in BOOLEAN, c \in BOOLEAN, d \in BOOLEAN}

AnswerInputs ==
  {[call |-> c, known |-> k] : c \in ScopedCalls, k \in {s \in SUBSET KnownRoots : Cardinality(s) \in {0, 2, 5}}}
  \cup {[call |-> c, known |-> {<<"a">>}] : c \in ChangingCalls}

-----------------------------------------------------------------------------
(* Rollouts with task events from the start, and rollouts without any.     *)
Entries == {"start", "complete", "import", "user", "reply"}
Rollouts == SeqOf({"user", "reply"}, 4)
            \cup {<<f>> \o s : f \in {"start", "import"}, s \in SeqOf(Entries, 3)}

CodexInputs ==
  {[provider |-> "codex",
    visits |-> <<<<[entries |-> Prefix(e, k), bad |-> b[1]]>>,
                 <<[entries |-> Prefix(e, k), bad |-> FALSE], [entries |-> e, bad |-> b[2]]>>>>] :
     e \in {x \in Rollouts : Len(x) > 1}, k \in 0..2,
     b \in {<<FALSE, FALSE>>, <<TRUE, FALSE>>, <<FALSE, TRUE>>}}

OpenCodeInputs ==
  LET Session(m, l, s) == [messages |-> m, legacy |-> l, settled |-> s]
      counts == UNION {[1..n -> 0..2] : n \in 0..3}
      Grows(m, k) == Len(m) <= Len(k) /\ \A i \in DOMAIN m : m[i] <= k[i]
      grown == {<<m, k>> \in counts \X {x \in counts : Len(x) = 3} : Grows(m, k)}
  IN  {[provider |-> "opencode", visits |-> <<Session(g[1], l, s), Session(g[2], l, TRUE)>>] :
         g \in grown, l \in BOOLEAN, s \in BOOLEAN}

AntigravityInputs ==
  LET lines == SeqOf([step : {-1, 0, 1, 3}, text : BOOLEAN], 3)
  IN  {[provider |-> "antigravity",
        visits |-> <<[lines |-> Prefix(s, k), half |-> h], [lines |-> s, half |-> FALSE]>>] :
         s \in {x \in lines : Len(x) = 3}, k \in 0..3, h \in BOOLEAN}

ClaudeInputs ==
  LET scripts == [1..4 -> {"user", "brief", "reply", "summary"}]
  IN  {[provider |-> "claude",
        visits |-> <<[lines |-> Prefix(s, k), half |-> h], [lines |-> Prefix(s, k + 1), half |-> h],
                     [lines |-> s, half |-> FALSE]>>] :
         s \in scripts, k \in 0..2, h \in BOOLEAN}

DiscoveryInputs ==
  LET records == {[id |-> 1, uri |-> "file", path |-> <<"a">>, bad |-> FALSE],
                  [id |-> 1, uri |-> "relative", path |-> <<"r">>, bad |-> FALSE],
                  [id |-> 1, uri |-> "file", path |-> <<"b">>, bad |-> TRUE],
                  [id |-> 2, uri |-> "file", path |-> <<"c">>, bad |-> FALSE],
                  [id |-> 0, uri |-> "absent", path |-> << >>, bad |-> FALSE]}
      history == {[id |-> 1, path |-> <<"h">>, bad |-> FALSE], [id |-> 2, path |-> <<"i">>, bad |-> FALSE],
                  [id |-> 1, path |-> << >>, bad |-> FALSE], [id |-> 1, path |-> <<"j">>, bad |-> TRUE]}
      pairs == {[old |-> <<"a">>, new |-> <<"x">>], [old |-> <<"a", "b">>, new |-> <<"y", "z">>],
                [old |-> <<"d">>, new |-> << >>], [old |-> <<"x">>, new |-> <<"a">>]}
      folders == {<<"a">>, <<"a", "b", "c">>, << >>, <<"d", "e">>}
      files == {[name |-> n, archived |-> a, packed |-> p, session |-> IF n = 1 THEN 1 ELSE 2,
                 root |-> IF p THEN "r1" ELSE "r2"] : n \in 1..2, a \in BOOLEAN, p \in BOOLEAN}
  IN  <<{[of |-> "antigravity", id |-> 1, desktop |-> d, history |-> h,
        summaries |-> [whole |-> w, records |-> r]] :
         d \in BOOLEAN, w \in BOOLEAN, h \in Lists(history, 2), r \in Lists(records, 3)},
        {[of |-> "cowork", readable |-> r, folders |-> f, cwd |-> c[2], absolute |-> c[1],
          own |-> <<"d", "own">>, map |-> m] :
              r \in BOOLEAN, f \in Lists(folders, 2), m \in Lists(pairs, 3),
              c \in {<<FALSE, << >>>>, <<TRUE, <<"sessions", "vm">>>>, <<TRUE, <<"a", "b">>>>,
                     <<TRUE, <<"d">>>>, <<TRUE, <<"d", "own", "s">>>>, <<FALSE, <<"a">>>>}},
        {[of |-> "codex", files |-> f, unpacks |-> u] : f \in SUBSET files, u \in BOOLEAN},
        {[of |-> "opencode", db |-> [i \in DOMAIN d |-> [session |-> d[i], at |-> 0]], legacy |-> f] :
              d \in Lists(1..3, 2), f \in SeqOf(1..3, 3)}>>

-----------------------------------------------------------------------------
RedactInputs ==
  LET values == {<<1, 2>>, <<2, 3>>, <<1, 2, 3>>, <<2>>, <<1, 0>>, <<0, 2>>}
      kinds == {<<1, FALSE, FALSE, FALSE>>, <<2, FALSE, FALSE, FALSE>>, <<3, TRUE, FALSE, FALSE>>,
                <<3, FALSE, FALSE, FALSE>>, <<3, TRUE, FALSE, TRUE>>, <<1, FALSE, TRUE, FALSE>>}
      Candidate(v, k) == [value |-> v, tier |-> k[1], force |-> k[2], allowed |-> k[3], shaped |-> k[4]]
      found == {Candidate(v, k) : v \in values, k \in kinds}
      Again(v) == Candidate(v, <<2, FALSE, FALSE, FALSE>>)
      again == {<<Again(<<1, 2>>)>>, <<Again(<<0, 2>>), Again(<<2>>)>>}
      texts == {<<1, 2, 3, 1, 2>>, <<2, 3, 1, 2, 2>>, <<2, 2, 1, 2, 3>>, <<1, 2, 3, 2, 3>>,
                <<1, 0, 2, 3, 1>>, <<1, 2, 1, 0, 2>>}
  IN  {[text |-> t, found |-> f, again |-> a] : t \in texts, f \in SeqOf(found, 2), a \in again}

StripInputs ==
  LET pieces == {"words", "brief", "block", "open", "echo", "shell"}
  IN  [user : SeqOf(pieces, 3), reply : SeqOf(pieces, 1)]

PassageInputs ==
  {[tokens |-> t, size |-> s[1], overlap |-> s[2], tokenizer |-> b] :
     t \in SeqOf(BOOLEAN, 7), s \in {<<2, 1>>, <<3, 1>>, <<3, 2>>}, b \in BOOLEAN}

UnitInputs == [sizes : SeqOf(1..4, 4), batch : 1..3, refused : 0..4]

-----------------------------------------------------------------------------
Run(apply, yes, deferred, fails) ==
  [apply |-> apply, yes |-> yes, deferred |-> deferred, fails |-> fails, gone |-> {}, lost |-> {}]

(* A row that only FTS holds is older than those of its turn in Milvus, so *)
(* it is shorter, and the transcript has what the rows of it have.         *)
DedupeInputs ==
  LET rows == {[doc |-> 1, index |-> 1, reply |-> FALSE, size |-> 1],
               [doc |-> 2, index |-> 1, reply |-> TRUE, size |-> 2],
               [doc |-> 3, index |-> 1, reply |-> TRUE, size |-> 3],
               [doc |-> 4, index |-> 2, reply |-> FALSE, size |-> 1]}
      full == {[doc |-> 3, index |-> 1, reply |-> TRUE, size |-> 3],
               [doc |-> 5, index |-> 2, reply |-> TRUE, size |-> 2]}
      Behind(fts, milvus) == \A g \in fts \ milvus : \A r \in milvus : r.index = g.index => g.size < r.size
      runs == {Run(FALSE, FALSE, {}, {}), Run(TRUE, FALSE, {}, {})}
              \cup {Run(TRUE, TRUE, d, f) : d \in SUBSET (1..2), f \in {{}, {1}, {2, 3}, {1, 2, 3, 4, 5}}}
  IN  {[stores |-> [milvus |-> s[1], fts |-> s[2]], transcript |-> t, run |-> r] :
         s \in {p \in (SUBSET rows) \X (SUBSET rows) : Behind(p[2], p[1])}, t \in SUBSET full, r \in runs}

CodexRepairInputs ==
  LET rows == {[doc |-> 1, user |-> 0, reply |-> <<1>>], [doc |-> 2, user |-> 1, reply |-> <<1>>],
               [doc |-> 3, user |-> 1, reply |-> <<1, 2>>], [doc |-> 4, user |-> 1, reply |-> <<1>>]}
      rollouts == {[state |-> "gone", docs |-> {}, dropped |-> {}],
                   [state |-> "unreadable", docs |-> {}, dropped |-> {}]}
                  \cup {[state |-> "read", docs |-> d, dropped |-> x] :
                          d \in {{}, {3}, {2, 3}, {5}}, x \in {{}, {5}}}
      runs == {Run(TRUE, FALSE, {}, {}), Run(TRUE, TRUE, {}, {}), Run(TRUE, TRUE, {}, {1, 4})}
  IN  {[stores |-> [milvus |-> m, fts |-> f], rollout |-> o, run |-> r] :
         m \in SUBSET rows, f \in SUBSET rows, o \in rollouts, r \in runs}

RepairRuns ==
  {[Run(TRUE, FALSE, {}, {}) EXCEPT !.apply = a] : a \in BOOLEAN}
  \cup {[Run(TRUE, TRUE, {}, f) EXCEPT !.gone = g, !.lost = l] :
          f \in {{}, {1}}, g \in {{}, {2}}, l \in {{}, {2}}}

(* FTS has the root of Milvus, none, or the one from before a run whose    *)
(* write to FTS failed.                                                    *)
RetagInputs ==
  LET roots == {<< >>, <<"a">>, <<"a", "b">>, <<"a", "b", "c">>, <<"a", "b", "b">>, <<"ab">>}
      moves == {<<<<"a">>, <<"x">>>>, <<<<"a", "b">>, <<"a">>>>, <<<<"a", "b">>, <<"y", "b">>>>}
      Copies(m) == {<<r, r>> : r \in roots} \cup {<<r, << >>>> : r \in roots}
                   \cup {<<Moved(r, m[1], m[2]), r>> : r \in {x \in roots : Under(x, m[1])}}
  IN  UNION {{[stores |-> [milvus |-> <<c[1], d[1]>>, fts |-> <<c[2], d[2]>>],
               from |-> m[1], to |-> m[2], run |-> r] :
                c \in Copies(m), d \in Copies(m), r \in RepairRuns} : m \in moves}

RestampInputs ==
  LET stamps == {<<m, f>> : m \in {-1, 1, 2}, f \in {-1, 1, 2}}
  IN  {[stores |-> [milvus |-> <<c[1], d[1]>>, fts |-> <<c[2], d[2]>>], wanted |-> w, run |-> r] :
         c \in stamps, d \in stamps, w \in [1..2 -> {0, 1, 3}], r \in RepairRuns}

-----------------------------------------------------------------------------
(* Each area has one or more sets of inputs.                               *)
MCInputs ==
  [turns |-> <<TurnQueries>>,
   memories |-> <<MemoryQueries>>, pages |-> <<Listings>>, clusters |-> <<AuditInputs>>,
   listing |-> <<ListingInputs>>, timeline |-> <<TimelineInputs>>, issue |-> <<IssueInputs>>,
   sessions |-> <<SessionInputs>>, window |-> <<WindowInputs>>, tail |-> <<TailInputs>>, answer |-> <<AnswerInputs>>,
   reading |-> <<CodexInputs, OpenCodeInputs, AntigravityInputs, ClaudeInputs>>,
   discovery |-> DiscoveryInputs, redact |-> <<RedactInputs>>,
   strip |-> <<StripInputs>>, passages |-> <<PassageInputs>>, units |-> <<UnitInputs>>,
   dedupe |-> <<DedupeInputs>>, codex |-> <<CodexRepairInputs>>, retag |-> <<RetagInputs>>,
   restamp |-> <<RestampInputs>>]
=============================================================================
