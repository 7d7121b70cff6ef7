----------------------------- MODULE TurnSearch -----------------------------
(***************************************************************************)
(* The search for turns: vector hits and keyword hits are fused, the       *)
(* passages of a turn count as that turn, and the pool is cut, ranked and  *)
(* reranked.  A row is a turn <<t, 0>> or its passage <<t, i>>.            *)
(***************************************************************************)
EXTENDS RankOrder

CONSTANTS
  Row,         \* the rows of turns
  RowRecency,  \* their recency
  RowMoment,   \* and their times
  RerankTop    \* the number of rows that the reranker orders

(* passage_parent                                                          *)
Parent(row) == row[1]

(* _collapse_passages: the first row of each turn stays.                   *)
Collapse(list) ==
  At(list, {i \in DOMAIN list : \A j \in 1..i - 1 : Parent(list[j]) # Parent(list[i])})

Reranks(q) == q.reranker # "off" /\ q.sort # "recency"

(* The rows search keeps before the page is cut.                           *)
Keep(q) == IF Reranks(q) /\ RerankTop > q.n THEN RerankTop ELSE q.n

(* The pool is this often the page: q.factor is 3 in search.               *)
Fetch(q) == q.factor * Keep(q)

(* is_identifier_query and identifier_search_query: one identifier weighs  *)
(* its keyword list twice, and identifiers among words are searched alone. *)
KeywordWeight(q) == IF q.kind = "identifier" THEN 2 ELSE 1

Identifiers(q) == IF q.kind = "mixed" THEN First(q.ids, Fetch(q)) ELSE << >>

Vectors(q) == First(q.vec, Fetch(q))

Keywords(q) == First(q.kw, Fetch(q))

FoundRows(q) == ToSet(Vectors(q)) \cup ToSet(Keywords(q)) \cup ToSet(Identifiers(q))

Merged(q) == RrfMerge(Vectors(q), Keywords(q), KeywordWeight(q), Identifiers(q))

Score(q) ==
  [x \in FoundRows(q) |->
     Fused(Vectors(q), Keywords(q), KeywordWeight(q), Identifiers(q), x)]

(* Mutant: the pool is cut before the passages of a turn are collapsed.    *)
PoolCutFirst(q) == Collapse(First(Merged(q), Fetch(q)))

Pool(q) == First(Collapse(Merged(q)), Fetch(q))

Order(q) == First(Ranked(Pool(q), Score(q), RowRecency, RowMoment, q.sort, FALSE), Keep(q))

(* reranker.rerank: qwen3, and any kind with a temporal query, adds the    *)
(* rank that a row came with.                                              *)
RerankOrder(q, top) ==
  LET rank == [i \in DOMAIN top |->
                 1 + Cardinality({j \in DOMAIN top :
                       \/ q.likes[Parent(top[j])] > q.likes[Parent(top[i])]
                       \/ q.likes[Parent(top[j])] = q.likes[Parent(top[i])] /\ j < i})]
      Sum(i) == Scale \div (K + i) + Scale \div (K + rank[i])
      Key(i) == IF q.reranker = "qwen3" \/ q.sort = "temporal" THEN Sum(i) ELSE -rank[i]
      order == StableSort([i \in DOMAIN top |-> i], Descending([i \in DOMAIN top |-> Key(i)]))
  IN  [p \in DOMAIN top |-> top[order[p]]]

Reranked(q, list) ==
  LET top == First(list, RerankTop)
  IN  RerankOrder(q, top) \o SubSeq(list, Len(top) + 1, Len(list))

SearchTurns(q) ==
  First(IF Reranks(q) THEN Reranked(q, Order(q)) ELSE Order(q), q.n)

-----------------------------------------------------------------------------
TurnsOf(list) == {Parent(x) : x \in ToSet(list)}

BestScore(q, t) ==
  LET scores == {Score(q)[x] : x \in {y \in FoundRows(q) : Parent(y) = t}}
  IN  CHOOSE s \in scores : \A u \in scores : s >= u

TurnQuery(q) ==
  {q.n, q.factor} \subseteq Nat \ {0} /\ {q.vec, q.kw, q.ids} \subseteq Seq(Row)

(* A page shows as many turns as were found and fit, each of them once; by *)
(* relevance they are the turns with the best rows, and in the other       *)
(* orders no turn is left out for one that is both older and less relevant *)
(* (search, _collapse_passages, _rank_results).                            *)
TurnPageSound(q, page) ==
  LET turns == {Parent(x) : x \in FoundRows(q)}
      out == {x \in ToSet(Pool(q)) : Parent(x) \notin TurnsOf(page)}
  IN  /\ Cardinality(TurnsOf(page)) = Len(page)
      /\ Len(page) = IF Cardinality(turns) < q.n THEN Cardinality(turns) ELSE q.n
      /\ q.sort = "relevance" /\ ~Reranks(q) =>
           \A t \in TurnsOf(page), u \in turns \ TurnsOf(page) :
             BestScore(q, t) >= BestScore(q, u)
      /\ q.sort \in {"hybrid", "temporal"} /\ ~Reranks(q) =>
           \A x \in ToSet(page), y \in out :
             ~(Score(q)[y] > Score(q)[x] /\ RowRecency[y] > RowRecency[x])
=============================================================================
