------------------------------ MODULE RankOrder ------------------------------
(***************************************************************************)
(* The orders in which fused results are shown: by relevance, by time, or  *)
(* by a blend of the fused score and the recency of a thing.  Of what is   *)
(* ranked, moment has the time, 0 when none is known, and recency a score  *)
(* in 0..1000, 500 without a time.                                         *)
(***************************************************************************)
EXTENDS RankFusion

CONSTANTS
  RecencyWeight,   \* in percent: recency_weight
  TemporalWeight   \* temporal_recency_weight, for a query such as "latest"

(* _semantic_scores, in thousandths                                        *)
Semantic(score, pool, x) ==
  LET scores == {score[y] : y \in pool}
      lo == CHOOSE s \in scores : \A t \in scores : s <= t
      hi == CHOOSE s \in scores : \A t \in scores : s >= t
  IN  IF hi = lo THEN 1000 ELSE (1000 * (score[x] - lo)) \div (hi - lo)

Blend(score, pool, recency, weight, x) ==
  (100 - weight) * Semantic(score, pool, x) + weight * recency[x]

WeightOf(sort) == IF sort = "temporal" THEN TemporalWeight ELSE RecencyWeight

(* _rank_results; what is equal is in descending order of identity, or as  *)
(* it was.                                                                 *)
Ranked(list, score, recency, moment, sort, byId) ==
  LET pool == ToSet(list)
      Key(x) == IF sort = "recency" THEN moment[x]
                ELSE Blend(score, pool, recency, WeightOf(sort), x)
      key == [x \in pool |-> Key(x)]
      ties == {p \in pool \X pool : byId /\ key[p[1]] = key[p[2]] /\ p[1] > p[2]}
  IN  IF sort = "relevance" THEN list ELSE StableSort(list, Descending(key) \cup ties)
=============================================================================
