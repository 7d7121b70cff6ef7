----------------------------- MODULE RankFusion -----------------------------
(***************************************************************************)
(* The fusion of ranked lists that searches of turns and of memories       *)
(* share.  A list is a sequence of keys, best first.                       *)
(***************************************************************************)
EXTENDS Integers, Sequences, SequencesExt, FiniteSets

K == 60

(* A multiple of K + 1 .. K + 4, so that the gain of a rank is exact.      *)
Scale == 61 * 62 * 63 * 64

(* Where x is in a list first; 0 when it is not there.                     *)
PlaceIn(list, x) == SelectInSeq(list, LAMBDA y : y = x)

(* The elements of a list at some of its positions, in order.              *)
At(list, keep) ==
  [p \in 1..Cardinality(keep) |->
     list[CHOOSE i \in keep : Cardinality({j \in keep : j < i}) = p - 1]]

(* The elements of a list that are in a set, in order.                     *)
Among(list, set) == At(list, {i \in DOMAIN list : list[i] \in set})

(* A set as a list, in a strict order given by its pairs.                  *)
Sorted(set, before) ==
  [p \in 1..Cardinality(set) |->
     CHOOSE x \in set : Cardinality({y \in set : <<y, x>> \in before}) = p - 1]

Gain(list, weight, x) ==
  IF PlaceIn(list, x) = 0 THEN 0 ELSE weight * (Scale \div (K + PlaceIn(list, x)))

(* Sorts are stable: elements of which before, a set of pairs, puts        *)
(* neither first keep the order they come in.                              *)
StableSort(list, before) ==
  LET Ahead(i, j) == \/ <<list[i], list[j]>> \in before
                     \/ <<list[j], list[i]>> \notin before /\ i < j
      order == [i \in DOMAIN list |-> Cardinality({j \in DOMAIN list : Ahead(j, i)})]
  IN  [p \in DOMAIN list |-> list[CHOOSE i \in DOMAIN list : order[i] = p - 1]]

(* Higher keys come first.                                                 *)
Descending(key) == {p \in (DOMAIN key) \X (DOMAIN key) : key[p[1]] > key[p[2]]}

(* The keys of the lists in the order they first come up.                  *)
Distinct(list) == At(list, {i \in DOMAIN list : PlaceIn(list, list[i]) = i})

Fused(vec, kw, weight, ids, x) == Gain(vec, 1, x) + Gain(kw, weight, x) + Gain(ids, 2, x)

RrfMerge(vec, kw, weight, ids) ==
  LET found == Distinct(vec \o kw \o ids)
  IN  StableSort(found, Descending([x \in ToSet(found) |-> Fused(vec, kw, weight, ids, x)]))

First(list, n) == SubSeq(list, 1, IF n < Len(list) THEN n ELSE Len(list))
=============================================================================
