---------------------------- MODULE MemorySearch ----------------------------
(***************************************************************************)
(* What the memory service reads: the search that checks every hit of the  *)
(* two indexes with Postgres, the pages of a listing, and the clusters of  *)
(* an audit.  A memory is a number; a hit says whether its version and     *)
(* generation are the current ones.                                        *)
(***************************************************************************)
EXTENDS RankOrder

CONSTANTS
  Memory,             \* the memories
  MemoryRecency,      \* their recency
  MemoryMoment,       \* and when they were created
  MemoryPoolFactor,   \* the fetch is this often the page: 3 in search
  Matching            \* the memories that are live and pass the filters

Hit == [memory : Memory, current : BOOLEAN]

(* Mutant: hits are counted before they are checked.                       *)
KeepAll(hits) == hits

(* keep: the row is live, passes _matches and is what the index holds.     *)
KeepCurrent(hits) ==
  At(hits, {i \in DOMAIN hits : hits[i].current /\ hits[i].memory \in Matching})

Ids(hits) == [i \in DOMAIN hits |-> hits[i].memory]

(* A channel that fails in a pass answers nothing in it.                   *)
Channel(down, name, hits, fetch) == IF name \in down THEN << >> ELSE First(hits, fetch)

VectorIds(q, down, fetch) == Ids(KeepCurrent(Channel(down, "vector", q.vec, fetch)))

KeywordIds(q, down, fetch) == Ids(KeepCurrent(Channel(down, "fts", q.kw, fetch)))

(* identifier_search_query: identifiers among words are searched alone as  *)
(* well, if the keyword search answered.                                   *)
AsksIdentifiers(q, down) == q.kind = "mixed" /\ "fts" \notin down

IdentifierIds(q, down, fetch) ==
  IF AsksIdentifiers(q, down) THEN Ids(KeepCurrent(Channel(down, "ids", q.ids, fetch))) ELSE << >>

(* is_identifier_query: a single identifier weighs the keyword list twice. *)
FtsWeight(q) == IF q.kind = "identifier" THEN 2 ELSE 1

(* _search_once, while the channels in down fail                           *)
SearchOnce(q, down, fetch) ==
  LET vec == VectorIds(q, down, fetch)
      kw == KeywordIds(q, down, fetch)
      ids == IdentifierIds(q, down, fetch)
      merged == RrfMerge(vec, kw, FtsWeight(q), ids)
      score == [x \in ToSet(merged) |-> Fused(vec, kw, FtsWeight(q), ids, x)]
  IN  First(Ranked(merged, score, MemoryRecency, MemoryMoment, q.sort, TRUE), q.n)

FetchOf(q) == MemoryPoolFactor * q.n

(* Mutant: a short page is not refilled.                                   *)
SearchMemoriesOnce(q) == SearchOnce(q, q.down[1], FetchOf(q))

(* search: a short page is replaced once, from a larger fetch; q.down has  *)
(* the channels that fail in the one pass and in the other.                *)
SearchMemories(q) ==
  LET page == SearchOnce(q, q.down[1], FetchOf(q))
  IN  IF Len(page) < q.n THEN SearchOnce(q, q.down[2], 3 * FetchOf(q)) ELSE page

MemoryQuery(q) == q.n \in Nat \ {0} /\ {q.vec, q.kw, q.ids} \subseteq Seq(Hit)

(* The records a pass reaches that are right to show.                      *)
Reached(down, name, hits, fetch) ==
  {h.memory : h \in {k \in ToSet(Channel(down, name, hits, fetch)) : k.current}} \cap Matching

RightOf(q, down, fetch) ==
  Reached(down, "vector", q.vec, fetch) \cup Reached(down, "fts", q.kw, fetch)
    \cup IF AsksIdentifiers(q, down) THEN Reached(down, "ids", q.ids, fetch) ELSE {}

(* A page holds live records that pass the filters, each once, and as many *)
(* of them as its pass reaches.  Unless a channel fails in the refill      *)
(* alone, a stale entry of an index hides no current one that the larger   *)
(* fetch reaches (MemoryService.search).                                   *)
MemoryPageSound(q, page) ==
  LET soon == RightOf(q, q.down[1], FetchOf(q))
      late == RightOf(q, q.down[2], 3 * FetchOf(q))
      Shows(right) == /\ ToSet(page) \subseteq right
                      /\ Len(page) = IF Cardinality(right) < q.n THEN Cardinality(right) ELSE q.n
  IN  /\ IsInjective(page)
      /\ Shows(IF Cardinality(soon) < q.n THEN late ELSE soon)
      /\ q.down[2] \subseteq q.down[1] => Shows(late)

-----------------------------------------------------------------------------
(* MemoryStore.list: newest first, ties by memory_id in descending order,  *)
(* and a cursor that holds the last row of the page.  Between two pages    *)
(* records are added, deleted or edited; created_at never changes.         *)

ListedBefore(x, y) ==
  MemoryMoment[x] > MemoryMoment[y] \/ (MemoryMoment[x] = MemoryMoment[y] /\ x > y)

(* Mutant: the cursor holds the time of the last row alone.                *)
AfterTime(x, cursor) == cursor = 0 \/ MemoryMoment[x] < MemoryMoment[cursor]

After(x, cursor) == cursor = 0 \/ ListedBefore(cursor, x)

Rest(live, cursor) == {x \in live : After(x, cursor)}

(* The first rows after the cursor, as many as the limit.                  *)
ListPage(live, limit, cursor) ==
  LET rest == Rest(live, cursor)
  IN  {x \in rest : Cardinality({y \in rest : ListedBefore(y, x)}) < limit}

(* The next cursor is the last row of the page, when a row is left.        *)
NextCursor(live, limit, cursor) ==
  LET page == ListPage(live, limit, cursor)
  IN  IF Cardinality(Rest(live, cursor)) > limit
      THEN CHOOSE x \in page : \A y \in page : y = x \/ ListedBefore(y, x)
      ELSE 0

(* Reading on while there is a cursor: lives[i] are the rows when page i   *)
(* is read, and cursor[i] is the one it answers with.                      *)
Cursors(lives, limit) ==
  LET cursor[i \in 0..Len(lives)] ==
        IF i = 0 \/ (i > 1 /\ cursor[i - 1] = 0) THEN 0
        ELSE NextCursor(lives[i], limit, cursor[i - 1])
  IN  cursor

Pages(lives, limit) ==
  LET cursor == Cursors(lives, limit)
  IN  [more |-> cursor[Len(lives)] # 0,
       pages |-> [i \in 1..Len(lives) |->
                    IF i > 1 /\ cursor[i - 1] = 0 THEN {}
                    ELSE ListPage(lives[i], limit, cursor[i - 1])]]

PagesRead(q) == q.limit \in Nat \ {0} /\ q.lives \in Seq(SUBSET Memory) /\ q.lives # << >>

(* Whoever reads until no cursor is left gets each record that was there   *)
(* all the time; no record comes twice or out of order, and a page that    *)
(* has a cursor is full (MemoryStore.list).                                *)
PagesComplete(lives, limit, read) ==
  LET pages == read.pages
      always == {x \in Memory : \A i \in 1..Len(lives) : x \in lives[i]}
  IN  /\ \A i, j \in 1..Len(lives) : i < j =>
           \A x \in pages[i], y \in pages[j] : ListedBefore(x, y)
      /\ ~read.more => \A x \in always : \E i \in 1..Len(lives) : x \in pages[i]
      /\ read.more => \A i \in 1..Len(lives) : Cardinality(pages[i]) = limit

-----------------------------------------------------------------------------
(* audit: each active record in turn is joined with those near it.  Of the *)
(* parents, root keeps what find(x) comes to.                              *)

(* for mid in sorted(ids)                                                  *)
Nth(ids, n) == CHOOSE x \in ids : Cardinality({y \in ids : y < x}) = n - 1

(* parent[find(other)] = find(mid), for every other that is near mid: what *)
(* had the root of one of them has that of mid.                            *)
JoinNear(root, near, mid) ==
  LET others == {root[y] : y \in {z \in DOMAIN root : {mid, z} \in near}}
  IN  [x \in DOMAIN root |-> IF root[x] \in others THEN root[mid] ELSE root[x]]

Join(near, ids) ==
  LET root[n \in 0..Cardinality(ids)] ==
        IF n = 0 THEN [x \in ids |-> x] ELSE JoinNear(root[n - 1], near, Nth(ids, n))
  IN  root[Cardinality(ids)]

(* Mutant: a cluster is a record and what is near it.                      *)
NearOnly(near, ids) ==
  {c \in {{x} \cup {y \in ids : {x, y} \in near} : x \in ids} : Cardinality(c) > 1}

Clusters(near, ids) ==
  LET root == Join(near, ids)
  IN  {c \in {{y \in ids : root[y] = root[x]} : x \in ids} : Cardinality(c) > 1}

(* The clusters are the groups of records that chains of near pairs        *)
(* connect: a near pair is in one of them, no two overlap, and none falls  *)
(* into parts that have no near pair across (MemoryService.audit).         *)
ClustersConnected(near, ids, clusters) ==
  /\ \A c \in clusters : c \subseteq ids /\ Cardinality(c) > 1
  /\ \A c, d \in clusters : c # d => c \cap d = {}
  /\ \A x, y \in ids : {x, y} \in near /\ x # y => \E c \in clusters : {x, y} \subseteq c
  /\ \A c \in clusters : \A part \in SUBSET c :
       part # {} /\ part # c => \E x \in part, y \in c \ part : {x, y} \in near
=============================================================================
