-------------------------- MODULE AlgorithmsProofs --------------------------
(***************************************************************************)
(* Proofs about the functions of Algorithms: the repairs of stored turns,  *)
(* for all stores, transcripts and rollouts and whatever fails in a run;   *)
(* the searches, pages, audits and scopes; the lists of sessions and of    *)
(* their turns; and, from SourceProofs, texts, readings and listings.      *)
(***************************************************************************)
EXTENDS Algorithms, SourceProofs

-----------------------------------------------------------------------------
(* restamp-codex.                                                          *)

(* One run writes the wanted stamp to the stores that hold the document,   *)
(* as far as nothing fails, and touches no document without one.           *)
LEMMA RestampRun ==
  ASSUME NEW stores, NEW wanted, NEW run, Applies(run),
         DOMAIN stores.milvus = DOMAIN wanted, DOMAIN stores.fts = DOMAIN wanted,
         \A d \in DOMAIN wanted : wanted[d] \in Nat,
         NEW d \in DOMAIN wanted
  PROVE  LET out == Restamp(stores, wanted, run)
             held == wanted[d] # 0 /\ stores.milvus[d] # -1 /\ d \notin run.lost
         IN  /\ DOMAIN out.milvus = DOMAIN wanted /\ DOMAIN out.fts = DOMAIN wanted
             /\ ~held => out.milvus[d] = stores.milvus[d] /\ out.fts[d] = stores.fts[d]
             /\ held => /\ out.milvus[d] = wanted[d]
                        /\ out.fts[d] \in {wanted[d], -1} \cup
                             (IF d \in run.fails THEN {stores.fts[d]} ELSE {})
                        /\ stores.fts[d] # -1 /\ d \notin run.gone =>
                             out.fts[d] # -1
                        /\ stores.fts[d] = -1 => out.fts[d] \in {-1, wanted[d]}
<1> DEFINE out == Restamp(stores, wanted, run)
           stale == Restamps(stores, wanted)
           written == {e \in stale : stores.milvus[e] # -1} \ run.lost
<1>1. /\ out.milvus = [e \in DOMAIN wanted |->
                          IF e \in written THEN wanted[e] ELSE stores.milvus[e]]
      /\ out.fts = [e \in DOMAIN wanted |->
                       IF e \notin written \ run.fails THEN stores.fts[e]
                       ELSE IF e \in run.gone THEN -1 ELSE wanted[e]]
  BY DEF Restamp
<1>2. d \in stale <=>
        /\ wanted[d] # 0
        /\ \/ stores.milvus[d] # -1 /\ stores.milvus[d] # wanted[d]
           \/ stores.fts[d] # -1 /\ stores.fts[d] # wanted[d]
  <2>1. Stamps(stores, d) = {stores.milvus[d], stores.fts[d]} \ {-1}
    BY DEF Stamps
  <2> QED
    BY <2>1 DEF Restamps
<1>3. wanted[d] # -1
  OBVIOUS
<1>4. d \in written <=> d \in stale /\ stores.milvus[d] # -1 /\ d \notin run.lost
  OBVIOUS
<1> HIDE DEF written, stale, out
<1>5. /\ out.milvus[d] = IF d \in written THEN wanted[d] ELSE stores.milvus[d]
      /\ out.fts[d] = IF d \notin written \ run.fails THEN stores.fts[d]
                       ELSE IF d \in run.gone THEN -1 ELSE wanted[d]
      /\ DOMAIN out.milvus = DOMAIN wanted /\ DOMAIN out.fts = DOMAIN wanted
  BY <1>1
<1> QED
  BY <1>2, <1>3, <1>4, <1>5 DEF out

(* Run again, the stamps are those of the rollouts.                        *)
LEMMA RestampHolds ==
  ASSUME NEW q, StampsOfDocs(q)
  PROVE  LET once == Restamp(q.stores, q.wanted, q.run)
         IN  RestampSound(q, once, Restamp(once, q.wanted, Clean(q.run)))
<1> DEFINE once == Restamp(q.stores, q.wanted, q.run)
           clean == Clean(q.run)
           twice == Restamp(once, q.wanted, clean)
<1>1. Applies(clean) <=> Applies(q.run)
  BY DEF Applies, Clean
<1>2. clean.fails = {} /\ clean.gone = {} /\ clean.lost = {}
  BY DEF Clean
<1>3. ~Applies(q.run) => once = q.stores /\ twice = once
  BY <1>1 DEF Restamp
<1> HIDE DEF once, twice, clean
<1>4. ASSUME Applies(q.run), NEW d \in DOMAIN q.wanted
      PROVE  /\ q.wanted[d] = 0 => twice.milvus[d] = q.stores.milvus[d] /\ twice.fts[d] = q.stores.fts[d]
             /\ q.wanted[d] # 0 /\ q.stores.milvus[d] # -1 =>
                /\ twice.milvus[d] = q.wanted[d]
                /\ twice.fts[d] \in {q.wanted[d], -1}
                /\ q.stores.fts[d] # -1 /\ d \notin q.run.gone => twice.fts[d] = q.wanted[d]
  <2>1. /\ DOMAIN q.stores.milvus = DOMAIN q.wanted /\ DOMAIN q.stores.fts = DOMAIN q.wanted
        /\ \A e \in DOMAIN q.wanted : q.wanted[e] \in Nat
        /\ q.wanted[d] # -1
    BY DEF StampsOfDocs
  <2>2. LET held == q.wanted[d] # 0 /\ q.stores.milvus[d] # -1 /\ d \notin q.run.lost
        IN  /\ DOMAIN once.milvus = DOMAIN q.wanted /\ DOMAIN once.fts = DOMAIN q.wanted
            /\ ~held => once.milvus[d] = q.stores.milvus[d] /\ once.fts[d] = q.stores.fts[d]
            /\ held => /\ once.milvus[d] = q.wanted[d]
                       /\ q.stores.fts[d] # -1 /\ d \notin q.run.gone => once.fts[d] # -1
    BY <1>4, <2>1, RestampRun DEF once
  <2>3. LET held == q.wanted[d] # 0 /\ once.milvus[d] # -1
        IN  /\ ~held => twice.milvus[d] = once.milvus[d] /\ twice.fts[d] = once.fts[d]
            /\ held => /\ twice.milvus[d] = q.wanted[d]
                       /\ twice.fts[d] \in {q.wanted[d], -1}
                       /\ once.fts[d] # -1 => twice.fts[d] # -1
    <3>1. Applies(clean)
      BY <1>1, <1>4
    <3>2. DOMAIN once.milvus = DOMAIN q.wanted /\ DOMAIN once.fts = DOMAIN q.wanted
      BY <2>2
    <3> QED
      BY <3>1, <3>2, <2>1, <1>2, RestampRun DEF twice
  <2> QED
    BY <2>1, <2>2, <2>3
<1> QED
  BY <1>3, <1>4 DEF RestampSound, once, twice, clean

-----------------------------------------------------------------------------
(* retag-project.                                                          *)

(* One run moves the row of a document and its copy, as far as nothing     *)
(* fails, to where the root that was found belongs.                        *)
LEMMA RetagRun ==
  ASSUME NEW stores, NEW from, NEW to, NEW run,
         Applies(run), ValidMove(from, to),
         DOMAIN stores.fts = DOMAIN stores.milvus,
         NEW d \in DOMAIN stores.milvus
  PROVE  LET out == RetagProject(stores, from, to, run)
             found == IF Under(stores.milvus[d], from) THEN stores.milvus[d] ELSE stores.fts[d]
             written == Under(found, from) /\ stores.milvus[d] # << >> /\ d \notin run.lost
         IN  /\ DOMAIN out.milvus = DOMAIN stores.milvus
             /\ DOMAIN out.fts = DOMAIN stores.milvus
             /\ out.milvus[d] = IF written THEN Moved(found, from, to) ELSE stores.milvus[d]
             /\ out.fts[d] = IF ~written \/ d \in run.fails THEN stores.fts[d]
                             ELSE IF d \in run.gone THEN << >> ELSE Moved(found, from, to)
<1> DEFINE found == FoundRoots(stores, from)
           written == {e \in DOMAIN found : stores.milvus[e] # << >>} \ run.lost
           out == RetagProject(stores, from, to, run)
<1>1. /\ out.milvus = [e \in DOMAIN stores.milvus |->
                          IF e \in written THEN Moved(found[e], from, to) ELSE stores.milvus[e]]
      /\ out.fts = [e \in DOMAIN stores.fts |->
                       IF e \notin written \ run.fails THEN stores.fts[e]
                       ELSE IF e \in run.gone THEN << >> ELSE Moved(found[e], from, to)]
  BY DEF RetagProject
<1>2. d \in DOMAIN found <=> Under(stores.milvus[d], from) \/ Under(stores.fts[d], from)
  BY DEF FoundRoots
<1>3. d \in DOMAIN found =>
        found[d] = IF Under(stores.milvus[d], from) THEN stores.milvus[d] ELSE stores.fts[d]
  BY DEF FoundRoots
<1>4. d \in written <=> d \in DOMAIN found /\ stores.milvus[d] # << >> /\ d \notin run.lost
  OBVIOUS
<1> HIDE DEF found, written, out
<1>5. /\ out.milvus[d] = IF d \in written THEN Moved(found[d], from, to) ELSE stores.milvus[d]
      /\ out.fts[d] = IF d \notin written \ run.fails THEN stores.fts[d]
                       ELSE IF d \in run.gone THEN << >> ELSE Moved(found[d], from, to)
      /\ DOMAIN out.milvus = DOMAIN stores.milvus /\ DOMAIN out.fts = DOMAIN stores.milvus
  BY <1>1
<1> QED
  BY <1>2, <1>3, <1>4, <1>5 DEF out

(* A moved root is no empty one.                                           *)
LEMMA MovedHeld ==
  ASSUME NEW root \in Seq(STRING), NEW from \in Seq(STRING), NEW to \in Seq(STRING) \ {<< >>}
  PROVE  Moved(root, from, to) # << >>
<1>1. SubSeq(root, Len(from) + 1, Len(root)) \in Seq(STRING)
  BY SubSeqProperties
<1>2. Len(to) > 0
  BY EmptySeq
<1>3. Len(Moved(root, from, to)) >= Len(to)
  BY <1>1, ConcatProperties DEF Moved
<1> QED
  BY <1>2, <1>3, EmptySeq

(* Run again, each row is moved once, in both stores.                      *)
LEMMA RetagHolds ==
  ASSUME NEW q, RootsAgree(q)
  PROVE  LET once == RetagProject(q.stores, q.from, q.to, q.run)
         IN  RetagSound(q, once, RetagProject(once, q.from, q.to, Clean(q.run)))
<1> DEFINE once == RetagProject(q.stores, q.from, q.to, q.run)
           clean == Clean(q.run)
           twice == RetagProject(once, q.from, q.to, clean)
           M(r) == Moved(r, q.from, q.to)
           U(r) == Under(r, q.from)
<1>1. Applies(clean) <=> Applies(q.run)
  BY DEF Applies, Clean
<1>2. clean.fails = {} /\ clean.gone = {} /\ clean.lost = {}
  BY DEF Clean
<1>3. ~Applies(q.run) \/ ~ValidMove(q.from, q.to) => once = q.stores
  BY DEF RetagProject
<1> HIDE DEF once, twice, clean
<1>4. ASSUME NEW d \in DOMAIN q.stores.milvus,
             q.stores.milvus[d] # << >>, ValidMove(q.from, q.to),
             U(q.stores.milvus[d]) => ~U(M(q.stores.milvus[d])),
             U(q.stores.fts[d]) => ~U(M(q.stores.fts[d]))
      PROVE  /\ once.milvus[d] \in {q.stores.milvus[d], M(q.stores.milvus[d])}
             /\ Applies(q.run) =>
                  /\ twice.milvus[d] =
                       IF U(q.stores.milvus[d]) THEN M(q.stores.milvus[d]) ELSE q.stores.milvus[d]
                  /\ twice.fts[d] \in {twice.milvus[d], << >>}
                  /\ q.stores.fts[d] # << >> /\ d \notin q.run.gone => twice.fts[d] # << >>
  <2>1. CASE ~Applies(q.run)
    BY <1>3, <2>1
  <2>2. CASE Applies(q.run)
    <3> DEFINE root == q.stores.milvus[d]
               copy == q.stores.fts[d]
    <3>1. /\ DOMAIN q.stores.fts = DOMAIN q.stores.milvus
          /\ root \in Seq(STRING) /\ copy \in Seq(STRING)
          /\ copy \in {root, << >>} \/ (U(copy) /\ root = M(copy))
      BY DEF RootsAgree
    <3>2. M(root) # << >> /\ M(copy) # << >> /\ root # << >>
      BY <3>1, <1>4, MovedHeld DEF RootsAgree
    <3>3. ~U(<< >>)
      BY DEF Under
    <3>4. LET found == IF U(root) THEN root ELSE copy
              written == U(found) /\ root # << >> /\ d \notin q.run.lost
          IN  /\ DOMAIN once.milvus = DOMAIN q.stores.milvus
              /\ DOMAIN once.fts = DOMAIN q.stores.milvus
              /\ once.milvus[d] = IF written THEN M(found) ELSE root
              /\ once.fts[d] = IF ~written \/ d \in q.run.fails THEN copy
                               ELSE IF d \in q.run.gone THEN << >> ELSE M(found)
      BY <2>2, <1>4, <3>1, RetagRun DEF once
    <3>5. LET found == IF U(once.milvus[d]) THEN once.milvus[d] ELSE once.fts[d]
              written == U(found) /\ once.milvus[d] # << >>
          IN  /\ twice.milvus[d] = IF written THEN M(found) ELSE once.milvus[d]
              /\ twice.fts[d] = IF ~written THEN once.fts[d] ELSE M(found)
      <4>1. /\ d \in DOMAIN once.milvus /\ DOMAIN once.fts = DOMAIN once.milvus
            /\ Applies(clean)
        BY <3>4, <2>2, <1>1
      <4> QED
        BY <4>1, <1>2, <1>4, RetagRun DEF twice
    <3> HIDE DEF root, copy, M, U
    <3>6. (U(root) => ~U(M(root))) /\ (U(copy) => ~U(M(copy)))
      BY <1>4 DEF root, copy, M, U
    <3>7. CASE U(root)
      BY <2>2, <3>1, <3>2, <3>3, <3>4, <3>5, <3>6, <3>7 DEF root, copy
    <3>8. CASE ~U(root)
      BY <2>2, <3>1, <3>2, <3>3, <3>4, <3>5, <3>6, <3>8 DEF root, copy
    <3> QED
      BY <3>7, <3>8
  <2> QED
    BY <2>1, <2>2
<1> QED
  BY <1>3, <1>4 DEF RetagSound, once, twice, clean

-----------------------------------------------------------------------------
(* dedupe-codex.                                                           *)

(* Among rows there is one with the least doc_id.                          *)
LEMMA FirstDoc ==
  ASSUME NEW rows, rows # {}, \A r \in rows : r.doc \in Nat
  PROVE  \E r \in rows : \A s \in rows : r.doc <= s.doc
<1> DEFINE docs == {r.doc : r \in rows}
<1>1. docs # {} /\ docs \in SUBSET Nat
  OBVIOUS
<1>2. PICK n \in docs : \A k \in docs : n <= k
  <2> HIDE DEF docs
  <2> QED
    BY <1>1, Least
<1> QED
  BY <1>2

(* What _duplicate_rows prefers of two rows of one turn.                   *)
Before(stores, s, r) ==
  \/ s \in stores.milvus /\ r \notin stores.milvus
  \/ (s \in stores.milvus <=> r \in stores.milvus) /\ s.doc < r.doc

(* The words of a row are said by another one, which also has the user's.  *)
Outdone(stores, s, r) ==
  /\ r.user = 0 /\ s.user # 0 /\ r.reply = s.reply
  /\ r \in stores.milvus => \E t \in stores.milvus : SameTurn(s, t)

(* With one row for each doc_id, the indexed rows are those of both stores.*)
LEMMA IndexedIsBoth ==
  ASSUME NEW stores, \A r, s \in Both(stores) : r.doc = s.doc => r = s
  PROVE  IndexedRows(stores) = Both(stores)
BY DEF IndexedRows, Both, DocsOf

(* What makes an indexed row a duplicate.                                  *)
LEMMA DuplicatesAre ==
  ASSUME NEW stores, \A r, s \in Both(stores) : r.doc = s.doc => r = s
  PROVE  Duplicates(stores) =
           {r \in Both(stores) : \E s \in Both(stores) \ {r} :
              (SameTurn(r, s) /\ Before(stores, s, r)) \/ Outdone(stores, s, r)}
<1> DEFINE InMilvus(r) == r \in stores.milvus
           Ahead(s, r) == \/ InMilvus(s) /\ ~InMilvus(r)
                          \/ (InMilvus(s) <=> InMilvus(r)) /\ s.doc < r.doc
<1>1. Duplicates(stores) = {r \in IndexedRows(stores) : \E s \in IndexedRows(stores) \ {r} :
         \/ SameTurn(r, s) /\ Ahead(s, r)
         \/ /\ r.user = 0 /\ s.user # 0 /\ r.reply = s.reply
            /\ InMilvus(r) => \E t \in stores.milvus : SameTurn(s, t)}
  BY DEF Duplicates
<1> QED
  BY <1>1, IndexedIsBoth DEF Before, Outdone

CodexStores(stores) ==
  /\ Both(stores) \subseteq [doc : Nat, user : Nat, reply : Seq(Nat)]
  /\ \A r, s \in Both(stores) : r.doc = s.doc => r = s

(* Each indexed row is repeated by one that stays, and each row of Milvus  *)
(* by one that stays there.                                                *)
LEMMA Survivor ==
  ASSUME NEW stores, CodexStores(stores), NEW r \in Both(stores)
  PROVE  \E s \in Both(stores) \ Duplicates(stores) :
           Repeats(r, s) /\ (r \in stores.milvus => s \in stores.milvus)
<1> DEFINE mine == {s \in Both(stores) : r \in stores.milvus => s \in stores.milvus}
           full == {s \in mine : r.user = 0 /\ s.user # 0 /\ r.reply = s.reply}
<1>1. PICK y \in mine : (full # {} => y \in full) /\ (full = {} => y = r)
  OBVIOUS
<1> DEFINE class == {s \in mine : SameTurn(y, s)}
           first == IF class \cap stores.milvus # {} THEN class \cap stores.milvus ELSE class
<1>2. first # {} /\ first \subseteq class /\ \A s \in first : s.doc \in Nat
  <2>1. y \in class
    BY DEF SameTurn
  <2> QED
    BY <2>1 DEF CodexStores
<1>3. PICK x \in first : \A s \in first : x.doc <= s.doc
  <2> HIDE DEF first
  <2> QED
    BY <1>2, FirstDoc
<1>4. x \in mine /\ SameTurn(y, x) /\ Repeats(r, x)
  <2>1. x \in mine /\ SameTurn(y, x)
    BY <1>2, <1>3
  <2> QED
    BY <2>1, <1>1 DEF Repeats, SameTurn
<1>5. ASSUME NEW s \in Both(stores), SameTurn(x, s), Before(stores, s, x)
      PROVE  FALSE
  <2>1. SameTurn(y, s)
    BY <1>4, <1>5 DEF SameTurn
  <2>2. s.doc \in Nat /\ x.doc \in Nat
    BY <1>2, <1>3 DEF CodexStores
  <2>3. CASE s \in stores.milvus
    <3>1. s \in class \cap stores.milvus
      BY <2>1, <2>3
    <3>2. s \in first /\ x \in stores.milvus
      BY <3>1, <1>3
    <3>3. s.doc < x.doc
      BY <3>2, <1>5 DEF Before
    <3> QED
      BY <3>2, <3>3, <2>2, <1>3
  <2>4. CASE s \notin stores.milvus
    <3>1. x \notin stores.milvus /\ s.doc < x.doc
      BY <2>4, <1>5 DEF Before
    <3>2. r \notin stores.milvus /\ s \in class
      BY <3>1, <1>4, <2>1
    <3>3. class \cap stores.milvus = {}
      BY <3>1, <1>3
    <3> QED
      BY <3>1, <3>2, <3>3, <2>2, <1>3
  <2> QED
    BY <2>3, <2>4
<1>6. ASSUME NEW s \in Both(stores), Outdone(stores, s, x)
      PROVE  FALSE
  <2>1. full = {} /\ y = r
    BY <1>1, <1>4, <1>6 DEF Outdone, SameTurn
  <2>2. r.user = 0 /\ s.user # 0 /\ r.reply = s.reply
    BY <2>1, <1>4, <1>6 DEF Outdone, SameTurn
  <2>3. CASE r \in stores.milvus
    <3>1. PICK t \in stores.milvus : SameTurn(s, t)
      BY <2>3, <1>4, <1>6 DEF Outdone
    <3>2. t \in full
      BY <3>1, <2>2 DEF SameTurn, Both
    <3> QED
      BY <3>2, <2>1
  <2>4. CASE r \notin stores.milvus
    BY <2>1, <2>2, <2>4
  <2> QED
    BY <2>3, <2>4
<1>7. x \in Both(stores) \ Duplicates(stores)
  <2>1. x \in Both(stores)
    BY <1>4
  <2> QED
    <3>1. \A s \in Both(stores) : ~(SameTurn(x, s) /\ Before(stores, s, x)) /\ ~Outdone(stores, s, x)
      BY <1>5, <1>6
    <3> QED
      BY <2>1, <3>1, DuplicatesAre DEF CodexStores
<1> QED
  BY <1>4, <1>7

(* A delete takes the rows of the planned documents, those of FTS as far   *)
(* as nothing fails.                                                       *)
LEMMA Deleted ==
  ASSUME NEW stores, CodexStores(stores), NEW gone \in SUBSET Both(stores), NEW fails
  PROVE  LET out == DeleteDocs(stores, DocsOf(gone), fails)
         IN  /\ out.milvus = stores.milvus \ gone
             /\ out.fts = {r \in stores.fts : r \in gone => r.doc \in fails}
<1>1. \A r \in Both(stores) : r.doc \in DocsOf(gone) <=> r \in gone
  BY DEF DocsOf, CodexStores
<1> QED
  BY <1>1 DEF DeleteDocs, Both

(* A reply holds itself.                                                   *)
LEMMA WithinItself ==
  ASSUME NEW a \in Seq(Nat)
  PROVE  Within(a, a)
<1>1. SubSeq(a, 0 + 1, 0 + Len(a)) = a
  <2>1. 0 + 1 = 1 /\ 0 + Len(a) = Len(a)
    BY LenProperties
  <2> QED
    BY <2>1, SubSeqFull
<1>2. 0 \in 0..Len(a) - Len(a)
  BY LenProperties
<1> QED
  BY <1>1, <1>2 DEF Within

(* Nothing is planned when nothing is left to delete.                      *)
LEMMA GoneOnce ==
  ASSUME NEW stores, CodexStores(stores), NEW out,
         out.milvus = stores.milvus \ Duplicates(stores),
         out.fts = stores.fts \ Duplicates(stores)
  PROVE  Duplicates(out) = {}
<1>1. Both(out) = Both(stores) \ Duplicates(stores)
  BY DEF Both
<1>2. Duplicates(stores) \subseteq Both(stores)
  BY DuplicatesAre DEF CodexStores
<1>3. Duplicates(out) =
           {r \in Both(out) : \E s \in Both(out) \ {r} :
              (SameTurn(r, s) /\ Before(out, s, r)) \/ Outdone(out, s, r)}
  BY <1>1, DuplicatesAre DEF CodexStores
<1>4. ASSUME NEW r \in Both(out), NEW s \in Both(out) \ {r}
      PROVE  /\ SameTurn(r, s) => ~Before(out, s, r)
             /\ ~Outdone(out, s, r)
  <2>1. /\ SameTurn(r, s) => ~Before(stores, s, r)
        /\ ~Outdone(stores, s, r)
    BY <1>1, <1>4, DuplicatesAre DEF CodexStores
  <2>2. (r \in out.milvus <=> r \in stores.milvus) /\ (s \in out.milvus <=> s \in stores.milvus)
    BY <1>1
  <2>3. Before(out, s, r) => Before(stores, s, r)
    BY <2>2 DEF Before
  <2>4. Outdone(out, s, r) => Outdone(stores, s, r)
    BY <2>2 DEF Outdone
  <2> QED
    BY <2>1, <2>3, <2>4
<1> QED
  BY <1>3, <1>4

(* A session whose rollout is gone keeps one row of each of its turns.     *)
LEMMA CodexGone ==
  ASSUME NEW stores, CodexStores(stores), stores = [milvus |-> stores.milvus, fts |-> stores.fts],
         NEW fails, NEW out, out = DeleteDocs(stores, DocsOf(Duplicates(stores)), fails)
  PROVE  /\ \A r \in stores.milvus : \E s \in out.milvus : Repeats(r, s)
         /\ \A r \in stores.fts : \E s \in Both(out) : Repeats(r, s)
         /\ fails = {} => Duplicates(out) = {}
<1>1. Duplicates(stores) \in SUBSET Both(stores)
  BY DuplicatesAre DEF CodexStores
<1>2. /\ out.milvus = stores.milvus \ Duplicates(stores)
      /\ out.fts = {r \in stores.fts : r \in Duplicates(stores) => r.doc \in fails}
  BY <1>1, Deleted
<1>3. Both(stores) \ Duplicates(stores) \subseteq Both(out)
  BY <1>2 DEF Both
<1>4. fails = {} => Duplicates(out) = {}
  BY <1>2, GoneOnce
<1>5. ASSUME NEW r \in stores.milvus PROVE \E s \in out.milvus : Repeats(r, s)
  <2>1. r \in Both(stores)
    BY DEF Both
  <2> QED
    BY <2>1, <1>2, Survivor
<1>6. ASSUME NEW r \in stores.fts PROVE \E s \in Both(out) : Repeats(r, s)
  <2>1. r \in Both(stores)
    BY DEF Both
  <2> QED
    BY <2>1, <1>3, Survivor
<1> QED
  BY <1>4, <1>5, <1>6

(* The rows that a session on disk loses.                                  *)
Superseded(stores, docs) ==
  {r \in Both(stores) : r.doc \notin docs /\ Covered(r, stores, docs)}

(* A session on disk loses the rows whose reply the rows of its parse hold.*)
LEMMA CodexRead ==
  ASSUME NEW stores, CodexStores(stores), NEW docs, NEW fails, NEW out,
         out = DeleteDocs(stores, DocsOf(Superseded(stores, docs)), fails)
  PROVE  /\ \A r \in stores.milvus : \E s \in out.milvus : Within(r.reply, s.reply)
         /\ \A r \in stores.fts : \E s \in Both(out) : Within(r.reply, s.reply)
         /\ DocsOf(stores.milvus) \cap docs \subseteq DocsOf(out.milvus)
         /\ CodexStores(out)
         /\ fails = {} => Superseded(out, docs) = {}
<1> DEFINE gone == Superseded(stores, docs)
<1>1. gone \in SUBSET Both(stores)
  BY DEF Superseded
<1>2. /\ out.milvus = stores.milvus \ gone
      /\ out.fts = {r \in stores.fts : r \in gone => r.doc \in fails}
  BY <1>1, Deleted
<1>3. \A r \in gone : \E s \in stores.milvus : s.doc \in docs /\ Within(r.reply, s.reply)
  BY DEF Superseded, Covered
<1>4. \A s \in stores.milvus : s.doc \in docs => s \in out.milvus
  BY <1>2 DEF Superseded
<1>5. \A r \in Both(stores) : Within(r.reply, r.reply)
  BY WithinItself DEF CodexStores
<1> HIDE DEF gone
<1>6. ASSUME NEW r \in stores.milvus PROVE \E s \in out.milvus : Within(r.reply, s.reply)
  BY <1>2, <1>3, <1>4, <1>5 DEF Both
<1>7. ASSUME NEW r \in stores.fts PROVE \E s \in Both(out) : Within(r.reply, s.reply)
  BY <1>2, <1>3, <1>4, <1>5 DEF Both
<1>8. DocsOf(stores.milvus) \cap docs \subseteq DocsOf(out.milvus)
  BY <1>4 DEF DocsOf
<1>9. Both(out) \subseteq Both(stores)
  BY <1>2 DEF Both
<1>10. CodexStores(out)
  BY <1>9 DEF CodexStores
<1>11. ASSUME fails = {}, NEW r \in Superseded(out, docs) PROVE FALSE
  <2>1. r \in Both(out) /\ r.doc \notin docs /\ Covered(r, out, docs)
    BY <1>11 DEF Superseded
  <2>2. Covered(r, stores, docs)
    BY <2>1, <1>2 DEF Covered
  <2>3. r \in gone
    BY <2>1, <2>2, <1>9 DEF gone, Superseded
  <2> QED
    BY <2>1, <2>3, <1>2, <1>11 DEF Both
<1> QED
  BY <1>6, <1>7, <1>8, <1>10, <1>11

(* dedupe-codex is sound on every input.                                   *)
LEMMA CodexHolds ==
  ASSUME NEW q, CodexRows(q)
  PROVE  DedupeCodexSound(q, DedupeCodex(q.stores, q.rollout, q.run))
<1> DEFINE stores == q.stores
           o == q.rollout
           out == DedupeCodex(q.stores, q.rollout, q.run)
           Holds(rows, r) ==
             \E s \in rows : IF o.state = "gone" THEN Repeats(r, s) ELSE Within(r.reply, s.reply)
           Waits(st) == ~(o.docs \ o.dropped \subseteq DocsOf(st.milvus))
<1>1. /\ CodexStores(stores) /\ stores = [milvus |-> stores.milvus, fts |-> stores.fts]
      /\ o.state \in {"gone", "unreadable", "read"}
  BY DEF CodexRows, CodexStores
<1>2. \A r \in Both(stores) : Within(r.reply, r.reply) /\ Repeats(r, r)
  BY <1>1, WithinItself DEF CodexStores, Repeats, SameTurn
<1>3. ASSUME NEW st, CodexStores(st)
      PROVE  CodexPlan(st, o) = IF o.state = "gone" THEN DocsOf(Duplicates(st))
                                ELSE IF o.state = "unreadable" \/ Waits(st) THEN {}
                                ELSE DocsOf(Superseded(st, o.docs))
  <2>1. IndexedRows(st) = Both(st)
    BY <1>3, IndexedIsBoth DEF CodexStores
  <2>2. CASE o.state = "gone"
    BY <2>2 DEF CodexPlan
  <2>3. CASE o.state = "unreadable"
    BY <2>3 DEF CodexPlan
  <2>4. CASE o.state = "read" /\ Waits(st)
    BY <2>4 DEF CodexPlan
  <2>5. CASE o.state = "read" /\ ~Waits(st)
    BY <2>1, <2>5 DEF CodexPlan, Superseded
  <2> QED
    BY <1>1, <2>2, <2>3, <2>4, <2>5
<1>4. /\ ~Applies(q.run) => out = stores
      /\ Applies(q.run) => out = DeleteDocs(stores, CodexPlan(stores, o), q.run.fails)
  BY DEF DedupeCodex
<1>5. Applies(q.run) /\ CodexPlan(stores, o) = {} => out = stores
  BY <1>1, <1>4 DEF DeleteDocs
<1> DEFINE Safe == /\ \A r \in stores.milvus : Holds(out.milvus, r)
                   /\ \A r \in stores.fts : Holds(Both(out), r)
           Done == Applies(q.run) /\ q.run.fails = {} => CodexPlan(out, o) = {}
           Left == /\ o.state = "unreadable" => out = stores
                   /\ o.state = "read" /\ out # stores =>
                        o.docs \ o.dropped \subseteq DocsOf(out.milvus)
<1> SUFFICES Safe /\ Left /\ Done
  BY <1>4 DEF DedupeCodexSound
<1> HIDE DEF out
<1>6. CASE ~Applies(q.run) \/ o.state = "unreadable" \/ (o.state = "read" /\ Waits(stores))
  <2>1. out = stores /\ (Applies(q.run) => CodexPlan(stores, o) = {})
    BY <1>1, <1>3, <1>4, <1>5, <1>6
  <2>2. /\ \A r \in stores.milvus : Holds(stores.milvus, r)
        /\ \A r \in stores.fts : Holds(Both(stores), r)
    BY <1>2 DEF Both
  <2>3. Safe /\ Left
    BY <1>6, <2>1, <2>2
  <2> QED
    BY <2>1, <2>3
<1>7. CASE Applies(q.run) /\ o.state = "gone"
  <2>1. out = DeleteDocs(stores, DocsOf(Duplicates(stores)), q.run.fails)
    BY <1>1, <1>3, <1>4, <1>7
  <2>2. /\ \A r \in stores.milvus : \E s \in out.milvus : Repeats(r, s)
        /\ \A r \in stores.fts : \E s \in Both(out) : Repeats(r, s)
        /\ q.run.fails = {} => Duplicates(out) = {}
    BY <1>1, <2>1, CodexGone
  <2>3. Duplicates(out) = {} => CodexPlan(out, o) = {}
    BY <1>7 DEF CodexPlan, DocsOf
  <2>4. Safe
    BY <1>7, <2>2
  <2>5. Done
    BY <2>2, <2>3
  <2>6. Left
    BY <1>7
  <2> QED
    BY <2>4, <2>5, <2>6
<1>8. CASE Applies(q.run) /\ o.state = "read" /\ ~Waits(stores)
  <2>1. out = DeleteDocs(stores, DocsOf(Superseded(stores, o.docs)), q.run.fails)
    BY <1>1, <1>3, <1>4, <1>8
  <2>2. /\ \A r \in stores.milvus : \E s \in out.milvus : Within(r.reply, s.reply)
        /\ \A r \in stores.fts : \E s \in Both(out) : Within(r.reply, s.reply)
        /\ DocsOf(stores.milvus) \cap o.docs \subseteq DocsOf(out.milvus)
        /\ CodexStores(out)
        /\ q.run.fails = {} => Superseded(out, o.docs) = {}
    BY <1>1, <2>1, CodexRead
  <2>3. o.docs \ o.dropped \subseteq DocsOf(out.milvus)
    BY <1>8, <2>2
  <2>4. Superseded(out, o.docs) = {} => CodexPlan(out, o) = {}
    BY ZenonT(30), <1>3, <1>8, <2>2, <2>3 DEF DocsOf
  <2>5. Safe
    BY <1>8, <2>2
  <2>6. Done
    BY <2>2, <2>4
  <2>7. Left
    BY <1>8, <2>3
  <2> QED
    BY <2>5, <2>6, <2>7
<1> HIDE DEF Safe, Left, Done, Waits
<1> QED
  BY <1>1, <1>6, <1>7, <1>8

-----------------------------------------------------------------------------
(* dedupe-turns.                                                           *)

(* What _longest prefers of two rows of one turn.                          *)
Ahead(stores, r, s) ==
  \/ r.reply /\ ~s.reply
  \/ r.reply = s.reply /\ r.size > s.size
  \/ /\ r.reply = s.reply /\ r.size = s.size
     /\ \/ r \in stores.milvus /\ s \notin stores.milvus
        \/ (r \in stores.milvus <=> s \in stores.milvus) /\ r.doc < s.doc

TurnRow == [doc : Nat, index : Nat, reply : BOOLEAN, size : Nat]

(* RowsAt the rows of a group, Longest is the one all others are behind.       *)
LEMMA LongestIs ==
  ASSUME NEW stores, NEW rows \in SUBSET TurnRow, IsFiniteSet(rows), rows # {},
         \A r, s \in rows : r.doc = s.doc => r = s
  PROVE  /\ Longest(stores, rows) \in rows
         /\ \A s \in rows \ {Longest(stores, rows)} : Ahead(stores, Longest(stores, rows), s)
<1> DEFINE R == {p \in rows \X rows : Ahead(stores, p[1], p[2])}
<1>1. \A x, y \in rows : <<x, y>> \in R <=> Ahead(stores, x, y)
  OBVIOUS
<1>2. \A x \in rows : ~Ahead(stores, x, x)
  BY DEF Ahead, TurnRow
<1>3. ASSUME NEW x \in rows, NEW y \in rows, x # y
      PROVE  Ahead(stores, x, y) \/ Ahead(stores, y, x)
  BY <1>3 DEF Ahead, TurnRow
<1>4. ASSUME NEW x \in rows, NEW y \in rows, NEW z \in rows,
             Ahead(stores, x, y), Ahead(stores, y, z)
      PROVE  Ahead(stores, x, z)
  BY <1>4 DEF Ahead, TurnRow
<1>5. \E x \in rows : \A y \in rows \ {x} : <<x, y>> \in R
  <2>1. Orders(R, rows)
    BY <1>1, <1>2, <1>3, <1>4 DEF Orders
  <2> HIDE DEF R
  <2> QED
    BY <2>1, FirstOne
<1>6. \E x \in rows : \A y \in rows \ {x} : Ahead(stores, x, y)
  BY <1>1, <1>5
<1> QED
  BY <1>6 DEF Longest, Ahead

(* The rows of an index, and all others.                                   *)
RowsAt(rows, i) == {r \in rows : r.index = i}
Others(rows, i) == {r \in rows : r.index # i}

(* All rows a repair meets: those stored and those of the transcript.      *)
Universe(U, transcript) ==
  /\ U \in SUBSET TurnRow /\ IsFiniteSet(U)
  /\ \A r, s \in U : r.doc = s.doc => r = s
  /\ transcript \in SUBSET U

Inside(stores, U) == stores.milvus \in SUBSET U /\ stores.fts \in SUBSET U

(* A group holds the rows of Milvus, and those of FTS that Milvus lacks.   *)
LEMMA GroupIs ==
  ASSUME NEW U, NEW transcript, Universe(U, transcript), NEW stores, Inside(stores, U), NEW i
  PROVE  /\ Group(stores, i) = RowsAt(stores.milvus, i) \cup RowsAt(stores.fts, i)
         /\ Group(stores, i) \in SUBSET U
<1>1. IndexedRows(stores) = stores.milvus \cup stores.fts
  BY IndexedIsBoth DEF Universe, Inside, Both
<1> QED
  BY <1>1 DEF Group, RowsAt, Inside

(* A rebuilt turn takes the place of the rows of its index.                *)
LEMMA RebuildIs ==
  ASSUME NEW U, NEW transcript, Universe(U, transcript), NEW stores, Inside(stores, U),
         NEW turn \in transcript, NEW run,
         NEW out, out = Rebuild(stores, turn, run),
         ~(turn.index \in run.deferred /\ turn \notin stores.milvus)
  PROVE  /\ out.milvus = Others(stores.milvus, turn.index) \cup {turn}
         /\ \A r \in U : r \in out.fts <=>
              \/ r.index # turn.index /\ r \in stores.fts
              \/ r.index = turn.index /\ r # turn /\ r \in stores.fts /\ r.doc \in run.fails
              \/ r = turn /\ (r \in stores.fts \/ (r \notin stores.milvus /\ r.doc \notin run.fails))
         /\ out.fts \in SUBSET U
<1> DEFINE i == turn.index
           fails == run.fails
           indexed == IF turn.doc \in DocsOf(stores.milvus) \/ turn.doc \in fails THEN {} ELSE {turn}
           added == [milvus |-> stores.milvus \cup {turn},
                     fts |-> {r \in stores.fts : r.doc \notin DocsOf(indexed)} \cup indexed]
           stale == DocsOf({r \in added.milvus : r.index = i /\ r.doc # turn.doc})
           old == OldDocs(stores, turn)
<1>1. turn \in U /\ \A r \in U : r.doc = turn.doc => r = turn
  BY DEF Universe
<1>2. turn.doc \in DocsOf(stores.milvus) <=> turn \in stores.milvus
  BY <1>1 DEF DocsOf, Inside
<1>3. out = DeleteDocs(DeleteDocs(added, stale, fails), old, fails)
  BY <1>2 DEF Rebuild, Refused, StoreTurn
<1>4. Inside(added, U)
  BY <1>1 DEF Inside
<1>5. \A r \in U : r.doc \in stale <=> r \in stores.milvus /\ r.index = i /\ r # turn
  BY <1>1, <1>4 DEF DocsOf, Inside, Universe
<1>6. \A r \in U : r.doc \in old <=> (r \in stores.milvus \/ r \in stores.fts) /\ r.index = i /\ r # turn
  <2>1. /\ Group(stores, i) = RowsAt(stores.milvus, i) \cup RowsAt(stores.fts, i)
        /\ Group(stores, i) \in SUBSET U
    BY GroupIs
  <2>2. \A r \in U : r \in Group(stores, i) <=>
          (r \in stores.milvus \/ r \in stores.fts) /\ r.index = i
    BY <2>1 DEF RowsAt
  <2>3. \A r \in U : r.doc \in DocsOf(Group(stores, i)) <=> r \in Group(stores, i)
    BY <2>1 DEF DocsOf, Universe
  <2>4. \A r \in U : r.doc \in old <=> r.doc \in DocsOf(Group(stores, i)) /\ r.doc # turn.doc
    BY DEF OldDocs
  <2> HIDE DEF old, added, stale, indexed, fails, i
  <2> QED
    BY <1>1, <2>2, <2>3, <2>4
<1>7. \A r \in U : r \in added.fts <=>
        r \in stores.fts \/ (r = turn /\ turn \notin stores.milvus /\ turn.doc \notin fails)
  BY <1>1, <1>2 DEF DocsOf, Inside
<1>8. added.milvus = stores.milvus \cup {turn}
  OBVIOUS
<1> HIDE DEF added, stale, old
<1>9. /\ out.milvus = {r \in added.milvus : r.doc \notin stale /\ r.doc \notin old}
      /\ out.fts = {r \in added.fts : (r.doc \in stale => r.doc \in fails)
                                      /\ (r.doc \in old => r.doc \in fails)}
  BY <1>3 DEF DeleteDocs
<1>10. out.milvus = Others(stores.milvus, i) \cup {turn}
  BY <1>1, <1>4, <1>5, <1>6, <1>8, <1>9 DEF Others, Inside
<1>11. \A r \in U : r \in out.fts <=>
              \/ r.index # i /\ r \in stores.fts
              \/ r.index = i /\ r # turn /\ r \in stores.fts /\ r.doc \in fails
              \/ r = turn /\ (r \in stores.fts \/ (r \notin stores.milvus /\ r.doc \notin fails))
  BY <1>1, <1>5, <1>6, <1>7, <1>9
<1> QED
  BY <1>4, <1>9, <1>10, <1>11 DEF Inside

(* Where the transcript is gone the longest row stays.                     *)
LEMMA KeepIs ==
  ASSUME NEW U, NEW transcript, Universe(U, transcript), NEW stores, Inside(stores, U),
         NEW i, NEW run, Group(stores, i) # {},
         NEW out, out = KeepLongest(stores, i, run)
  PROVE  LET best == Longest(stores, Group(stores, i))
         IN  /\ out.milvus = {r \in stores.milvus : r.index = i => r = best}
             /\ out.fts = {r \in stores.fts : r.index = i => r = best \/ r.doc \in run.fails}
             /\ best \in Group(stores, i)
             /\ \A s \in Group(stores, i) \ {best} : Ahead(stores, best, s)
<1> DEFINE rows == Group(stores, i)
           best == Longest(stores, rows)
<1>1. /\ rows = RowsAt(stores.milvus, i) \cup RowsAt(stores.fts, i)
      /\ rows \in SUBSET U
  BY GroupIs
<1>2. rows \in SUBSET TurnRow /\ IsFiniteSet(rows) /\ \A r, s \in rows : r.doc = s.doc => r = s
  BY <1>1, FS_Subset DEF Universe
<1> HIDE DEF rows
<1>3. best \in rows /\ \A s \in rows \ {best} : Ahead(stores, best, s)
  BY <1>2, LongestIs DEF rows
<1>4. out = DeleteDocs(stores, DocsOf(rows \ {best}), run.fails)
  BY DEF KeepLongest, rows
<1> HIDE DEF best
<1>5. \A r \in U : r.doc \in DocsOf(rows \ {best}) <=> r \in rows \ {best}
  BY <1>1 DEF DocsOf, Universe
<1>6. /\ out.milvus = {r \in stores.milvus : r.doc \notin DocsOf(rows \ {best})}
      /\ out.fts = {r \in stores.fts : r.doc \notin DocsOf(rows \ {best}) \ run.fails}
  BY <1>4 DEF DeleteDocs
<1>7. out.milvus = {r \in stores.milvus : r.index = i => r = best}
  BY <1>1, <1>5, <1>6 DEF RowsAt, Inside
<1>8. out.fts = {r \in stores.fts : r.index = i => r = best \/ r.doc \in run.fails}
  BY <1>1, <1>5, <1>6 DEF RowsAt, Inside
<1> QED
  BY <1>3, <1>7, <1>8 DEF best, rows

(* The repair of a group looks at the rows of its index and changes no     *)
(* other ones.                                                             *)
LEMMA RepairRest ==
  ASSUME NEW U, NEW transcript, Universe(U, transcript), NEW stores, Inside(stores, U),
         stores = [milvus |-> stores.milvus, fts |-> stores.fts],
         NEW i, NEW run, Group(stores, i) # {},
         NEW out, out = RepairGroup(stores, transcript, i, run)
  PROVE  /\ Inside(out, U)
         /\ out = [milvus |-> out.milvus, fts |-> out.fts]
         /\ Others(out.milvus, i) = Others(stores.milvus, i)
         /\ Others(out.fts, i) = Others(stores.fts, i)
<1> DEFINE turns == {t \in transcript : t.index = i}
<1>1. CASE turns # {}
  <2>1. PICK turn \in turns : out = Rebuild(stores, turn, run)
    BY <1>1 DEF RepairGroup
  <2>2. turn \in transcript /\ turn \in U /\ turn.index = i
    BY DEF Universe
  <2>3. CASE turn.index \in run.deferred /\ turn \notin stores.milvus
    <3>1. turn.doc \notin DocsOf(stores.milvus)
      BY <2>2, <2>3 DEF DocsOf, Universe, Inside
    <3>2. out = stores
      BY <2>1, <2>3, <3>1 DEF Rebuild, Refused
    <3> QED
      BY <3>2
  <2>4. CASE ~(turn.index \in run.deferred /\ turn \notin stores.milvus)
    <3>1. /\ out.milvus = Others(stores.milvus, i) \cup {turn}
          /\ \A r \in U : r \in out.fts <=>
              \/ r.index # i /\ r \in stores.fts
              \/ r.index = i /\ r # turn /\ r \in stores.fts /\ r.doc \in run.fails
              \/ r = turn /\ (r \in stores.fts \/ (r \notin stores.milvus /\ r.doc \notin run.fails))
          /\ out.fts \in SUBSET U
      BY <2>1, <2>2, <2>4, RebuildIs
    <3>2. out = [milvus |-> out.milvus, fts |-> out.fts]
      <4>1. ~Refused(stores, turn, run)
        BY <2>4 DEF Refused, DocsOf
      <4> QED
        BY <2>1, <4>1 DEF Rebuild, DeleteDocs
    <3>3. Others(out.milvus, i) = Others(stores.milvus, i)
      BY <2>2, <3>1 DEF Others
    <3>4. Others(out.fts, i) = Others(stores.fts, i)
      BY <2>2, <3>1 DEF Others, Inside
    <3> QED
      BY <2>2, <3>1, <3>2, <3>3, <3>4 DEF Inside, Others
  <2> QED
    BY <2>3, <2>4
<1>2. CASE turns = {} /\ Cardinality(Group(stores, i)) > 1
  <2>1. out = KeepLongest(stores, i, run)
    BY <1>2 DEF RepairGroup
  <2> DEFINE best == Longest(stores, Group(stores, i))
  <2>2. /\ out.milvus = {r \in stores.milvus : r.index = i => r = best}
        /\ out.fts = {r \in stores.fts : r.index = i => r = best \/ r.doc \in run.fails}
    BY <2>1, KeepIs
  <2>3. out = [milvus |-> out.milvus, fts |-> out.fts]
    BY <2>1 DEF KeepLongest, DeleteDocs
  <2> HIDE DEF best
  <2> QED
    BY <2>2, <2>3 DEF Inside, Others
<1>3. CASE turns = {} /\ ~(Cardinality(Group(stores, i)) > 1)
  <2>1. out = stores
    BY <1>3 DEF RepairGroup
  <2> QED
    BY <2>1
<1> QED
  BY <1>1, <1>2, <1>3

(* The repair of a group depends on the rows of its index alone.           *)
LEMMA RepairLocal ==
  ASSUME NEW U, NEW transcript, Universe(U, transcript),
         NEW stores, Inside(stores, U), NEW other, Inside(other, U),
         NEW i, NEW run, Group(stores, i) # {},
         RowsAt(stores.milvus, i) = RowsAt(other.milvus, i),
         RowsAt(stores.fts, i) = RowsAt(other.fts, i),
         NEW out, out = RepairGroup(stores, transcript, i, run),
         NEW too, too = RepairGroup(other, transcript, i, run)
  PROVE  /\ RowsAt(out.milvus, i) = RowsAt(too.milvus, i)
         /\ RowsAt(out.fts, i) = RowsAt(too.fts, i)
<1> DEFINE turns == {t \in transcript : t.index = i}
           group == Group(stores, i)
<1>1. Group(other, i) = group /\ group \in SUBSET U
  BY GroupIs
<1>2. \A r \in U : r.index = i =>
        (r \in stores.milvus <=> r \in other.milvus) /\ (r \in stores.fts <=> r \in other.fts)
  BY DEF RowsAt
<1>3. CASE turns # {}
  <2> DEFINE turn == CHOOSE t \in turns : TRUE
  <2>1. turn \in turns /\ out = Rebuild(stores, turn, run) /\ too = Rebuild(other, turn, run)
    BY <1>3 DEF RepairGroup
  <2> HIDE DEF turn
  <2>2. turn \in transcript /\ turn \in U /\ turn.index = i
    BY <2>1 DEF Universe
  <2>3. turn \in stores.milvus <=> turn \in other.milvus
    BY <1>2, <2>2
  <2>4. CASE turn.index \in run.deferred /\ turn \notin stores.milvus
    <3>1. turn.doc \notin DocsOf(stores.milvus) /\ turn.doc \notin DocsOf(other.milvus)
      BY <2>2, <2>3, <2>4 DEF DocsOf, Universe, Inside
    <3>2. out = stores /\ too = other
      BY <2>1, <2>4, <3>1 DEF Rebuild, Refused
    <3> QED
      BY <3>2
  <2>5. CASE ~(turn.index \in run.deferred /\ turn \notin stores.milvus)
    <3> DEFINE Result(st, o) ==
                 /\ o.milvus = Others(st.milvus, i) \cup {turn}
                 /\ \A r \in U : r \in o.fts <=>
                      \/ r.index # i /\ r \in st.fts
                      \/ r.index = i /\ r # turn /\ r \in st.fts /\ r.doc \in run.fails
                      \/ r = turn /\ (r \in st.fts \/ (r \notin st.milvus /\ r.doc \notin run.fails))
                 /\ o.fts \in SUBSET U
    <3>1. Result(stores, out)
      BY <2>1, <2>2, <2>5, RebuildIs
    <3>2. Result(other, too)
      <4>1. ~(turn.index \in run.deferred /\ turn \notin other.milvus)
        BY <2>3, <2>5
      <4>2. too = Rebuild(other, turn, run) /\ turn \in transcript /\ turn.index = i
        BY <2>1, <2>2
      <4> QED
        BY <4>1, <4>2, RebuildIs
    <3>3. RowsAt(out.milvus, i) = {turn} /\ RowsAt(too.milvus, i) = {turn}
      BY <2>2, <3>1, <3>2 DEF RowsAt, Others
    <3>4. \A r \in U : r.index = i => (r \in out.fts <=> r \in too.fts)
      BY <1>2, <2>2, <3>1, <3>2
    <3>5. RowsAt(out.fts, i) = RowsAt(too.fts, i)
      BY <3>1, <3>2, <3>4 DEF RowsAt
    <3> QED
      BY <3>3, <3>5
  <2> QED
    BY <2>4, <2>5
<1>4. CASE turns = {} /\ Cardinality(group) > 1
  <2> DEFINE best == Longest(stores, group)
             best2 == Longest(other, group)
  <2>1. /\ out.milvus = {r \in stores.milvus : r.index = i => r = best}
        /\ out.fts = {r \in stores.fts : r.index = i => r = best \/ r.doc \in run.fails}
        /\ best \in group /\ \A s \in group \ {best} : Ahead(stores, best, s)
    BY <1>4, KeepIs DEF RepairGroup
  <2>2. /\ too.milvus = {r \in other.milvus : r.index = i => r = best2}
        /\ too.fts = {r \in other.fts : r.index = i => r = best2 \/ r.doc \in run.fails}
        /\ best2 \in group /\ \A s \in group \ {best2} : Ahead(other, best2, s)
    BY <1>1, <1>4, KeepIs DEF RepairGroup
  <2> HIDE DEF best, best2, group
  <2>3. group \subseteq TurnRow /\ \A r \in group : r \in stores.milvus <=> r \in other.milvus
    <3>1. \A r \in group : r.index = i
      BY GroupIs DEF group, RowsAt
    <3> QED
      BY <1>1, <1>2, <3>1 DEF Universe
  <2>4. \A r, s \in group : Ahead(other, r, s) => Ahead(stores, r, s)
    BY <2>3 DEF Ahead
  <2>5. \A r, s \in group : ~(Ahead(stores, r, s) /\ Ahead(stores, s, r))
    BY <2>3 DEF Ahead, TurnRow
  <2>6. best = best2
    BY <2>1, <2>2, <2>4, <2>5
  <2> QED
    BY <1>2, <2>1, <2>2, <2>6 DEF RowsAt, Inside
<1>5. CASE turns = {} /\ ~(Cardinality(group) > 1)
  <2>1. out = stores /\ too = other
    BY <1>1, <1>5 DEF RepairGroup
  <2> QED
    BY <2>1
<1> QED
  BY <1>3, <1>4, <1>5

-----------------------------------------------------------------------------
(* What the run does to one index.                                         *)

(* The rows of an index are versions of one turn, as TurnVersions says.    *)
Versions(q, U) ==
  /\ Universe(U, q.transcript) /\ Inside(q.stores, U)
  /\ U = Both(q.stores) \cup q.transcript
  /\ q.stores = [milvus |-> q.stores.milvus, fts |-> q.stores.fts]
  /\ \A r, s \in U : r.index = s.index /\ r.size <= s.size /\ r.reply => s.reply
  /\ \A t \in q.transcript : \A r \in U :
       r.index = t.index => r.size <= t.size /\ (r \in q.transcript => r = t)
  /\ \A r \in q.stores.fts \ q.stores.milvus : \A s \in q.stores.milvus :
       r.index = s.index => r.size < s.size

(* What is promised of the rows of one index.                              *)
IndexSound(q, out, i) ==
  LET before == RowsAt(q.stores.milvus, i)
      after == RowsAt(out.milvus, i)
  IN  /\ after # {}
      /\ (\E r \in before : r.reply) => \E r \in after : r.reply
      /\ q.run.fails = {} /\ q.run.deferred = {} =>
           /\ Cardinality(after) = 1
           /\ DocsOf(RowsAt(out.fts, i)) \subseteq DocsOf(after)
           /\ (\E r \in after : r.reply)
                <=> \E r \in Both(q.stores) \cup q.transcript : r.index = i /\ r.reply

(* It suffices that one row is left, with the reply.                       *)
LEMMA OneLeft ==
  ASSUME NEW q, NEW U, Versions(q, U), NEW out, Inside(out, U), NEW i, NEW row \in U, row.index = i,
         RowsAt(out.milvus, i) = {row},
         q.run.fails = {} => RowsAt(out.fts, i) \subseteq {row},
         \A r \in U : r.index = i /\ r.reply => row.reply
  PROVE  IndexSound(q, out, i)
<1>1. Cardinality({row}) = 1
  BY FS_Singleton
<1>2. RowsAt(q.stores.milvus, i) \subseteq {r \in U : r.index = i}
  BY DEF RowsAt, Versions, Inside
<1>3. q.run.fails = {} => DocsOf(RowsAt(out.fts, i)) \subseteq DocsOf({row})
  BY DEF DocsOf
<1>4. row.reply <=> \E r \in Both(q.stores) \cup q.transcript : r.index = i /\ r.reply
  BY DEF Versions
<1>5. (\E r \in RowsAt(q.stores.milvus, i) : r.reply) => row.reply
  BY <1>2
<1> QED
  BY <1>1, <1>3, <1>4, <1>5 DEF IndexSound

LEMMA PairCounts ==
  ASSUME NEW x, NEW y, x # y
  PROVE  Cardinality({x, y}) = 2
<1>1. IsFiniteSet({x}) /\ Cardinality({x}) = 1
  BY FS_Singleton
<1>2. Cardinality({x} \cup {y}) = Cardinality({x}) + 1
  <2>1. y \notin {x}
    OBVIOUS
  <2> QED
    BY <1>1, <2>1, FS_AddElement
<1>3. {x} \cup {y} = {x, y}
  OBVIOUS
<1> QED
  BY <1>1, <1>2, <1>3

(* A group of one row is that row, and nothing else has its index.         *)
LEMMA Alone ==
  ASSUME NEW q, NEW U, Versions(q, U), NEW i, NEW row \in RowsAt(q.stores.milvus, i),
         ~(Cardinality(Group(q.stores, i)) > 1)
  PROVE  /\ row \in U /\ row.index = i
         /\ Group(q.stores, i) = {row}
         /\ RowsAt(q.stores.milvus, i) = {row} /\ RowsAt(q.stores.fts, i) \subseteq {row}
<1>1. /\ Group(q.stores, i) = RowsAt(q.stores.milvus, i) \cup RowsAt(q.stores.fts, i)
      /\ Group(q.stores, i) \in SUBSET U
  BY GroupIs DEF Versions
<1>2. row \in U /\ row \in Group(q.stores, i) /\ row.index = i
  BY <1>1 DEF RowsAt
<1>3. IsFiniteSet(Group(q.stores, i)) /\ Cardinality(Group(q.stores, i)) \in Nat
  BY <1>1, FS_Subset, FS_CardinalityType DEF Versions, Universe
<1>4. ASSUME NEW s \in Group(q.stores, i), s # row PROVE FALSE
  <2>1. Cardinality({row, s}) = 2
    BY <1>4, PairCounts
  <2>2. {row, s} \in SUBSET Group(q.stores, i)
    BY <1>2
  <2>3. Cardinality({row, s}) <= Cardinality(Group(q.stores, i))
    BY <1>3, <2>2, FS_Subset
  <2> QED
    BY <1>3, <2>1, <2>3
<1>5. Group(q.stores, i) = {row}
  BY <1>2, <1>4
<1> QED
  BY <1>1, <1>2, <1>5

(* An index that needs no repair has one row, with its reply.              *)
LEMMA Unaffected ==
  ASSUME NEW q, NEW U, Versions(q, U), NEW i, RowsAt(q.stores.milvus, i) # {},
         i \notin Affected(q.stores)
  PROVE  IndexSound(q, q.stores, i)
<1>1. PICK row \in RowsAt(q.stores.milvus, i) : TRUE
  OBVIOUS
<1>2. i \in {r.index : r \in IndexedRows(q.stores)}
  BY <1>1 DEF IndexedRows, RowsAt
<1>3. /\ ~(Cardinality(Group(q.stores, i)) > 1)
      /\ \E r \in Group(q.stores, i) : r.reply
  BY <1>2 DEF Affected
<1>4. /\ row \in U /\ row.index = i
      /\ Group(q.stores, i) = {row}
      /\ RowsAt(q.stores.milvus, i) = {row} /\ RowsAt(q.stores.fts, i) \subseteq {row}
  BY <1>1, <1>3, Alone
<1>5. \A r \in U : r.index = i /\ r.reply => row.reply
  BY <1>3, <1>4
<1>6. Inside(q.stores, U)
  BY DEF Versions
<1> QED
  BY <1>4, <1>5, <1>6, OneLeft

(* The repair of an index is sound.                                        *)
LEMMA RepairedSound ==
  ASSUME NEW q, NEW U, Versions(q, U), NEW i, RowsAt(q.stores.milvus, i) # {},
         NEW out, out = RepairGroup(q.stores, q.transcript, i, q.run)
  PROVE  IndexSound(q, out, i)
<1> DEFINE turns == {t \in q.transcript : t.index = i}
<1>1. /\ Universe(U, q.transcript) /\ Inside(q.stores, U)
      /\ U = Both(q.stores) \cup q.transcript
  BY DEF Versions
<1>2. /\ Group(q.stores, i) = RowsAt(q.stores.milvus, i) \cup RowsAt(q.stores.fts, i)
      /\ Group(q.stores, i) \in SUBSET U /\ Group(q.stores, i) # {}
  BY <1>1, GroupIs
<1>3. Inside(out, U)
  BY <1>1, <1>2, RepairRest DEF Versions
<1>4. CASE turns # {}
  <2>1. PICK turn \in turns : out = Rebuild(q.stores, turn, q.run)
    BY <1>4 DEF RepairGroup
  <2>2. turn \in q.transcript /\ turn \in U /\ turn.index = i
    BY <1>1 DEF Universe
  <2>3. CASE turn.index \in q.run.deferred /\ turn \notin q.stores.milvus
    <3>1. turn.doc \notin DocsOf(q.stores.milvus)
      BY <1>1, <2>2, <2>3 DEF DocsOf, Universe, Inside
    <3>2. out = q.stores
      BY <2>1, <2>3, <3>1 DEF Rebuild, Refused
    <3> QED
      BY <2>3, <3>2 DEF IndexSound
  <2>4. CASE ~(turn.index \in q.run.deferred /\ turn \notin q.stores.milvus)
    <3>1. /\ out.milvus = Others(q.stores.milvus, i) \cup {turn}
          /\ \A r \in U : r \in out.fts <=>
              \/ r.index # i /\ r \in q.stores.fts
              \/ r.index = i /\ r # turn /\ r \in q.stores.fts /\ r.doc \in q.run.fails
              \/ r = turn /\ (r \in q.stores.fts \/ (r \notin q.stores.milvus /\ r.doc \notin q.run.fails))
      BY <1>1, <2>1, <2>2, <2>4, RebuildIs
    <3>2. RowsAt(out.milvus, i) = {turn}
      BY <2>2, <3>1 DEF RowsAt, Others
    <3>3. q.run.fails = {} => RowsAt(out.fts, i) \subseteq {turn}
      BY <1>3, <3>1 DEF RowsAt, Inside
    <3>4. \A r \in U : r.index = i /\ r.reply => turn.reply
      BY <2>2 DEF Versions
    <3> QED
      BY <1>3, <2>2, <3>2, <3>3, <3>4, OneLeft
  <2> QED
    BY <2>3, <2>4
<1>5. CASE turns = {} /\ Cardinality(Group(q.stores, i)) > 1
  <2> DEFINE best == Longest(q.stores, Group(q.stores, i))
  <2>0. out = KeepLongest(q.stores, i, q.run)
    BY <1>5 DEF RepairGroup
  <2>1. /\ out.milvus = {r \in q.stores.milvus : r.index = i => r = best}
        /\ out.fts = {r \in q.stores.fts : r.index = i => r = best \/ r.doc \in q.run.fails}
        /\ best \in Group(q.stores, i)
        /\ \A s \in Group(q.stores, i) \ {best} : Ahead(q.stores, best, s)
    <3>1. Universe(U, q.transcript) /\ Inside(q.stores, U) /\ Group(q.stores, i) # {}
      BY <1>1, <1>2
    <3> HIDE DEF turns
    <3> QED
      BY <2>0, <3>1, KeepIs
  <2> HIDE DEF best
  <2>2. best \in U /\ best.index = i
    BY <1>2, <2>1 DEF RowsAt
  <2>3. best \in q.stores.milvus
    <3>1. PICK s \in RowsAt(q.stores.milvus, i) : TRUE
      OBVIOUS
    <3>2. SUFFICES ASSUME best \notin q.stores.milvus PROVE FALSE
      OBVIOUS
    <3>3. best \in q.stores.fts /\ s \in q.stores.milvus /\ s.index = i /\ s # best
      BY <1>2, <2>1, <3>1, <3>2 DEF RowsAt
    <3>4. best.size < s.size
      BY <2>2, <3>2, <3>3 DEF Versions
    <3>5. s \in U /\ s \in TurnRow /\ best \in TurnRow
      BY <1>1, <2>2, <3>3 DEF Universe, Inside
    <3>6. best.reply => s.reply
      BY <2>2, <3>3, <3>4, <3>5 DEF Versions, TurnRow
    <3>7. Ahead(q.stores, best, s)
      BY <1>2, <2>1, <3>1, <3>3
    <3> QED
      BY <3>4, <3>5, <3>6, <3>7 DEF Ahead, TurnRow
  <2>4. RowsAt(out.milvus, i) = {best}
    BY <2>1, <2>2, <2>3 DEF RowsAt
  <2>5. q.run.fails = {} => RowsAt(out.fts, i) \subseteq {best}
    BY <2>1 DEF RowsAt
  <2>6. ASSUME NEW r \in U, r.index = i, r.reply PROVE best.reply
    <3>1. r \in Group(q.stores, i)
      BY <1>1, <1>2, <1>5, <2>6 DEF Both, RowsAt
    <3> QED
      BY <2>1, <2>6, <3>1 DEF Ahead
  <2> QED
    BY <1>3, <2>2, <2>4, <2>5, <2>6, OneLeft
<1>6. CASE turns = {} /\ ~(Cardinality(Group(q.stores, i)) > 1)
  <2>1. out = q.stores
    BY <1>6 DEF RepairGroup
  <2>2. PICK row \in RowsAt(q.stores.milvus, i) : TRUE
    OBVIOUS
  <2>3. /\ row \in U /\ row.index = i
        /\ Group(q.stores, i) = {row}
        /\ RowsAt(q.stores.milvus, i) = {row} /\ RowsAt(q.stores.fts, i) \subseteq {row}
    BY <1>6, <2>2, Alone
  <2>4. ASSUME NEW r \in U, r.index = i PROVE r = row
    BY <1>1, <1>2, <1>6, <2>3, <2>4 DEF Both, RowsAt
  <2> QED
    BY <1>3, <2>1, <2>3, <2>4, OneLeft
<1> QED
  BY <1>4, <1>5, <1>6

-----------------------------------------------------------------------------
(* The whole run.                                                          *)

(* A run repairs finitely many groups.                                     *)
LEMMA AffectedFinite ==
  ASSUME NEW q, NEW U, Versions(q, U)
  PROVE  /\ Affected(q.stores) \in SUBSET Nat
         /\ IsFiniteSet(Affected(q.stores))
         /\ \A i \in Affected(q.stores) : Group(q.stores, i) # {}
<1> DEFINE f == [r \in U |-> r.index]
           indices == {r.index : r \in U}
<1>1. IndexedRows(q.stores) \in SUBSET U
  BY DEF Versions, Inside, IndexedRows
<1>2. IsFiniteSet(indices) /\ indices \in SUBSET Nat
  <2>1. f \in Surjection(U, indices)
    BY DEF Surjection
  <2>2. IsFiniteSet(indices)
    <3> HIDE DEF indices, f
    <3> QED
      BY <2>1, FS_Surjection DEF Versions, Universe
  <2> QED
    BY <2>2 DEF Versions, Universe, TurnRow
<1>3. Affected(q.stores) \in SUBSET indices
  BY <1>1 DEF Affected
<1>4. \A i \in Affected(q.stores) : Group(q.stores, i) # {}
  BY DEF Affected, Group
<1> HIDE DEF indices
<1> QED
  BY <1>2, <1>3, <1>4, FS_Subset

(* The stores after the groups of S have been repaired: each group as if   *)
(* it had been repaired alone.                                             *)
Repaired(q, U, S) ==
  LET alone(i) == RepairGroup(q.stores, q.transcript, i, q.run)
  IN  [milvus |-> {r \in U : IF r.index \in S THEN r \in alone(r.index).milvus
                             ELSE r \in q.stores.milvus},
       fts |-> {r \in U : IF r.index \in S THEN r \in alone(r.index).fts
                          ELSE r \in q.stores.fts}]

(* With no group repaired the stores are as they were.                     *)
LEMMA RepairedNone ==
  ASSUME NEW q, NEW U, Versions(q, U)
  PROVE  Repaired(q, U, {}) = q.stores
<1>1. /\ {r \in U : r \in q.stores.milvus} = q.stores.milvus
      /\ {r \in U : r \in q.stores.fts} = q.stores.fts
  BY DEF Versions, Inside
<1>2. q.stores = [milvus |-> q.stores.milvus, fts |-> q.stores.fts]
  BY DEF Versions
<1> QED
  BY <1>1, <1>2 DEF Repaired

(* Repairing one group more changes the rows of that index as repairing    *)
(* it alone does.                                                          *)
LEMMA RepairedOne ==
  ASSUME NEW q, NEW U, Versions(q, U), NEW S \in SUBSET Affected(q.stores), NEW i \in S
  PROVE  RepairGroup(Repaired(q, U, S \ {i}), q.transcript, i, q.run) = Repaired(q, U, S)
<1> DEFINE was == Repaired(q, U, S \ {i})
           is == Repaired(q, U, S)
           alone(j) == RepairGroup(q.stores, q.transcript, j, q.run)
           out == RepairGroup(was, q.transcript, i, q.run)
<1>1. /\ Universe(U, q.transcript) /\ Inside(q.stores, U)
      /\ Group(q.stores, i) # {}
  <2>1. i \in Affected(q.stores)
    OBVIOUS
  <2>2. Group(q.stores, i) # {}
    BY <2>1, AffectedFinite
  <2> QED
    BY <2>2 DEF Versions
<1>2. /\ Inside(was, U) /\ was = [milvus |-> was.milvus, fts |-> was.fts]
      /\ Inside(is, U) /\ is = [milvus |-> is.milvus, fts |-> is.fts]
  BY DEF Repaired, Inside
<1>3. \A r \in U : /\ r \in was.milvus <=> IF r.index \in S \ {i} THEN r \in alone(r.index).milvus
                                           ELSE r \in q.stores.milvus
                   /\ r \in was.fts <=> IF r.index \in S \ {i} THEN r \in alone(r.index).fts
                                        ELSE r \in q.stores.fts
  BY DEF Repaired
<1>4. \A r \in U : /\ r \in is.milvus <=> IF r.index \in S THEN r \in alone(r.index).milvus
                                          ELSE r \in q.stores.milvus
                   /\ r \in is.fts <=> IF r.index \in S THEN r \in alone(r.index).fts
                                       ELSE r \in q.stores.fts
  BY DEF Repaired
<1> HIDE DEF was, is, alone, out
<1>5. RowsAt(was.milvus, i) = RowsAt(q.stores.milvus, i) /\ RowsAt(was.fts, i) = RowsAt(q.stores.fts, i)
  BY <1>1, <1>2, <1>3 DEF RowsAt, Inside
<1>6. Group(was, i) # {}
  BY <1>1, <1>2, <1>5, GroupIs
<1>7. /\ Inside(out, U) /\ out = [milvus |-> out.milvus, fts |-> out.fts]
      /\ Others(out.milvus, i) = Others(was.milvus, i)
      /\ Others(out.fts, i) = Others(was.fts, i)
  BY <1>1, <1>2, <1>6, RepairRest DEF out
<1>8. /\ RowsAt(out.milvus, i) = RowsAt(alone(i).milvus, i)
      /\ RowsAt(out.fts, i) = RowsAt(alone(i).fts, i)
  BY <1>1, <1>2, <1>5, <1>6, RepairLocal DEF out, alone
<1>9. \A r \in U : (r \in out.milvus <=> r \in is.milvus) /\ (r \in out.fts <=> r \in is.fts)
  <2>1. ASSUME NEW r \in U, r.index = i
        PROVE  (r \in out.milvus <=> r \in is.milvus) /\ (r \in out.fts <=> r \in is.fts)
    <3>1. (r \in out.milvus <=> r \in alone(i).milvus) /\ (r \in out.fts <=> r \in alone(i).fts)
      BY <1>8, <2>1 DEF RowsAt
    <3> QED
      BY <1>4, <2>1, <3>1
  <2>2. ASSUME NEW r \in U, r.index # i
        PROVE  (r \in out.milvus <=> r \in is.milvus) /\ (r \in out.fts <=> r \in is.fts)
    <3>1. (r \in out.milvus <=> r \in was.milvus) /\ (r \in out.fts <=> r \in was.fts)
      BY <1>7, <2>2 DEF Others
    <3> QED
      BY <1>3, <1>4, <2>2, <3>1
  <2> QED
    BY <2>1, <2>2
<1>10. out.milvus = is.milvus /\ out.fts = is.fts
  BY <1>2, <1>7, <1>9 DEF Inside
<1> QED
  BY <1>2, <1>7, <1>10 DEF out, was, is

(* The loop over the groups, the greatest index last, repairs each alone.  *)
LEMMA LoopIs ==
  ASSUME NEW q, NEW U, Versions(q, U)
  PROVE  DedupeTurns(q.stores, q.transcript, q.run) =
           IF Applies(q.run) THEN Repaired(q, U, Affected(q.stores)) ELSE q.stores
<1> DEFINE A == Affected(q.stores)
           Step(f, S) == IF S = {} THEN q.stores
                         ELSE RepairGroup(f[S \ {Max(S)}], q.transcript, Max(S), q.run)
           Solves(f) == f = [S \in SUBSET A |-> Step(f, S)]
           g == [S \in SUBSET A |-> Repaired(q, U, S)]
           upTo == CHOOSE f : Solves(f)
<1>1. \A S \in SUBSET A : /\ IsFiniteSet(S) /\ Cardinality(S) \in Nat
                          /\ S # {} => /\ Max(S) \in S /\ S \ {Max(S)} \in SUBSET A
                                       /\ Cardinality(S \ {Max(S)}) = Cardinality(S) - 1
  <2>1. SUFFICES ASSUME NEW S \in SUBSET A
                 PROVE  /\ IsFiniteSet(S) /\ Cardinality(S) \in Nat
                        /\ S # {} => /\ Max(S) \in S /\ S \ {Max(S)} \in SUBSET A
                                     /\ Cardinality(S \ {Max(S)}) = Cardinality(S) - 1
    OBVIOUS
  <2>2. IsFiniteSet(S) /\ S \in SUBSET Nat
    BY AffectedFinite, FS_Subset
  <2>3. Cardinality(S) \in Nat
    BY <2>2, FS_CardinalityType
  <2>4. S # {} => Max(S) \in S
    BY <2>2, MaxHeld
  <2>5. Max(S) \in S => Cardinality(S \ {Max(S)}) = Cardinality(S) - 1
    BY <2>2, FS_RemoveElement
  <2> QED
    BY <2>2, <2>3, <2>4, <2>5
<1>2. \A S \in SUBSET A : S # {} =>
        RepairGroup(Repaired(q, U, S \ {Max(S)}), q.transcript, Max(S), q.run) = Repaired(q, U, S)
  BY <1>1, RepairedOne
<1>3. Repaired(q, U, {}) = q.stores
  BY RepairedNone
<1> HIDE DEF A
<1>4. Solves(g)
  <2>1. ASSUME NEW S \in SUBSET A PROVE g[S] = Step(g, S)
    <3>1. CASE S = {}
      BY <1>3, <3>1
    <3>2. CASE S # {}
      <4>1. g[S \ {Max(S)}] = Repaired(q, U, S \ {Max(S)})
        BY <1>1, <3>2
      <4> QED
        BY <1>2, <3>2, <4>1
    <3> QED
      BY <3>1, <3>2
  <2>2. g = [S \in SUBSET A |-> g[S]]
    OBVIOUS
  <2> HIDE DEF g, Step
  <2> QED
    BY <2>1, <2>2
<1>5. Solves(upTo)
  <2> HIDE DEF Solves, g
  <2> QED
    BY <1>4, Zenon
<1>6. DedupeTurns(q.stores, q.transcript, q.run) =
        IF Applies(q.run) THEN upTo[A] ELSE q.stores
  BY DEF DedupeTurns, A
<1> HIDE DEF upTo
<1>7. \A S \in SUBSET A : upTo[S] = Step(upTo, S)
  <2> HIDE DEF Step
  <2> QED
    BY <1>5
<1> DEFINE wrong == {S \in SUBSET A : upTo[S] # Repaired(q, U, S)}
           sizes == {Cardinality(S) : S \in wrong}
<1>8. wrong = {}
  <2>1. SUFFICES ASSUME wrong # {} PROVE FALSE
    OBVIOUS
  <2>2. sizes \in SUBSET Nat /\ sizes # {}
    <3>1. \A S \in wrong : Cardinality(S) \in Nat
      BY <1>1
    <3> HIDE DEF wrong
    <3> QED
      BY <2>1, <3>1
  <2>3. PICK n \in sizes : \A k \in sizes : n <= k
    <3> HIDE DEF sizes
    <3> QED
      BY <2>2, Least
  <2>4. PICK S \in wrong : \A T \in wrong : Cardinality(S) <= Cardinality(T)
    BY <2>3
  <2>5. S \in SUBSET A /\ upTo[S] # Repaired(q, U, S)
    OBVIOUS
  <2>6. S # {}
    BY <1>3, <1>7, <2>5
  <2>7. S \ {Max(S)} \notin wrong
    <3> HIDE DEF wrong
    <3> QED
      BY <1>1, <2>4, <2>5, <2>6
  <2>8. upTo[S \ {Max(S)}] = Repaired(q, U, S \ {Max(S)})
    BY <1>1, <2>5, <2>6, <2>7
  <2> QED
    BY <1>2, <1>7, <2>5, <2>6, <2>8
<1>9. upTo[A] = Repaired(q, U, A)
  BY <1>8
<1> QED
  BY <1>6, <1>9 DEF A

(* dedupe-turns is sound on every input.                                   *)
LEMMA DedupeHolds ==
  ASSUME NEW q, TurnVersions(q)
  PROVE  DedupeTurnsSound(q, DedupeTurns(q.stores, q.transcript, q.run))
<1> DEFINE U == Both(q.stores) \cup q.transcript
           out == DedupeTurns(q.stores, q.transcript, q.run)
<1>1. Versions(q, U)
  BY DEF TurnVersions, Versions, Universe, Inside, Both, TurnRow
<1> HIDE DEF U
<1>2. out = IF Applies(q.run) THEN Repaired(q, U, Affected(q.stores)) ELSE q.stores
  BY <1>1, LoopIs
<1> HIDE DEF out
<1>3. ASSUME NEW i, RowsAt(q.stores.milvus, i) # {}, Applies(q.run)
      PROVE  IndexSound(q, out, i)
  <2>1. out = Repaired(q, U, Affected(q.stores))
    BY <1>2, <1>3
  <2>2. CASE i \in Affected(q.stores)
    <3> DEFINE alone == RepairGroup(q.stores, q.transcript, i, q.run)
    <3>1. IndexSound(q, alone, i)
      BY <1>1, <1>3, RepairedSound
    <3>2. Inside(alone, U)
      BY <1>1, <2>2, AffectedFinite, RepairRest DEF Versions
    <3>3. RowsAt(out.milvus, i) = RowsAt(alone.milvus, i) /\ RowsAt(out.fts, i) = RowsAt(alone.fts, i)
      <4>1. \A r \in U : r.index = i =>
              (r \in out.milvus <=> r \in alone.milvus) /\ (r \in out.fts <=> r \in alone.fts)
        BY <2>1, <2>2 DEF Repaired
      <4>2. Inside(out, U)
        BY <2>1 DEF Repaired, Inside
      <4> HIDE DEF alone
      <4> QED
        BY <3>2, <4>1, <4>2 DEF RowsAt, Inside
    <3> HIDE DEF alone
    <3> QED
      BY <3>1, <3>3 DEF IndexSound
  <2>3. CASE i \notin Affected(q.stores)
    <3>1. IndexSound(q, q.stores, i)
      BY <1>1, <1>3, <2>3, Unaffected
    <3>2. RowsAt(out.milvus, i) = RowsAt(q.stores.milvus, i) /\ RowsAt(out.fts, i) = RowsAt(q.stores.fts, i)
      BY <1>1, <2>1, <2>3 DEF Repaired, RowsAt, Versions, Inside
    <3> QED
      BY <3>1, <3>2 DEF IndexSound
  <2> QED
    BY <2>2, <2>3
<1>4. ASSUME NEW i \in {r.index : r \in q.stores.milvus}
      PROVE  LET before == {r \in q.stores.milvus : r.index = i}
                 after == {r \in out.milvus : r.index = i}
             IN  /\ after # {}
                 /\ (\E r \in before : r.reply) => \E r \in after : r.reply
                 /\ Applies(q.run) /\ q.run.fails = {} /\ q.run.deferred = {} =>
                      /\ Cardinality(after) = 1
                      /\ DocsOf({r \in out.fts : r.index = i}) \subseteq DocsOf(after)
                      /\ (\E r \in after : r.reply)
                           <=> \E r \in Both(q.stores) \cup q.transcript : r.index = i /\ r.reply
  <2>1. RowsAt(q.stores.milvus, i) # {}
    BY <1>4 DEF RowsAt
  <2>2. CASE Applies(q.run)
    BY <1>3, <2>1, <2>2 DEF IndexSound, RowsAt
  <2>3. CASE ~Applies(q.run)
    BY <1>2, <2>1, <2>3 DEF RowsAt
  <2> QED
    BY <2>2, <2>3
<1>5. ~Applies(q.run) => out = q.stores
  BY <1>2
<1> QED
  BY <1>4, <1>5 DEF DedupeTurnsSound, out

-----------------------------------------------------------------------------
(* The behaviours.                                                         *)

(* The area and its input are among the given ones, and a repair's output  *)
(* is what the command makes of it.                                        *)
RepairInv ==
  /\ input \in Given(area)
  /\ output # << >> =>
       /\ area = "dedupe" => output[1] = DedupeTurns(input.stores, input.transcript, input.run)
       /\ area = "codex" => output[1] = DedupeCodex(input.stores, input.rollout, input.run)
       /\ area = "retag" =>
            output[1] = <<RetagOnce, RetagProject(RetagOnce, input.from, input.to, Clean(input.run))>>
       /\ area = "restamp" =>
            output[1] = <<RestampOnce, Restamp(RestampOnce, input.wanted, Clean(input.run))>>

(* The output of a repair is that of its function on an input of its       *)
(* area.                                                                   *)
LEMMA RepairInvHolds == Spec => []RepairInv
<1>1. Init => RepairInv
  <2>1. SUFFICES ASSUME Init PROVE RepairInv
    OBVIOUS
  <2>2. /\ area \in DOMAIN Inputs
        /\ \E i \in DOMAIN Inputs[area] : input \in Inputs[area][i]
    BY <2>1 DEF Init
  <2>3. input \in Given(area)
    BY <2>2 DEF Given
  <2> QED
    BY <2>1, <2>3 DEF Init, RepairInv
<1>2. RepairInv /\ [Next]_vars => RepairInv'
  <2>1. SUFFICES ASSUME RepairInv, [Next]_vars PROVE RepairInv'
    OBVIOUS
  <2>2. area' = area /\ input' = input /\ input' \in Given(area')
    BY <2>1 DEF RepairInv, Next, Call, vars
  <2>3. CASE UNCHANGED vars
    BY <2>1, <2>3 DEF RepairInv, vars, RetagOnce, RestampOnce
  <2>4. CASE Call("dedupe", DedupeTurns(input.stores, input.transcript, input.run))
    BY <2>2, <2>4 DEF RepairInv, Call
  <2>5. CASE Call("codex", DedupeCodex(input.stores, input.rollout, input.run))
    BY <2>2, <2>5 DEF RepairInv, Call
  <2>6. CASE Call("retag", <<RetagOnce, RetagProject(RetagOnce, input.from, input.to, Clean(input.run))>>)
    BY <2>2, <2>6 DEF RepairInv, Call, RetagOnce
  <2>7. CASE Call("restamp", <<RestampOnce, Restamp(RestampOnce, input.wanted, Clean(input.run))>>)
    BY <2>2, <2>7 DEF RepairInv, Call, RestampOnce
  <2>8. CASE area \notin {"dedupe", "codex", "retag", "restamp"}
    BY <2>2, <2>8 DEF RepairInv
  <2> QED
    BY <2>1, <2>3, <2>4, <2>5, <2>6, <2>7, <2>8 DEF Next, Call
<1> QED
  BY <1>1, <1>2, PTL DEF Spec

(* The repairs are sound on every input, whatever fails in a run: no turn  *)
(* and no reply is lost, nothing is left to do after a clean run, and a    *)
(* run after a failed one brings both stores to where they belong.         *)
THEOREM Repairs == Spec => []RepairSound
<1>1. RepairInv => RepairSound
  <2>1. SUFFICES ASSUME RepairInv, output # << >> PROVE RepairSound
    BY DEF RepairSound, Computed
  <2>2. CASE area = "dedupe"
    <3>1. TurnVersions(input)
      BY <2>1, <2>2, RepairAssumption DEF RepairInv
    <3>2. DedupeTurnsSound(input, output[1])
      BY <2>1, <2>2, <3>1, DedupeHolds DEF RepairInv
    <3> QED
      BY <2>2, <3>2 DEF RepairSound, Computed
  <2>3. CASE area = "codex"
    <3>1. CodexRows(input)
      BY <2>1, <2>3, RepairAssumption DEF RepairInv
    <3>2. DedupeCodexSound(input, output[1])
      BY <2>1, <2>3, <3>1, CodexHolds DEF RepairInv
    <3> QED
      BY <2>3, <3>2 DEF RepairSound, Computed
  <2>4. CASE area = "retag"
    <3>1. RootsAgree(input)
      BY <2>1, <2>4, RepairAssumption DEF RepairInv
    <3>2. RetagSound(input, output[1][1], output[1][2])
      BY <2>1, <2>4, <3>1, RetagHolds DEF RepairInv, RetagOnce
    <3> QED
      BY <2>4, <3>2 DEF RepairSound, Computed
  <2>5. CASE area = "restamp"
    <3>1. StampsOfDocs(input)
      BY <2>1, <2>5, RepairAssumption DEF RepairInv
    <3>2. RestampSound(input, output[1][1], output[1][2])
      BY <2>1, <2>5, <3>1, RestampHolds DEF RepairInv, RestampOnce
    <3> QED
      BY <2>5, <3>2 DEF RepairSound, Computed
  <2>6. CASE area \notin {"dedupe", "codex", "retag", "restamp"}
    BY <2>6 DEF RepairSound, Computed
  <2> QED
    BY <2>2, <2>3, <2>4, <2>5, <2>6
<1> QED
  BY <1>1, RepairInvHolds, PTL

-----------------------------------------------------------------------------
(* Texts.                                                                  *)

TextInv ==
  /\ input \in Given(area)
  /\ output # << >> =>
       /\ area = "redact" => output[1] = Redact(input.text, input.found)
       /\ area = "strip" => output[1] = Strip(input)
       /\ area = "passages" => output[1] = PassagesOf(input)
       /\ area = "units" => output[1] = StoredUnits(input)

(* The output is that of the function of the area on an input of it.       *)
LEMMA TextInvHolds == Spec => []TextInv
<1>1. Init => TextInv
  <2>1. SUFFICES ASSUME Init PROVE TextInv
    OBVIOUS
  <2>2. /\ area \in DOMAIN Inputs
        /\ \E i \in DOMAIN Inputs[area] : input \in Inputs[area][i]
    BY <2>1 DEF Init
  <2>3. input \in Given(area)
    BY <2>2 DEF Given
  <2> QED
    BY <2>1, <2>3 DEF Init, TextInv
<1>2. TextInv /\ [Next]_vars => TextInv'
  <2>1. SUFFICES ASSUME TextInv, [Next]_vars PROVE TextInv'
    OBVIOUS
  <2>2. area' = area /\ input' = input /\ input' \in Given(area')
    BY <2>1 DEF TextInv, Next, Call, vars
  <2>3. CASE UNCHANGED vars
    BY <2>1, <2>3 DEF TextInv, vars
  <2>4. CASE Call("redact", Redact(input.text, input.found))
    BY <2>2, <2>4 DEF TextInv, Call
  <2>5. CASE Call("strip", Strip(input))
    BY <2>2, <2>5 DEF TextInv, Call
  <2>6. CASE Call("passages", PassagesOf(input))
    BY <2>2, <2>6 DEF TextInv, Call
  <2>7. CASE Call("units", StoredUnits(input))
    BY <2>2, <2>7 DEF TextInv, Call
  <2>8. CASE area \notin {"redact", "strip", "passages", "units"}
    BY <2>2, <2>8 DEF TextInv
  <2> QED
    BY <2>1, <2>3, <2>4, <2>5, <2>6, <2>7, <2>8 DEF Next, Call
<1> QED
  BY <1>1, <1>2, PTL DEF Spec

(* On every text the audit reports what is masked and shows nothing of it, *)
(* stripping loses no words and is done in one pass, the passages cover    *)
(* the turn, and a unit is stored whole or not at all.                     *)
THEOREM Texts == Spec => []TextSound
<1>1. TextInv => TextSound
  <2>1. SUFFICES ASSUME TextInv, output # << >> PROVE TextSound
    BY DEF TextSound, Computed
  <2>2. CASE area = "redact"
    <3>1. SecretsFound(input)
      BY <2>1, <2>2, TextAssumption DEF TextInv
    <3>2. RedactionSound(input, output[1])
      BY <2>1, <2>2, <3>1, RedactionHolds DEF TextInv
    <3> QED
      BY <2>2, <3>2 DEF TextSound, Computed
  <2>3. CASE area = "strip"
    <3>1. Sections(input)
      BY <2>1, <2>3, TextAssumption DEF TextInv
    <3>2. StripSound(input, output[1])
      BY <2>1, <2>3, <3>1, StripHolds DEF TextInv
    <3> QED
      BY <2>3, <3>2 DEF TextSound, Computed
  <2>4. CASE area = "passages"
    <3>1. Windows(input)
      BY <2>1, <2>4, TextAssumption DEF TextInv
    <3>2. PassagesSound(input, output[1])
      BY <2>1, <2>4, <3>1, PassagesHold DEF TextInv
    <3> QED
      BY <2>4, <3>2 DEF TextSound, Computed
  <2>5. CASE area = "units"
    <3>1. Units(input)
      BY <2>1, <2>5, TextAssumption DEF TextInv
    <3>2. UnitsSound(input, output[1])
      BY <2>1, <2>5, <3>1, UnitsHold DEF TextInv
    <3> QED
      BY <2>5, <3>2 DEF TextSound, Computed
  <2>6. CASE area \notin {"redact", "strip", "passages", "units"}
    BY <2>6 DEF TextSound, Computed
  <2> QED
    BY <2>2, <2>3, <2>4, <2>5, <2>6
<1> QED
  BY <1>1, TextInvHolds, PTL

-----------------------------------------------------------------------------
(* Readings and sources.                                                   *)

(* A source that grew is read as one visit to its last state would read    *)
(* it, whichever provider it is of.                                        *)
LEMMA ReadingHolds ==
  ASSUME NEW q, SourceGrows(q)
  PROVE  ReadingExact(q, ReadSource(q.provider, q.visits))
<1>1. CASE q.provider = "codex" /\ RolloutsGrow(q.visits)
  BY <1>1, CodexReadingHolds DEF SourceGrows
<1>2. CASE q.provider = "opencode" /\ Sessions(q.visits)
  BY <1>2, OpenCodeHolds DEF SourceGrows
<1>3. CASE q.provider = "antigravity" /\ StepsGrow(q.visits)
  BY <1>3, AntigravityHolds DEF SourceGrows
<1>4. CASE q.provider = "claude" /\ TranscriptGrows(q.visits)
  BY <1>4, ClaudeHolds DEF SourceGrows
<1> QED
  BY <1>1, <1>2, <1>3, <1>4 DEF SourceGrows

ReadingInv ==
  /\ input \in Given(area)
  /\ output # << >> =>
       /\ area = "reading" => output[1] = ReadSource(input.provider, input.visits)
       /\ area = "discovery" => output[1] = Discover(input)

(* The output is that of the function of the area on an input of it.       *)
LEMMA ReadingInvHolds == Spec => []ReadingInv
<1>1. Init => ReadingInv
  <2>1. SUFFICES ASSUME Init PROVE ReadingInv
    OBVIOUS
  <2>2. /\ area \in DOMAIN Inputs
        /\ \E i \in DOMAIN Inputs[area] : input \in Inputs[area][i]
    BY <2>1 DEF Init
  <2>3. input \in Given(area)
    BY <2>2 DEF Given
  <2> QED
    BY <2>1, <2>3 DEF Init, ReadingInv
<1>2. ReadingInv /\ [Next]_vars => ReadingInv'
  <2>1. SUFFICES ASSUME ReadingInv, [Next]_vars PROVE ReadingInv'
    OBVIOUS
  <2>2. area' = area /\ input' = input /\ input' \in Given(area')
    BY <2>1 DEF ReadingInv, Next, Call, vars
  <2>3. CASE UNCHANGED vars
    BY <2>1, <2>3 DEF ReadingInv, vars
  <2>4. CASE Call("reading", ReadSource(input.provider, input.visits))
    BY <2>2, <2>4 DEF ReadingInv, Call
  <2>5. CASE Call("discovery", Discover(input))
    BY <2>2, <2>5 DEF ReadingInv, Call
  <2>6. CASE area \notin {"reading", "discovery"}
    BY <2>2, <2>6 DEF ReadingInv
  <2> QED
    BY <2>1, <2>3, <2>4, <2>5, <2>6 DEF Next, Call
<1> QED
  BY <1>1, <1>2, PTL DEF Spec

(* However a source grew and whenever it was visited, the index holds of   *)
(* it what one visit to its last state would store; and each session is    *)
(* found once, with a root that its own records give.                      *)
THEOREM Readings == Spec => []ReadingSound
<1>1. ReadingInv => ReadingSound
  <2>1. SUFFICES ASSUME ReadingInv, output # << >> PROVE ReadingSound
    BY DEF ReadingSound, Computed
  <2>2. CASE area = "reading"
    <3>1. SourceGrows(input)
      BY <2>1, <2>2, ReadingAssumption DEF ReadingInv
    <3>2. ReadingExact(input, output[1])
      BY <2>1, <2>2, <3>1, ReadingHolds DEF ReadingInv
    <3> QED
      BY <2>2, <3>2 DEF ReadingSound, Computed
  <2>3. CASE area = "discovery"
    <3>1. Found(input)
      BY <2>1, <2>3, ReadingAssumption DEF ReadingInv
    <3>2. DiscoverySound(input, output[1])
      BY <2>1, <2>3, <3>1, DiscoveryHolds DEF ReadingInv
    <3> QED
      BY <2>3, <3>2 DEF ReadingSound, Computed
  <2>4. CASE area \notin {"reading", "discovery"}
    BY <2>4 DEF ReadingSound, Computed
  <2> QED
    BY <2>2, <2>3, <2>4
<1> QED
  BY <1>1, ReadingInvHolds, PTL

-----------------------------------------------------------------------------
(* Scopes.                                                                 *)

(* Paths are kept, up to the first worktree folder.                        *)
LEMMA RepositoryIs ==
  ASSUME NEW path \in Seq(STRING)
  PROVE  Repository(path) \in Seq(STRING)
<1> DEFINE marks == {i \in DOMAIN path : path[i] = "wt"}
           first == CHOOSE i \in marks : \A j \in marks : i <= j
<1>1. CASE marks = {}
  BY <1>1 DEF Repository
<1>2. CASE marks # {}
  <2>1. marks \subseteq 1..Len(path) /\ marks \in SUBSET Nat
    OBVIOUS
  <2>2. \E i \in marks : \A j \in marks : i <= j
    <3> HIDE DEF marks
    <3> QED
      BY <1>2, <2>1, Least
  <2>3. first \in 1..Len(path)
    <3> HIDE DEF marks
    <3> QED
      BY <2>1, <2>2
  <2>4. Repository(path) = SubSeq(path, 1, first - 1)
    BY <1>2 DEF Repository
  <2> HIDE DEF first, marks
  <2>5. PICK k : k = first
    OBVIOUS
  <2> QED
    BY <2>3, <2>4, <2>5, SubSeqProperties
<1> QED
  BY <1>1, <1>2

(* Without a nearest parent there is none.                                 *)
LEMMA NoParent ==
  ASSUME NEW path \in Seq(STRING), NEW known \in SUBSET Seq(STRING),
         NearestParent(path, known) = {}
  PROVE  \A r \in known : r # << >> => ~IsStrictPrefix(r, path)
<1> DEFINE parents == {r \in known : r # << >> /\ IsStrictPrefix(r, path)}
           sizes == {Len(r) : r \in parents}
<1>1. SUFFICES ASSUME parents # {} PROVE FALSE
  OBVIOUS
<1>2. ASSUME NEW r \in parents PROVE Len(r) \in Nat /\ Len(r) <= Len(path)
  <2>1. r \in Seq(STRING)
    OBVIOUS
  <2>2. IsPrefix(r, path)
    BY DEF IsStrictPrefix, IsPrefix
  <2> QED
    BY <2>1, <2>2, PrefixIs DEF Continues
<1>3. sizes \in SUBSET Nat /\ sizes # {} /\ Len(path) \in Nat /\ \A n \in sizes : n <= Len(path)
  BY <1>1, <1>2
<1>4. PICK top \in sizes : \A n \in sizes : n <= top
  <2> HIDE DEF sizes
  <2> QED
    BY <1>3, Bounded
<1>5. PICK r \in parents : Len(r) = top
  BY <1>4
<1>6. r \in NearestParent(path, known)
  BY <1>4, <1>5 DEF NearestParent
<1> QED
  BY <1>6

(* The target that counts is one of the three.                             *)
LEMMA TargetIs ==
  ASSUME NEW q, Called(q), NEW target,
         target = IF q.call.arg # None THEN q.call.arg
                  ELSE IF q.call.client # None THEN q.call.client ELSE q.call.header
  PROVE  /\ Names(target)
         /\ target.kind = "path" => target.path \in Seq(STRING) /\ target # None
         /\ target.kind = "name" => target.name # NoName /\ target # None
         /\ target.kind = "star" => target # None
<1>1. Names(target)
  BY DEF Called
<1>2. target = None => target.kind = "none"
  BY DEF None
<1>3. target.kind = "path" => target.path \in Seq(STRING)
  BY <1>1, <1>2 DEF Names
<1>4. target.kind = "name" => target.name # NoName
  BY <1>1, <1>2 DEF Names
<1> QED
  BY <1>1, <1>2, <1>3, <1>4

(* A path is read with all that lies below it, or else with the folders    *)
(* next above it; without either every project is read.                    *)
LEMMA PathScope ==
  ASSUME NEW target, target.kind = "path", target.path \in Seq(STRING),
         NEW known \in SUBSET Seq(STRING),
         NEW path, path = Repository(target.path), path # << >>,
         NEW along, along = {r \in known \ {<< >>} : IsPrefix(r, path) \/ IsPrefix(path, r)},
         NEW scope, scope = ScopeOfTarget(target, known)
  PROVE  /\ scope.roots \subseteq along
         /\ scope.all = (along = {})
         /\ \A r \in known : IsPrefix(path, r) => r \in scope.roots
<1>1. path \in Seq(STRING)
  BY RepositoryIs
<1> DEFINE below == {r \in known : IsPrefix(path, r)}
           parent == NearestParent(path, known)
<1>2. WithSubfolders(path, known) = below
  BY DEF WithSubfolders
<1>3. scope = IF below # {} THEN Roots(below)
              ELSE IF parent # {} THEN Roots(parent) ELSE Everything
  BY <1>2 DEF ScopeOfTarget
<1>4. \A r \in below : r # << >>
  <2>1. SUFFICES ASSUME << >> \in below PROVE FALSE
    OBVIOUS
  <2>2. Len(path) <= Len(<< >>)
    BY <2>1 DEF IsPrefix
  <2> QED
    BY <1>1, <2>2
<1>5. below \subseteq along
  BY <1>4
<1>6. CASE below # {}
  <2>1. scope.roots = below /\ scope.all = FALSE
    BY <1>3, <1>6 DEF Roots
  <2>2. along # {}
    BY <1>5, <1>6
  <2> QED
    BY <1>5, <2>1, <2>2
<1>7. CASE below = {} /\ parent # {}
  <2>1. scope.roots = parent /\ scope.all = FALSE
    BY <1>3, <1>7 DEF Roots
  <2>2. parent \subseteq along
    BY DEF NearestParent, IsStrictPrefix
  <2>3. along # {}
    BY <1>7, <2>2
  <2> QED
    BY <1>7, <2>1, <2>2, <2>3
<1>8. CASE below = {} /\ parent = {}
  <2>1. scope.roots = {} /\ scope.all = TRUE
    BY <1>3, <1>8 DEF Everything
  <2>2. \A r \in known : r # << >> => ~IsStrictPrefix(r, path)
    BY <1>1, <1>8, NoParent
  <2>3. ASSUME NEW r \in along PROVE FALSE
    <3>1. IsPrefix(r, path) /\ r # path
      <4>1. r = path => r \in below
        BY <2>3, <1>8 DEF IsPrefix
      <4> QED
        BY <1>8, <2>3, <4>1
    <3> QED
      BY <2>2, <2>3, <3>1 DEF IsStrictPrefix
  <2>4. along = {}
    BY <2>3
  <2> QED
    BY <1>8, <2>1, <2>4
<1> QED
  BY <1>6, <1>7, <1>8

(* A name is read with every folder of that name and all below it.         *)
LEMMA NameScope ==
  ASSUME NEW target, target.kind = "name", target.name # NoName,
         NEW known \in SUBSET Seq(STRING),
         NEW scope, scope = ScopeOfTarget(target, known)
  PROVE  /\ \A r \in scope.roots : \E i \in DOMAIN r : r[i] = target.name
         /\ \A r \in known \ {<< >>} : Basename(r) = target.name => r \in scope.roots
<1> DEFINE named == {r \in known : Basename(r) = target.name}
           subs == UNION {WithSubfolders(r, known) : r \in named}
<1>1. scope = IF subs # {} THEN Roots(subs) ELSE Everything
  BY DEF ScopeOfTarget
<1>2. scope.roots = subs
  <2>1. CASE subs # {}
    <3>1. scope = Roots(subs)
      BY <1>1, <2>1
    <3> HIDE DEF subs
    <3> QED
      BY <3>1 DEF Roots
  <2>2. CASE subs = {}
    <3>1. scope = Everything
      BY <1>1, <2>2
    <3>2. Everything.roots = {}
      BY DEF Everything
    <3> HIDE DEF subs
    <3> QED
      BY <2>2, <3>1, <3>2
  <2> QED
    BY <2>1, <2>2
<1>3. ASSUME NEW b \in named
      PROVE  b \in Seq(STRING) /\ Len(b) \in 1..Len(b) /\ b[Len(b)] = target.name
             /\ WithSubfolders(b, known) = {r \in known : IsPrefix(b, r)}
  <2>1. b # << >>
    BY <1>3 DEF Basename
  <2>2. b \in Seq(STRING)
    OBVIOUS
  <2>3. Len(b) \in 1..Len(b)
    <3> HIDE DEF named
    <3>1. Len(b) \in Nat /\ Len(b) # 0
      BY <2>1, <2>2, EmptySeq
    <3> QED
      BY <3>1
  <2>4. b[Len(b)] = target.name
    BY <1>3, <2>1 DEF Basename
  <2>5. WithSubfolders(b, known) = {r \in known : IsPrefix(b, r)}
    BY <2>1 DEF WithSubfolders
  <2> QED
    BY <2>2, <2>3, <2>4, <2>5
<1>4. ASSUME NEW r \in subs PROVE \E i \in DOMAIN r : r[i] = target.name
  <2>1. PICK b \in named : r \in WithSubfolders(b, known)
    BY <1>4
  <2>2. r \in known /\ IsPrefix(b, r) /\ r \in Seq(STRING)
    BY <1>3, <2>1
  <2>3. b \in Seq(STRING) /\ Len(b) \in 1..Len(b) /\ b[Len(b)] = target.name
    BY <1>3
  <2>4. IsPrefix(b, r)
    BY <2>2 DEF IsPrefix
  <2>5. Len(b) <= Len(r) /\ \A i \in 1..Len(b) : r[i] = b[i]
    BY <2>2, <2>3, <2>4, PrefixIs DEF Continues
  <2>6. r[Len(b)] = target.name /\ Len(b) \in DOMAIN r
    <3> HIDE DEF subs, named
    <3>1. DOMAIN r = 1..Len(r) /\ Len(r) \in Nat /\ Len(b) \in Nat
      BY <2>2, <2>3
    <3>2. Len(b) \in 1..Len(r)
      BY <2>3, <2>5, <3>1
    <3> QED
      BY <2>3, <2>5, <3>1, <3>2
  <2> QED
    BY <2>6
<1>5. ASSUME NEW r \in known, Basename(r) = target.name PROVE r \in subs
  <2>1. r \in named
    BY <1>5
  <2>2. IsPrefix(r, r)
    <3>1. Len(r) \in Nat
      BY <1>3, <2>1
    <3> HIDE DEF subs, named
    <3> QED
      BY <3>1 DEF IsPrefix
  <2>3. r \in WithSubfolders(r, known)
    BY <1>3, <2>1, <2>2
  <2> QED
    BY <2>1, <2>3
<1> HIDE DEF subs
<1> QED
  BY <1>2, <1>4, <1>5

(* A search reads the scope of its target.                                 *)
LEMMA ReadsScope ==
  ASSUME NEW call, NEW known,
         call.tool \in {"search_session", "search_all_sessions", "list_sessions", "get_session_stats"},
         Answer(call, known).does = "read"
  PROVE  /\ Answer(call, known).scope = ResolveScope(call, known)
         /\ ResolveScope(call, known).unnamed => call.session
<1> DEFINE scope == ResolveScope(call, known)
           refused == [does |-> "error", scope |-> Roots({})]
           reads == [does |-> "read", scope |-> scope]
<1>1. refused.does # "read" /\ reads.scope = scope
  OBVIOUS
<1>2. CASE call.tool = "search_session"
  <2>1. Answer(call, known)
          = IF ~call.valid THEN refused
            ELSE IF scope.unnamed /\ ~call.session THEN refused ELSE reads
    BY <1>2 DEF Answer
  <2> HIDE DEF scope
  <2> QED
    BY <1>1, <2>1 DEF scope
<1>3. CASE call.tool # "search_session"
  <2>1. Answer(call, known)
          = IF ~call.valid THEN refused ELSE IF scope.unnamed THEN refused ELSE reads
    BY <1>3 DEF Answer
  <2> HIDE DEF scope
  <2> QED
    BY <1>1, <2>1 DEF scope
<1> QED
  BY <1>2, <1>3

(* Rows are changed when they are selected or the change is confirmed.     *)
LEMMA ChangesAsked ==
  ASSUME NEW call, NEW known, call.tool \in Tool,
         Answer(call, known).does \in {"delete", "redact"}
  PROVE  call.selectors # {} \/ (call.apply /\ call.confirm)
<1> DEFINE scope == ResolveScope(call, known)
           refused == [does |-> "error", scope |-> Roots({})]
           Reads(s) == [does |-> "read", scope |-> s]
           answer == Answer(call, known)
<1>1. refused.does \notin {"delete", "redact"} /\ \A s : Reads(s).does \notin {"delete", "redact"}
  OBVIOUS
<1>2. answer # refused /\ \A s : answer # Reads(s)
  <2> HIDE DEF refused, Reads
  <2> QED
    BY <1>1
<1>3. call.valid
  <2>1. ~call.valid => answer = refused
    BY DEF Answer
  <2> QED
    BY <1>2, <2>1
<1>4. CASE call.tool \in {"search_session", "search_all_sessions", "list_sessions", "get_session_stats"}
  <2>1. answer = refused \/ answer = Reads(scope)
    BY <1>3, <1>4 DEF Answer
  <2> QED
    BY <1>2, <2>1
<1>5. CASE call.tool \in {"get_turns", "get_issue_timeline"}
  <2>1. answer = Reads(Everything)
    BY <1>3, <1>5 DEF Answer
  <2> QED
    BY <1>2, <2>1
<1>6. CASE call.tool = "cleanup_sessions"
  <2>1. call.selectors = {} => answer = refused
    BY <1>3, <1>6 DEF Answer
  <2> QED
    BY <1>2, <2>1
<1>7. CASE call.tool = "sanitize_index"
  <2>1. /\ ~call.apply => answer = Reads(Everything)
        /\ call.apply /\ ~call.confirm => answer = refused
    BY <1>3, <1>7 DEF Answer
  <2> QED
    BY <1>2, <2>1
<1> QED
  BY <1>4, <1>5, <1>6, <1>7 DEF Tool

(* What a call is answered is sound.                                       *)
LEMMA AnswerHolds ==
  ASSUME NEW q, Called(q)
  PROVE  AnswerSound(q.call, q.known, Answer(q.call, q.known))
<1> DEFINE answer == Answer(q.call, q.known)
           found == IF q.call.arg # None THEN q.call.arg
                    ELSE IF q.call.client # None THEN q.call.client ELSE q.call.header
           scoped == q.call.tool \in {"search_session", "search_all_sessions", "list_sessions",
                                      "get_session_stats"}
<1>1. PICK target : target = found
  OBVIOUS
<1>2. /\ Names(target)
      /\ target.kind = "path" => target.path \in Seq(STRING) /\ target # None
      /\ target.kind = "name" => target.name # NoName /\ target # None
      /\ target.kind = "star" => target # None
  BY <1>1, TargetIs
<1>3. q.known \in SUBSET Seq(STRING) /\ q.call.tool \in Tool
  BY DEF Called
<1>4. ResolveScope(q.call, q.known)
        = IF target.kind = "star" THEN Everything
          ELSE IF target = None THEN [all |-> TRUE, roots |-> {}, unnamed |-> TRUE]
          ELSE ScopeOfTarget(target, q.known)
  BY <1>1 DEF ResolveScope
<1>5. ASSUME answer.does = "read", scoped
      PROVE  /\ answer.scope = ResolveScope(q.call, q.known)
             /\ ResolveScope(q.call, q.known).unnamed => q.call.session
  BY <1>5, ReadsScope
<1>6. ASSUME answer.does = "read", scoped, target = None PROVE q.call.session
  <2>1. ResolveScope(q.call, q.known) = [all |-> TRUE, roots |-> {}, unnamed |-> TRUE]
    BY <1>2, <1>4, <1>6
  <2> QED
    BY <1>5, <1>6, <2>1
<1>7. ASSUME answer.does = "read", scoped, target.kind = "path",
             NEW path, path = Repository(target.path), path # << >>,
             NEW along,
             along = {r \in q.known \ {<< >>} : IsPrefix(r, path) \/ IsPrefix(path, r)}
      PROVE  /\ answer.scope.roots \subseteq along
             /\ answer.scope.all = (along = {})
             /\ \A r \in q.known : IsPrefix(path, r) => r \in answer.scope.roots
  <2>1. answer.scope = ScopeOfTarget(target, q.known)
    BY <1>2, <1>4, <1>5, <1>7
  <2> HIDE DEF answer
  <2> QED
    BY <1>2, <1>3, <1>7, <2>1, PathScope
<1>8. ASSUME answer.does = "read", scoped, target.kind = "name"
      PROVE  /\ \A r \in answer.scope.roots : \E i \in DOMAIN r : r[i] = target.name
             /\ \A r \in q.known \ {<< >>} :
                  Basename(r) = target.name => r \in answer.scope.roots
  <2>1. answer.scope = ScopeOfTarget(target, q.known)
    BY <1>2, <1>4, <1>5, <1>8
  <2> HIDE DEF answer
  <2> QED
    BY <1>2, <1>3, <1>8, <2>1, NameScope
<1>9. answer.does \in {"delete", "redact"} => q.call.selectors # {} \/ (q.call.apply /\ q.call.confirm)
  BY <1>3, ChangesAsked
<1> HIDE DEF answer
<1>10. AnswerSound(q.call, q.known, answer)
  BY <1>1, <1>6, <1>7, <1>8, <1>9 DEF AnswerSound
<1> QED
  BY <1>10 DEF answer

ScopeInv ==
  /\ input \in Given(area)
  /\ output # << >> =>
       (area = "answer" => output[1] = Answer(input.call, input.known))

(* The output is that of the function of the area on an input of it.       *)
LEMMA ScopeInvHolds == Spec => []ScopeInv
<1>1. Init => ScopeInv
  <2>1. SUFFICES ASSUME Init PROVE ScopeInv
    OBVIOUS
  <2>2. /\ area \in DOMAIN Inputs
        /\ \E i \in DOMAIN Inputs[area] : input \in Inputs[area][i]
    BY <2>1 DEF Init
  <2>3. input \in Given(area)
    BY <2>2 DEF Given
  <2> QED
    BY <2>1, <2>3 DEF Init, ScopeInv
<1>2. ScopeInv /\ [Next]_vars => ScopeInv'
  <2>1. SUFFICES ASSUME ScopeInv, [Next]_vars PROVE ScopeInv'
    OBVIOUS
  <2>2. area' = area /\ input' = input /\ input' \in Given(area')
    BY <2>1 DEF ScopeInv, Next, Call, vars
  <2>3. CASE UNCHANGED vars
    BY <2>1, <2>3 DEF ScopeInv, vars
  <2>4. CASE Call("answer", Answer(input.call, input.known))
    BY <2>2, <2>4 DEF ScopeInv, Call
  <2>5. CASE area # "answer"
    BY <2>2, <2>5 DEF ScopeInv
  <2> QED
    BY <2>1, <2>3, <2>4, <2>5 DEF Next, Call
<1> QED
  BY <1>1, <1>2, PTL DEF Spec

(* Whatever projects are known and however a call names one, it reads the  *)
(* folders along that path or of that name, leaves none of them out, and   *)
(* changes rows only when it was asked to.                                 *)
THEOREM Scoped == Spec => []ScopeSound
<1>1. ScopeInv => ScopeSound
  <2>1. SUFFICES ASSUME ScopeInv, output # << >>, area = "answer" PROVE ScopeSound
    BY DEF ScopeSound, Computed
  <2>2. Called(input)
    BY <2>1, ScopeAssumption DEF ScopeInv
  <2>3. AnswerSound(input.call, input.known, output[1])
    BY <2>1, <2>2, AnswerHolds DEF ScopeInv
  <2> QED
    BY <2>3 DEF ScopeSound
<1> QED
  BY <1>1, ScopeInvHolds, PTL
-----------------------------------------------------------------------------
(* Pages.                                                                  *)

NewestFirst == {p \in Memory \X Memory : ListedBefore(p[1], p[2])}

(* Memories are in one order, by their time and then by their identity.    *)
LEMMA NewestOrders ==
  ASSUME NEW T \in SUBSET Memory
  PROVE  /\ IsFiniteSet(T) /\ Orders(NewestFirst, T)
         /\ \A x, y \in T : ListedBefore(x, y) <=> <<x, y>> \in NewestFirst
<1>1. \A x \in Memory : x \in Nat /\ MemoryMoment[x] \in Nat
  BY MemoryAssumption
<1>2. \A x, y \in Memory : <<x, y>> \in NewestFirst <=>
        MemoryMoment[x] > MemoryMoment[y] \/ (MemoryMoment[x] = MemoryMoment[y] /\ x > y)
  BY DEF NewestFirst, ListedBefore
<1>3. \A x, y \in T : ListedBefore(x, y) <=> <<x, y>> \in NewestFirst
  BY DEF NewestFirst
<1>4. Orders(NewestFirst, T)
  <2>1. \A x \in T : x \in Memory
    OBVIOUS
  <2>2. \A x, y, z \in T : <<x, y>> \in NewestFirst /\ <<y, z>> \in NewestFirst
                             => <<x, z>> \in NewestFirst
    BY <1>1, <1>2, <2>1
  <2>3. \A x, y \in T : x # y => <<x, y>> \in NewestFirst \/ <<y, x>> \in NewestFirst
    BY <1>1, <1>2, <2>1
  <2>4. \A x \in T : <<x, x>> \notin NewestFirst
    BY <1>1, <1>2, <2>1
  <2> QED
    BY <2>2, <2>3, <2>4 DEF Orders
<1>5. IsFiniteSet(T)
  BY MemoryAssumption, FS_Subset
<1> QED
  BY <1>3, <1>4, <1>5

(* A page is all that is left, or as many as it may be with the last of    *)
(* them as the cursor, and what is left then comes after that one.         *)
Cuts(rest, page, next, limit) ==
  /\ page \subseteq rest
  /\ \/ page = rest /\ next = 0
     \/ /\ next \in page /\ next # 0 /\ Cardinality(page) = limit
        /\ \A x \in page : x = next \/ ListedBefore(x, next)
        /\ \A x \in rest \ page : ListedBefore(next, x)

LEMMA PageIs ==
  ASSUME NEW live \in SUBSET Memory, NEW limit \in Nat \ {0}, NEW cursor
  PROVE  Cuts(Rest(live, cursor), ListPage(live, limit, cursor),
              NextCursor(live, limit, cursor), limit)
<1> DEFINE rest == Rest(live, cursor)
           page == ListPage(live, limit, cursor)
           next == NextCursor(live, limit, cursor)
<1>1. rest \in SUBSET Memory
  BY DEF Rest
<1>2. page = {x \in rest : Cardinality({y \in rest : ListedBefore(y, x)}) < limit}
  BY DEF ListPage
<1>9. next = IF Cardinality(rest) > limit
             THEN CHOOSE x \in page : \A y \in page : y = x \/ ListedBefore(y, x)
             ELSE 0
  BY DEF NextCursor
<1> HIDE DEF rest, page, next
<1>10. PICK R : R = NewestFirst
  OBVIOUS
<1>3. IsFiniteSet(rest) /\ Orders(R, rest)
      /\ \A x, y \in rest : ListedBefore(x, y) <=> <<x, y>> \in R
  BY <1>1, <1>10, NewestOrders
<1>4. page = Firsts(R, rest, limit)
  <2>1. ASSUME NEW x \in rest
        PROVE  Cardinality({y \in rest : ListedBefore(y, x)}) = RankIn(R, rest, x)
    <3>1. {y \in rest : ListedBefore(y, x)} = Preceding(R, rest, x)
      BY <1>3, <2>1 DEF Preceding
    <3> QED
      BY <3>1 DEF RankIn
  <2> QED
    BY <1>2, <2>1 DEF Firsts
<1>5. /\ page \subseteq rest /\ IsFiniteSet(page)
      /\ Cardinality(page) = IF Cardinality(rest) < limit THEN Cardinality(rest) ELSE limit
      /\ Cardinality(rest) <= limit => page = rest
  <2>1. limit \in Nat
    OBVIOUS
  <2> QED
    BY <1>3, <1>4, <2>1, FirstsAre DEF Firsts
<1>6. Cardinality(rest) \in Nat
  BY <1>3, FS_CardinalityType
<1>7. ASSUME ~(Cardinality(rest) > limit) PROVE Cuts(rest, page, next, limit)
  <2>1. next = 0
    BY <1>7, <1>9
  <2> QED
    BY <1>5, <1>6, <1>7, <2>1 DEF Cuts
<1>8. ASSUME Cardinality(rest) > limit PROVE Cuts(rest, page, next, limit)
  <2>1. Cardinality(page) = limit /\ page # {}
    <3>1. Cardinality(page) = limit
      BY <1>5, <1>6, <1>8
    <3> QED
      BY <3>1, FS_EmptySet
  <2>2. \E x \in page : \A y \in page : y = x \/ ListedBefore(y, x)
    <3>1. PICK back : back = {p \in page \X page : <<p[2], p[1]>> \in R}
      OBVIOUS
    <3>2. Orders(back, page)
      <4>1. \A x, y \in page : <<x, y>> \in back <=> <<y, x>> \in R
        BY <3>1
      <4>2. Orders(R, page)
        BY <1>3, <1>5, OrdersBelow
      <4>3. \A x \in page : <<x, x>> \notin back
        BY <4>1, <4>2 DEF Orders
      <4>4. \A x, y \in page : x # y => <<x, y>> \in back \/ <<y, x>> \in back
        BY <4>1, <4>2 DEF Orders
      <4>5. ASSUME NEW x \in page, NEW y \in page, NEW z \in page,
                   <<x, y>> \in back, <<y, z>> \in back
            PROVE  <<x, z>> \in back
        <5>1. <<z, y>> \in R /\ <<y, x>> \in R
          BY <4>1, <4>5
        <5>2. <<z, x>> \in R
          BY <4>2, <5>1 DEF Orders
        <5> QED
          BY <4>1, <5>2
      <4> QED
        BY <4>3, <4>4, <4>5 DEF Orders
    <3>3. PICK x \in page : \A y \in page \ {x} : <<x, y>> \in back
      BY <1>5, <2>1, <3>2, FirstOne
    <3> QED
      BY <1>3, <1>5, <3>1, <3>3
  <2>3. next = CHOOSE x \in page : \A y \in page : y = x \/ ListedBefore(y, x)
    BY <1>8, <1>9
  <2>4. next \in page /\ \A y \in page : y = next \/ ListedBefore(y, next)
    BY <2>2, <2>3
  <2>5. ASSUME NEW x \in rest \ page PROVE ListedBefore(next, x)
    <3>1. RankIn(R, rest, next) < limit /\ ~(RankIn(R, rest, x) < limit) /\ next \in rest
      BY <1>4, <2>4, <2>5 DEF Firsts
    <3>2. RankIn(R, rest, next) \in Nat /\ RankIn(R, rest, x) \in Nat
      BY <1>3, <2>5, <3>1, Ranks
    <3>3. RankIn(R, rest, next) < RankIn(R, rest, x)
      BY <3>1, <3>2
    <3>4. <<next, x>> \in R
      BY <1>3, <2>5, <3>1, <3>3, Ranks
    <3> QED
      BY <1>3, <2>5, <3>1, <3>4
  <2>6. next # 0
    BY <1>1, <1>5, <2>4, MemoryAssumption
  <2> QED
    BY <1>5, <2>1, <2>4, <2>5, <2>6 DEF Cuts
<1> QED
  BY <1>7, <1>8 DEF rest, page, next

(* The cursor of each page is that of its rows and the cursor before it.   *)
Follow(cursor, lives, limit, n) ==
  /\ \A u \in 0..n : cursor[u] \in Memory \cup {0}
  /\ cursor[0] = 0
  /\ \A u \in 1..n :
       cursor[u] = IF u > 1 /\ cursor[u - 1] = 0 THEN 0
                   ELSE NextCursor(lives[u], limit, cursor[u - 1])

LEMMA CursorsAre ==
  ASSUME NEW lives \in Seq(SUBSET Memory), NEW limit \in Nat \ {0}
  PROVE  Follow(Cursors(lives, limit), lives, limit, Len(lives))
<1> DEFINE n == Len(lives)
           start == 0
           State == Memory \cup {0}
           Step(s, u) == IF u > 1 /\ s = 0 THEN 0 ELSE NextCursor(lives[u], limit, s)
           Solves(f) == f = [u \in 0..n |-> IF u = 0 \/ (u > 1 /\ f[u - 1] = 0) THEN 0
                                            ELSE NextCursor(lives[u], limit, f[u - 1])]
           found == CHOOSE f : Solves(f)
           step == [u \in 1..n |-> [s \in State |-> Step(s, u)]]
<1>1. n \in Nat /\ \A u \in 1..n : lives[u] \in SUBSET Memory
  OBVIOUS
<1>2. step \in [1..n -> [State -> State]]
  <2>1. ASSUME NEW u \in 1..n, NEW s \in State PROVE Step(s, u) \in State
    <3>1. PICK live : live = lives[u]
      OBVIOUS
    <3>2. live \in SUBSET Memory
      BY <1>1, <3>1
    <3>3. PICK next : next = NextCursor(live, limit, s)
      OBVIOUS
    <3>4. next = 0 \/ next \in Rest(live, s)
      <4>1. Cuts(Rest(live, s), ListPage(live, limit, s),
                 NextCursor(live, limit, s), limit)
        BY <3>2, PageIs, Zenon
      <4> QED
        BY <3>3, <4>1 DEF Cuts
    <3>5. next \in State
      BY <3>2, <3>4 DEF Rest
    <3> QED
      BY <3>1, <3>3, <3>5
  <2> HIDE DEF Step, State, n
  <2> QED
    BY <2>1
<1>3. start \in State
  OBVIOUS
<1>4. PICK f \in [0..n -> State] : f[0] = start /\ \A u \in 1..n : f[u] = step[u][f[u - 1]]
  <2>1. n \in Nat
    BY <1>1
  <2> HIDE DEF n, State, start, step, Step, Solves, found
  <2>2. Iteration(State, start, n, step)
    BY <1>2, <1>3, <2>1, Iterates
  <2> QED
    BY <2>2 DEF Iteration
<1>5. ASSUME NEW u \in 1..n PROVE f[u] = Step(f[u - 1], u)
  <2>1. f[u - 1] \in State
    <3>1. u - 1 \in 0..n
      BY <1>1
    <3> HIDE DEF n, State
    <3> QED
      BY <3>1
  <2> HIDE DEF Step, State
  <2> QED
    BY <1>4, <2>1
<1>6. Solves(f)
  <2>1. ASSUME NEW u \in 0..n
        PROVE  f[u] = IF u = 0 \/ (u > 1 /\ f[u - 1] = 0) THEN 0
                      ELSE NextCursor(lives[u], limit, f[u - 1])
    <3>1. CASE u = 0
      BY <1>4, <3>1
    <3>2. CASE u # 0
      <4>1. u \in 1..n
        BY <1>1, <3>2
      <4> QED
        BY <1>5, <3>2, <4>1
    <3> QED
      BY <3>1, <3>2
  <2>2. f = [u \in 0..n |-> f[u]]
    OBVIOUS
  <2> HIDE DEF n, State
  <2> QED
    BY <2>1, <2>2
<1>7. Solves(found)
  <2> HIDE DEF Solves
  <2> QED
    BY <1>6, Zenon
<1>8. Cursors(lives, limit) = found
  BY Zenon DEF Cursors
<1>9. ASSUME NEW u \in 0..n
      PROVE  found[u] = IF u = 0 \/ (u > 1 /\ found[u - 1] = 0) THEN 0
                        ELSE NextCursor(lives[u], limit, found[u - 1])
  <2> HIDE DEF found
  <2> QED
    BY <1>7
<1>10. DOMAIN found = 0..n
  <2> HIDE DEF found
  <2> QED
    BY <1>7
<1> HIDE DEF found
<1>11. found[0] = 0
  <2>1. 0 \in 0..n
    BY <1>1
  <2> QED
    BY <1>9, <2>1
<1>12. ASSUME NEW u \in 1..n
       PROVE  found[u] = IF u > 1 /\ found[u - 1] = 0 THEN 0
                         ELSE NextCursor(lives[u], limit, found[u - 1])
  <2>1. u \in 0..n /\ u # 0
    BY <1>1
  <2> QED
    BY <1>9, <2>1
<1>13. \A u \in 0..n : found[u] \in State
  <2> DEFINE good == {u \in 0..n : found[u] \in State}
  <2>1. 0 \in good
    BY <1>1, <1>11
  <2>2. ASSUME NEW u \in 1..n, u - 1 \in good PROVE u \in good
    <3>1. found[u] = Step(found[u - 1], u)
      BY <1>12
    <3>2. step[u][found[u - 1]] \in State
      <4>1. found[u - 1] \in State
        BY <2>2
      <4> HIDE DEF State, step
      <4> QED
        BY <1>2, <4>1
    <3>3. step[u][found[u - 1]] = Step(found[u - 1], u)
      <4>1. found[u - 1] \in State
        BY <2>2
      <4> HIDE DEF State, Step
      <4> QED
        BY <4>1
    <3>4. u \in 0..n
      BY <1>1
    <3> HIDE DEF State, Step, step
    <3> QED
      BY <3>1, <3>2, <3>3, <3>4
  <2> HIDE DEF good
  <2>3. \A u \in 0..n : u \in good
    BY <1>1, <2>1, <2>2, Induction
  <2> QED
    BY <2>3 DEF good
<1> QED
  BY <1>8, <1>11, <1>12, <1>13 DEF Follow

(* Reading page by page misses nothing that was there all the time.        *)
LEMMA PagesHold ==
  ASSUME NEW q, PagesRead(q)
  PROVE  PagesComplete(q.lives, q.limit, Pages(q.lives, q.limit))
<1>1. PICK lives : lives = q.lives
  OBVIOUS
<1>2. PICK limit : limit = q.limit
  OBVIOUS
<1>3. PICK n : n = Len(lives)
  OBVIOUS
<1>4. /\ lives \in Seq(SUBSET Memory) /\ limit \in Nat \ {0}
      /\ n \in Nat \ {0} /\ \A i \in 1..n : lives[i] \in SUBSET Memory
  BY <1>1, <1>2, <1>3 DEF PagesRead
<1>5. PICK cursor : cursor = Cursors(lives, limit)
  OBVIOUS
<1>6. PICK read : read = Pages(lives, limit)
  OBVIOUS
<1>7. PICK pages : pages = read.pages
  OBVIOUS
<1>8. /\ \A i \in 0..n : cursor[i] \in Memory \cup {0}
      /\ cursor[0] = 0
      /\ \A i \in 1..n : cursor[i] = IF i > 1 /\ cursor[i - 1] = 0 THEN 0
                                     ELSE NextCursor(lives[i], limit, cursor[i - 1])
  <2>1. Follow(Cursors(lives, limit), lives, limit, Len(lives))
    BY <1>4, CursorsAre, Zenon
  <2> QED
    BY <1>3, <1>5, <2>1 DEF Follow
<1>9. /\ read.more = (cursor[n] # 0)
      /\ \A i \in 1..n : pages[i] = IF i > 1 /\ cursor[i - 1] = 0 THEN {}
                                    ELSE ListPage(lives[i], limit, cursor[i - 1])
  <2>1. read = [more |-> cursor[n] # 0,
                pages |-> [i \in 1..n |->
                             IF i > 1 /\ cursor[i - 1] = 0 THEN {}
                             ELSE ListPage(lives[i], limit, cursor[i - 1])]]
    BY <1>3, <1>5, <1>6 DEF Pages
  <2> QED
    BY <1>7, <2>1
<1>10. \A x, y, z \in Memory : /\ ListedBefore(x, y) /\ ListedBefore(y, z)
                                    => ListedBefore(x, z)
                               /\ x = y \/ ListedBefore(x, y) \/ ListedBefore(y, x)
  BY NewestOrders DEF Orders
(* The page of a visit that is made, and the cursor that it answers with.  *)
<1>11. ASSUME NEW i \in 1..n, NEW k, k = i - 1, ~(i > 1 /\ cursor[k] = 0)
       PROVE  /\ \A x \in pages[i] : x \in Memory /\ After(x, cursor[k])
              /\ \/ /\ cursor[i] = 0
                    /\ \A x \in lives[i] : After(x, cursor[k]) => x \in pages[i]
                 \/ /\ cursor[i] # 0 /\ cursor[i] \in Memory /\ Cardinality(pages[i]) = limit
                    /\ \A x \in pages[i] : x = cursor[i] \/ ListedBefore(x, cursor[i])
                    /\ \A x \in lives[i] : After(x, cursor[k]) =>
                         x \in pages[i] \/ ListedBefore(cursor[i], x)
  <2>1. PICK live : live = lives[i]
    OBVIOUS
  <2>2. PICK before : before = cursor[k]
    OBVIOUS
  <2>3. PICK rest : rest = Rest(live, before)
    OBVIOUS
  <2>4. PICK page : page = ListPage(live, limit, before)
    OBVIOUS
  <2>5. PICK next : next = NextCursor(live, limit, before)
    OBVIOUS
  <2>6. live \in SUBSET Memory
    BY <1>4, <2>1
  <2>7. pages[i] = page /\ cursor[i] = next
    BY <1>8, <1>9, <1>11, <2>1, <2>2, <2>4, <2>5
  <2>8. /\ page \subseteq rest
        /\ \/ page = rest /\ next = 0
           \/ /\ next \in page /\ next # 0 /\ Cardinality(page) = limit
              /\ \A x \in page : x = next \/ ListedBefore(x, next)
              /\ \A x \in rest \ page : ListedBefore(next, x)
    <3>1. Cuts(Rest(live, before), ListPage(live, limit, before),
               NextCursor(live, limit, before), limit)
      BY <1>4, <2>6, PageIs, Zenon
    <3> QED
      BY <2>3, <2>4, <2>5, <3>1 DEF Cuts
  <2>9. \A x : x \in rest <=> x \in live /\ After(x, before)
    BY <2>3 DEF Rest
  <2> QED
    BY <2>1, <2>2, <2>6, <2>7, <2>8, <2>9
(* Up to page i: full pages that end at the cursor, or nothing is left.    *)
<1> DEFINE always == {x \in Memory : \A i \in 1..n : x \in lives[i]}
           Full(i) == \A j \in 1..i : /\ Cardinality(pages[j]) = limit
                                      /\ \A x \in pages[j] : x \in Memory /\
                                           (x = cursor[i] \/ ListedBefore(x, cursor[i]))
           Read(x, i) == \E j \in 1..i : x \in pages[j]
           Good(i) == /\ cursor[i] # 0 => Full(i)
                      /\ \A x \in always : \/ Read(x, i)
                                           \/ i = 0
                                           \/ cursor[i] # 0 /\ After(x, cursor[i])
           good == {i \in 0..n : Good(i)}
<1>12. 0 \in good
  BY <1>4, <1>8
<1>13. ASSUME NEW i \in 1..n, i - 1 \in good PROVE i \in good
  <2>1. PICK k : k = i - 1
    OBVIOUS
  <2>2. k \in 0..n /\ i \in 0..n /\ i # 0 /\ (k = 0 <=> i = 1) /\ (i > 1 <=> k # 0)
        /\ \A j \in 1..i : j \in 1..k \/ j = i
    BY <1>4, <2>1
  <2>3. Good(k) /\ \A j \in 1..k : j \in 1..i
    BY <1>13, <2>1
  <2>4. CASE i > 1 /\ cursor[k] = 0
    <3>1. cursor[i] = 0
      BY <1>8, <2>1, <2>4
    <3>2. ASSUME NEW x \in always PROVE Read(x, i)
      <4>1. Read(x, k)
        BY <2>2, <2>3, <2>4
      <4> QED
        BY <2>3, <4>1
    <3> QED
      BY <2>2, <3>1, <3>2
  <2>5. CASE ~(i > 1 /\ cursor[k] = 0)
    <3>1. cursor[k] # 0 \/ k = 0
      BY <2>2, <2>5
    <3>2. \A x \in always : After(x, cursor[k]) \/ Read(x, k)
      <4>1. k = 0 => \A x : After(x, cursor[k])
        BY <1>8 DEF After
      <4> QED
        BY <2>3, <4>1
    <3>3. \A x \in always : x \in lives[i] /\ x \in Memory
      OBVIOUS
    <3>4. CASE cursor[i] = 0
      <4>1. ASSUME NEW x \in always PROVE Read(x, i)
        <5>1. After(x, cursor[k]) => x \in pages[i]
          BY <1>11, <2>1, <2>5, <3>3, <3>4
        <5>2. i \in 1..i
          BY <2>2
        <5> QED
          BY <2>3, <3>2, <5>1, <5>2
      <4> QED
        BY <2>2, <3>4, <4>1
    <3>5. CASE cursor[i] # 0
      <4>1. /\ \A x \in pages[i] : x \in Memory /\ After(x, cursor[k])
            /\ cursor[i] \in Memory /\ Cardinality(pages[i]) = limit
            /\ \A x \in pages[i] : x = cursor[i] \/ ListedBefore(x, cursor[i])
            /\ \A x \in lives[i] : After(x, cursor[k]) =>
                         x \in pages[i] \/ ListedBefore(cursor[i], x)
        BY <1>11, <2>1, <2>5, <3>5
      <4>2. ASSUME NEW x \in always PROVE Read(x, i) \/ After(x, cursor[i])
        <5>1. i \in 1..i
          BY <2>2
        <5>2. ListedBefore(cursor[i], x) => After(x, cursor[i])
          BY DEF After
        <5> QED
          BY <2>3, <3>2, <3>3, <4>1, <5>1, <5>2
      <4>3. Full(i)
        <5>1. CASE k = 0
          BY <2>2, <4>1, <5>1
        <5>2. CASE k # 0
          <6>1. cursor[k] # 0 /\ cursor[k] \in Memory /\ Full(k)
            BY <1>8, <2>2, <2>3, <3>1, <5>2
          <6>2. PICK y \in pages[i] : TRUE
            <7>1. Cardinality(pages[i]) # 0
              BY <1>4, <4>1
            <7>2. pages[i] # {}
              BY <7>1, FS_EmptySet
            <7> QED
              BY <7>2
          <6>3. ListedBefore(cursor[k], cursor[i])
            <7>1. ListedBefore(cursor[k], y)
              BY <4>1, <6>1 DEF After
            <7> QED
              BY <1>10, <4>1, <6>1, <7>1
          <6>4. ASSUME NEW j \in 1..k, NEW x \in pages[j]
                PROVE  x \in Memory /\ ListedBefore(x, cursor[i])
            BY <1>10, <4>1, <6>1, <6>3, <6>4
          <6> QED
            BY <2>2, <4>1, <6>1, <6>4
        <5> QED
          BY <5>1, <5>2
      <4> QED
        BY <2>2, <3>5, <4>2, <4>3
    <3> QED
      BY <3>4, <3>5
  <2> QED
    BY <2>4, <2>5
<1>14. \A i \in 0..n : Good(i)
  <2>1. \A i \in 0..n : i \in good
    <3> HIDE DEF good
    <3> QED
      BY <1>4, <1>12, <1>13, Induction
  <2> QED
    BY <2>1
(* RowsAt two pages the earlier comes first.                                   *)
<1>15. ASSUME NEW i \in 1..n, NEW j \in 1..n, i < j, NEW x \in pages[i], NEW y \in pages[j]
       PROVE  ListedBefore(x, y)
  <2>1. PICK k : k = j - 1
    OBVIOUS
  <2>2. k \in 0..n /\ k # 0 /\ j > 1 /\ i \in 1..k
    BY <1>4, <1>15, <2>1
  <2>3. cursor[k] # 0
    BY <1>9, <1>15, <2>1, <2>2
  <2>4. y \in Memory /\ After(y, cursor[k])
    BY <1>11, <2>1, <2>3
  <2>5. ListedBefore(cursor[k], y) /\ cursor[k] \in Memory
    BY <1>8, <2>2, <2>3, <2>4 DEF After
  <2>6. x \in Memory /\ (x = cursor[k] \/ ListedBefore(x, cursor[k]))
    BY <1>14, <2>2, <2>3
  <2> QED
    BY <1>10, <2>4, <2>5, <2>6
<1>16. n \in 0..n /\ n # 0
  BY <1>4
<1>17. ~read.more => \A x \in always : \E i \in 1..n : x \in pages[i]
  BY <1>9, <1>14, <1>16
<1>18. read.more => \A i \in 1..n : Cardinality(pages[i]) = limit
  BY <1>9, <1>14, <1>16
<1>19. PagesComplete(lives, limit, read)
  BY <1>3, <1>7, <1>15, <1>17, <1>18 DEF PagesComplete
<1> QED
  BY <1>1, <1>2, <1>6, <1>19
-----------------------------------------------------------------------------
(* The search for memories.                                                *)

(* The least and the greatest score of some things.                        *)
Bounds(lo, hi, S, score) ==
  lo \in Int /\ hi \in Int /\ \A x \in S : lo <= score[x] /\ score[x] <= hi

LEMMA Extremes ==
  ASSUME NEW S, IsFiniteSet(S), S # {}, NEW score, \A x \in S : score[x] \in Int
  PROVE  LET scores == {score[y] : y \in S}
         IN  Bounds(CHOOSE s \in scores : \A t \in scores : s <= t,
                    CHOOSE s \in scores : \A t \in scores : s >= t, S, score)
<1> DEFINE scores == {score[y] : y \in S}
           lo == CHOOSE s \in scores : \A t \in scores : s <= t
           hi == CHOOSE s \in scores : \A t \in scores : s >= t
           up == {p \in Int \X Int : p[1] < p[2]}
           down == {p \in Int \X Int : p[1] > p[2]}
<1>1. IsFiniteSet(scores) /\ scores # {} /\ scores \subseteq Int
  <2>1. IsFiniteSet(scores)
    <3>1. [x \in S |-> score[x]] \in Surjection(S, scores)
      BY DEF Surjection
    <3> QED
      BY <3>1, FS_Surjection
  <2>2. PICK x \in S : TRUE
    OBVIOUS
  <2>3. score[x] \in scores
    OBVIOUS
  <2>4. \A s \in scores : s \in Int
    OBVIOUS
  <2> HIDE DEF scores
  <2> QED
    BY <2>1, <2>3, <2>4
<1>2. \A s, t \in Int : (<<s, t>> \in up <=> s < t) /\ (<<s, t>> \in down <=> s > t)
  OBVIOUS
<1>3. \A x \in S : score[x] \in scores
  OBVIOUS
<1> HIDE DEF scores, up, down
<1>4. \A s \in scores : s \in Int
  BY <1>1
<1>5. Orders(up, scores) /\ Orders(down, scores)
  <2>1. Orders(up, scores)
    BY <1>2, <1>4 DEF Orders
  <2>2. Orders(down, scores)
    BY <1>2, <1>4 DEF Orders
  <2> QED
    BY <2>1, <2>2
<1>6. \E s \in scores : \A t \in scores : s <= t
  <2>1. PICK s \in scores : \A t \in scores \ {s} : <<s, t>> \in up
    BY <1>1, <1>5, FirstOne
  <2>2. ASSUME NEW t \in scores PROVE s <= t
    <3>1. s \in Int /\ t \in Int
      BY <1>4
    <3>2. t = s \/ <<s, t>> \in up
      BY <2>1
    <3>3. <<s, t>> \in up => s <= t
      BY <1>2, <3>1
    <3> QED
      BY <3>1, <3>2, <3>3
  <2> QED
    BY <2>2
<1>7. \E s \in scores : \A t \in scores : s >= t
  <2>1. PICK s \in scores : \A t \in scores \ {s} : <<s, t>> \in down
    BY <1>1, <1>5, FirstOne
  <2>2. ASSUME NEW t \in scores PROVE s >= t
    <3>1. s \in Int /\ t \in Int
      BY <1>4
    <3>2. t = s \/ <<s, t>> \in down
      BY <2>1
    <3>3. <<s, t>> \in down => s >= t
      BY <1>2, <3>1
    <3> QED
      BY <3>1, <3>2, <3>3
  <2> QED
    BY <2>2
<1>8. lo \in scores /\ \A t \in scores : lo <= t
  BY <1>6
<1>9. hi \in scores /\ \A t \in scores : hi >= t
  BY <1>7
<1>10. Bounds(lo, hi, S, score)
  <2> HIDE DEF lo, hi
  <2>1. ASSUME NEW x \in S PROVE lo <= score[x] /\ score[x] <= hi
    <3>1. score[x] \in scores /\ score[x] \in Int /\ hi \in Int
      BY <1>3, <1>4, <1>9
    <3> QED
      BY <1>8, <1>9, <3>1
  <2> QED
    BY <1>4, <1>8, <1>9, <2>1 DEF Bounds
<1> QED
  BY <1>10 DEF scores

(* A blend of score and recency is a number.                               *)
LEMMA MemoryBlendIs ==
  ASSUME NEW S \in SUBSET Memory, IsFiniteSet(S), NEW score, \A x \in S : score[x] \in Int,
         NEW sort, NEW x \in S
  PROVE  Blend(score, S, MemoryRecency, WeightOf(sort), x) \in Int
<1> DEFINE scores == {score[y] : y \in S}
<1>1. PICK lo : lo = CHOOSE s \in scores : \A t \in scores : s <= t
  OBVIOUS
<1>2. PICK hi : hi = CHOOSE s \in scores : \A t \in scores : s >= t
  OBVIOUS
<1>3. Bounds(lo, hi, S, score)
  BY <1>1, <1>2, Extremes
<1>4. PICK a : a = Semantic(score, S, x)
  OBVIOUS
<1>5. a = IF hi = lo THEN 1000 ELSE (1000 * (score[x] - lo)) \div (hi - lo)
  BY <1>1, <1>2, <1>4 DEF Semantic
<1>6. a \in Int
  <2>1. PICK e : e = 1000 * (score[x] - lo)
    OBVIOUS
  <2>2. PICK d : d = hi - lo
    OBVIOUS
  <2>3. e \in Int /\ (hi # lo => d \in Nat \ {0})
    BY <1>3, <2>1, <2>2 DEF Bounds
  <2>4. hi # lo => e \div d \in Int
    BY <2>3
  <2> QED
    BY <1>5, <2>1, <2>2, <2>4
<1>7. PICK w : w = WeightOf(sort)
  OBVIOUS
<1>8. w \in 0..100
  BY <1>7, WeightsAssumption DEF WeightOf
<1>9. PICK r : r = MemoryRecency[x]
  OBVIOUS
<1>10. r \in Nat
  BY <1>9, MemoryAssumption
<1>11. (100 - w) * a + w * r \in Int
  BY <1>6, <1>8, <1>10
<1> QED
  BY <1>4, <1>7, <1>9, <1>11 DEF Blend

(* Ranking changes the order alone.                                        *)
LEMMA MemoryRankedIs ==
  ASSUME NEW S \in SUBSET Memory, NEW m, NEW list, Enumerates(list, S, m),
         NEW score, \A x \in S : score[x] \in Int, NEW sort
  PROVE  Enumerates(Ranked(list, score, MemoryRecency, MemoryMoment, sort, TRUE), S, m)
<1>1. /\ m \in Nat /\ IsFiniteSet(S) /\ DOMAIN list = 1..m
      /\ (\A p \in 1..m : list[p] \in S) /\ \A x \in S : \E p \in 1..m : list[p] = x
  BY DEF Enumerates
<1>2. ToSet(list) = S
  BY <1>1 DEF ToSet
<1> DEFINE Key(x) == IF sort = "recency" THEN MemoryMoment[x]
                     ELSE Blend(score, S, MemoryRecency, WeightOf(sort), x)
<1>3. PICK key : key = [x \in S |-> Key(x)]
  OBVIOUS
<1>4. DOMAIN key = S /\ \A x \in S : key[x] \in Int
  <2>1. ASSUME NEW x \in S PROVE Key(x) \in Int
    <3>1. MemoryMoment[x] \in Int
      BY MemoryAssumption
    <3>2. Blend(score, S, MemoryRecency, WeightOf(sort), x) \in Int
      BY <1>1, MemoryBlendIs
    <3> QED
      BY <3>1, <3>2
  <2> HIDE DEF Key
  <2> QED
    BY <1>3, <2>1
<1>5. PICK ties : ties = {p \in S \X S : TRUE /\ key[p[1]] = key[p[2]] /\ p[1] > p[2]}
  OBVIOUS
<1>6. PICK before : before = Descending(key) \cup ties
  OBVIOUS
<1>7. Ranked(list, score, MemoryRecency, MemoryMoment, sort, TRUE)
        = IF sort = "relevance" THEN list ELSE StableSort(list, before)
  BY <1>2, <1>3, <1>5, <1>6, Zenon DEF Ranked
<1>8. \A x, y \in S : <<x, y>> \in before <=> key[x] > key[y] \/ (key[x] = key[y] /\ x > y)
  <2>1. \A x, y \in S : <<x, y>> \in Descending(key) <=> key[x] > key[y]
    BY <1>1, <1>4, DescendingIs
  <2>2. \A x, y \in S : <<x, y>> \in ties <=> key[x] = key[y] /\ x > y
    BY <1>5
  <2> QED
    BY <1>6, <2>1, <2>2
<1>9. Weakly(before, list, m)
  <2>1. ASSUME NEW i \in 1..m, NEW j \in 1..m, NEW k \in 1..m
        PROVE  /\ <<list[i], list[i]>> \notin before
               /\ <<list[i], list[j]>> \in before => <<list[j], list[i]>> \notin before
               /\ <<list[i], list[j]>> \in before =>
                    <<list[i], list[k]>> \in before \/ <<list[k], list[j]>> \in before
    <3>1. PICK x \in S : x = list[i]
      BY <1>1
    <3>2. PICK y \in S : y = list[j]
      BY <1>1
    <3>3. PICK z \in S : z = list[k]
      BY <1>1
    <3>4. key[x] \in Int /\ key[y] \in Int /\ key[z] \in Int /\ x \in Nat /\ y \in Nat /\ z \in Nat
      BY <1>4, MemoryAssumption
    <3> QED
      BY <1>8, <3>1, <3>2, <3>3, <3>4
  <2> QED
    BY <2>1 DEF Weakly
<1>10. Enumerates(StableSort(list, before), S, m)
  BY <1>9, SortListed
<1> QED
  BY <1>7, <1>10

(* What is read of one index and is current.                               *)
ReadsOf(list, hits) ==
  /\ list \in Seq(Memory)
  /\ ToSet(list) = {h.memory : h \in {k \in ToSet(hits) : k.current}} \cap Matching

LEMMA IdsAre ==
  ASSUME NEW hits \in Seq(Hit)
  PROVE  ReadsOf(Ids(KeepCurrent(hits)), hits)
<1>1. PICK n : n = Len(hits)
  OBVIOUS
<1>2. n \in Nat /\ DOMAIN hits = 1..n
      /\ \A i \in 1..n : hits[i].memory \in Memory
  <2>1. n \in Nat /\ DOMAIN hits = 1..n /\ \A i \in 1..n : hits[i] \in Hit
    BY <1>1
  <2>2. \A h \in Hit : h.memory \in Memory
    BY DEF Hit
  <2> QED
    BY <2>1, <2>2
<1>3. PICK keep : keep = {i \in 1..n : hits[i].current /\ hits[i].memory \in Matching}
  OBVIOUS
<1>4. PICK kept : kept = KeepCurrent(hits)
  OBVIOUS
<1>5. kept = At(hits, keep)
  BY <1>2, <1>3, <1>4 DEF KeepCurrent
<1>6. keep \in SUBSET (1..n)
  BY <1>3
<1>7. Takes(kept, hits, keep)
  BY <1>2, <1>5, <1>6, AtIs, Zenon
<1>8. PICK m : m = Cardinality(keep)
  OBVIOUS
<1>9. PICK f : Upwards(f, keep) /\ kept = [p \in 1..m |-> hits[f[p]]]
  BY <1>7, <1>8 DEF Takes
<1>10. m \in Nat /\ f \in [1..m -> keep] /\ \A i \in keep : \E p \in 1..m : f[p] = i
  BY <1>8, <1>9 DEF Upwards
<1>11. PICK list : list = Ids(kept)
  OBVIOUS
<1>12. list = [p \in 1..m |-> hits[f[p]].memory]
  BY <1>9, <1>11 DEF Ids
<1>13. list \in Seq(Memory) /\ DOMAIN list = 1..m
  <2>1. \A p \in 1..m : hits[f[p]].memory \in Memory
    BY <1>2, <1>6, <1>10
  <2>2. list \in [1..m -> Memory]
    BY <1>12, <2>1
  <2> QED
    BY <1>10, <2>2
<1>14. ASSUME NEW x
       PROVE  (\E p \in 1..m : list[p] = x) <=>
              \E i \in 1..n : hits[i].current /\ hits[i].memory = x /\ x \in Matching
  <2>1. ASSUME NEW p \in 1..m, list[p] = x
        PROVE  \E i \in 1..n : hits[i].current /\ hits[i].memory = x /\ x \in Matching
    <3>1. PICK i \in keep : i = f[p]
      BY <1>10
    <3> QED
      BY <1>3, <1>12, <2>1, <3>1
  <2>2. ASSUME NEW i \in 1..n, hits[i].current, hits[i].memory = x, x \in Matching
        PROVE  \E p \in 1..m : list[p] = x
    <3>1. i \in keep
      BY <1>3, <2>2
    <3>2. PICK p \in 1..m : f[p] = i
      BY <1>10, <3>1
    <3> QED
      BY <1>12, <2>2, <3>2
  <2> QED
    BY <2>1, <2>2
<1>15. ToSet(list) = {list[p] : p \in 1..m}
  BY <1>13 DEF ToSet
<1>16. \A h : h \in ToSet(hits) <=> \E i \in 1..n : hits[i] = h
  BY <1>2 DEF ToSet
<1>17. ToSet(list) = {h.memory : h \in {k \in ToSet(hits) : k.current}} \cap Matching
  BY <1>14, <1>15, <1>16
<1> QED
  BY <1>4, <1>11, <1>13, <1>17 DEF ReadsOf

(* A page is the beginning of a list of all that was found.                *)
PageOf(page, S, n) ==
  \E m, list : Enumerates(list, S, m) /\ Begins(page, list, n)

LEMMA PageOfIs ==
  ASSUME NEW S, NEW n \in Nat, NEW page, PageOf(page, S, n)
  PROVE  /\ ToSet(page) \subseteq S /\ IsFiniteSet(S) /\ Cardinality(S) \in Nat
         /\ \A p, q \in DOMAIN page : page[p] = page[q] => p = q
         /\ Len(page) = IF Cardinality(S) < n THEN Cardinality(S) ELSE n
<1>1. PICK m, list : Enumerates(list, S, m) /\ Begins(page, list, n)
  BY DEF PageOf
<1>2. /\ m \in Nat /\ Len(list) = m /\ Cardinality(S) = m /\ IsFiniteSet(S)
      /\ (\A p \in 1..m : list[p] \in S)
      /\ \A p, q \in 1..m : list[p] = list[q] => p = q
  BY <1>1 DEF Enumerates
<1>3. /\ page \in Seq({list[i] : i \in 1..Len(list)})
      /\ Len(page) = IF m < n THEN m ELSE n
      /\ \A p \in 1..Len(page) : p \in 1..m /\ page[p] = list[p]
  BY <1>1, <1>2 DEF Begins
<1>4. DOMAIN page = 1..Len(page)
  BY <1>3
<1>5. ToSet(page) \subseteq S
  BY <1>2, <1>3, <1>4 DEF ToSet
<1> QED
  BY <1>2, <1>3, <1>4, <1>5

LEMMA ChannelIs ==
  ASSUME NEW down, NEW name, NEW hits \in Seq(Hit), NEW fetch \in Nat
  PROVE  Channel(down, name, hits, fetch) \in Seq(Hit)
<1>1. Begins(First(hits, fetch), hits, fetch)
  BY FirstIs, Zenon
<1>2. PICK first : first = First(hits, fetch)
  OBVIOUS
<1>3. PICK T : T = {hits[i] : i \in 1..Len(hits)}
  OBVIOUS
<1>4. first \in Seq(T)
  BY <1>1, <1>2, <1>3 DEF Begins
<1>5. T \subseteq Hit
  BY <1>3
<1>6. first \in Seq(Hit)
  BY <1>4, <1>5
<1>7. Channel(down, name, hits, fetch) = IF name \in down THEN << >> ELSE first
  BY <1>2 DEF Channel
<1> QED
  BY <1>6, <1>7

(* What is kept of what an index answers is what it reaches.               *)
LEMMA ReachedIs ==
  ASSUME NEW down, NEW name, NEW hits \in Seq(Hit), NEW fetch \in Nat
  PROVE  /\ Ids(KeepCurrent(Channel(down, name, hits, fetch))) \in Seq(Memory)
         /\ ToSet(Ids(KeepCurrent(Channel(down, name, hits, fetch))))
              = Reached(down, name, hits, fetch)
<1>1. PICK some : some = Channel(down, name, hits, fetch)
  OBVIOUS
<1>2. some \in Seq(Hit)
  BY <1>1, ChannelIs
<1>3. ReadsOf(Ids(KeepCurrent(some)), some)
  BY <1>2, IdsAre
<1> QED
  BY <1>1, <1>3 DEF ReadsOf, Reached

LEMMA OnceIs ==
  ASSUME NEW q, MemoryQuery(q), NEW down, NEW fetch \in Nat
  PROVE  PageOf(SearchOnce(q, down, fetch), RightOf(q, down, fetch), q.n)
<1>1. q.vec \in Seq(Hit) /\ q.kw \in Seq(Hit) /\ q.ids \in Seq(Hit) /\ q.n \in Nat
  BY DEF MemoryQuery
<1>2. PICK vec : vec = VectorIds(q, down, fetch)
  OBVIOUS
<1>3. PICK kw : kw = KeywordIds(q, down, fetch)
  OBVIOUS
<1>4. PICK ids : ids = IdentifierIds(q, down, fetch)
  OBVIOUS
<1>5. PICK weight : weight = FtsWeight(q)
  OBVIOUS
<1>6. weight \in Nat
  BY <1>5 DEF FtsWeight
<1>7. vec \in Seq(Memory) /\ ToSet(vec) = Reached(down, "vector", q.vec, fetch)
  BY <1>1, <1>2, ReachedIs DEF VectorIds
<1>8. kw \in Seq(Memory) /\ ToSet(kw) = Reached(down, "fts", q.kw, fetch)
  BY <1>1, <1>3, ReachedIs DEF KeywordIds
<1>9. PICK named : named = IF AsksIdentifiers(q, down)
                           THEN Reached(down, "ids", q.ids, fetch) ELSE {}
  OBVIOUS
<1>10. ids \in Seq(Memory) /\ ToSet(ids) = named
  <2>1. CASE AsksIdentifiers(q, down)
    <3>1. ids = Ids(KeepCurrent(Channel(down, "ids", q.ids, fetch)))
      BY <1>4, <2>1 DEF IdentifierIds
    <3>2. named = Reached(down, "ids", q.ids, fetch)
      BY <1>9, <2>1
    <3> QED
      BY <1>1, <3>1, <3>2, ReachedIs
  <2>2. CASE ~AsksIdentifiers(q, down)
    <3>1. ids = << >> /\ named = {}
      BY <1>4, <1>9, <2>2 DEF IdentifierIds
    <3> QED
      BY <3>1 DEF ToSet
  <2> QED
    BY <2>1, <2>2
<1>11. PICK S : S = RightOf(q, down, fetch)
  OBVIOUS
<1>12. S = ToSet(vec) \cup ToSet(kw) \cup ToSet(ids)
  BY <1>7, <1>8, <1>9, <1>10, <1>11 DEF RightOf
<1>13. PICK merged : merged = RrfMerge(vec, kw, weight, ids)
  OBVIOUS
<1>14. Enumerates(merged, S, Cardinality(S))
  <2>1. Merges(RrfMerge(vec, kw, weight, ids), S, Cardinality(S), vec, kw, weight, ids)
    BY <1>6, <1>7, <1>8, <1>10, <1>12, MergeIs, Zenon
  <2> QED
    BY <1>13, <2>1 DEF Merges
<1>15. ToSet(merged) = S
  <2>1. PICK m : m = Cardinality(S)
    OBVIOUS
  <2>2. DOMAIN merged = 1..m /\ (\A p \in 1..m : merged[p] \in S)
        /\ \A x \in S : \E p \in 1..m : merged[p] = x
    BY <1>14, <2>1 DEF Enumerates
  <2> QED
    BY <2>2 DEF ToSet
<1>16. PICK score : score = [x \in S |-> Fused(vec, kw, weight, ids, x)]
  OBVIOUS
<1>17. \A x \in S : score[x] \in Int
  <2>1. \A x : Fused(vec, kw, weight, ids, x) \in Int
    BY <1>6, <1>7, <1>8, <1>10, FusedIs
  <2> QED
    BY <1>16, <2>1
<1>18. PICK ranked : ranked = Ranked(merged, score, MemoryRecency, MemoryMoment, q.sort, TRUE)
  OBVIOUS
<1>19. S \in SUBSET Memory
  <2>1. \A x \in ToSet(vec) : x \in Memory
    BY <1>7 DEF ToSet
  <2>2. \A x \in ToSet(kw) : x \in Memory
    BY <1>8 DEF ToSet
  <2>3. \A x \in ToSet(ids) : x \in Memory
    BY <1>10 DEF ToSet
  <2> QED
    BY <1>12, <2>1, <2>2, <2>3
<1>20. Enumerates(ranked, S, Cardinality(S))
  BY <1>14, <1>17, <1>18, <1>19, MemoryRankedIs
<1>21. PICK page : page = SearchOnce(q, down, fetch)
  OBVIOUS
<1>22. page = First(ranked, q.n)
  BY <1>2, <1>3, <1>4, <1>5, <1>13, <1>15, <1>16, <1>18, <1>21, Zenon DEF SearchOnce
<1>23. Begins(page, ranked, q.n)
  <2>1. ranked \in Seq(S)
    BY <1>20 DEF Enumerates
  <2> QED
    BY <1>1, <1>22, <2>1, FirstIs, Zenon
<1> QED
  BY <1>11, <1>20, <1>21, <1>23 DEF PageOf

(* A larger fetch reaches no less, unless more channels fail in it.        *)
LEMMA ReachedMore ==
  ASSUME NEW q, MemoryQuery(q), NEW fetch \in Nat, NEW more \in Nat, fetch <= more,
         NEW down, NEW later, later \subseteq down
  PROVE  RightOf(q, down, fetch) \subseteq RightOf(q, later, more)
<1>1. ASSUME NEW name, NEW hits \in Seq(Hit)
      PROVE  Reached(down, name, hits, fetch) \subseteq Reached(later, name, hits, more)
  <2>1. ASSUME NEW n \in Nat
        PROVE  Begins(First(hits, n), hits, n)
    BY FirstIs, Zenon
  <2>2. PICK few : few = First(hits, fetch)
    OBVIOUS
  <2>3. PICK many : many = First(hits, more)
    OBVIOUS
  <2>4. /\ few \in Seq({hits[i] : i \in 1..Len(hits)}) /\ many \in Seq({hits[i] : i \in 1..Len(hits)})
        /\ Len(few) = (IF Len(hits) < fetch THEN Len(hits) ELSE fetch)
        /\ Len(many) = (IF Len(hits) < more THEN Len(hits) ELSE more)
        /\ (\A p \in 1..Len(few) : few[p] = hits[p]) /\ \A p \in 1..Len(many) : many[p] = hits[p]
    BY <2>1, <2>2, <2>3 DEF Begins
  <2>5. Len(few) <= Len(many) /\ Len(few) \in Nat /\ Len(many) \in Nat
        /\ DOMAIN few = 1..Len(few) /\ DOMAIN many = 1..Len(many)
    <3>1. Len(hits) \in Nat
      OBVIOUS
    <3>2. Len(few) \in Nat /\ Len(many) \in Nat /\ DOMAIN few = 1..Len(few) /\ DOMAIN many = 1..Len(many)
      BY <2>4
    <3> QED
      BY <2>4, <3>1, <3>2
  <2>6. ToSet(few) \subseteq ToSet(many)
    <3>1. \A p \in 1..Len(few) : p \in 1..Len(many) /\ few[p] = many[p]
      BY <2>4, <2>5
    <3> QED
      BY <2>5, <3>1 DEF ToSet
  <2>7. PICK less : less = ToSet(Channel(down, name, hits, fetch))
    OBVIOUS
  <2>8. PICK all : all = ToSet(Channel(later, name, hits, more))
    OBVIOUS
  <2>9. less \subseteq all
    <3>1. CASE name \in down
      <4>1. less = ToSet(<< >>)
        BY <2>7, <3>1 DEF Channel
      <4> QED
        BY <4>1 DEF ToSet
    <3>2. CASE name \notin down
      <4>1. less = ToSet(few) /\ all = ToSet(many)
        BY <2>2, <2>3, <2>7, <2>8, <3>2 DEF Channel
      <4> QED
        BY <2>6, <4>1
    <3> QED
      BY <3>1, <3>2
  <2> QED
    BY <2>7, <2>8, <2>9 DEF Reached
<1>2. q.vec \in Seq(Hit) /\ q.kw \in Seq(Hit) /\ q.ids \in Seq(Hit)
  BY DEF MemoryQuery
<1>3. /\ Reached(down, "vector", q.vec, fetch) \subseteq Reached(later, "vector", q.vec, more)
      /\ Reached(down, "fts", q.kw, fetch) \subseteq Reached(later, "fts", q.kw, more)
      /\ Reached(down, "ids", q.ids, fetch) \subseteq Reached(later, "ids", q.ids, more)
  BY <1>1, <1>2
<1>4. AsksIdentifiers(q, down) => AsksIdentifiers(q, later)
  BY DEF AsksIdentifiers
<1> QED
  BY <1>3, <1>4 DEF RightOf

(* A page of memories is sound.                                            *)
LEMMA MemoriesHold ==
  ASSUME NEW q, MemoryQuery(q)
  PROVE  MemoryPageSound(q, SearchMemories(q))
<1>1. PICK few : few = FetchOf(q)
  OBVIOUS
<1>2. PICK more : more = 3 * few
  OBVIOUS
<1>3. q.n \in Nat \ {0} /\ few \in Nat /\ more \in Nat /\ few <= more
  <2>1. q.n \in Nat \ {0} /\ MemoryPoolFactor \in Nat
    BY LimitsAssumption DEF MemoryQuery
  <2>2. few = MemoryPoolFactor * q.n
    BY <1>1 DEF FetchOf
  <2>3. few \in Nat
    BY <2>1, <2>2
  <2> QED
    BY <1>2, <2>1, <2>3
<1>4. PICK now : now = q.down[1]
  OBVIOUS
<1>5. PICK then : then = q.down[2]
  OBVIOUS
<1>6. PICK first : first = SearchOnce(q, now, few)
  OBVIOUS
<1>7. PICK second : second = SearchOnce(q, then, more)
  OBVIOUS
<1>8. PICK page : page = SearchMemories(q)
  OBVIOUS
<1>9. page = IF Len(first) < q.n THEN second ELSE first
  BY <1>1, <1>2, <1>4, <1>5, <1>6, <1>7, <1>8 DEF SearchMemories
<1>10. PICK soon : soon = RightOf(q, now, few)
  OBVIOUS
<1>11. PICK late : late = RightOf(q, then, more)
  OBVIOUS
<1>12. PageOf(first, soon, q.n) /\ PageOf(second, late, q.n)
  BY <1>3, <1>6, <1>7, <1>10, <1>11, OnceIs
<1>13. /\ ToSet(first) \subseteq soon /\ Cardinality(soon) \in Nat
       /\ \A i, j \in DOMAIN first : first[i] = first[j] => i = j
       /\ Len(first) = IF Cardinality(soon) < q.n THEN Cardinality(soon) ELSE q.n
  BY <1>3, <1>12, PageOfIs
<1>14. /\ ToSet(second) \subseteq late /\ IsFiniteSet(late) /\ Cardinality(late) \in Nat
       /\ \A i, j \in DOMAIN second : second[i] = second[j] => i = j
       /\ Len(second) = IF Cardinality(late) < q.n THEN Cardinality(late) ELSE q.n
  BY <1>3, <1>12, PageOfIs
<1>15. IsInjective(page)
  BY <1>9, <1>13, <1>14 DEF IsInjective
<1>16. PICK shown : shown = IF Cardinality(soon) < q.n THEN late ELSE soon
  OBVIOUS
<1>17. /\ ToSet(page) \subseteq shown
       /\ Len(page) = IF Cardinality(shown) < q.n THEN Cardinality(shown) ELSE q.n
  <2>1. CASE Len(first) < q.n
    <3>1. shown = late /\ page = second
      BY <1>3, <1>9, <1>13, <1>16, <2>1
    <3> QED
      BY <1>14, <3>1
  <2>2. CASE ~(Len(first) < q.n)
    <3>1. shown = soon /\ page = first
      BY <1>3, <1>9, <1>13, <1>16, <2>2
    <3> QED
      BY <1>13, <3>1
  <2> QED
    BY <2>1, <2>2
<1>18. ASSUME then \subseteq now
       PROVE  /\ ToSet(page) \subseteq late
              /\ Len(page) = IF Cardinality(late) < q.n THEN Cardinality(late) ELSE q.n
  <2>1. soon \subseteq late
    BY <1>3, <1>10, <1>11, <1>18, ReachedMore
  <2>2. Cardinality(soon) <= Cardinality(late)
    BY <1>14, <2>1, FS_Subset
  <2>3. CASE Cardinality(soon) < q.n
    BY <1>16, <1>17, <2>3
  <2>4. CASE ~(Cardinality(soon) < q.n)
    BY <1>3, <1>13, <1>14, <1>16, <1>17, <2>1, <2>2, <2>4
  <2> QED
    BY <2>3, <2>4
<1>19. MemoryPageSound(q, page)
  BY <1>1, <1>2, <1>4, <1>5, <1>10, <1>11, <1>15, <1>16, <1>17, <1>18, Zenon DEF MemoryPageSound
<1> QED
  BY <1>8, <1>19
-----------------------------------------------------------------------------
(* The search for turns.                                                   *)

(* One row of each turn, the best one, and better turns first.             *)
Heads(new, S, k, score) ==
  /\ k \in Nat /\ Len(new) = k /\ new \in [1..k -> S]
  /\ \A p, q \in 1..k : Parent(new[p]) = Parent(new[q]) => p = q
  /\ \A x \in S : \E p \in 1..k : Parent(new[p]) = Parent(x)
  /\ \A p, q \in 1..k : p < q => score[new[p]] >= score[new[q]]
  /\ \A x \in S, p \in 1..k : Parent(x) = Parent(new[p]) => score[x] <= score[new[p]]

LEMMA CollapseIs ==
  ASSUME NEW S, NEW m, NEW list, Enumerates(list, S, m),
         NEW score, \A x \in S : score[x] \in Int,
         \A p, q \in 1..m : p < q => score[list[p]] >= score[list[q]]
  PROVE  \E k : Heads(Collapse(list), S, k, score)
<1>1. /\ m \in Nat /\ DOMAIN list = 1..m
      /\ (\A p \in 1..m : list[p] \in S) /\ \A x \in S : \E p \in 1..m : list[p] = x
  BY DEF Enumerates
<1> DEFINE T(i) == Parent(list[i])
<1>2. PICK keep : keep = {i \in 1..m : \A j \in 1..i - 1 : T(j) # T(i)}
  OBVIOUS
<1>3. PICK new : new = Collapse(list)
  OBVIOUS
<1>4. new = At(list, keep)
  BY <1>1, <1>2, <1>3 DEF Collapse
<1>5. keep \in SUBSET (1..m)
  BY <1>2
<1>6. Takes(new, list, keep)
  BY <1>1, <1>4, <1>5, AtIs, Zenon
<1>7. PICK k : k = Cardinality(keep)
  OBVIOUS
<1>8. PICK f : Upwards(f, keep) /\ new = [p \in 1..k |-> list[f[p]]]
  BY <1>6, <1>7 DEF Takes
<1>9. /\ k \in Nat /\ f \in [1..k -> keep] /\ (\A i \in keep : \E p \in 1..k : f[p] = i)
      /\ \A p, q \in 1..k : p < q => f[p] < f[q]
  BY <1>7, <1>8 DEF Upwards
<1> HIDE DEF T
<1>10. ASSUME NEW i \in 1..m PROVE \E j \in keep : j <= i /\ T(j) = T(i)
  <2> DEFINE same == {j \in 1..m : T(j) = T(i)}
  <2>1. same \subseteq Nat /\ i \in same
    BY <1>1
  <2>2. PICK j \in same : \A h \in same : j <= h
    <3> HIDE DEF same
    <3> QED
      BY <2>1, Least
  <2>3. j \in 1..m /\ T(j) = T(i) /\ j <= i
    BY <2>1, <2>2
  <2>4. ASSUME NEW h \in 1..j - 1 PROVE T(h) # T(j)
    <3>1. h \in 1..m /\ ~(j <= h)
      BY <1>1, <2>3
    <3>2. h \notin same
      BY <2>2, <3>1
    <3> QED
      BY <2>3, <3>1, <3>2
  <2>5. j \in keep
    BY <1>2, <2>3, <2>4
  <2> QED
    BY <2>3, <2>5
<1>11. \A p \in 1..k : f[p] \in 1..m /\ f[p] \in keep /\ new[p] = list[f[p]]
                       /\ Parent(new[p]) = T(f[p]) /\ new[p] \in S
  BY <1>1, <1>5, <1>8, <1>9 DEF T
<1>12. ASSUME NEW i \in keep, NEW j \in keep, T(i) = T(j) PROVE i = j
  <2>1. i \in 1..m /\ j \in 1..m /\ (\A h \in 1..i - 1 : T(h) # T(i)) /\ \A h \in 1..j - 1 : T(h) # T(j)
    BY <1>2
  <2>2. i \notin 1..j - 1 /\ j \notin 1..i - 1
    BY <1>12, <2>1
  <2> QED
    BY <1>1, <2>1, <2>2
<1>13. ASSUME NEW p \in 1..k, NEW q \in 1..k, Parent(new[p]) = Parent(new[q]) PROVE p = q
  <2>1. f[p] = f[q]
    BY <1>11, <1>12, <1>13
  <2>2. ~(f[p] < f[q]) /\ ~(f[q] < f[p])
    BY <1>1, <1>11, <2>1
  <2> QED
    BY <1>9, <2>2
<1>14. ASSUME NEW x \in S PROVE \E p \in 1..k : Parent(new[p]) = Parent(x)
  <2>1. PICK i \in 1..m : list[i] = x
    BY <1>1
  <2>2. PICK j \in keep : T(j) = T(i)
    BY <1>10
  <2>3. PICK p \in 1..k : f[p] = j
    BY <1>9
  <2> QED
    BY <1>11, <2>1, <2>2, <2>3 DEF T
<1>15. ASSUME NEW p \in 1..k, NEW q \in 1..k, p < q PROVE score[new[p]] >= score[new[q]]
  <2>1. f[p] \in 1..m /\ f[q] \in 1..m /\ f[p] < f[q]
    BY <1>9, <1>11, <1>15
  <2>2. score[list[f[p]]] >= score[list[f[q]]]
    BY <2>1
  <2> QED
    BY <1>11, <2>2
<1>16. ASSUME NEW x \in S, NEW p \in 1..k, Parent(x) = Parent(new[p])
       PROVE  score[x] <= score[new[p]]
  <2>1. PICK i \in 1..m : list[i] = x
    BY <1>1
  <2>2. PICK j \in keep : j <= i /\ T(j) = T(i)
    BY <1>10
  <2>3. T(i) = T(f[p])
    BY <1>11, <1>16, <2>1 DEF T
  <2>4. j = f[p]
    BY <1>11, <1>12, <2>2, <2>3
  <2>5. f[p] = i \/ f[p] < i
    BY <1>1, <1>11, <2>2, <2>4
  <2>6. score[list[f[p]]] >= score[list[i]]
    <3>1. score[list[i]] \in Int
      BY <1>1
    <3> QED
      BY <1>11, <2>5, <3>1
  <2>7. score[x] \in Int /\ score[new[p]] \in Int
    BY <1>11
  <2> QED
    BY <1>11, <2>1, <2>6, <2>7
<1>17. new \in [1..k -> S] /\ Len(new) = k
  <2>1. new \in [1..k -> S]
    BY <1>8, <1>11
  <2> QED
    BY <1>9, <2>1
<1>18. Heads(new, S, k, score)
  BY <1>9, <1>13, <1>14, <1>15, <1>16, <1>17 DEF Heads
<1> QED
  BY <1>3, <1>18

(* The rows of a list are of different turns.                              *)
OnePerTurn(list, k) ==
  /\ k \in Nat /\ Len(list) = k /\ list \in [1..k -> Row] /\ list \in Seq(Row)
  /\ \A p, q \in 1..k : Parent(list[p]) = Parent(list[q]) => p = q

LEMMA ApartCount ==
  ASSUME NEW list, NEW k, OnePerTurn(list, k)
  PROVE  Cardinality(TurnsOf(list)) = k
<1>1. k \in Nat /\ DOMAIN list = 1..k
      /\ \A p, q \in 1..k : Parent(list[p]) = Parent(list[q]) => p = q
  BY DEF OnePerTurn
<1>2. PICK S : S = TurnsOf(list)
  OBVIOUS
<1>3. PICK turns : turns = [p \in 1..k |-> Parent(list[p])]
  OBVIOUS
<1>4. \A x : x \in S <=> \E p \in 1..k : x = turns[p]
  BY <1>1, <1>2, <1>3 DEF TurnsOf, ToSet
<1>5. turns \in [1..k -> S]
  BY <1>3, <1>4
<1>6. (\A x \in S : \E p \in 1..k : turns[p] = x) /\ \A p, q \in 1..k : turns[p] = turns[q] => p = q
  BY <1>1, <1>3, <1>4
<1>7. Enumerates(turns, S, k)
  BY <1>1, <1>5, <1>6, EnumeratesThere
<1> QED
  BY <1>2, <1>7 DEF Enumerates

(* The rows of new are those at some positions of the other list.          *)
DrawnFrom(new, m, list, k) ==
  /\ m \in Nat /\ new \in [1..m -> Row]
  /\ \E g \in [1..m -> 1..k] : /\ \A p, q \in 1..m : g[p] = g[q] => p = q
                               /\ \A p \in 1..m : new[p] = list[g[p]]

LEMMA ApartThrough ==
  ASSUME NEW list, NEW k, OnePerTurn(list, k), NEW m, NEW new, DrawnFrom(new, m, list, k)
  PROVE  OnePerTurn(new, m)
<1>0. PICK g \in [1..m -> 1..k] : /\ \A p, q \in 1..m : g[p] = g[q] => p = q
                                  /\ \A p \in 1..m : new[p] = list[g[p]]
  BY DEF DrawnFrom
<1>1. list \in [1..k -> Row] /\ \A p, q \in 1..k : Parent(list[p]) = Parent(list[q]) => p = q
  BY DEF OnePerTurn
<1>2. \A p \in 1..m : g[p] \in 1..k /\ new[p] = list[g[p]]
  BY <1>0
<1>3. new \in [1..m -> Row]
  BY DEF DrawnFrom
<1>4. m \in Nat /\ Len(new) = m /\ new \in Seq(Row)
  BY <1>3 DEF DrawnFrom
<1>5. ASSUME NEW p \in 1..m, NEW q \in 1..m, Parent(new[p]) = Parent(new[q]) PROVE p = q
  <2>1. g[p] = g[q]
    BY <1>1, <1>2, <1>5
  <2> QED
    BY <1>0, <2>1
<1> QED
  BY <1>3, <1>4, <1>5 DEF OnePerTurn

LEMMA ApartFirst ==
  ASSUME NEW list, NEW k, OnePerTurn(list, k), NEW n \in Nat
  PROVE  /\ OnePerTurn(First(list, n), IF k < n THEN k ELSE n)
         /\ \A p \in 1..IF k < n THEN k ELSE n : p \in 1..k /\ First(list, n)[p] = list[p]
<1>1. list \in Seq(Row) /\ Len(list) = k /\ k \in Nat
  BY DEF OnePerTurn
<1>2. PICK new : new = First(list, n)
  OBVIOUS
<1>3. Begins(new, list, n)
  BY <1>1, <1>2, FirstIs
<1>4. PICK m : m = IF k < n THEN k ELSE n
  OBVIOUS
<1>5. m \in Nat /\ m <= k
  BY <1>1, <1>4
<1>6. Len(new) = m /\ new \in Seq({list[i] : i \in 1..Len(list)})
      /\ \A p \in 1..m : p \in 1..k /\ new[p] = list[p]
  BY <1>1, <1>3, <1>4 DEF Begins
<1>7. DOMAIN new = 1..m /\ new = [p \in 1..m |-> new[p]]
  BY <1>6
<1>8. PICK g : g = [p \in 1..m |-> p]
  OBVIOUS
<1>9. g \in [1..m -> 1..k] /\ \A p, q \in 1..m : g[p] = g[q] => p = q
  BY <1>6, <1>8
<1>10. new \in [1..m -> Row] /\ \A p \in 1..m : new[p] = list[g[p]]
  <2>1. \A p \in 1..m : new[p] = list[p] /\ list[p] \in Row
    BY <1>1, <1>6
  <2>2. new \in [1..m -> Row]
    BY <1>7, <2>1
  <2> QED
    BY <1>8, <2>1, <2>2
<1>11. OnePerTurn(new, m)
  <2>1. DrawnFrom(new, m, list, k)
    BY <1>5, <1>9, <1>10 DEF DrawnFrom
  <2> QED
    BY <2>1, ApartThrough
<1>12. OnePerTurn(First(list, n), IF k < n THEN k ELSE n)
  BY <1>2, <1>4, <1>11
<1>13. \A p \in 1..IF k < n THEN k ELSE n : p \in 1..k /\ First(list, n)[p] = list[p]
  BY <1>2, <1>4, <1>6, Zenon
<1> QED
  BY <1>12, <1>13, Zenon

(* The reranked rows are those of the list in another order.               *)
LEMMA RerankedIs ==
  ASSUME NEW q, NEW list, NEW k, OnePerTurn(list, k)
  PROVE  OnePerTurn(Reranked(q, list), k)
<1>1. /\ k \in Nat /\ Len(list) = k /\ DOMAIN list = 1..k /\ list \in Seq(Row)
      /\ \A p \in 1..k : list[p] \in Row
  BY DEF OnePerTurn
<1>2. PICK top : top = First(list, RerankTop)
  OBVIOUS
<1>3. PICK t : t = IF k < RerankTop THEN k ELSE RerankTop
  OBVIOUS
<1>4. RerankTop \in Nat
  BY LimitsAssumption
<1>5. OnePerTurn(top, t) /\ \A p \in 1..t : p \in 1..k /\ top[p] = list[p]
  BY <1>2, <1>3, <1>4, ApartFirst
<1>6. t \in Nat /\ t <= k /\ Len(top) = t /\ DOMAIN top = 1..t
  <2>1. t \in Nat /\ t <= k
    BY <1>1, <1>3, <1>4
  <2>2. Len(top) = t /\ DOMAIN top = 1..t
    BY <1>5 DEF OnePerTurn
  <2> QED
    BY <2>1, <2>2
<1> DEFINE rank == [i \in 1..t |->
                      1 + Cardinality({j \in 1..t :
                            \/ q.likes[Parent(top[j])] > q.likes[Parent(top[i])]
                            \/ q.likes[Parent(top[j])] = q.likes[Parent(top[i])] /\ j < i})]
           Sum(i) == Scale \div (K + i) + Scale \div (K + rank[i])
           Key(i) == IF q.reranker = "qwen3" \/ q.sort = "temporal" THEN Sum(i) ELSE -rank[i]
<1>7. PICK key : key = [i \in 1..t |-> Key(i)]
  OBVIOUS
<1>8. PICK same : same = [i \in 1..t |-> i]
  OBVIOUS
<1>9. PICK order : order = StableSort(same, Descending(key))
  OBVIOUS
<1>10. RerankOrder(q, top) = [p \in 1..t |-> top[order[p]]]
  BY <1>6, <1>7, <1>8, <1>9, Zenon DEF RerankOrder
<1>11. \A i \in 1..t : key[i] \in Int
  <2>1. ASSUME NEW i \in 1..t PROVE rank[i] \in Nat \ {0}
    <3> DEFINE more == {j \in 1..t :
                          \/ q.likes[Parent(top[j])] > q.likes[Parent(top[i])]
                          \/ q.likes[Parent(top[j])] = q.likes[Parent(top[i])] /\ j < i}
    <3>1. more \in SUBSET (1..t)
      OBVIOUS
    <3>2. rank[i] = 1 + Cardinality(more)
      OBVIOUS
    <3> HIDE DEF more, rank
    <3>3. IsFiniteSet(1..t)
      <4>1. 1 \in Int /\ t \in Int
        BY <1>6
      <4> QED
        BY <4>1, FS_Interval
    <3>4. Cardinality(more) \in Nat
      BY <3>1, <3>3, FS_Subset, FS_CardinalityType
    <3> QED
      BY <3>2, <3>4
  <2> HIDE DEF rank
  <2>2. ASSUME NEW n \in Nat \ {0} PROVE Scale \div (K + n) \in Int
    <3>1. PICK d : d = K + n
      OBVIOUS
    <3>2. PICK s : s = Scale
      OBVIOUS
    <3>3. d \in Nat \ {0} /\ s \in Nat
      BY <3>1, <3>2 DEF K, Scale
    <3>4. s \div d \in Int
      BY <3>3
    <3> QED
      BY <3>1, <3>2, <3>4
  <2>3. ASSUME NEW i \in 1..t PROVE Key(i) \in Int
    <3>1. i \in Nat \ {0} /\ rank[i] \in Nat \ {0}
      BY <1>6, <2>1
    <3>2. PICK a : a = Scale \div (K + i)
      OBVIOUS
    <3>3. PICK b : b = Scale \div (K + rank[i])
      OBVIOUS
    <3>4. a \in Int /\ b \in Int
      BY <2>2, <3>1, <3>2, <3>3
    <3>5. Sum(i) \in Int
      BY <3>2, <3>3, <3>4
    <3> HIDE DEF Sum
    <3> QED
      BY <3>1, <3>5
  <2> HIDE DEF Key
  <2> QED
    BY <1>7, <2>3
<1> HIDE DEF rank, Sum, Key
<1>12. Enumerates(same, 1..t, t)
  <2>1. same \in [1..t -> 1..t] /\ (\A x \in 1..t : \E p \in 1..t : same[p] = x)
        /\ \A p, r \in 1..t : same[p] = same[r] => p = r
    BY <1>8
  <2> QED
    BY <1>6, <2>1, EnumeratesThere
<1>13. Enumerates(order, 1..t, t)
  <2>1. PICK before : before = Descending(key)
    OBVIOUS
  <2>2. Weakly(before, same, t)
    <3>1. DOMAIN key = 1..t /\ \A i \in 1..t : same[i] \in 1..t
      BY <1>7, <1>8
    <3> QED
      BY <1>6, <1>11, <2>1, <3>1, DescendingIs
  <2>3. order = StableSort(same, before)
    BY <1>9, <2>1
  <2> QED
    BY <1>12, <2>2, <2>3, SortListed
<1>14. order \in [1..t -> 1..t] /\ \A p, r \in 1..t : order[p] = order[r] => p = r
  BY <1>13 DEF Enumerates
<1>15. PICK head : head = RerankOrder(q, top)
  OBVIOUS
<1>16. head \in Seq(Row) /\ Len(head) = t /\ \A p \in 1..t : head[p] = list[order[p]]
  <2>1. head = [p \in 1..t |-> top[order[p]]]
    BY <1>10, <1>15
  <2>2. \A p \in 1..t : head[p] = list[order[p]] /\ head[p] \in Row
    BY <1>1, <1>5, <1>14, <2>1
  <2>3. head \in [1..t -> Row]
    BY <2>1, <2>2
  <2> QED
    BY <1>6, <2>2, <2>3
<1>17. PICK tail : tail = SubSeq(list, t + 1, k)
  OBVIOUS
<1>18. tail \in Seq(Row) /\ Len(tail) = k - t /\ \A p \in 1..k - t : tail[p] = list[t + p]
  <2>1. tail = [p \in 1..k - t |-> list[t + p]]
    BY <1>1, <1>6, <1>17
  <2>2. \A p \in 1..k - t : list[t + p] \in Row
    BY <1>1, <1>6
  <2>3. tail \in [1..k - t -> Row] /\ k - t \in Nat
    BY <1>1, <1>6, <2>1, <2>2
  <2> QED
    BY <2>1, <2>3
<1>19. PICK new : new = Reranked(q, list)
  OBVIOUS
<1>20. new = head \o tail
  BY <1>1, <1>2, <1>6, <1>15, <1>17, <1>19 DEF Reranked
<1>21. new \in Seq(Row) /\ Len(new) = k
       /\ (\A p \in 1..t : new[p] = list[order[p]]) /\ \A p \in t + 1..k : new[p] = list[p]
  <2>1. new \in Seq(Row) /\ Len(new) = k
    BY <1>1, <1>6, <1>16, <1>18, <1>20
  <2>2. ASSUME NEW p \in 1..t PROVE new[p] = list[order[p]]
    BY <1>16, <1>18, <1>20
  <2>3. ASSUME NEW p \in t + 1..k PROVE new[p] = list[p]
    <3>1. PICK r : r = p - t
      OBVIOUS
    <3>2. r \in 1..k - t /\ p = t + r
      BY <1>1, <1>6, <3>1
    <3>3. new[t + r] = tail[r]
      <4>1. r \in 1..Len(tail) /\ head \in Seq(Row) /\ tail \in Seq(Row)
        BY <1>16, <1>18, <3>2
      <4>2. (head \o tail)[Len(head) + r] = tail[r]
        BY <4>1
      <4> QED
        BY <1>16, <1>20, <4>2
    <3> QED
      BY <1>18, <3>2, <3>3
  <2> QED
    BY <2>1, <2>2, <2>3
<1>22. PICK g : g = [p \in 1..k |-> IF p <= t THEN order[p] ELSE p]
  OBVIOUS
<1>23. ASSUME NEW p \in 1..k
       PROVE  /\ p <= t => p \in 1..t /\ g[p] = order[p] /\ g[p] \in 1..t
              /\ ~(p <= t) => g[p] = p /\ p \in t + 1..k
              /\ g[p] \in 1..k
  BY <1>1, <1>6, <1>14, <1>22
<1>24. g \in [1..k -> 1..k]
  BY <1>22, <1>23
<1>25. ASSUME NEW p \in 1..k, NEW r \in 1..k, g[p] = g[r] PROVE p = r
  BY SMTT(20), <1>6, <1>14, <1>23, <1>25
<1>26. DrawnFrom(new, k, list, k)
  <2>1. new \in [1..k -> Row]
    BY <1>21
  <2>2. \A p \in 1..k : new[p] = list[g[p]]
    BY <1>21, <1>23
  <2> QED
    BY <1>1, <1>24, <1>25, <2>1, <2>2 DEF DrawnFrom
<1> QED
  BY <1>19, <1>26, ApartThrough

(* RowsAt equal numbers the quotient by a positive one does not fall.          *)
LEMMA DivisionRises ==
  ASSUME NEW a \in Int, NEW b \in Int, a <= b, NEW d \in Nat \ {0}
  PROVE  a \div d \in Int /\ b \div d \in Int /\ a \div d <= b \div d
<1>1. PICK x : x = a \div d
  OBVIOUS
<1>2. PICK y : y = b \div d
  OBVIOUS
<1>3. x \in Int /\ d * x <= a /\ a < d * x + d
  BY <1>1
<1>4. y \in Int /\ d * y <= b /\ b < d * y + d
  BY <1>2
<1>5. SUFFICES ASSUME ~(x <= y) PROVE FALSE
  BY <1>1, <1>2, <1>3, <1>4
<1>6. PICK z : z = x - y - 1
  OBVIOUS
<1>7. z \in Nat /\ x = y + 1 + z
  BY <1>3, <1>4, <1>5, <1>6
<1>8. d * x = d * y + d + d * z
  BY <1>4, <1>7
<1>9. d * z \in Nat /\ d * y \in Int /\ d * x \in Int
  BY <1>3, <1>4, <1>7
<1>10. PICK u : u = d * y
  OBVIOUS
<1>11. PICK v : v = d * z
  OBVIOUS
<1>12. u + d + v <= a /\ b < u + d /\ v \in Nat /\ u \in Int
  BY <1>3, <1>4, <1>8, <1>9, <1>10, <1>11
<1> QED
  BY <1>12

(* Who has the higher score and is more recent has no lower blend.         *)
LEMMA TurnBlendIs ==
  ASSUME NEW S \in SUBSET Row, IsFiniteSet(S), NEW score, \A x \in S : score[x] \in Int,
         NEW sort, NEW x \in S, NEW y \in S
  PROVE  /\ Blend(score, S, RowRecency, WeightOf(sort), x) \in Int
         /\ Blend(score, S, RowRecency, WeightOf(sort), y) \in Int
         /\ score[y] > score[x] /\ RowRecency[y] > RowRecency[x] =>
              Blend(score, S, RowRecency, WeightOf(sort), y)
                >= Blend(score, S, RowRecency, WeightOf(sort), x)
<1> DEFINE scores == {score[z] : z \in S}
<1>1. PICK lo : lo = CHOOSE s \in scores : \A t \in scores : s <= t
  OBVIOUS
<1>2. PICK hi : hi = CHOOSE s \in scores : \A t \in scores : s >= t
  OBVIOUS
<1>3. Bounds(lo, hi, S, score)
  BY <1>1, <1>2, Extremes
<1>4. PICK w : w = WeightOf(sort)
  OBVIOUS
<1>5. w \in 0..100
  BY <1>4, WeightsAssumption DEF WeightOf
<1>6. PICK c : c = 100 - w
  OBVIOUS
<1>7. c \in Nat /\ w \in Nat
  BY <1>5, <1>6
<1>8. PICK a : a = Semantic(score, S, x)
  OBVIOUS
<1>9. PICK b : b = Semantic(score, S, y)
  OBVIOUS
<1>10. a = IF hi = lo THEN 1000 ELSE (1000 * (score[x] - lo)) \div (hi - lo)
  BY <1>1, <1>2, <1>8 DEF Semantic
<1>11. b = IF hi = lo THEN 1000 ELSE (1000 * (score[y] - lo)) \div (hi - lo)
  BY <1>1, <1>2, <1>9 DEF Semantic
<1>12. score[x] \in Int /\ score[y] \in Int /\ lo \in Int /\ hi \in Int /\ lo <= score[x] /\ score[x] <= hi
  BY <1>3 DEF Bounds
<1>13. a \in Int /\ b \in Int /\ (score[y] > score[x] => b >= a)
  <2>1. CASE hi = lo
    BY <1>10, <1>11, <2>1
  <2>2. CASE hi # lo
    <3>1. PICK d : d = hi - lo
      OBVIOUS
    <3>2. PICK e : e = 1000 * (score[x] - lo)
      OBVIOUS
    <3>3. PICK f : f = 1000 * (score[y] - lo)
      OBVIOUS
    <3>4. d \in Nat \ {0} /\ e \in Int /\ f \in Int /\ (score[y] > score[x] => e <= f)
      BY <1>12, <2>2, <3>1, <3>2, <3>3
    <3>5. a = e \div d /\ b = f \div d
      BY <1>10, <1>11, <2>2, <3>1, <3>2, <3>3
    <3>6. e <= e /\ f <= f
      BY <3>4
    <3>7. a \in Int /\ b \in Int
      BY <3>4, <3>5, <3>6, DivisionRises
    <3>8. ASSUME e <= f PROVE a <= b
      BY <3>4, <3>5, <3>8, DivisionRises
    <3> QED
      BY <3>4, <3>7, <3>8
  <2> QED
    BY <2>1, <2>2
<1>14. PICK r : r = RowRecency[x]
  OBVIOUS
<1>15. PICK s : s = RowRecency[y]
  OBVIOUS
<1>16. r \in Nat /\ s \in Nat
  BY <1>14, <1>15, RowAssumption
<1>17. /\ Blend(score, S, RowRecency, WeightOf(sort), x) = c * a + w * r
       /\ Blend(score, S, RowRecency, WeightOf(sort), y) = c * b + w * s
  BY <1>4, <1>6, <1>8, <1>9, <1>14, <1>15 DEF Blend
<1>18. c * a + w * r \in Int /\ c * b + w * s \in Int
  BY <1>7, <1>13, <1>16
<1>19. ASSUME b >= a, s > r PROVE c * b + w * s >= c * a + w * r
  <2>1. PICK d : d = b - a
    OBVIOUS
  <2>2. PICK e : e = s - r
    OBVIOUS
  <2>3. d \in Nat /\ e \in Nat /\ b = a + d /\ s = r + e
    BY <1>13, <1>16, <1>19, <2>1, <2>2
  <2>4. c * b = c * a + c * d /\ w * s = w * r + w * e
    BY <1>7, <1>13, <1>16, <2>3
  <2>5. c * d \in Nat /\ w * e \in Nat /\ c * a \in Int /\ w * r \in Int
    BY <1>7, <1>13, <1>16, <2>3
  <2> QED
    BY <2>4, <2>5
<1> QED
  BY <1>13, <1>14, <1>15, <1>17, <1>18, <1>19

(* Ranking by relevance leaves a list as it is; else it is a stable sort.  *)
RanksBy(ranked, list, S, m, score, sort) ==
  /\ sort = "relevance" => ranked = list
  /\ sort # "relevance" =>
       \E key : /\ Sorts(ranked, list, Descending(key), m)
                /\ DOMAIN key = S /\ \A x \in S : key[x] \in Int
                /\ sort # "recency" =>
                     \A x \in S : key[x] = Blend(score, S, RowRecency, WeightOf(sort), x)

LEMMA TurnRankedIs ==
  ASSUME NEW S \in SUBSET Row, NEW m, NEW list, Enumerates(list, S, m),
         NEW score, \A x \in S : score[x] \in Int, NEW sort
  PROVE  RanksBy(Ranked(list, score, RowRecency, RowMoment, sort, FALSE), list, S, m, score, sort)
<1>1. /\ m \in Nat /\ IsFiniteSet(S) /\ DOMAIN list = 1..m
      /\ (\A p \in 1..m : list[p] \in S) /\ \A x \in S : \E p \in 1..m : list[p] = x
  BY DEF Enumerates
<1>2. ToSet(list) = S
  BY <1>1 DEF ToSet
<1> DEFINE Key(x) == IF sort = "recency" THEN RowMoment[x]
                     ELSE Blend(score, S, RowRecency, WeightOf(sort), x)
<1>3. PICK key : key = [x \in S |-> Key(x)]
  OBVIOUS
<1>4. DOMAIN key = S /\ \A x \in S : key[x] \in Int
  <2>1. ASSUME NEW x \in S PROVE Key(x) \in Int
    <3>1. RowMoment[x] \in Int
      BY RowAssumption
    <3>2. Blend(score, S, RowRecency, WeightOf(sort), x) \in Int
      BY <1>1, TurnBlendIs
    <3> QED
      BY <3>1, <3>2
  <2> HIDE DEF Key
  <2> QED
    BY <1>3, <2>1
<1>5. PICK ties : ties = {p \in S \X S : FALSE /\ key[p[1]] = key[p[2]] /\ p[1] > p[2]}
  OBVIOUS
<1>6. PICK before : before = Descending(key) \cup ties
  OBVIOUS
<1>7. Ranked(list, score, RowRecency, RowMoment, sort, FALSE)
        = IF sort = "relevance" THEN list ELSE StableSort(list, before)
  BY <1>2, <1>3, <1>5, <1>6, Zenon DEF Ranked
<1>8. before = Descending(key)
  <2>1. ties = {}
    BY <1>5
  <2> QED
    BY <1>6, <2>1
<1>9. Weakly(before, list, m)
  BY <1>1, <1>4, <1>8, DescendingIs
<1>10. Sorts(StableSort(list, before), list, before, m)
  BY <1>9, SortListed
<1>11. sort # "relevance" => Sorts(Ranked(list, score, RowRecency, RowMoment, sort, FALSE), list, before, m)
  BY <1>7, <1>10
<1>12. sort # "recency" => \A x \in S : key[x] = Blend(score, S, RowRecency, WeightOf(sort), x)
  BY <1>3
<1> QED
  BY <1>4, <1>7, <1>8, <1>11, <1>12 DEF RanksBy

(* The pool covers the rows that are kept, and these the page.             *)
LEMMA FetchIs ==
  ASSUME NEW q, TurnQuery(q)
  PROVE  /\ q.n \in Nat \ {0} /\ Keep(q) \in Nat /\ Fetch(q) \in Nat
         /\ q.n <= Keep(q) /\ Keep(q) <= Fetch(q)
         /\ ~Reranks(q) => Keep(q) = q.n
<1>1. q.n \in Nat \ {0} /\ q.factor \in Nat \ {0} /\ RerankTop \in Nat
  BY LimitsAssumption DEF TurnQuery
<1>2. PICK keep : keep = Keep(q)
  OBVIOUS
<1>3. keep \in Nat /\ q.n <= keep /\ (~Reranks(q) => keep = q.n)
  BY <1>1, <1>2 DEF Keep
<1>4. PICK more : more = q.factor - 1
  OBVIOUS
<1>5. more \in Nat /\ q.factor = more + 1
  BY <1>1, <1>4
<1>6. more * keep \in Nat /\ (more + 1) * keep = more * keep + keep
  BY <1>3, <1>5
<1>7. PICK rest : rest = more * keep
  OBVIOUS
<1>8. Fetch(q) = rest + keep
  BY <1>2, <1>5, <1>6, <1>7 DEF Fetch
<1>9. rest \in Nat
  BY <1>6, <1>7
<1> QED
  BY <1>1, <1>2, <1>3, <1>8, <1>9

(* The fused rows, and one of each turn among them.                        *)
LEMMA MergedHeads ==
  ASSUME NEW q, TurnQuery(q)
  PROVE  /\ FoundRows(q) \in SUBSET Row /\ IsFiniteSet(FoundRows(q))
         /\ \A x \in FoundRows(q) : Score(q)[x] \in Int
         /\ \E k : Heads(Collapse(Merged(q)), FoundRows(q), k, Score(q))
<1>1. PICK fetch : fetch = Fetch(q)
  OBVIOUS
<1>2. fetch \in Nat
  BY <1>1, FetchIs
<1>3. ASSUME NEW list \in Seq(Row) PROVE First(list, fetch) \in Seq(Row)
  <2>1. PICK new : new = First(list, fetch)
    OBVIOUS
  <2>2. Begins(new, list, fetch)
    BY <1>2, <2>1, FirstIs
  <2>3. PICK T : T = {list[i] : i \in 1..Len(list)}
    OBVIOUS
  <2>4. new \in Seq(T) /\ T \subseteq Row
    BY <2>2, <2>3 DEF Begins
  <2> QED
    BY <2>1, <2>4
<1>4. PICK vec : vec = Vectors(q)
  OBVIOUS
<1>5. PICK kw : kw = Keywords(q)
  OBVIOUS
<1>6. PICK ids : ids = Identifiers(q)
  OBVIOUS
<1>7. PICK w : w = KeywordWeight(q)
  OBVIOUS
<1>8. vec \in Seq(Row) /\ kw \in Seq(Row) /\ ids \in Seq(Row) /\ w \in Nat
  <2>1. q.vec \in Seq(Row) /\ q.kw \in Seq(Row) /\ q.ids \in Seq(Row)
    BY DEF TurnQuery
  <2>2. vec \in Seq(Row) /\ kw \in Seq(Row)
    BY <1>1, <1>3, <1>4, <1>5, <2>1 DEF Vectors, Keywords
  <2>3. ids \in Seq(Row)
    <3>1. << >> \in Seq(Row)
      OBVIOUS
    <3>2. First(q.ids, fetch) \in Seq(Row)
      BY <1>3, <2>1
    <3> QED
      BY <1>1, <1>6, <3>1, <3>2 DEF Identifiers
  <2>4. w \in Nat
    BY <1>7 DEF KeywordWeight
  <2> QED
    BY <2>2, <2>3, <2>4
<1>9. PICK S : S = FoundRows(q)
  OBVIOUS
<1>10. S = ToSet(vec) \cup ToSet(kw) \cup ToSet(ids)
  BY <1>4, <1>5, <1>6, <1>9 DEF FoundRows
<1>11. PICK merged : merged = Merged(q)
  OBVIOUS
<1>12. PICK m : m = Cardinality(S)
  OBVIOUS
<1>13. Merges(merged, S, m, vec, kw, w, ids)
  <2>1. merged = RrfMerge(vec, kw, w, ids)
    BY <1>4, <1>5, <1>6, <1>7, <1>11 DEF Merged
  <2>2. Merges(RrfMerge(vec, kw, w, ids), S, Cardinality(S), vec, kw, w, ids)
    BY <1>8, <1>10, MergeIs, Zenon
  <2> QED
    BY <1>12, <2>1, <2>2
<1>14. PICK score : score = Score(q)
  OBVIOUS
<1>15. \A x \in S : score[x] = Fused(vec, kw, w, ids, x) /\ score[x] \in Int
  <2>1. \A x \in S : score[x] = Fused(vec, kw, w, ids, x)
    BY <1>4, <1>5, <1>6, <1>7, <1>9, <1>14 DEF Score
  <2> QED
    BY <1>8, <2>1, FusedIs
<1>16. Enumerates(merged, S, m) /\ \A p \in 1..m : merged[p] \in S
  BY <1>13 DEF Merges, Enumerates
<1>17. \A i, j \in 1..m : i < j => score[merged[i]] >= score[merged[j]]
  BY <1>13, <1>15, <1>16 DEF Merges
<1>18. \E k : Heads(Collapse(merged), S, k, score)
  BY <1>15, <1>16, <1>17, CollapseIs
<1>19. S \in SUBSET Row
  <2>1. \A list \in Seq(Row) : ToSet(list) \subseteq Row
    BY DEF ToSet
  <2>2. ToSet(vec) \subseteq Row /\ ToSet(kw) \subseteq Row /\ ToSet(ids) \subseteq Row
    BY <1>8, <2>1
  <2> QED
    BY <1>10, <2>2
<1>20. IsFiniteSet(S)
  BY <1>16 DEF Enumerates
<1> QED
  BY <1>9, <1>11, <1>14, <1>15, <1>18, <1>19, <1>20

(* A page of turns is sound.                                               *)
LEMMA TurnsHold ==
  ASSUME NEW q, TurnQuery(q)
  PROVE  TurnPageSound(q, SearchTurns(q))
<1>1. PICK n : n = q.n
  OBVIOUS
<1>2. PICK keep : keep = Keep(q)
  OBVIOUS
<1>3. PICK fetch : fetch = Fetch(q)
  OBVIOUS
<1>4. /\ n \in Nat \ {0} /\ keep \in Nat /\ fetch \in Nat /\ n <= keep /\ keep <= fetch
      /\ ~Reranks(q) => keep = n
  BY <1>1, <1>2, <1>3, FetchIs
<1>5. PICK S : S = FoundRows(q)
  OBVIOUS
<1>6. PICK score : score = Score(q)
  OBVIOUS
<1>7. PICK heads : heads = Collapse(Merged(q))
  OBVIOUS
<1>8. /\ S \in SUBSET Row /\ IsFiniteSet(S) /\ \A x \in S : score[x] \in Int
  BY <1>5, <1>6, MergedHeads
<1>9. PICK k : Heads(heads, S, k, score)
  BY <1>5, <1>6, <1>7, MergedHeads
<1>10. /\ k \in Nat /\ Len(heads) = k /\ heads \in [1..k -> S]
       /\ \A p, r \in 1..k : Parent(heads[p]) = Parent(heads[r]) => p = r
       /\ \A x \in S : \E p \in 1..k : Parent(heads[p]) = Parent(x)
       /\ \A p, r \in 1..k : p < r => score[heads[p]] >= score[heads[r]]
       /\ \A x \in S, p \in 1..k : Parent(x) = Parent(heads[p]) => score[x] <= score[heads[p]]
  BY <1>9 DEF Heads
<1>11. OnePerTurn(heads, k)
  <2>1. heads \in [1..k -> Row]
    BY <1>8, <1>10
  <2> QED
    BY <1>10, <2>1 DEF OnePerTurn
(* The pool.                                                               *)
<1>12. PICK pool : pool = Pool(q)
  OBVIOUS
<1>13. PICK size : size = IF k < fetch THEN k ELSE fetch
  OBVIOUS
<1>14. OnePerTurn(pool, size) /\ \A p \in 1..size : p \in 1..k /\ pool[p] = heads[p]
  <2>1. pool = First(heads, fetch)
    BY <1>3, <1>7, <1>12 DEF Pool
  <2> QED
    BY <1>4, <1>11, <1>13, <2>1, ApartFirst
<1>15. size \in Nat /\ size <= k /\ DOMAIN pool = 1..size
  <2>1. size \in Nat /\ size <= k
    BY <1>4, <1>10, <1>13
  <2> QED
    BY <1>14, <2>1 DEF OnePerTurn
<1>16. PICK P : P = ToSet(pool)
  OBVIOUS
<1>17. \A x : x \in P <=> \E p \in 1..size : x = pool[p]
  BY <1>15, <1>16 DEF ToSet
<1>18. P \subseteq S
  BY <1>10, <1>14, <1>17
<1>19. Enumerates(pool, P, size)
  <2>1. pool \in [1..size -> P] /\ \A x \in P : \E p \in 1..size : pool[p] = x
    <3>1. pool \in [1..size -> Row] /\ \A p \in 1..size : pool[p] \in P
      BY <1>14, <1>17 DEF OnePerTurn
    <3> QED
      BY <1>17, <3>1
  <2>2. \A p, r \in 1..size : pool[p] = pool[r] => p = r
    BY <1>14 DEF OnePerTurn
  <2> QED
    BY <1>15, <2>1, <2>2, EnumeratesThere
(* The ranked pool: row p of it is row at[p] of the pool.                  *)
<1>20. PICK ranked : ranked = Ranked(pool, score, RowRecency, RowMoment, q.sort, FALSE)
  OBVIOUS
<1>21. P \in SUBSET Row /\ \A x \in P : score[x] \in Int
  BY <1>8, <1>18
<1>22. /\ q.sort = "relevance" => ranked = pool
       /\ q.sort # "relevance" =>
            \E key : /\ Sorts(ranked, pool, Descending(key), size)
                     /\ DOMAIN key = P /\ \A x \in P : key[x] \in Int
                     /\ q.sort # "recency" =>
                          \A x \in P : key[x] = Blend(score, P, RowRecency, WeightOf(q.sort), x)
  <2>1. RanksBy(ranked, pool, P, size, score, q.sort)
    BY <1>19, <1>20, <1>21, TurnRankedIs
  <2> QED
    BY <2>1 DEF RanksBy
<1> DEFINE Better(x, y) ==
             q.sort \in {"hybrid", "temporal"} => ~(score[y] > score[x] /\ RowRecency[y] > RowRecency[x])
<1>23. \E at \in [1..size -> 1..size] :
         /\ \A p, r \in 1..size : at[p] = at[r] => p = r
         /\ \A i \in 1..size : \E p \in 1..size : at[p] = i
         /\ ranked = [p \in 1..size |-> pool[at[p]]]
         /\ \A p, r \in 1..size : p < r => Better(ranked[p], ranked[r])
  <2>1. CASE q.sort = "relevance"
    <3>1. PICK at : at = [p \in 1..size |-> p]
      OBVIOUS
    <3>2. at \in [1..size -> 1..size] /\ (\A p, r \in 1..size : at[p] = at[r] => p = r)
          /\ \A i \in 1..size : \E p \in 1..size : at[p] = i
      BY <3>1
    <3>3. ranked = [p \in 1..size |-> pool[at[p]]]
      <4>1. pool = [p \in 1..size |-> pool[p]]
        BY <1>14 DEF OnePerTurn
      <4> QED
        BY <1>22, <2>1, <3>1, <4>1
    <3>4. \A p, r \in 1..size : Better(ranked[p], ranked[r])
      BY <2>1
    <3> HIDE DEF Better
    <3> QED
      BY <3>2, <3>3, <3>4
  <2>2. CASE q.sort # "relevance"
    <3>1. PICK key : /\ Sorts(ranked, pool, Descending(key), size)
                     /\ DOMAIN key = P /\ \A x \in P : key[x] \in Int
                     /\ q.sort # "recency" =>
                          \A x \in P : key[x] = Blend(score, P, RowRecency, WeightOf(q.sort), x)
      BY <1>22, <2>2
    <3>2. PICK before : before = Descending(key)
      OBVIOUS
    <3>3. \A x, y \in P : <<x, y>> \in before <=> key[x] > key[y]
      BY <1>15, <1>17, <3>1, <3>2, DescendingIs
    <3>4. Sorts(ranked, pool, before, size)
      BY <3>1, <3>2
    <3>5. PICK at : /\ at \in [1..size -> 1..size]
                    /\ \A i \in 1..size : \E p \in 1..size : at[p] = i
                    /\ \A p, r \in 1..size : p < r => at[p] # at[r] /\
                         \/ <<pool[at[p]], pool[at[r]]>> \in before
                         \/ <<pool[at[r]], pool[at[p]]>> \notin before /\ at[p] < at[r]
                    /\ ranked = [p \in 1..size |-> pool[at[p]]]
      BY <3>4, Zenon DEF Sorts
    <3>6. ASSUME NEW p \in 1..size, NEW r \in 1..size, at[p] = at[r] PROVE p = r
      <4>1. ~(p < r) /\ ~(r < p)
        BY <3>5, <3>6
      <4> QED
        BY <1>15, <4>1
    <3>7. ASSUME NEW p \in 1..size, NEW r \in 1..size, p < r PROVE Better(ranked[p], ranked[r])
      <4>1. PICK x : x = pool[at[p]]
        OBVIOUS
      <4>2. PICK y : y = pool[at[r]]
        OBVIOUS
      <4>3. x \in P /\ y \in P /\ ranked[p] = x /\ ranked[r] = y /\ at[p] \in 1..size /\ at[r] \in 1..size
        BY <1>17, <3>5, <4>1, <4>2
      <4>4. <<x, y>> \in before \/ (<<y, x>> \notin before /\ at[p] < at[r])
        BY <3>5, <3>7, <4>1, <4>2
      <4>5. score[x] \in Int /\ score[y] \in Int /\ key[x] \in Int /\ key[y] \in Int
        BY <1>21, <3>1, <4>3
      <4>6. ASSUME q.sort \in {"hybrid", "temporal"}, score[y] > score[x], RowRecency[y] > RowRecency[x]
            PROVE  FALSE
        <5>1. IsFiniteSet(P)
          BY <1>19 DEF Enumerates
        <5>2. key[y] >= key[x]
          <6>1. Blend(score, P, RowRecency, WeightOf(q.sort), y)
                  >= Blend(score, P, RowRecency, WeightOf(q.sort), x)
            BY <1>21, <4>3, <4>6, <5>1, TurnBlendIs
          <6>2. q.sort # "recency"
            BY <4>6
          <6> QED
            BY <3>1, <4>3, <6>1, <6>2
        <5>3. <<x, y>> \notin before
          BY <3>3, <4>3, <4>5, <5>2
        <5>4. at[p] < at[r]
          BY <4>4, <5>3
        <5>5. score[heads[at[p]]] >= score[heads[at[r]]]
          BY <1>10, <1>14, <4>3, <5>4
        <5>6. score[x] >= score[y]
          BY <1>14, <4>1, <4>2, <4>3, <5>5
        <5> QED
          BY <4>5, <4>6, <5>6
      <4> QED
        BY <4>3, <4>6
    <3> HIDE DEF Better
    <3> QED
      BY <3>5, <3>6, <3>7
  <2> QED
    BY <2>1, <2>2
<1>24. PICK at \in [1..size -> 1..size] :
         /\ \A p, r \in 1..size : at[p] = at[r] => p = r
         /\ \A i \in 1..size : \E p \in 1..size : at[p] = i
         /\ ranked = [p \in 1..size |-> pool[at[p]]]
         /\ \A p, r \in 1..size : p < r => Better(ranked[p], ranked[r])
  <2> HIDE DEF Better
  <2> QED
    BY <1>23
<1> HIDE DEF Better
<1>25. OnePerTurn(ranked, size)
  <2>1. \A p \in 1..size : ranked[p] = pool[at[p]] /\ pool[at[p]] \in Row
    BY <1>14, <1>24 DEF OnePerTurn
  <2>2. ranked \in [1..size -> Row]
    BY <1>24, <2>1
  <2>3. DrawnFrom(ranked, size, pool, size)
    BY <1>15, <1>24, <2>1, <2>2 DEF DrawnFrom
  <2> QED
    BY <1>14, <2>3, ApartThrough
(* The page.                                                               *)
<1>26. PICK order : order = Order(q)
  OBVIOUS
<1>27. PICK kept : kept = IF size < keep THEN size ELSE keep
  OBVIOUS
<1>28. OnePerTurn(order, kept) /\ \A p \in 1..kept : p \in 1..size /\ order[p] = ranked[p]
  <2>1. order = First(ranked, keep)
    BY <1>2, <1>6, <1>12, <1>20, <1>26 DEF Order
  <2> QED
    BY <1>4, <1>25, <1>27, <2>1, ApartFirst
<1>29. PICK all : all = IF Reranks(q) THEN Reranked(q, order) ELSE order
  OBVIOUS
<1>30. OnePerTurn(all, kept)
  BY <1>28, <1>29, RerankedIs
<1>31. PICK page : page = SearchTurns(q)
  OBVIOUS
<1>32. PICK shown : shown = IF kept < n THEN kept ELSE n
  OBVIOUS
<1>33. OnePerTurn(page, shown) /\ \A p \in 1..shown : p \in 1..kept /\ page[p] = all[p]
  <2>1. page = First(all, n)
    BY <1>1, <1>26, <1>29, <1>31 DEF SearchTurns
  <2> QED
    BY <1>4, <1>30, <1>32, <2>1, ApartFirst
<1>34. shown = (IF k < n THEN k ELSE n) /\ shown \in Nat /\ Len(page) = shown /\ DOMAIN page = 1..shown
  <2>1. shown = (IF k < n THEN k ELSE n) /\ shown \in Nat
    BY <1>4, <1>10, <1>13, <1>27, <1>32
  <2> QED
    BY <1>33, <2>1 DEF OnePerTurn
<1>35. PICK here : here = TurnsOf(page)
  OBVIOUS
<1>36. \A t : t \in here <=> \E p \in 1..shown : t = Parent(page[p])
  BY <1>34, <1>35 DEF TurnsOf, ToSet
<1>37. PICK turns : turns = {Parent(x) : x \in S}
  OBVIOUS
<1>38. Cardinality(here) = shown
  BY <1>33, <1>35, ApartCount
<1>39. Cardinality(turns) = k
  <2>1. PICK list : list = [p \in 1..k |-> Parent(heads[p])]
    OBVIOUS
  <2>2. list \in [1..k -> turns]
    BY <1>10, <1>37, <2>1
  <2>3. (\A t \in turns : \E p \in 1..k : list[p] = t) /\ \A p, r \in 1..k : list[p] = list[r] => p = r
    BY <1>10, <1>37, <2>1
  <2>4. Enumerates(list, turns, k)
    BY <1>10, <2>2, <2>3, EnumeratesThere
  <2> QED
    BY <2>4 DEF Enumerates
(* Without a reranker the page is the beginning of the ranked pool.        *)
<1>40. ASSUME ~Reranks(q)
       PROVE  \A p \in 1..shown : p \in 1..size /\ page[p] = ranked[p]
  BY <1>28, <1>29, <1>33, <1>40
<1>41. ASSUME q.sort = "relevance", ~Reranks(q), NEW t \in here, NEW u \in turns \ here
       PROVE  BestScore(q, t) >= BestScore(q, u)
  <2>1. PICK p \in 1..shown : t = Parent(page[p])
    BY <1>36
  <2>2. p \in 1..size /\ p \in 1..k /\ page[p] = heads[p]
    BY <1>14, <1>22, <1>40, <1>41
  <2>3. PICK x \in S : u = Parent(x)
    BY <1>37
  <2>4. PICK r \in 1..k : Parent(heads[r]) = u
    BY <1>10, <2>3
  <2>5. ~(r \in 1..shown)
    <3>1. ASSUME r \in 1..shown PROVE FALSE
      <4>1. page[r] = heads[r]
        BY <1>14, <1>22, <1>40, <1>41, <3>1
      <4>2. u \in here
        BY <1>36, <2>4, <3>1, <4>1
      <4> QED
        BY <4>2
    <3> QED
      BY <3>1
  <2>6. p < r
    BY <1>10, <1>34, <2>5
  <2>7. score[heads[p]] >= score[heads[r]]
    BY <1>10, <2>2, <2>6
  <2>8. ASSUME NEW v, NEW i \in 1..k, Parent(heads[i]) = v
        PROVE  BestScore(q, v) = score[heads[i]]
    <3> DEFINE mine == {y \in S : Parent(y) = v}
               scores == {score[y] : y \in mine}
    <3>1. heads[i] \in mine /\ score[heads[i]] \in scores
      BY <1>10, <2>8
    <3>2. \A s \in scores : s \in Int /\ s <= score[heads[i]]
      BY <1>8, <1>10, <2>8
    <3>3. BestScore(q, v) = CHOOSE s \in scores : \A w \in scores : s >= w
      BY <1>5, <1>6, Zenon DEF BestScore
    <3> HIDE DEF scores, mine
    <3>4. PICK top : top = CHOOSE s \in scores : \A w \in scores : s >= w
      OBVIOUS
    <3>5. \E s \in scores : \A w \in scores : s >= w
      BY <3>1, <3>2
    <3>6. top \in scores /\ \A w \in scores : top >= w
      BY <3>4, <3>5
    <3>7. top = score[heads[i]]
      BY <3>1, <3>2, <3>6
    <3> QED
      BY <3>3, <3>4, <3>7
  <2>9. BestScore(q, t) = score[heads[p]] /\ BestScore(q, u) = score[heads[r]]
    BY <2>1, <2>2, <2>4, <2>8
  <2> QED
    BY <2>7, <2>9
<1>42. ASSUME q.sort \in {"hybrid", "temporal"}, ~Reranks(q), NEW x \in ToSet(page),
              NEW y \in P, Parent(y) \notin here
       PROVE  ~(score[y] > score[x] /\ RowRecency[y] > RowRecency[x])
  <2>1. PICK p \in 1..shown : x = page[p]
    BY <1>34 DEF ToSet
  <2>2. p \in 1..size /\ x = ranked[p]
    BY <1>40, <1>42, <2>1
  <2>3. PICK i \in 1..size : y = pool[i]
    BY <1>17
  <2>4. PICK r \in 1..size : at[r] = i
    BY <1>24
  <2>5. y = ranked[r]
    BY <1>24, <2>3, <2>4
  <2>6. ~(r \in 1..shown)
    <3>1. ASSUME r \in 1..shown PROVE FALSE
      <4>1. page[r] = y
        BY <1>40, <1>42, <2>5, <3>1
      <4> QED
        BY <1>36, <1>42, <3>1, <4>1
    <3> QED
      BY <3>1
  <2>7. p < r
    BY <1>15, <1>34, <2>6
  <2>8. Better(x, y)
    BY <1>24, <2>2, <2>5, <2>7
  <2> QED
    BY <1>42, <2>8 DEF Better
<1>43. TurnPageSound(q, page)
  <2>1. Cardinality(TurnsOf(page)) = Len(page)
    BY <1>34, <1>35, <1>38
  <2>2. Len(page) = IF Cardinality({Parent(x) : x \in FoundRows(q)}) < q.n
                    THEN Cardinality({Parent(x) : x \in FoundRows(q)}) ELSE q.n
    BY <1>1, <1>5, <1>34, <1>37, <1>39
  <2>3. q.sort = "relevance" /\ ~Reranks(q) =>
          \A t \in TurnsOf(page),
             u \in {Parent(x) : x \in FoundRows(q)} \ TurnsOf(page) :
            BestScore(q, t) >= BestScore(q, u)
    BY <1>5, <1>35, <1>37, <1>41
  <2>4. q.sort \in {"hybrid", "temporal"} /\ ~Reranks(q) =>
          \A x \in ToSet(page),
             y \in {z \in ToSet(Pool(q)) : Parent(z) \notin TurnsOf(page)} :
            ~(Score(q)[y] > Score(q)[x] /\ RowRecency[y] > RowRecency[x])
    BY <1>6, <1>12, <1>16, <1>35, <1>42
  <2> QED
    BY <2>1, <2>2, <2>3, <2>4, Zenon DEF TurnPageSound
<1> QED
  BY <1>31, <1>43
-----------------------------------------------------------------------------
(* Clusters.                                                               *)

(* The numbers of a set, counted from the least.                           *)
Counts(ids) ==
  /\ \A n \in 1..Cardinality(ids) : Nth(ids, n) \in ids
  /\ \A x \in ids : \E n \in 1..Cardinality(ids) : Nth(ids, n) = x

LEMMA NthIs ==
  ASSUME NEW ids \in SUBSET Nat, IsFiniteSet(ids)
  PROVE  Counts(ids)
<1> DEFINE R == {p \in Nat \X Nat : p[1] < p[2]}
           m == Cardinality(ids)
           f == ByRank(R, ids)
<1>1. m \in Nat /\ \A i \in ids : i \in Nat
  BY FS_CardinalityType
<1>2. \A i, j \in Nat : <<i, j>> \in R <=> i < j
  OBVIOUS
<1>3. Orders(R, ids)
  <2> HIDE DEF R
  <2> QED
    BY <1>1, <1>2 DEF Orders
<1>4. Arranges(f, R, ids)
  <2> HIDE DEF R
  <2> QED
    BY <1>3, Arranged, Zenon
<1>5. /\ f \in [1..m -> ids]
      /\ \A x \in ids : \E p \in 1..m : f[p] = x
      /\ \A p \in 1..m : RankIn(R, ids, f[p]) = p - 1
  <2> HIDE DEF R, f
  <2> QED
    BY <1>4 DEF Arranges
<1> HIDE DEF f
<1> HIDE DEF R, m
<1>6. ASSUME NEW i \in ids
      PROVE  Cardinality({j \in ids : j < i}) = RankIn(R, ids, i)
  <2>1. {j \in ids : j < i} = Preceding(R, ids, i)
    BY <1>1, <1>2 DEF Preceding
  <2> QED
    BY <2>1 DEF RankIn
<1>7. ASSUME NEW p \in 1..m PROVE Nth(ids, p) = f[p]
  <2>1. RankIn(R, ids, f[p]) = p - 1 /\ f[p] \in ids
    BY <1>5
  <2>2. PICK x : x = Nth(ids, p)
    OBVIOUS
  <2>3. x \in ids /\ RankIn(R, ids, x) = p - 1
    <3>1. \E i \in ids : Cardinality({j \in ids : j < i}) = p - 1
      BY <1>6, <2>1
    <3>2. x \in ids /\ Cardinality({j \in ids : j < x}) = p - 1
      BY <2>2, <3>1 DEF Nth
    <3> QED
      BY <1>6, <3>2
  <2>4. \A y, z \in ids : RankIn(R, ids, y) = RankIn(R, ids, z) => y = z
    BY <1>3, Ranks
  <2> QED
    BY <2>1, <2>2, <2>3, <2>4
<1>8. (\A n \in 1..m : Nth(ids, n) \in ids) /\ \A x \in ids : \E n \in 1..m : Nth(ids, n) = x
  BY <1>5, <1>7
<1> QED
  BY <1>8 DEF Counts, m

(* A set that does not fall into parts without a near pair across.         *)
Solid(c, near) ==
  \A part \in SUBSET c :
    part # {} /\ part # c => \E x \in part, y \in c \ part : {x, y} \in near

Class(root, ids, x) == {y \in ids : root[y] = root[x]}

AllSolid(root, near, ids) == \A x \in ids : Solid(Class(root, ids, x), near)

(* What the first k records are near to has been joined to them.           *)
Forest(root, near, ids, k) ==
  /\ root \in [ids -> ids]
  /\ \A n \in 1..k, y \in ids :
       {Nth(ids, n), y} \in near => root[y] = root[Nth(ids, n)]
  /\ AllSolid(root, near, ids)

(* What a record is joined with: the classes of what is near it, its own.  *)
NearRoots(root, near, ids, mid) == {root[y] : y \in {z \in ids : {mid, z} \in near}}

JoinedWith(root, near, ids, mid) == {y \in ids : root[y] \in NearRoots(root, near, ids, mid) \cup {root[mid]}}

(* The class that a record gets when it is joined is solid, too.           *)
LEMMA JoinedSolid ==
  ASSUME NEW ids, NEW near, NEW root \in [ids -> ids], AllSolid(root, near, ids),
         NEW mid \in ids
  PROVE  Solid(JoinedWith(root, near, ids, mid), near)
<1>1. PICK others : others = {root[y] : y \in {z \in ids : {mid, z} \in near}}
  OBVIOUS
<1>2. PICK U : U = {y \in ids : root[y] \in others \cup {root[mid]}}
  OBVIOUS
<1>3. U = JoinedWith(root, near, ids, mid)
  BY <1>1, <1>2 DEF JoinedWith, NearRoots
<1>4. mid \in U
  BY <1>2
<1>5. ASSUME NEW part \in SUBSET U, mid \in part, NEW z \in U, z \notin part
      PROVE  \E x \in part, y \in U \ part : {x, y} \in near
  <2>1. ASSUME NEW a \in part, root[a] = root[z]
        PROVE  \E x \in part, y \in U \ part : {x, y} \in near
    <3>1. PICK C : C = Class(root, ids, a)
      OBVIOUS
    <3>2. PICK half : half = part \cap C
      OBVIOUS
    <3>3. \A y : y \in C <=> y \in ids /\ root[y] = root[a]
      BY <3>1 DEF Class
    <3>4. a \in ids /\ z \in ids
      BY <1>2
    <3>5. C \subseteq U
      BY <1>2, <2>1, <3>3
    <3>6. half \in SUBSET C /\ half # {} /\ half # C
      BY <1>5, <2>1, <3>2, <3>3, <3>4
    <3>7. Solid(C, near)
      BY <3>1, <3>4 DEF AllSolid
    <3>8. PICK x \in half, y \in C \ half : {x, y} \in near
      BY <3>6, <3>7 DEF Solid
    <3>9. x \in part /\ y \in U \ part
      BY <3>2, <3>5, <3>8
    <3> QED
      BY <3>8, <3>9
  <2>2. CASE root[z] = root[mid]
    BY <1>5, <2>1, <2>2
  <2>3. CASE root[z] \in others
    <3>1. PICK y \in ids : {mid, y} \in near /\ root[y] = root[z]
      BY <1>1, <2>3
    <3>2. y \in U
      BY <1>2, <2>3, <3>1
    <3>3. CASE y \in part
      BY <2>1, <3>1, <3>3
    <3>4. CASE y \notin part
      BY <1>5, <3>1, <3>2, <3>4
    <3> QED
      BY <3>3, <3>4
  <2> QED
    BY <1>2, <2>2, <2>3
<1>6. ASSUME NEW part \in SUBSET U, part # {}, part # U
      PROVE  \E x \in part, y \in U \ part : {x, y} \in near
  <2>1. CASE mid \in part
    <3>1. PICK z \in U : z \notin part
      BY <1>6
    <3> QED
      BY <1>5, <2>1, <3>1
  <2>2. CASE mid \notin part
    <3>1. PICK rest : rest = U \ part
      OBVIOUS
    <3>2. PICK z \in part : TRUE
      BY <1>6
    <3>3. rest \in SUBSET U /\ mid \in rest /\ z \in U /\ z \notin rest
      BY <1>4, <2>2, <3>1
    <3>4. PICK x \in rest, y \in U \ rest : {x, y} \in near
      BY <1>5, <3>3
    <3>5. y \in part /\ x \in U \ part /\ {y, x} = {x, y}
      BY <3>1, <3>4
    <3> QED
      BY <3>4, <3>5
  <2> QED
    BY <2>1, <2>2
<1> QED
  BY <1>3, <1>6 DEF Solid

(* One more record is joined.                                              *)
LEMMA JoinedForest ==
  ASSUME NEW ids \in SUBSET Nat, IsFiniteSet(ids), NEW near, NEW k \in 1..Cardinality(ids), NEW root,
         NEW j, j = k - 1, Forest(root, near, ids, j)
  PROVE  Forest(JoinNear(root, near, Nth(ids, k)), near, ids, k)
<1>1. /\ root \in [ids -> ids] /\ DOMAIN root = ids
      /\ \A n \in 1..j, y \in ids :
           {Nth(ids, n), y} \in near => root[y] = root[Nth(ids, n)]
      /\ AllSolid(root, near, ids)
  BY DEF Forest
<1>2. Counts(ids)
  BY NthIs
<1>3. PICK mid : mid = Nth(ids, k)
  OBVIOUS
<1>4. mid \in ids
  BY <1>2, <1>3 DEF Counts
<1>5. PICK others : others = {root[y] : y \in {z \in ids : {mid, z} \in near}}
  OBVIOUS
<1>6. PICK new : new = JoinNear(root, near, mid)
  OBVIOUS
<1>7. new = [x \in ids |-> IF root[x] \in others THEN root[mid] ELSE root[x]]
  BY <1>1, <1>5, <1>6 DEF JoinNear
<1>8. \A x \in ids : new[x] = IF root[x] \in others THEN root[mid] ELSE root[x]
  BY <1>7
<1>9. new \in [ids -> ids]
  BY <1>1, <1>4, <1>7
<1>10. ASSUME NEW n \in 1..k, NEW y \in ids, {Nth(ids, n), y} \in near
       PROVE  new[y] = new[Nth(ids, n)]
  <2>1. PICK x : x = Nth(ids, n)
    OBVIOUS
  <2>2. x \in ids
    <3>1. Cardinality(ids) \in Nat
      BY FS_CardinalityType
    <3>2. n \in 1..Cardinality(ids)
      BY <3>1
    <3> QED
      BY <1>2, <2>1, <3>2 DEF Counts
  <2>3. CASE n = k
    <3>1. root[y] \in others
      BY <1>3, <1>5, <1>10, <2>3
    <3> QED
      BY <1>3, <1>4, <1>8, <2>3, <3>1
  <2>4. CASE n # k
    <3>1. n \in 1..j
      BY <2>4
    <3>2. root[y] = root[x]
      BY <1>1, <1>10, <2>1, <3>1
    <3> QED
      BY <1>8, <2>1, <2>2, <3>2
  <2> QED
    BY <2>3, <2>4
<1>11. PICK U : U = {y \in ids : root[y] \in others \cup {root[mid]}}
  OBVIOUS
<1>12. U = JoinedWith(root, near, ids, mid)
  BY <1>5, <1>11 DEF JoinedWith, NearRoots
<1>13. Solid(U, near)
  <2>1. Solid(JoinedWith(root, near, ids, mid), near)
    BY <1>1, <1>4, JoinedSolid, Zenon
  <2> QED
    BY <1>12, <2>1
<1>14. ASSUME NEW x \in ids PROVE Solid(Class(new, ids, x), near)
  <2>1. CASE root[x] \in others \cup {root[mid]}
    <3>1. \A y \in ids : new[y] = new[x] <=> root[y] \in others \cup {root[mid]}
      BY <1>8, <2>1
    <3>2. Class(new, ids, x) = U
      BY <1>11, <3>1 DEF Class
    <3> QED
      BY <1>13, <3>2
  <2>2. CASE root[x] \notin others \cup {root[mid]}
    <3>1. \A y \in ids : new[y] = new[x] <=> root[y] = root[x]
      BY <1>8, <2>2
    <3>2. Class(new, ids, x) = Class(root, ids, x)
      BY <3>1 DEF Class
    <3> QED
      BY <1>1, <3>2 DEF AllSolid
  <2> QED
    BY <2>1, <2>2
<1>15. Forest(new, near, ids, k)
  BY <1>9, <1>10, <1>14 DEF Forest, AllSolid
<1> QED
  BY <1>3, <1>6, <1>15

(* The roots when every record has been joined.                            *)
LEMMA JoinIs ==
  ASSUME NEW ids \in SUBSET Nat, IsFiniteSet(ids), NEW near
  PROVE  Forest(Join(near, ids), near, ids, Cardinality(ids))
<1> DEFINE m == Cardinality(ids)
           start == [x \in ids |-> x]
           State == [ids -> ids]
           Step(s, k) == JoinNear(s, near, Nth(ids, k))
           Solves(f) == f = [n \in 0..m |-> IF n = 0 THEN start ELSE Step(f[n - 1], n)]
           found == CHOOSE f : Solves(f)
           step == [k \in 1..m |-> [s \in State |-> Step(s, k)]]
<1>1. m \in Nat
  BY FS_CardinalityType
<1>2. Counts(ids)
  BY NthIs
<1>3. step \in [1..m -> [State -> State]]
  <2>1. ASSUME NEW k \in 1..m, NEW s \in State PROVE Step(s, k) \in State
    <3>1. PICK mid : mid = Nth(ids, k)
      OBVIOUS
    <3>2. mid \in ids
      BY <1>2, <3>1 DEF Counts
    <3>3. JoinNear(s, near, mid) \in [ids -> ids]
      BY <3>2 DEF JoinNear
    <3> QED
      BY <3>1, <3>3
  <2> HIDE DEF State, Step, m
  <2> QED
    BY <2>1
<1>4. start \in State
  OBVIOUS
<1>5. PICK f \in [0..m -> State] : f[0] = start /\ \A k \in 1..m : f[k] = step[k][f[k - 1]]
  <2> HIDE DEF m, State, start, step, Step, Solves, found
  <2>1. Iteration(State, start, m, step)
    BY <1>1, <1>3, <1>4, Iterates
  <2> QED
    BY <2>1 DEF Iteration
<1>6. ASSUME NEW k \in 1..m PROVE f[k - 1] \in State /\ f[k] = Step(f[k - 1], k)
  <2>1. f[k - 1] \in State
    <3>1. k - 1 \in 0..m
      BY <1>1
    <3> HIDE DEF m, State
    <3> QED
      BY <3>1
  <2> HIDE DEF Step, State
  <2> QED
    BY <1>5, <2>1
<1>7. Solves(f)
  <2>1. ASSUME NEW n \in 0..m PROVE f[n] = IF n = 0 THEN start ELSE Step(f[n - 1], n)
    <3>1. CASE n = 0
      BY <1>5, <3>1
    <3>2. CASE n # 0
      <4>1. n \in 1..m
        BY <1>1, <3>2
      <4> QED
        BY <1>6, <3>2, <4>1
    <3> QED
      BY <3>1, <3>2
  <2>2. f = [n \in 0..m |-> f[n]]
    OBVIOUS
  <2> HIDE DEF m, State, start, Step
  <2> QED
    BY <2>1, <2>2
<1>8. Solves(found)
  <2> HIDE DEF Solves
  <2> QED
    BY <1>7, Zenon
<1>9. Join(near, ids) = found[m]
  BY Zenon DEF Join
<1>10. ASSUME NEW n \in 0..m PROVE found[n] = IF n = 0 THEN start ELSE Step(found[n - 1], n)
  <2> HIDE DEF found, Step, start
  <2> QED
    BY <1>8
<1> HIDE DEF found
<1> DEFINE good == {n \in 0..m : Forest(found[n], near, ids, n)}
<1>11. 0 \in good
  <2>1. found[0] = start
    BY <1>1, <1>10
  <2>2. ASSUME NEW x \in ids PROVE Solid(Class(start, ids, x), near)
    <3>1. Class(start, ids, x) = {x}
      BY DEF Class
    <3> QED
      BY <3>1 DEF Solid
  <2>3. Forest(start, near, ids, 0)
    BY <1>4, <2>2 DEF Forest, AllSolid
  <2> QED
    BY <1>1, <2>1, <2>3
<1>12. ASSUME NEW n \in 1..m, n - 1 \in good PROVE n \in good
  <2>1. PICK j : j = n - 1
    OBVIOUS
  <2>2. j \in good
    BY <1>12, <2>1
  <2>3. Forest(found[j], near, ids, j)
    BY <2>2
  <2>4. found[n] = JoinNear(found[j], near, Nth(ids, n))
    <3>1. n \in 0..m /\ n # 0
      BY <1>1
    <3>2. found[n] = IF n = 0 THEN start ELSE Step(found[n - 1], n)
      BY <1>10, <3>1
    <3>3. found[n] = Step(found[j], n)
      BY <2>1, <3>1, <3>2
    <3> QED
      BY <3>3
  <2>5. Forest(JoinNear(found[j], near, Nth(ids, n)), near, ids, n)
    <3>1. n \in 1..Cardinality(ids)
      OBVIOUS
    <3> HIDE DEF m
    <3> QED
      BY <2>1, <2>3, <3>1, JoinedForest, Zenon
  <2>6. n \in 0..m
    BY <1>1
  <2> QED
    BY <2>4, <2>5, <2>6
<1>13. m \in good
  <2>1. m \in 0..m
    BY <1>1
  <2> HIDE DEF good, m
  <2> QED
    BY <1>1, <1>11, <1>12, <2>1, Induction
<1> QED
  BY <1>9, <1>13

(* The clusters are the connected groups.                                  *)
LEMMA ClustersHold ==
  ASSUME NEW ids \in SUBSET Memory, NEW near
  PROVE  ClustersConnected(near, ids, Clusters(near, ids))
<1>1. ids \in SUBSET Nat /\ IsFiniteSet(ids)
  BY MemoryAssumption, FS_Subset
<1>2. PICK root : root = Join(near, ids)
  OBVIOUS
<1>3. Forest(root, near, ids, Cardinality(ids))
  BY <1>1, <1>2, JoinIs
<1>4. PICK clusters : clusters = Clusters(near, ids)
  OBVIOUS
<1>5. \A c : c \in clusters <=> (\E x \in ids : c = Class(root, ids, x)) /\ Cardinality(c) > 1
  BY <1>2, <1>4 DEF Clusters, Class
<1>6. ASSUME NEW x \in ids, NEW y \in ids, {x, y} \in near, x # y
      PROVE  \E c \in clusters : {x, y} \subseteq c
  <2>1. PICK n \in 1..Cardinality(ids) : Nth(ids, n) = x
    BY <1>1, NthIs DEF Counts
  <2>2. root[y] = root[x]
    BY <1>3, <1>6, <2>1 DEF Forest
  <2>3. PICK c : c = Class(root, ids, x)
    OBVIOUS
  <2>4. x \in c /\ y \in c /\ c \in SUBSET ids
    BY <2>2, <2>3 DEF Class
  <2>5. Cardinality(c) > 1
    <3>1. IsFiniteSet(c) /\ {x, y} \in SUBSET c
      BY <1>1, <2>4, FS_Subset
    <3>2. Cardinality({x, y}) <= Cardinality(c) /\ Cardinality(c) \in Nat
      BY <3>1, FS_Subset, FS_CardinalityType
    <3>3. Cardinality({x, y}) = 2
      <4>1. IsFiniteSet({x}) /\ Cardinality({x}) = 1
        BY FS_Singleton
      <4>2. y \notin {x} /\ {x} \cup {y} = {x, y}
        BY <1>6
      <4>3. Cardinality({x} \cup {y}) = Cardinality({x}) + 1
        BY <4>1, <4>2, FS_AddElement
      <4> QED
        BY <4>1, <4>2, <4>3
    <3> QED
      BY <3>2, <3>3
  <2> QED
    BY <1>5, <2>3, <2>4, <2>5
<1>7. \A c \in clusters : c \subseteq ids
  BY <1>5 DEF Class
<1>8. ASSUME NEW c \in clusters, NEW d \in clusters, NEW z, z \in c, z \in d
      PROVE  c = d
  <2>1. PICK x \in ids : c = Class(root, ids, x)
    BY <1>5
  <2>2. PICK y \in ids : d = Class(root, ids, y)
    BY <1>5
  <2>3. root[x] = root[y]
    BY <1>8, <2>1, <2>2 DEF Class
  <2> QED
    BY <2>1, <2>2, <2>3 DEF Class
<1>9. ASSUME NEW c \in clusters PROVE Solid(c, near)
  BY <1>3, <1>5 DEF Forest, AllSolid
<1>10. \A c \in clusters : c \subseteq ids /\ Cardinality(c) > 1
  BY <1>5, <1>7
<1>11. \A c, d \in clusters : c # d => c \cap d = {}
  BY <1>8
<1>12. \A x, y \in ids : {x, y} \in near /\ x # y => \E c \in clusters : {x, y} \subseteq c
  BY <1>6
<1>13. \A c \in clusters : \A part \in SUBSET c :
         part # {} /\ part # c => \E x \in part, y \in c \ part : {x, y} \in near
  BY <1>9 DEF Solid
<1>14. ClustersConnected(near, ids, clusters)
  BY <1>10, <1>11, <1>12, <1>13, Zenon DEF ClustersConnected
<1> QED
  BY <1>4, <1>14
-----------------------------------------------------------------------------
SearchInv ==
  /\ input \in Given(area)
  /\ output # << >> =>
       /\ area = "turns" => output[1] = SearchTurns(input)
       /\ area = "memories" => output[1] = SearchMemories(input)
       /\ area = "pages" => output[1] = Pages(input.lives, input.limit)
       /\ area = "clusters" => output[1] = Clusters(input.near, input.ids)

(* The output is that of the function of the area on an input of it.       *)
LEMMA SearchInvHolds == Spec => []SearchInv
<1>1. Init => SearchInv
  <2>1. SUFFICES ASSUME Init PROVE SearchInv
    OBVIOUS
  <2>2. /\ area \in DOMAIN Inputs
        /\ \E i \in DOMAIN Inputs[area] : input \in Inputs[area][i]
    BY <2>1 DEF Init
  <2>3. input \in Given(area)
    BY <2>2 DEF Given
  <2> QED
    BY <2>1, <2>3 DEF Init, SearchInv
<1>2. SearchInv /\ [Next]_vars => SearchInv'
  <2>1. SUFFICES ASSUME SearchInv, [Next]_vars PROVE SearchInv'
    OBVIOUS
  <2>2. area' = area /\ input' = input /\ input' \in Given(area')
    BY <2>1 DEF SearchInv, Next, Call, vars
  <2>3. CASE UNCHANGED vars
    BY <2>1, <2>3 DEF SearchInv, vars
  <2>4. CASE Call("turns", SearchTurns(input))
    BY <2>2, <2>4 DEF SearchInv, Call
  <2>5. CASE Call("memories", SearchMemories(input))
    BY <2>2, <2>5 DEF SearchInv, Call
  <2>6. CASE Call("pages", Pages(input.lives, input.limit))
    BY <2>2, <2>6 DEF SearchInv, Call
  <2>7. CASE Call("clusters", Clusters(input.near, input.ids))
    BY <2>2, <2>7 DEF SearchInv, Call
  <2>8. CASE area \notin {"turns", "memories", "pages", "clusters"}
    BY <2>2, <2>8 DEF SearchInv
  <2> QED
    BY <2>1, <2>3, <2>4, <2>5, <2>6, <2>7, <2>8 DEF Next, Call
<1> QED
  BY <1>1, <1>2, PTL DEF Spec

(* Whatever the two indexes answer, a page of turns shows each turn once   *)
(* and as many as were found, none of them for a better one; and a page of *)
(* memories has current ones alone, and all that fit of those in reach.    *)
THEOREM BestShown == Spec => []FoundSound
<1>1. SearchInv => FoundSound
  <2>1. SUFFICES ASSUME SearchInv, output # << >> PROVE FoundSound
    BY DEF FoundSound, Computed
  <2>2. ASSUME area = "turns" PROVE TurnPageSound(input, output[1])
    <3>1. TurnQuery(input)
      BY <2>1, <2>2, SearchAssumption DEF SearchInv
    <3>2. TurnPageSound(input, SearchTurns(input))
      BY <3>1, TurnsHold
    <3> QED
      BY <2>1, <2>2, <3>2 DEF SearchInv
  <2>3. ASSUME area = "memories" PROVE MemoryPageSound(input, output[1])
    <3>1. MemoryQuery(input)
      BY <2>1, <2>3, SearchAssumption DEF SearchInv
    <3>2. MemoryPageSound(input, SearchMemories(input))
      BY <3>1, MemoriesHold
    <3> QED
      BY <2>1, <2>3, <3>2 DEF SearchInv
  <2> QED
    BY <2>2, <2>3 DEF FoundSound, Computed
<1> QED
  BY <1>1, SearchInvHolds, PTL

(* Whatever is added and deleted between the pages, reading on misses no   *)
(* memory that was there all the time and shows none twice.                *)
THEOREM Paged == Spec => []PagingSound
<1>1. SearchInv => PagingSound
  <2>1. SUFFICES ASSUME SearchInv, output # << >>, area = "pages" PROVE PagingSound
    BY DEF PagingSound, Computed
  <2>2. PagesRead(input)
    BY <2>1, SearchAssumption DEF SearchInv
  <2>3. PagesComplete(input.lives, input.limit, output[1])
    BY <2>1, <2>2, PagesHold DEF SearchInv
  <2> QED
    BY <2>3 DEF PagingSound
<1> QED
  BY <1>1, SearchInvHolds, PTL

(* Whatever is near what, the clusters of an audit are the groups of two   *)
(* records or more that chains of near pairs connect: none is split, and   *)
(* none holds what no chain reaches.                                       *)
THEOREM Clustered == Spec => []ClustersSound
<1>1. SearchInv => ClustersSound
  <2>1. SUFFICES ASSUME SearchInv, output # << >>, area = "clusters" PROVE ClustersSound
    BY DEF ClustersSound, Computed
  <2>2. input.ids \in SUBSET Memory
    BY <2>1, SearchAssumption DEF SearchInv
  <2>3. ClustersConnected(input.near, input.ids, output[1])
    BY <2>1, <2>2, ClustersHold DEF SearchInv
  <2> QED
    BY <2>3 DEF ClustersSound
<1> QED
  BY <1>1, SearchInvHolds, PTL

(* What a search, an audit and a page answer is right, and so are the      *)
(* projects that a call reads, for every query.                            *)
THEOREM Searched == Spec => []SearchSound
<1>1. FoundSound /\ PagingSound /\ ClustersSound /\ ScopeSound => SearchSound
  BY DEF SearchSound
<1> QED
  BY <1>1, BestShown, Paged, Clustered, Scoped, PTL
-----------------------------------------------------------------------------
(* The list of sessions, a window and a tail; TurnListing is in SourceProofs.*)

(* Rows in the order of their index.                                       *)
ByIndex(turns, S, m) ==
  /\ Enumerates(turns, S, m) /\ DOMAIN turns = 1..m
  /\ \A p, q \in 1..m : p < q => turns[p].index <= turns[q].index

LEMMA InOrderIs ==
  ASSUME NEW rows, KeyedRows(rows)
  PROVE  ByIndex(InOrder(rows), ToSet(rows), Len(rows))
<1>1. PICK S : S = ToSet(rows)
  OBVIOUS
<1>2. PICK m : m = Len(rows)
  OBVIOUS
<1>3. Enumerates(rows, S, m) /\ S \in SUBSET StoredRow
  BY <1>1, <1>2, KeyedAre DEF KeyedFacts
<1>4. m \in Nat /\ \A i \in 1..m : rows[i] \in S /\ rows[i].index \in Nat
  BY <1>3 DEF Enumerates, StoredRow
<1>5. PICK before : before = {p \in S \X S : p[1].index < p[2].index}
  OBVIOUS
<1>6. \A i, j \in 1..m : <<rows[i], rows[j]>> \in before <=> rows[i].index < rows[j].index
  BY <1>4, <1>5
<1>7. Weakly(before, rows, m)
  <2> SUFFICES ASSUME NEW i \in 1..m, NEW j \in 1..m, NEW k \in 1..m
               PROVE  /\ ~(rows[i].index < rows[i].index)
                      /\ rows[i].index < rows[j].index => ~(rows[j].index < rows[i].index)
                      /\ rows[i].index < rows[j].index =>
                           rows[i].index < rows[k].index \/ rows[k].index < rows[j].index
    BY <1>6 DEF Weakly
  <2> QED
    BY <1>4
<1>8. PICK turns : turns = StableSort(rows, before)
  OBVIOUS
<1>9. Enumerates(turns, S, m) /\ Sorts(turns, rows, before, m)
  BY <1>3, <1>7, <1>8, SortListed
<1>10. PICK f : /\ f \in [1..m -> 1..m]
                /\ \A p, q \in 1..m : p < q => f[p] # f[q] /\
                     \/ <<rows[f[p]], rows[f[q]]>> \in before
                     \/ <<rows[f[q]], rows[f[p]]>> \notin before /\ f[p] < f[q]
                /\ turns = [p \in 1..m |-> rows[f[p]]]
  BY <1>9 DEF Sorts
<1>11. ASSUME NEW p \in 1..m, NEW q \in 1..m, p < q PROVE turns[p].index <= turns[q].index
  <2>1. turns[p] = rows[f[p]] /\ turns[q] = rows[f[q]] /\ f[p] \in 1..m /\ f[q] \in 1..m
    BY <1>10
  <2>2. <<rows[f[p]], rows[f[q]]>> \in before \/ <<rows[f[q]], rows[f[p]]>> \notin before
    BY <1>10, <1>11
  <2>3. rows[f[p]].index < rows[f[q]].index \/ ~(rows[f[q]].index < rows[f[p]].index)
    BY <1>6, <2>1, <2>2
  <2>4. rows[f[p]].index \in Nat /\ rows[f[q]].index \in Nat
    BY <1>4, <2>1
  <2> QED
    BY <2>1, <2>3, <2>4
<1>12. InOrder(rows) = turns
  BY <1>1, <1>5, <1>8 DEF InOrder
<1> QED
  BY <1>1, <1>2, <1>9, <1>10, <1>11, <1>12 DEF ByIndex

(* The earliest turns of some rows.                                        *)
LEMMA EarliestIs ==
  ASSUME NEW S \in SUBSET StoredRow, IsFiniteSet(S), Keyed(S)
  PROVE  ByIndex(Earliest(S), S, Cardinality(S))
<1>1. PICK R : R = {p \in S \X S : Earlier(p[1], p[2])}
  OBVIOUS
<1>2. \A r, s \in S : <<r, s>> \in R <=> Earlier(r, s)
  BY <1>1
<1>3. \A r \in S : r.index \in Nat /\ r.doc \in Nat
  BY DEF StoredRow
<1>4. Orders(R, S)
  <2>1. \A r \in S : ~Earlier(r, r)
    BY <1>3 DEF Earlier
  <2>2. \A r, s \in S : r # s => Earlier(r, s) \/ Earlier(s, r)
    BY <1>3 DEF Earlier, Keyed
  <2>3. \A r, s, t \in S : Earlier(r, s) /\ Earlier(s, t) => Earlier(r, t)
    BY <1>3 DEF Earlier
  <2> QED
    BY <1>2, <2>1, <2>2, <2>3 DEF Orders
<1>5. PICK list : list = Earliest(S)
  OBVIOUS
<1>6. list = ByRank(R, S)
  BY <1>1, <1>5 DEF Earliest, Sorted, ByRank, RankIn, Preceding
<1>7. Arranges(list, R, S)
  BY <1>4, <1>6, Arranged
<1>8. PICK m \in Nat : m = Cardinality(S) /\ list \in [1..m -> S]
  BY <1>7 DEF Arranges
<1>9. /\ \A x \in S : \E p \in 1..m : list[p] = x
      /\ \A p, q \in 1..m : p < q => <<list[p], list[q]>> \in R
  BY <1>7, <1>8 DEF Arranges
<1>10. ASSUME NEW p \in 1..m, NEW q \in 1..m, p < q
       PROVE  list[p].index <= list[q].index /\ list[p] # list[q]
  <2>1. Earlier(list[p], list[q]) /\ list[p] \in S /\ list[q] \in S
    BY <1>2, <1>8, <1>9, <1>10
  <2> QED
    BY <1>3, <2>1 DEF Earlier
<1>11. \A p, q \in 1..m : list[p] = list[q] => p = q
  <2> SUFFICES ASSUME NEW p \in 1..m, NEW q \in 1..m, p # q PROVE list[p] # list[q]
    OBVIOUS
  <2>1. p < q \/ q < p
    OBVIOUS
  <2> QED
    BY <1>10, <2>1
<1>12. Enumerates(list, S, m)
  BY <1>8, <1>9, <1>11, EnumeratesThere
<1> QED
  BY <1>5, <1>8, <1>10, <1>12 DEF ByIndex

(* The first element of a list in a set.                                   *)
LEMMA FirstAmongIs ==
  ASSUME NEW T, NEW list \in Seq(T), NEW S, NEW here, here = Among(list, S)
  PROVE  /\ here = << >> => ToSet(list) \cap S = {}
         /\ here # << >> => \E i \in 1..Len(list) :
              here[1] = list[i] /\ list[i] \in S /\ \A j \in 1..Len(list) : list[j] \in S => i <= j
<1>1. Filtered(here, list, S) /\ here \in Seq(T) /\ ToSet(here) = ToSet(list) \cap S
  BY AmongIs
<1>2. PICK f : Filters(here, list, S, f)
  BY <1>1 DEF Filtered
<1>3. PICK m \in Nat : m = Len(here)
  BY <1>1
<1>4. ASSUME here = << >> PROVE ToSet(list) \cap S = {}
  BY <1>1, <1>4 DEF ToSet
<1>5. ASSUME here # << >>
      PROVE  \E i \in 1..Len(list) :
               here[1] = list[i] /\ list[i] \in S /\ \A j \in 1..Len(list) : list[j] \in S => i <= j
  <2>1. 1 \in 1..m
    BY <1>1, <1>3, <1>5
  <2>2. PICK i \in 1..Len(list) : i = f[1] /\ here[1] = list[i] /\ list[i] \in S
    BY <1>2, <1>3, <2>1 DEF Filters
  <2>3. ASSUME NEW j \in 1..Len(list), list[j] \in S PROVE i <= j
    <3>1. PICK p \in 1..m : f[p] = j
      BY <1>2, <1>3, <2>3 DEF Filters
    <3>2. p = 1 \/ 1 < p
      BY <3>1
    <3> QED
      BY <1>2, <1>3, <2>1, <2>2, <3>1, <3>2 DEF Filters
  <2> QED
    BY <2>2, <2>3
<1> QED
  BY <1>4, <1>5

(* The title of a session is its first text.                               *)
Titles(doc, spoken) ==
  \E r \in spoken : r.doc = doc /\ \A x \in spoken : r.index <= x.index

LEMMA TitleIs ==
  ASSUME NEW rows, KeyedRows(rows), TitleTurns \in Nat, NEW s,
         NEW own, own = {r \in ToSet(rows) : ~r.passage /\ KeyOf(r) = s.key},
         s.turns = Cardinality(own), s.first = First(Earliest(own), TitleTurns),
         NEW spoken, spoken = {r \in own : r.words = "text"}, spoken # {}
  PROVE  Titles(Title(rows, s), spoken)
<1>1. KeyedFacts(rows)
  BY KeyedAre
<1>2. own \in SUBSET StoredRow /\ IsFiniteSet(own) /\ Keyed(own)
  <2>1. own \in SUBSET ToSet(rows)
    OBVIOUS
  <2> QED
    BY <1>1, <2>1, FS_Subset DEF KeyedFacts, Keyed
<1>3. \A r \in own : r.index \in Nat
  BY <1>2 DEF StoredRow
<1>4. PICK early : early = Earliest(own)
  OBVIOUS
<1>5. PICK m \in Nat : m = Cardinality(own)
  BY <1>2, FS_CardinalityType
<1>6. ByIndex(early, own, m)
  BY <1>2, <1>4, <1>5, EarliestIs
<1>7. /\ early \in Seq(own) /\ Len(early) = m
      /\ \A p \in 1..m : early[p] \in own
      /\ \A x \in own : \E p \in 1..m : early[p] = x
      /\ \A p, q \in 1..m : p < q => early[p].index <= early[q].index
  BY <1>6 DEF ByIndex, Enumerates
<1>8. PICK first : first = First(early, TitleTurns)
  OBVIOUS
<1>9. Begins(first, early, TitleTurns)
  BY <1>7, <1>8, FirstIs
<1>10. PICK w \in Nat : /\ w = Len(first) /\ w <= m /\ first \in Seq(own) /\ DOMAIN first = 1..w
                        /\ \A p \in 1..w : p \in 1..m /\ first[p] = early[p]
  <2>1. {early[i] : i \in 1..Len(early)} \subseteq own
    BY <1>7
  <2>2. first \in Seq({early[i] : i \in 1..Len(early)})
    BY <1>9 DEF Begins
  <2>3. PICK T : T = {early[i] : i \in 1..Len(early)}
    OBVIOUS
  <2>4. first \in Seq(own)
    BY <2>1, <2>2, <2>3
  <2>5. Len(first) <= m
    BY <1>5, <1>7, <1>9 DEF Begins
  <2>6. \A p \in 1..Len(first) : p \in 1..m /\ first[p] = early[p]
    BY <1>7, <1>9 DEF Begins
  <2> QED
    BY <2>4, <2>5, <2>6
<1>11. PICK texts : texts = {r \in ToSet(first) : r.words = "text"}
  OBVIOUS
<1>12. PICK here : here = Among(first, texts)
  OBVIOUS
<1>13. here = FirstOf(s.first, "text")
  BY <1>4, <1>8, <1>11, <1>12 DEF FirstOf
<1>14. PICK talk : talk = Among(rows, spoken)
  OBVIOUS
<1>15. KeyedRows(talk) /\ ToSet(talk) = spoken
  BY <1>14, KeyedAmong
<1>16. PICK words : words = FirstWords(rows, s.key)
  OBVIOUS
<1>17. words = First(InOrder(talk), 1)
  <2>1. {r \in ToSet(rows) : KeyOf(r) = s.key /\ ~r.passage /\ r.words = "text"} = spoken
    OBVIOUS
  <2> QED
    BY <1>14, <1>16, <2>1 DEF FirstWords
<1>18. PICK text : text = IF here = << >> /\ s.turns > Len(s.first) THEN words ELSE here
  OBVIOUS
<1>19. ASSUME NEW r, text \in Seq(own), text # << >>, text[1] = r, r \in spoken,
              \A x \in spoken : r.index <= x.index
       PROVE  Titles(Title(rows, s), spoken)
  <2>1. PICK commands : commands = FirstOf(s.first, "command")
    OBVIOUS
  <2>2. commands \in Seq(own)
    BY <1>4, <1>8, <1>10, <2>1, AmongIs DEF FirstOf
  <2>3. PICK titles : titles = text \o commands
    OBVIOUS
  <2>4. titles # << >> /\ titles[1] = text[1]
    BY <1>19, <2>2, <2>3
  <2>5. Title(rows, s) = IF titles = << >> THEN 0 ELSE titles[1].doc
    BY <1>13, <1>16, <1>18, <2>1, <2>3 DEF Title
  <2>6. Title(rows, s) = r.doc
    BY <1>19, <2>4, <2>5
  <2> QED
    BY <1>19, <2>6 DEF Titles
<1>20. here \in Seq(own)
  BY <1>10, <1>12, AmongIs
<1>21. CASE here # << >>
  <2>1. PICK i \in 1..w : /\ here[1] = first[i] /\ first[i] \in texts
                          /\ \A j \in 1..w : first[j] \in texts => i <= j
    BY <1>10, <1>12, <1>21, FirstAmongIs
  <2>2. first[i] \in spoken
    BY <1>10, <1>11, <2>1
  <2>3. ASSUME NEW x \in spoken PROVE first[i].index <= x.index
    <3>1. PICK p \in 1..m : early[p] = x
      BY <1>7
    <3>2. i \in 1..m /\ first[i] = early[i]
      BY <1>10
    <3>3. i <= p
      <4>1. CASE p \in 1..w
        <5>1. first[p] = x /\ first[p] \in ToSet(first)
          BY <1>10, <3>1, <4>1 DEF ToSet
        <5>2. first[p] \in texts
          BY <1>11, <5>1
        <5> QED
          BY <2>1, <4>1, <5>2
      <4>2. CASE p \notin 1..w
        BY <4>2
      <4> QED
        BY <4>1, <4>2
    <3>4. i = p \/ i < p
      BY <3>3
    <3> QED
      BY <1>3, <1>7, <3>1, <3>2, <3>4
  <2>4. text = here
    BY <1>18, <1>21
  <2> QED
    BY <1>19, <1>20, <1>21, <2>1, <2>2, <2>3, <2>4
<1>22. CASE here = << >>
  <2>1. s.turns = m /\ Len(s.first) = w
    BY <1>4, <1>5, <1>8, <1>10
  <2>2. w < m
    <3>1. SUFFICES ASSUME w = m PROVE FALSE
      BY <1>10
    <3>2. PICK x \in spoken : TRUE
      OBVIOUS
    <3>3. PICK p \in 1..m : early[p] = x
      BY <1>7
    <3>4. x \in ToSet(first)
      BY <1>10, <3>1, <3>3 DEF ToSet
    <3>5. x \in texts
      BY <1>11, <3>4
    <3>6. ToSet(first) \cap texts = {}
      BY <1>10, <1>12, <1>22, FirstAmongIs
    <3> QED
      BY <3>4, <3>5, <3>6
  <2>3. text = words
    BY <1>18, <1>22, <2>1, <2>2
  <2>4. PICK n \in Nat : n = Len(talk)
    BY <1>15 DEF KeyedRows
  <2>5. PICK turns : turns = InOrder(talk)
    OBVIOUS
  <2>6. ByIndex(turns, spoken, n)
    BY <1>15, <2>4, <2>5, InOrderIs
  <2>7. /\ turns \in Seq(spoken) /\ Len(turns) = n
        /\ \A p \in 1..n : turns[p] \in spoken
        /\ \A x \in spoken : \E p \in 1..n : turns[p] = x
        /\ \A p, q \in 1..n : p < q => turns[p].index <= turns[q].index
    BY <2>6 DEF ByIndex, Enumerates
  <2>8. 1 \in 1..n
    <3>1. PICK p \in 1..n : TRUE
      BY <2>7
    <3> QED
      BY <3>1
  <2>9. words = SubSeq(turns, 1, 1)
    BY <1>17, <2>4, <2>5, <2>7, <2>8 DEF First
  <2>10. text # << >> /\ text[1] = turns[1]
    BY <2>3, <2>7, <2>8, <2>9
  <2>11. text \in Seq(own)
    <3>1. Len(text) = 1 /\ text = [i \in 1..1 |-> text[i]]
      BY <2>3, <2>7, <2>8, <2>9
    <3>2. \A i \in 1..1 : text[i] \in own
      BY <2>7, <2>8, <2>10
    <3>3. [i \in 1..1 |-> text[i]] \in Seq(own)
      BY <3>2
    <3> QED
      BY <3>1, <3>3
  <2>12. ASSUME NEW x \in spoken PROVE turns[1].index <= x.index
    <3>1. PICK p \in 1..n : turns[p] = x
      BY <2>7
    <3>2. p = 1 \/ 1 < p
      OBVIOUS
    <3> QED
      BY <1>3, <2>7, <2>8, <3>1, <3>2
  <2>13. turns[1] \in spoken
    BY <2>7, <2>8
  <2> QED
    BY <1>19, <2>10, <2>11, <2>12, <2>13
<1> QED
  BY <1>21, <1>22

(* The rows of a session.                                                  *)
Having(read, key) == {r \in read : KeyOf(r) = key}

(* One aggregate per session, from the one with the latest row.            *)
Sums(all, w, read) ==
  /\ w \in Nat /\ Len(all) = w /\ DOMAIN all = 1..w /\ all \in Seq(ToSet(all))
  /\ \A i \in 1..w :
       /\ all[i].key \in {KeyOf(r) : r \in read}
       /\ all[i].agent = (\E r \in Having(read, all[i].key) : r.agent)
       /\ all[i].turns = Cardinality(Having(read, all[i].key))
       /\ all[i].first = First(Earliest(Having(read, all[i].key)), TitleTurns)
  /\ \A r \in read : \E i \in 1..w : all[i].key = KeyOf(r)
  /\ \A i, j \in 1..w : all[i].key = all[j].key => i = j
  /\ \A i, j \in 1..w : i < j =>
       LastAt(Having(read, all[i].key)) >= LastAt(Having(read, all[j].key))

ReadRows(rows, f) == {r \in ToSet(rows) : Selected(r, f) /\ ~r.passage /\ r.session # 0}

LEMMA AggregatesAre ==
  ASSUME NEW rows, KeyedRows(rows), NEW f
  PROVE  Sums(Aggregates(rows, f), Len(Aggregates(rows, f)), ReadRows(rows, f))
<1> DEFINE read == {r \in ToSet(rows) : Selected(r, f) /\ ~r.passage /\ r.session # 0}
           here == Among(rows, read)
           list == [i \in 1..Len(here) |-> KeyOf(here[i])]
           Of(key) == {r \in read : KeyOf(r) = key}
           last == [key \in ToSet(Distinct(list)) |-> LastAt(Of(key))]
           sorted == StableSort(Distinct(list), Descending(last))
           all == [i \in 1..Len(sorted) |->
                     [key |-> sorted[i], agent |-> \E r \in Of(sorted[i]) : r.agent,
                      turns |-> Cardinality(Of(sorted[i])), last |-> LastAt(Of(sorted[i])),
                      first |-> First(Earliest(Of(sorted[i])), TitleTurns)]]
<1>1. Aggregates(rows, f) = all
  BY Zenon DEF Aggregates
<1>2. KeyedFacts(rows)
  BY KeyedAre
<1>3. read \in SUBSET ToSet(rows)
  OBVIOUS
<1>4. read \in SUBSET StoredRow /\ IsFiniteSet(read)
  BY <1>2, <1>3, FS_Subset DEF KeyedFacts
<1>5. KeyedRows(here) /\ ToSet(here) = read
  BY <1>3, KeyedAmong
<1> HIDE DEF read, here, last, sorted, all
<1>6. PICK keyOf : keyOf = [r \in read |-> KeyOf(r)]
  OBVIOUS
<1>7. PICK Keys : Keys = {KeyOf(r) : r \in read}
  OBVIOUS
<1>8. \A k : {r \in read : keyOf[r] = k} = Of(k) /\ Of(k) = Having(read, k)
  BY <1>6 DEF Having
<1>9. ByKey(here, read, keyOf, list, Keys, last)
  <2>1. here \in Seq(StoredRow)
    BY <1>5 DEF KeyedRows
  <2>2. list = [i \in 1..Len(here) |-> keyOf[here[i]]]
    <3>1. \A i \in 1..Len(here) : here[i] \in read
      BY <1>5, <2>1 DEF ToSet
    <3> QED
      BY <1>6, <3>1
  <2>3. Keys = {keyOf[r] : r \in read} /\ DOMAIN keyOf = read
    BY <1>6, <1>7
  <2>4. last = [k \in ToSet(Distinct(list)) |-> LastAt({r \in read : keyOf[r] = k})]
    BY <1>8 DEF last
  <2> HIDE DEF list
  <2> QED
    BY <1>4, <1>5, <2>1, <2>2, <2>3, <2>4 DEF ByKey
<1> HIDE DEF list
<1>10. KeysByTime(sorted, read, keyOf, Keys, last)
  BY <1>9, KeysSorted DEF sorted
<1>11. PICK w : w = Cardinality(Keys)
  OBVIOUS
<1>12. Descends(sorted, Keys, w, last) /\ \A k \in Keys : last[k] = LastAt(Having(read, k))
  BY <1>8, <1>10, <1>11 DEF KeysByTime
<1>13. /\ w \in Nat /\ Len(sorted) = w
       /\ \A p \in 1..w : sorted[p] \in Keys
       /\ \A k \in Keys : \E p \in 1..w : sorted[p] = k
       /\ \A p, q \in 1..w : sorted[p] = sorted[q] => p = q
       /\ \A p, q \in 1..w : p < q => last[sorted[p]] >= last[sorted[q]]
  BY <1>12 DEF Descends, Enumerates
<1>14. all = [i \in 1..w |->
                [key |-> sorted[i], agent |-> \E r \in Of(sorted[i]) : r.agent,
                 turns |-> Cardinality(Of(sorted[i])), last |-> LastAt(Of(sorted[i])),
                 first |-> First(Earliest(Of(sorted[i])), TitleTurns)]]
  <2> HIDE DEF Of
  <2> QED
    BY <1>13 DEF all
<1>15. Len(all) = w /\ DOMAIN all = 1..w
  BY <1>13, <1>14
<1>16. ASSUME NEW i \in 1..w
       PROVE  /\ all[i].key = sorted[i] /\ all[i].key \in Keys
              /\ all[i].agent = (\E r \in Having(read, all[i].key) : r.agent)
              /\ all[i].turns = Cardinality(Having(read, all[i].key))
              /\ all[i].first = First(Earliest(Having(read, all[i].key)), TitleTurns)
  <2>1. /\ all[i].key = sorted[i]
        /\ all[i].agent = \E r \in Of(sorted[i]) : r.agent
        /\ all[i].turns = Cardinality(Of(sorted[i]))
        /\ all[i].first = First(Earliest(Of(sorted[i])), TitleTurns)
    <3> HIDE DEF Of
    <3> QED
      BY <1>14
  <2>2. Of(sorted[i]) = Having(read, all[i].key)
    BY <1>8, <2>1
  <2>3. sorted[i] \in Keys
    BY <1>13
  <2> HIDE DEF Of
  <2> QED
    BY <2>1, <2>2, <2>3
<1>17. all \in Seq(ToSet(all))
  <2>1. \A i \in 1..w : all[i] \in ToSet(all)
    BY <1>15 DEF ToSet
  <2>2. all = [i \in 1..w |-> all[i]]
    BY <1>14
  <2>3. all \in [1..w -> ToSet(all)]
    BY <2>1, <2>2
  <2> QED
    BY <1>13, <2>3
<1>18. ASSUME NEW r \in read PROVE \E i \in 1..w : all[i].key = KeyOf(r)
  <2>1. KeyOf(r) \in Keys
    BY <1>7
  <2>2. PICK i \in 1..w : sorted[i] = KeyOf(r)
    BY <1>13, <2>1
  <2> QED
    BY <1>16, <2>2
<1>19. ASSUME NEW i \in 1..w, NEW j \in 1..w, all[i].key = all[j].key PROVE i = j
  <2>1. sorted[i] = sorted[j]
    BY <1>16, <1>19
  <2> QED
    BY <1>13, <2>1
<1>20. ASSUME NEW i \in 1..w, NEW j \in 1..w, i < j
       PROVE  LastAt(Having(read, all[i].key)) >= LastAt(Having(read, all[j].key))
  <2>1. last[sorted[i]] >= last[sorted[j]] /\ sorted[i] \in Keys /\ sorted[j] \in Keys
    BY <1>13, <1>20
  <2> QED
    BY <1>12, <1>16, <2>1
<1>21. Sums(all, w, read)
  BY <1>7, <1>13, <1>15, <1>16, <1>17, <1>18, <1>19, <1>20 DEF Sums
<1>22. read = ReadRows(rows, f)
  BY DEF read, ReadRows
<1> QED
  BY <1>1, <1>15, <1>21, <1>22

(* The first n of a list that are in a set.                                *)
Page(page, list, S, n) ==
  /\ Len(page) \in Nat /\ DOMAIN page = 1..Len(page) /\ Len(page) <= n
  /\ \E f : /\ \A p \in 1..Len(page) :
                 f[p] \in 1..Len(list) /\ page[p] = list[f[p]] /\ page[p] \in S
            /\ \A p, q \in 1..Len(page) : p < q => f[p] < f[q]
            /\ \A i \in 1..Len(list) : list[i] \in S =>
                 \/ \E p \in 1..Len(page) : f[p] = i
                 \/ Len(page) = n /\ \A p \in 1..Len(page) : f[p] < i

(* The sessions of the first chunks that are wanted.                       *)
LEMMA PageFrom ==
  ASSUME NEW T, NEW list \in Seq(T), NEW q, q.n \in Nat \ {0}, ChunkSize(q) \in Nat,
         NEW c \in Nat,
         \/ Len(PickedFrom(q, list, c)) >= q.n
         \/ c * ChunkSize(q) >= Len(list),
         NEW S, S = {s \in ToSet(list) : WantedSession(q, s)}
  PROVE  Page(First(PickedFrom(q, list, c), q.n), list, S, q.n)
<1>1. PICK n \in Nat : n = Len(list)
  OBVIOUS
<1>2. PICK k \in Nat : k = c * ChunkSize(q)
  OBVIOUS
<1>3. PICK read : read = First(list, k)
  OBVIOUS
<1>4. Begins(read, list, k)
  BY <1>3, FirstIs
<1>5. PICK W : W = {s \in ToSet(read) : WantedSession(q, s)}
  OBVIOUS
<1>6. PICK new : new = Among(read, W)
  OBVIOUS
<1>7. PickedFrom(q, list, c) = new
  BY <1>2, <1>3, <1>5, <1>6 DEF PickedFrom
<1>8. PICK T1 : T1 = {list[i] : i \in 1..Len(list)}
  OBVIOUS
<1>9. PICK m \in Nat : /\ m = Len(read) /\ m = (IF n < k THEN n ELSE k) /\ read \in Seq(T1)
                       /\ DOMAIN read = 1..m
                       /\ \A p \in 1..m : p \in 1..n /\ read[p] = list[p]
  <2>1. read \in Seq(T1)
    BY <1>4, <1>8 DEF Begins
  <2>2. Len(read) = IF n < k THEN n ELSE k
    BY <1>1, <1>4 DEF Begins
  <2>3. \A p \in 1..Len(read) : p \in 1..n /\ read[p] = list[p]
    BY <1>1, <1>4 DEF Begins
  <2> QED
    BY <2>1, <2>2, <2>3
<1>10. Filtered(new, read, W) /\ new \in Seq(T1)
  BY <1>6, <1>9, AmongIs
<1>11. PICK f : Filters(new, read, W, f)
  BY <1>10 DEF Filtered
<1>12. PICK l \in Nat : l = Len(new)
  BY <1>10
<1>13. PICK page : page = First(new, q.n)
  OBVIOUS
<1>14. Begins(page, new, q.n)
  BY <1>10, <1>13, FirstIs
<1>15. PICK w \in Nat : /\ w = Len(page) /\ w = (IF l < q.n THEN l ELSE q.n)
                        /\ DOMAIN page = 1..w
                        /\ \A p \in 1..w : p \in 1..l /\ page[p] = new[p]
  BY SMTT(20), <1>12, <1>14 DEF Begins
<1>16. /\ \A p \in 1..l : f[p] \in 1..m /\ new[p] = read[f[p]] /\ new[p] \in W
       /\ \A i \in 1..m : read[i] \in W => \E p \in 1..l : f[p] = i
       /\ \A p, r \in 1..l : p < r => f[p] < f[r]
  BY <1>9, <1>11, <1>12 DEF Filters
<1>17. \A p \in 1..w : f[p] \in 1..n /\ page[p] = list[f[p]] /\ page[p] \in S
  <2>1. ASSUME NEW i \in 1..n PROVE list[i] \in ToSet(list)
    BY <1>1 DEF ToSet
  <2> QED
    BY SMTT(20), <1>5, <1>9, <1>15, <1>16, <2>1
<1>18. \A p, r \in 1..w : p < r => f[p] < f[r]
  BY <1>15, <1>16
<1>19. ASSUME NEW i \in 1..n, list[i] \in S
       PROVE  \/ \E p \in 1..w : f[p] = i
              \/ w = q.n /\ \A p \in 1..w : f[p] < i
  <2>1. CASE i \in 1..m
    <3>1. read[i] \in W
      BY <1>5, <1>9, <1>19, <2>1 DEF ToSet
    <3>2. PICK p \in 1..l : f[p] = i
      BY <1>16, <2>1, <3>1
    <3>3. CASE p \in 1..w
      BY <3>2, <3>3
    <3>4. CASE p \notin 1..w
      <4>1. w = q.n /\ w < p
        BY <1>15, <3>2, <3>4
      <4>2. \A r \in 1..w : r \in 1..l /\ r < p
        BY <1>15, <4>1
      <4> QED
        BY <1>16, <3>2, <4>1, <4>2
    <3> QED
      BY <3>3, <3>4
  <2>2. CASE i \notin 1..m
    <3>1. m = k /\ k < n /\ m < i
      BY <1>9, <2>2
    <3>2. l >= q.n
      BY <1>1, <1>2, <1>7, <1>12, <3>1
    <3>3. w = q.n
      BY <1>15, <3>2
    <3>4. \A p \in 1..w : f[p] < i
      BY <1>15, <1>16, <3>1
    <3> QED
      BY <3>3, <3>4
  <2> QED
    BY <2>1, <2>2
<1>20. w <= q.n
  BY <1>15
<1>21. /\ \A p \in 1..w : f[p] \in 1..n /\ page[p] = list[f[p]] /\ page[p] \in S
       /\ \A p, r \in 1..w : p < r => f[p] < f[r]
       /\ \A i \in 1..n : list[i] \in S =>
            \/ \E p \in 1..w : f[p] = i
            \/ w = q.n /\ \A p \in 1..w : f[p] < i
  BY <1>17, <1>18, <1>19
<1>22. Len(page) = w /\ Len(list) = n /\ DOMAIN page = 1..w
  BY <1>1, <1>15
<1>23. Page(page, list, S, q.n)
  BY <1>20, <1>21, <1>22 DEF Page
<1> QED
  BY <1>7, <1>13, <1>23

(* A page is filled from as many chunks as it takes.                       *)
LEMMA PickedIs ==
  ASSUME NEW T, NEW list \in Seq(T), NEW q, q.n \in Nat \ {0}, WrappedChunk \in Nat \ {0},
         NEW S, S = {s \in ToSet(list) : WantedSession(q, s)}
  PROVE  Page(First(Picked(q, list), q.n), list, S, q.n)
<1>1. PICK n \in Nat : n = Len(list)
  OBVIOUS
<1>2. PICK chunk : chunk = ChunkSize(q)
  OBVIOUS
<1>3. chunk \in Nat /\ chunk >= 1 /\ (q.wrapped = {} => chunk = q.n)
  BY <1>2 DEF ChunkSize
<1>4. CASE list = << >>
  <2>1. Picked(q, list) = << >>
    BY <1>4 DEF Picked
  <2>2. First(<< >>, q.n) = << >>
    BY DEF First
  <2>3. Page(<< >>, list, S, q.n)
    <3>1. Len(<< >>) = 0 /\ DOMAIN << >> = 1..0 /\ Len(list) = 0
      BY <1>4
    <3> QED
      BY <3>1 DEF Page
  <2> QED
    BY <2>1, <2>2, <2>3
<1>5. CASE list # << >> /\ q.wrapped = {}
  <2>1. Picked(q, list) = PickedFrom(q, list, 1)
    BY <1>5 DEF Picked
  <2>2. \/ Len(PickedFrom(q, list, 1)) >= q.n
        \/ 1 * chunk >= n
    <3>1. SUFFICES ASSUME q.n < n PROVE Len(PickedFrom(q, list, 1)) = q.n
      BY <1>1, <1>3, <1>5
    <3>2. PICK read : read = First(list, q.n)
      OBVIOUS
    <3>3. read = SubSeq(list, 1, q.n)
      BY <1>1, <3>1, <3>2 DEF First
    <3>4. Len(read) = q.n /\ DOMAIN read = 1..q.n
      BY <1>1, <3>1, <3>3
    <3>5. PICK W : W = {s \in ToSet(read) : WantedSession(q, s)}
      OBVIOUS
    <3>6. 1 * ChunkSize(q) = q.n
      BY <1>2, <1>3, <1>5
    <3>7. PickedFrom(q, list, 1) = Among(read, W)
      BY <3>2, <3>5, <3>6 DEF PickedFrom
    <3>8. {i \in DOMAIN read : read[i] \in W} = 1..q.n
      BY <1>5, <3>4, <3>5 DEF ToSet, WantedSession
    <3>9. Among(read, W) = At(read, 1..q.n)
      BY <3>8 DEF Among
    <3>10. PICK k : k = Cardinality(1..q.n)
      OBVIOUS
    <3>11. k = q.n
      BY <3>10, FS_Interval
    <3>12. \E g : At(read, 1..q.n) = [p \in 1..k |-> read[g[p]]]
      <4>1. Takes(At(read, 1..q.n), read, 1..q.n)
        BY AtIs
      <4> QED
        BY <3>10, <4>1 DEF Takes
    <3> QED
      BY <3>7, <3>9, <3>11, <3>12
  <2> QED
    BY <1>1, <1>2, <1>3, <2>1, <2>2, PageFrom
<1>6. CASE list # << >> /\ q.wrapped # {}
  <2>1. PICK enough : enough = {c \in 1..Len(list) : \/ Len(PickedFrom(q, list, c)) >= q.n
                                                     \/ c * ChunkSize(q) >= Len(list)}
    OBVIOUS
  <2>2. Picked(q, list) = PickedFrom(q, list, Min(enough))
    BY <1>6, <2>1 DEF Picked
  <2>3. n \in enough
    <3>1. n \in 1..n
      BY <1>1, <1>6
    <3>2. n * chunk >= n
      BY <1>3, <3>1
    <3> QED
      BY <1>1, <1>2, <2>1, <3>1, <3>2
  <2>4. PICK c : c = Min(enough)
    OBVIOUS
  <2>5. enough \in SUBSET Nat
    BY <2>1
  <2>6. c \in enough
    BY <2>3, <2>4, <2>5, MinHeld
  <2>7. c \in Nat /\ \/ Len(PickedFrom(q, list, c)) >= q.n
                     \/ c * ChunkSize(q) >= Len(list)
    BY <2>1, <2>6
  <2> QED
    BY <1>2, <1>3, <2>2, <2>4, <2>7, PageFrom
<1> QED
  BY <1>4, <1>5, <1>6

(* A page of sessions.                                                     *)
LEMMA SessionsHold ==
  ASSUME NEW q, SessionQuery(q), TitleTurns \in Nat, WrappedChunk \in Nat \ {0}
  PROVE  SessionPageExact(q, ListSessions(q))
<1>1. PICK stored : stored = q.rows /\ KeyedRows(stored)
  BY DEF SessionQuery
<1>2. PICK n \in Nat \ {0} : n = q.n
  BY DEF SessionQuery
<1>3. q.subagents \in BOOLEAN
  BY DEF SessionQuery
<1>4. \A r, s \in ToSet(stored) : r.session = s.session => r.agent = s.agent
  BY <1>1 DEF SessionQuery
<1>5. KeyedFacts(stored)
  BY <1>1, KeyedAre
<1>6. ToSet(stored) \in SUBSET StoredRow /\ IsFiniteSet(ToSet(stored))
  BY <1>5 DEF KeyedFacts
<1>7. PICK all : all = Aggregates(stored, q.filter)
  OBVIOUS
<1>8. PICK read : read = ReadRows(stored, q.filter)
  OBVIOUS
<1>9. read = {r \in ToSet(stored) : Selected(r, q.filter) /\ ~r.passage /\ r.session # 0}
  BY <1>8 DEF ReadRows
<1>10. Sums(all, Len(all), read)
  BY <1>1, <1>7, <1>8, AggregatesAre
<1>11. PICK w \in Nat : w = Len(all) /\ Sums(all, w, read)
  BY <1>10 DEF Sums
<1>12. /\ Len(all) = w /\ DOMAIN all = 1..w /\ all \in Seq(ToSet(all))
       /\ \A i \in 1..w :
            /\ all[i].key \in {KeyOf(r) : r \in read}
            /\ all[i].agent = (\E r \in Having(read, all[i].key) : r.agent)
            /\ all[i].turns = Cardinality(Having(read, all[i].key))
            /\ all[i].first = First(Earliest(Having(read, all[i].key)), TitleTurns)
       /\ \A r \in read : \E i \in 1..w : all[i].key = KeyOf(r)
       /\ \A i, j \in 1..w : all[i].key = all[j].key => i = j
       /\ \A i, j \in 1..w : i < j =>
            LastAt(Having(read, all[i].key)) >= LastAt(Having(read, all[j].key))
  BY <1>11 DEF Sums
<1>13. PICK kept : kept = {s \in ToSet(all) : q.subagents \/ ~s.agent}
  OBVIOUS
<1>14. PICK rows : rows = Among(all, kept)
  OBVIOUS
<1>15. Filtered(rows, all, kept) /\ rows \in Seq(ToSet(all)) /\ ToSet(rows) = kept
  <2>1. ToSet(all) \cap kept = kept
    BY <1>13
  <2>2. all \in Seq(ToSet(all))
    BY <1>12
  <2> QED
    BY <1>14, <2>1, <2>2, AmongIs
<1>16. PICK g : Filters(rows, all, kept, g)
  BY <1>15 DEF Filtered
<1>17. PICK m \in Nat : m = Len(rows)
  BY <1>15
<1>18. /\ \A p \in 1..m : g[p] \in 1..w /\ rows[p] = all[g[p]] /\ rows[p] \in kept
       /\ \A i \in 1..w : all[i] \in kept => \E p \in 1..m : g[p] = i
       /\ \A p, r \in 1..m : p < r => g[p] < g[r]
  BY <1>11, <1>16, <1>17 DEF Filters
<1>19. PICK S : S = {s \in ToSet(rows) : WantedSession(q, s)}
  OBVIOUS
<1>20. PICK page : page = First(Picked(q, rows), n)
  OBVIOUS
<1>21. Page(page, rows, S, n)
  BY <1>2, <1>15, <1>19, <1>20, PickedIs
<1>22. PICK l \in Nat : l = Len(page) /\ l <= n /\ DOMAIN page = 1..l
  BY <1>21 DEF Page
<1>23. PICK f : /\ \A p \in 1..l : f[p] \in 1..m /\ page[p] = rows[f[p]] /\ page[p] \in S
                /\ \A p, r \in 1..l : p < r => f[p] < f[r]
                /\ \A i \in 1..m : rows[i] \in S =>
                     \/ \E p \in 1..l : f[p] = i
                     \/ l = n /\ \A p \in 1..l : f[p] < i
  BY <1>17, <1>21, <1>22 DEF Page
<1> DEFINE right == {r \in ToSet(q.rows) :
                       /\ Selected(r, q.filter) /\ ~r.passage /\ r.session # 0
                       /\ q.subagents \/ ~r.agent
                       /\ q.wrapped = {} \/ (r.session \in q.summarised) \in q.wrapped}
           Of(key) == {r \in right : KeyOf(r) = key}
           keys == {KeyOf(r) : r \in right}
<1>24. right = {r \in read : /\ q.subagents \/ ~r.agent
                             /\ q.wrapped = {} \/ (r.session \in q.summarised) \in q.wrapped}
  BY <1>1, <1>9
<1> HIDE DEF right
<1>25. \A r \in read : r \in ToSet(stored) /\ KeyOf(r)[1] = r.session
  BY <1>9 DEF KeyOf
<1>26. right \in SUBSET StoredRow /\ IsFiniteSet(right)
  <2>1. right \in SUBSET ToSet(stored)
    BY <1>24, <1>25
  <2> QED
    BY <1>6, <2>1, FS_Subset
<1>27. ASSUME NEW i \in 1..m
       PROVE  /\ rows[i].key \in {KeyOf(r) : r \in read}
              /\ rows[i].agent = (\E r \in Having(read, rows[i].key) : r.agent)
              /\ rows[i].turns = Cardinality(Having(read, rows[i].key))
              /\ rows[i].first = First(Earliest(Having(read, rows[i].key)), TitleTurns)
              /\ q.subagents \/ ~rows[i].agent
              /\ rows[i] \in S <=> WantedSession(q, rows[i])
  <2>1. rows[i] = all[g[i]] /\ g[i] \in 1..w /\ rows[i] \in kept /\ rows[i] \in ToSet(rows)
    BY <1>15, <1>18
  <2>2. q.subagents \/ ~rows[i].agent
    BY <1>13, <2>1
  <2>3. rows[i] \in S <=> WantedSession(q, rows[i])
    BY <1>19, <2>1
  <2> QED
    BY <1>12, <2>1, <2>2, <2>3
<1>28. ASSUME NEW i \in 1..m, rows[i] \in S
       PROVE  Of(rows[i].key) = Having(read, rows[i].key) /\ rows[i].key \in keys
  <2>1. PICK k : k = rows[i].key
    OBVIOUS
  <2>2. ASSUME NEW r \in read, KeyOf(r) = k PROVE r \in right
    <3>1. r \in Having(read, k)
      BY <2>2 DEF Having
    <3>2. q.subagents \/ ~r.agent
      BY <1>27, <2>1, <3>1
    <3>3. q.wrapped = {} \/ (r.session \in q.summarised) \in q.wrapped
      <4>1. WantedSession(q, rows[i])
        BY <1>27, <1>28
      <4>2. k[1] = r.session
        BY <1>25, <2>2
      <4> QED
        BY <2>1, <4>1, <4>2 DEF WantedSession
    <3> QED
      BY <1>24, <3>2, <3>3
  <2>3. Of(k) = Having(read, k)
    BY <1>24, <2>2 DEF Having
  <2>4. PICK r \in read : KeyOf(r) = k
    BY <1>27, <2>1
  <2> QED
    BY <2>1, <2>2, <2>3, <2>4
<1>29. ASSUME NEW r \in right PROVE \E i \in 1..m : rows[i].key = KeyOf(r) /\ rows[i] \in S
  <2>1. r \in read /\ (q.subagents \/ ~r.agent)
        /\ (q.wrapped = {} \/ (r.session \in q.summarised) \in q.wrapped)
    BY <1>24
  <2>2. PICK a \in 1..w : all[a].key = KeyOf(r)
    BY <1>12, <2>1
  <2>3. q.subagents \/ ~all[a].agent
    <3>1. SUFFICES ASSUME ~q.subagents, NEW x \in Having(read, KeyOf(r)) PROVE ~x.agent
      <4>1. all[a].agent = \E x \in Having(read, KeyOf(r)) : x.agent
        BY <1>12, <2>2
      <4> QED
        BY <4>1
    <3>2. x \in read /\ KeyOf(x) = KeyOf(r)
      BY <3>1 DEF Having
    <3>3. x.session = r.session
      BY <1>25, <2>1, <3>2
    <3> QED
      BY <1>4, <1>25, <2>1, <3>1, <3>2, <3>3
  <2>4. all[a] \in kept
    BY <1>12, <1>13, <2>3 DEF ToSet
  <2>5. PICK i \in 1..m : g[i] = a
    BY <1>18, <2>4
  <2>6. rows[i] = all[a] /\ rows[i].key = KeyOf(r)
    BY <1>18, <2>2, <2>5
  <2>7. WantedSession(q, rows[i])
    BY <1>25, <2>1, <2>6 DEF WantedSession
  <2> QED
    BY <1>27, <2>6, <2>7
<1>30. ASSUME NEW i \in 1..m, NEW j \in 1..m, rows[i].key = rows[j].key PROVE i = j
  <2>1. g[i] = g[j]
    BY <1>12, <1>18, <1>30
  <2>2. ~(i < j) /\ ~(j < i)
    BY <1>18, <2>1
  <2> QED
    BY <2>2
<1>31. ASSUME NEW i \in 1..m, NEW j \in 1..m, i < j
       PROVE  LastAt(Having(read, rows[i].key)) >= LastAt(Having(read, rows[j].key))
  BY <1>12, <1>18, <1>31
<1>32. PICK shown : shown = {page[p].key : p \in 1..l}
  OBVIOUS
<1>33. ASSUME NEW p \in 1..l
       PROVE  /\ f[p] \in 1..m /\ page[p] = rows[f[p]] /\ rows[f[p]] \in S
              /\ page[p].key \in keys /\ page[p].key \in shown
              /\ Of(page[p].key) = Having(read, page[p].key)
  <2>1. f[p] \in 1..m /\ page[p] = rows[f[p]] /\ rows[f[p]] \in S
    BY <1>23
  <2> QED
    BY <1>28, <1>32, <2>1
<1>34. shown \subseteq keys
  BY <1>32, <1>33
<1>35. Cardinality(shown) = l /\ IsFiniteSet(shown)
  <2>1. IsFiniteSet(1..l) /\ Cardinality(1..l) = l
    <3>1. 1 \in Int /\ l \in Int
      BY <1>22
    <3>2. IsFiniteSet(1..l) /\ Cardinality(1..l) = IF 1 > l THEN 0 ELSE l - 1 + 1
      BY <3>1, FS_Interval
    <3> QED
      BY <1>22, <3>2
  <2>2. PICK key : key = [p \in 1..l |-> page[p].key]
    OBVIOUS
  <2>3. shown = {key[p] : p \in 1..l}
    BY <1>32, <2>2
  <2>4. Imaged(key, 1..l, shown)
    BY <2>1, <2>3, Images
  <2>5. ASSUME NEW p \in 1..l, NEW r \in 1..l, key[p] = key[r] PROVE p = r
    <3>1. f[p] = f[r]
      BY <1>30, <1>33, <2>2, <2>5
    <3>2. ~(p < r) /\ ~(r < p)
      BY <1>23, <1>33, <3>1
    <3> QED
      BY <3>2
  <2> QED
    BY <2>1, <2>4, <2>5 DEF Imaged
<1>36. IsFiniteSet(keys) /\ Cardinality(keys) \in Nat
  <2>1. PICK key : key = [r \in right |-> KeyOf(r)]
    OBVIOUS
  <2>2. PICK T : T = {key[r] : r \in right}
    OBVIOUS
  <2>3. T = keys
    BY <2>1, <2>2
  <2> QED
    BY <1>26, <2>2, <2>3, Images DEF Imaged
<1>37. ASSUME NEW k \in keys \ shown
       PROVE  \E i \in 1..m : /\ rows[i].key = k /\ rows[i] \in S
                              /\ l = n /\ \A p \in 1..l : f[p] < i
  <2>1. PICK i \in 1..m : rows[i].key = k /\ rows[i] \in S
    BY <1>29
  <2>2. ASSUME NEW p \in 1..l PROVE f[p] # i
    BY <1>33, <1>37, <2>1
  <2> QED
    BY <1>23, <2>1, <2>2
<1>38. l = IF Cardinality(keys) < n THEN Cardinality(keys) ELSE n
  <2>1. CASE l < n
    <3>1. keys \subseteq shown
      BY <1>22, <1>37, <2>1
    <3>2. Cardinality(keys) = l
      BY <1>34, <1>35, <3>1
    <3> QED
      BY <2>1, <3>2
  <2>2. CASE l = n
    <3>1. Cardinality(shown) <= Cardinality(keys)
      BY <1>34, <1>36, FS_Subset
    <3> QED
      BY <1>35, <1>36, <2>2, <3>1
  <2> QED
    BY <1>22, <2>1, <2>2
<1>39. ASSUME NEW a \in shown, NEW b \in keys \ shown
       PROVE  LastAt(Of(a)) >= LastAt(Of(b))
  <2>1. PICK p \in 1..l : a = page[p].key
    BY <1>32
  <2>2. PICK i \in 1..m : rows[i].key = b /\ rows[i] \in S /\ \A r \in 1..l : f[r] < i
    BY <1>37
  <2>3. f[p] \in 1..m /\ rows[f[p]].key = a /\ f[p] < i
    BY <1>33, <2>1, <2>2
  <2>4. Of(a) = Having(read, a) /\ Of(b) = Having(read, b)
    BY <1>28, <1>33, <2>1, <2>2
  <2> HIDE DEF Of
  <2> QED
    BY <1>31, <2>2, <2>3, <2>4
<1>40. ASSUME q.filter = NoFilter, NEW p \in 1..l, {r \in Of(page[p].key) : r.words = "text"} # {}
       PROVE  Titles(Title(stored, page[p]), {r \in Of(page[p].key) : r.words = "text"})
  <2>1. PICK s : s = page[p]
    OBVIOUS
  <2>8. PICK i \in 1..m : s = rows[i]
    BY <1>33, <2>1
  <2>9. /\ s.key \in {KeyOf(r) : r \in read}
        /\ s.turns = Cardinality(Having(read, s.key))
        /\ s.first = First(Earliest(Having(read, s.key)), TitleTurns)
    BY <1>27, <2>8
  <2>2. PICK own : own = {r \in ToSet(stored) : ~r.passage /\ KeyOf(r) = s.key}
    OBVIOUS
  <2>3. own = Having(read, s.key) /\ own = Of(s.key)
    <3>1. ASSUME NEW r \in own PROVE r \in read
      <4>1. r \in ToSet(stored) /\ ~r.passage /\ KeyOf(r) = s.key
        BY <2>2
      <4>2. r.at \in Nat /\ r.session \in Nat
        BY <1>6, <4>1 DEF StoredRow
      <4>3. Selected(r, NoFilter)
        BY <4>2 DEF Selected, NoFilter, In, UpTo
      <4>4. PICK x \in read : KeyOf(x) = s.key
        BY <2>9
      <4>5. x.session # 0 /\ x.session = r.session
        BY <1>9, <1>25, <4>1, <4>4 DEF KeyOf
      <4> QED
        BY <1>9, <1>40, <4>1, <4>3, <4>5
    <3>2. own = Having(read, s.key)
      BY <1>9, <2>2, <3>1 DEF Having
    <3> QED
      BY <1>33, <2>1, <3>2
  <2>4. s.turns = Cardinality(own) /\ s.first = First(Earliest(own), TitleTurns)
    BY <2>3, <2>9
  <2>5. PICK spoken : spoken = {r \in own : r.words = "text"}
    OBVIOUS
  <2>6. spoken = {r \in Of(page[p].key) : r.words = "text"}
    BY <2>1, <2>3, <2>5
  <2>7. Titles(Title(stored, s), spoken)
    BY <1>1, <1>40, <2>2, <2>4, <2>5, <2>6, TitleIs
  <2> QED
    BY <2>1, <2>6, <2>7
<1>41. PICK answer : answer = ListSessions(q)
  OBVIOUS
<1>42. SUFFICES ASSUME answer.available PROVE SessionPageExact(q, answer)
  BY <1>41 DEF SessionPageExact
<1>43. PICK list : list = answer.page
  OBVIOUS
<1>44. list = [i \in 1..Len(page) |->
                [key |-> page[i].key, turns |-> page[i].turns, title |-> Title(stored, page[i]),
                 wrapped |-> IF q.known THEN {page[i].key[1] \in q.summarised} ELSE {}]]
  BY <1>1, <1>2, <1>7, <1>13, <1>14, <1>20, <1>41, <1>42, <1>43 DEF ListSessions
<1>45. /\ Len(list) = l /\ DOMAIN list = 1..l
       /\ \A p \in 1..l : list[p].key = page[p].key /\ list[p].title = Title(stored, page[p])
  BY <1>22, <1>44
<1>46. \A s \in ToSet(list) : \E p \in 1..l : s.key = page[p].key /\ s.title = Title(stored, page[p])
  <2>1. \A s \in ToSet(list) : \E p \in 1..l : s = list[p]
    BY <1>45 DEF ToSet
  <2> QED
    BY <1>45, <2>1
<1>47. {s.key : s \in ToSet(list)} = shown
  <2>1. ASSUME NEW p \in 1..l PROVE page[p].key \in {s.key : s \in ToSet(list)}
    <3>1. list[p] \in ToSet(list) /\ list[p].key = page[p].key
      BY <1>45 DEF ToSet
    <3> QED
      BY <3>1
  <2> QED
    BY <1>32, <1>46, <2>1
<1>48. q.filter = NoFilter => \A s \in ToSet(list) :
         {r \in Of(s.key) : r.words = "text"} # {} =>
           Titles(s.title, {r \in Of(s.key) : r.words = "text"})
  <2> SUFFICES ASSUME q.filter = NoFilter, NEW s \in ToSet(list),
                      {r \in Of(s.key) : r.words = "text"} # {}
               PROVE  Titles(s.title, {r \in Of(s.key) : r.words = "text"})
    OBVIOUS
  <2>1. PICK p \in 1..l : s.key = page[p].key /\ s.title = Title(stored, page[p])
    BY <1>46
  <2> QED
    BY <1>40, <2>1
<1>49. /\ shown \subseteq keys /\ Cardinality(shown) = Len(list)
       /\ Len(list) = IF Cardinality(keys) < q.n THEN Cardinality(keys) ELSE q.n
       /\ \A a \in shown, b \in keys \ shown : LastAt(Of(a)) >= LastAt(Of(b))
  <2> HIDE DEF Of, keys
  <2> QED
    BY <1>2, <1>34, <1>35, <1>38, <1>39, <1>45
<1> QED
  BY <1>43, <1>47, <1>48, <1>49 DEF SessionPageExact, Titles, right

(* A slice of a list.                                                      *)
SliceOf(part, list, from, to) ==
  /\ Len(part) = to - from + 1 /\ DOMAIN part = 1..(to - from + 1)
  /\ \A i \in 1..(to - from + 1) : part[i] = list[from + i - 1]
  /\ ToSet(part) = {list[p] : p \in from..to}

LEMMA SliceIs ==
  ASSUME NEW list, NEW m \in Nat, DOMAIN list = 1..m,
         NEW from \in 1..m + 1, NEW to \in from - 1..m
  PROVE  SliceOf(SubSeq(list, from, to), list, from, to)
<1>1. PICK part : part = SubSeq(list, from, to)
  OBVIOUS
<1>2. PICK n \in Nat : n = to - from + 1
  OBVIOUS
<1>3. part = [i \in 1..n |-> list[from + i - 1]]
  BY <1>1, <1>2
<1>4. Len(part) = n /\ DOMAIN part = 1..n /\ \A i \in 1..n : part[i] = list[from + i - 1]
  BY <1>3
<1>5. ToSet(part) = {part[i] : i \in 1..n}
  BY <1>4 DEF ToSet
<1>6. \A i \in 1..n : from + i - 1 \in from..to
  BY <1>2
<1>7. \A p \in from..to : p - from + 1 \in 1..n /\ from + (p - from + 1) - 1 = p
  BY <1>2
<1>8. {part[i] : i \in 1..n} = {list[p] : p \in from..to}
  <2>1. \A i \in 1..n : part[i] \in {list[p] : p \in from..to}
    BY <1>4, <1>6
  <2>2. ASSUME NEW p \in from..to PROVE list[p] \in {part[i] : i \in 1..n}
    <3>1. PICK i \in 1..n : i = p - from + 1 /\ from + i - 1 = p
      BY <1>7
    <3> QED
      BY <1>4, <3>1
  <2> QED
    BY <2>1, <2>2
<1> QED
  BY <1>1, <1>2, <1>4, <1>5, <1>8 DEF SliceOf

(* The tail of a session.                                                  *)
LEMMA TailHolds ==
  ASSUME NEW q, TailQuery(q)
  PROVE  TailExact(q, SessionTurns(q))
<1>1. PICK limit \in Nat : limit = q.limit
  BY DEF TailQuery
<1>2. PICK own : own = {r \in ToSet(q.rows) :
                          /\ ~r.passage /\ In(r.provider, q.provider)
                          /\ q.id = IF q.provider = {"codex"} THEN r.thread ELSE r.session}
  OBVIOUS
<1>3. PICK here : here = Among(q.rows, own)
  OBVIOUS
<1>4. KeyedRows(here) /\ ToSet(here) = own
  <2>1. KeyedRows(q.rows)
    BY DEF TailQuery
  <2>2. own \subseteq ToSet(q.rows)
    BY <1>2
  <2> QED
    BY <1>3, <2>1, <2>2, KeyedAmong
<1>5. PICK turns : turns = InOrder(here)
  OBVIOUS
<1>6. ByIndex(turns, own, Len(here))
  BY <1>4, <1>5, InOrderIs
<1>7. PICK m \in Nat : m = Len(here) /\ ByIndex(turns, own, m)
  BY <1>6 DEF ByIndex, Enumerates
<1>8. /\ Len(turns) = m /\ DOMAIN turns = 1..m /\ Cardinality(own) = m
      /\ (\A p \in 1..m : turns[p] \in own) /\ (\A r \in own : \E p \in 1..m : turns[p] = r)
      /\ \A p, r \in 1..m : p < r => turns[p].index <= turns[r].index
  BY <1>7 DEF ByIndex, Enumerates
<1>9. PICK k : k = IF m > limit THEN m - limit ELSE 0
  OBVIOUS
<1>10. k \in 0..m /\ m - k = IF m < limit THEN m ELSE limit
  BY <1>9
<1>11. PICK tail : tail = SessionTurns(q)
  OBVIOUS
<1>12. tail = SubSeq(turns, k + 1, m)
  <2>1. (IF m > limit THEN m - limit + 1 ELSE 1) = k + 1
    BY <1>9
  <2> QED
    BY <1>1, <1>2, <1>3, <1>5, <1>8, <1>11, <2>1 DEF SessionTurns
<1>13. SliceOf(tail, turns, k + 1, m)
  <2>1. k + 1 \in 1..m + 1 /\ m \in (k + 1) - 1..m
    BY <1>10
  <2> QED
    BY <1>8, <1>12, <2>1, SliceIs
<1>14. /\ Len(tail) = m - k /\ (\A i \in 1..m - k : tail[i] = turns[k + i])
       /\ ToSet(tail) = {turns[p] : p \in k + 1..m}
  <2>1. m - (k + 1) + 1 = m - k /\ \A i \in 1..m - k : (k + 1) + i - 1 = k + i
    BY <1>10
  <2> QED
    BY <1>13, <2>1 DEF SliceOf
<1>15. ToSet(tail) \subseteq own
  <2>1. \A p \in k + 1..m : p \in 1..m
    BY <1>10
  <2> QED
    BY <1>8, <1>14, <2>1
<1>16. \A i, j \in 1..Len(tail) : i < j => tail[i].index <= tail[j].index
  <2> SUFFICES ASSUME NEW i \in 1..m - k, NEW j \in 1..m - k, i < j
               PROVE  tail[i].index <= tail[j].index
    BY <1>14
  <2>1. k + i \in 1..m /\ k + j \in 1..m /\ k + i < k + j
    BY <1>10
  <2> QED
    BY <1>8, <1>14, <2>1
<1>17. ASSUME NEW r \in own \ ToSet(tail), NEW t \in ToSet(tail) PROVE r.index <= t.index
  <2>1. PICK p \in 1..m : turns[p] = r
    BY <1>8
  <2>2. p \notin k + 1..m
    BY <1>14, <1>17, <2>1
  <2>3. PICK i \in k + 1..m : turns[i] = t
    BY <1>14
  <2>4. i \in 1..m /\ p < i
    BY <1>10, <2>2
  <2> QED
    BY <1>8, <2>1, <2>3, <2>4
<1> QED
  BY <1>1, <1>2, <1>8, <1>10, <1>11, <1>14, <1>15, <1>16, <1>17 DEF TailExact

(* The rows of own whose index is between those of two of them.            *)
Amid(own, t, r) ==
  {x \in own : \/ x.index > t.index /\ x.index < r.index
               \/ x.index < t.index /\ x.index > r.index}

(* A run of the rows of a session around the one nearest to an index.      *)
Surrounds(window, own, index, context) ==
  /\ own = {} => window = << >>
  /\ own # {} => window # << >>
  /\ ToSet(window) \subseteq own
  /\ own # {} =>
       \E t \in own : /\ \A x \in own : Away(t, index) <= Away(x, index)
                      /\ t \in ToSet(window)
                      /\ \A r \in own \ {t} :
                           r \in ToSet(window) <=> Cardinality(Amid(own, t, r)) < context

(* A list of all of own in the strict order of their indices.              *)
Ascends(turns, own, m) ==
  /\ own \in SUBSET StoredRow /\ turns \in [1..m -> own]
  /\ \A r \in own : \E p \in 1..m : turns[p] = r
  /\ \A p, q \in 1..m : p < q => turns[p].index < turns[q].index

(* The rows between two of a list in strict order are those at the         *)
(* positions between theirs.                                               *)
LEMMA InsideIs ==
  ASSUME NEW own, NEW m \in Nat, NEW turns, Ascends(turns, own, m),
         NEW a \in 1..m, NEW b \in 1..m, a < b
  PROVE  /\ Cardinality(Amid(own, turns[a], turns[b])) = b - a - 1
         /\ Amid(own, turns[b], turns[a]) = Amid(own, turns[a], turns[b])
<1>0. /\ own \in SUBSET StoredRow /\ turns \in [1..m -> own]
      /\ \A r \in own : \E p \in 1..m : turns[p] = r
      /\ \A p, q \in 1..m : p < q => turns[p].index < turns[q].index
  BY DEF Ascends
<1>1. \A p \in 1..m : turns[p] \in own /\ turns[p].index \in Nat
  BY <1>0 DEF StoredRow
<1>2. \A p, q \in 1..m : turns[p].index < turns[q].index => p < q
  <2> SUFFICES ASSUME NEW p \in 1..m, NEW q \in 1..m, turns[p].index < turns[q].index, ~(p < q)
               PROVE  FALSE
    OBVIOUS
  <2>1. p = q \/ q < p
    OBVIOUS
  <2>2. turns[q].index <= turns[p].index
    BY <1>0, <1>1, <2>1
  <2> QED
    BY <1>1, <2>2
<1>3. PICK between : between = Amid(own, turns[a], turns[b])
  OBVIOUS
<1>4. PICK T : T = {turns[p] : p \in a + 1..b - 1}
  OBVIOUS
<1>5. turns[a].index < turns[b].index
  BY <1>0
<1>6. between = T
  <2>1. ASSUME NEW x \in between PROVE x \in T
    <3>1. x \in own /\ (\/ x.index > turns[a].index /\ x.index < turns[b].index
                        \/ x.index < turns[a].index /\ x.index > turns[b].index)
      BY <1>3 DEF Amid
    <3>2. PICK p \in 1..m : turns[p] = x
      BY <1>0, <3>1
    <3>3. turns[p].index > turns[a].index /\ turns[p].index < turns[b].index
      BY <1>1, <1>5, <3>1, <3>2
    <3>4. a < p /\ p < b
      BY <1>1, <1>2, <3>3
    <3> QED
      BY <1>4, <3>2, <3>4
  <2>2. ASSUME NEW x \in T PROVE x \in between
    <3>1. PICK p \in a + 1..b - 1 : x = turns[p]
      BY <1>4
    <3>2. p \in 1..m /\ a < p /\ p < b
      OBVIOUS
    <3>3. x \in own /\ x.index > turns[a].index /\ x.index < turns[b].index
      BY <1>0, <1>1, <3>1, <3>2
    <3> QED
      BY <1>3, <3>3 DEF Amid
  <2> QED
    BY <2>1, <2>2
<1>7. PICK f : f = [p \in a + 1..b - 1 |-> turns[p]]
  OBVIOUS
<1>8. T = {f[p] : p \in a + 1..b - 1}
  BY <1>4, <1>7
<1>9. IsFiniteSet(a + 1..b - 1) /\ Cardinality(a + 1..b - 1) = b - a - 1
  <2>1. a + 1 \in Int /\ b - 1 \in Int
    OBVIOUS
  <2>2. /\ IsFiniteSet(a + 1..b - 1)
        /\ Cardinality(a + 1..b - 1) = IF a + 1 > b - 1 THEN 0 ELSE (b - 1) - (a + 1) + 1
    BY <2>1, FS_Interval
  <2> QED
    BY <2>2
<1>10. ASSUME NEW p \in a + 1..b - 1, NEW q \in a + 1..b - 1, f[p] = f[q] PROVE p = q
  <2>1. p \in 1..m /\ q \in 1..m /\ turns[p] = turns[q]
    BY <1>7, <1>10
  <2>2. ~(p < q) /\ ~(q < p)
    BY <1>0, <1>1, <2>1
  <2> QED
    BY <2>1, <2>2
<1>11. Imaged(f, a + 1..b - 1, T)
  BY <1>8, <1>9, Images
<1>12. Cardinality(T) = b - a - 1
  BY <1>9, <1>10, <1>11 DEF Imaged
<1>13. Amid(own, turns[b], turns[a]) = Amid(own, turns[a], turns[b])
  <2> SUFFICES ASSUME NEW x \in own
               PROVE  (\/ x.index > turns[b].index /\ x.index < turns[a].index
                       \/ x.index < turns[b].index /\ x.index > turns[a].index)
                      <=> (\/ x.index > turns[a].index /\ x.index < turns[b].index
                           \/ x.index < turns[a].index /\ x.index > turns[b].index)
    BY DEF Amid
  <2> QED
    OBVIOUS
<1> QED
  BY <1>3, <1>6, <1>12, <1>13

LEMMA TurnsAround ==
  ASSUME NEW rows, KeyedRows(rows), NEW session, NEW index \in Nat, NEW context \in Nat,
         NEW own, own = {r \in ToSet(rows) : r.session = session /\ ~r.passage},
         \A r, s \in own : r.index = s.index => r = s
  PROVE  Surrounds(GetTurns(rows, session, index, context), own, index, context)
<1>1. PICK here : here = Among(rows, own)
  OBVIOUS
<1>2. KeyedRows(here) /\ ToSet(here) = own
  BY <1>1, KeyedAmong
<1>3. own \in SUBSET StoredRow
  BY KeyedAre DEF KeyedFacts
<1>4. PICK turns : turns = SessionRows(rows, session)
  OBVIOUS
<1>5. turns = InOrder(here)
  BY <1>1, <1>4 DEF SessionRows
<1>6. PICK m \in Nat : m = Len(here) /\ ByIndex(turns, own, m)
  BY <1>2, <1>5, InOrderIs DEF ByIndex, Enumerates
<1>7. /\ Len(turns) = m /\ DOMAIN turns = 1..m /\ turns \in [1..m -> own] /\ turns \in Seq(own)
      /\ (\A r \in own : \E p \in 1..m : turns[p] = r)
      /\ (\A p, r \in 1..m : turns[p] = turns[r] => p = r)
      /\ \A p, r \in 1..m : p < r => turns[p].index <= turns[r].index
  BY <1>6 DEF ByIndex, Enumerates
<1>8. \A p \in 1..m : turns[p] \in own /\ turns[p].index \in Nat
  BY <1>3, <1>7 DEF StoredRow
<1>9. ASSUME NEW p \in 1..m, NEW r \in 1..m, p < r PROVE turns[p].index < turns[r].index
  <2>1. turns[p].index # turns[r].index
    BY <1>7, <1>8, <1>9
  <2> QED
    BY <1>7, <1>8, <1>9, <2>1
<1>10. PICK window : window = GetTurns(rows, session, index, context)
  OBVIOUS
<1>11. CASE own = {}
  <2>1. m = 0
    BY <1>8, <1>11
  <2>2. turns = << >>
    BY <1>7, <2>1
  <2>3. window = << >>
    BY <1>4, <1>10, <2>2 DEF GetTurns
  <2>4. ToSet(window) = {}
    BY <2>3 DEF ToSet
  <2> QED
    BY <1>10, <1>11, <2>3, <2>4 DEF Surrounds
<1>12. CASE own # {}
  <2>1. m \in Nat \ {0}
    BY <1>7, <1>12
  <2>2. turns # << >>
    BY <1>7, <2>1
  <2>3. PICK far : far = [i \in 1..m |-> Away(turns[i], index)]
    OBVIOUS
  <2>4. \A i \in 1..m : far[i] = Away(turns[i], index) /\ far[i] \in Nat
    BY <1>8, <2>3 DEF Away
  <2>5. PICK near : near = Min({far[i] : i \in 1..m})
    OBVIOUS
  <2>6. near \in {far[i] : i \in 1..m} /\ \A i \in 1..m : near <= far[i]
    <3>1. PICK ways : ways = {far[i] : i \in 1..m}
      OBVIOUS
    <3>2. ways \in SUBSET Nat /\ ways # {}
      BY <2>1, <2>4, <3>1
    <3>3. near = Min(ways)
      BY <2>5, <3>1
    <3>4. near \in ways /\ \A n \in ways : near <= n
      BY <3>2, <3>3, MinHeld
    <3> QED
      BY <3>1, <3>4
  <2>7. PICK places : places = {i \in 1..m : far[i] = near}
    OBVIOUS
  <2>8. places \in SUBSET Nat /\ places # {}
    BY <2>6, <2>7
  <2>9. PICK target : target = Min(places)
    OBVIOUS
  <2>10. target \in 1..m /\ far[target] = near
    BY <2>7, <2>8, <2>9, MinHeld
  <2>11. PICK start : start = IF target - context < 1 THEN 1 ELSE target - context
    OBVIOUS
  <2>12. PICK end : end = IF target + context > m THEN m ELSE target + context
    OBVIOUS
  <2>13. start \in 1..target /\ end \in target..m
    BY <2>10, <2>11, <2>12
  <2>14. window = SubSeq(turns, start, end)
    <3>1. near = Min({Away(turns[i], index) : i \in 1..Len(turns)})
      <4>1. {far[i] : i \in 1..m} = {Away(turns[i], index) : i \in 1..m}
        BY <2>4
      <4> QED
        BY <1>7, <2>5, <4>1
    <3>2. target = Min({i \in 1..Len(turns) : Away(turns[i], index) = near})
      <4>1. places = {i \in 1..m : Away(turns[i], index) = near}
        BY <2>4, <2>7
      <4> QED
        BY <1>7, <2>9, <4>1
    <3>3. end = IF target + context > Len(turns) THEN Len(turns) ELSE target + context
      BY <1>7, <2>12
    <3> DEFINE list == SessionRows(rows, session)
               least == Min({Away(list[i], index) : i \in 1..Len(list)})
               middle == Min({i \in 1..Len(list) : Away(list[i], index) = least})
               first == IF middle - context < 1 THEN 1 ELSE middle - context
               last == IF middle + context > Len(list) THEN Len(list) ELSE middle + context
    <3>4. GetTurns(rows, session, index, context)
            = IF list = << >> THEN << >> ELSE SubSeq(list, first, last)
      BY DEF GetTurns
    <3>5. list = turns
      BY <1>4
    <3>6. least = near
      <4> HIDE DEF list
      <4> QED
        BY <3>1, <3>5
    <3>7. middle = target
      <4> HIDE DEF list, least
      <4> QED
        BY <3>2, <3>5, <3>6
    <3> HIDE DEF list, least, middle
    <3>8. first = start /\ last = end
      BY <2>11, <3>3, <3>5, <3>7
    <3> HIDE DEF first, last
    <3> QED
      BY <1>10, <2>2, <3>4, <3>5, <3>8
  <2>15. SliceOf(window, turns, start, end)
    <3>1. start \in 1..m + 1 /\ end \in start - 1..m
      BY <2>10, <2>13
    <3> QED
      BY <1>7, <2>14, <3>1, SliceIs
  <2>16. ToSet(window) = {turns[p] : p \in start..end}
    BY <2>15 DEF SliceOf
  <2>17. \A p \in 1..m : turns[p] \in ToSet(window) <=> p \in start..end
    <3>1. \A p \in start..end : p \in 1..m
      BY <2>10, <2>13
    <3> QED
      BY <1>7, <2>16, <3>1
  <2>18. PICK t : t = turns[target]
    OBVIOUS
  <2>19. t \in own /\ t \in ToSet(window)
    BY <1>8, <2>10, <2>13, <2>17, <2>18
  <2>20. \A x \in own : Away(t, index) <= Away(x, index)
    <3> SUFFICES ASSUME NEW x \in own PROVE Away(t, index) <= Away(x, index)
      OBVIOUS
    <3>1. PICK p \in 1..m : turns[p] = x
      BY <1>7
    <3> QED
      BY <2>4, <2>6, <2>10, <2>18, <3>1
  <2>21. ASSUME NEW r \in own \ {t}
         PROVE  r \in ToSet(window) <=> Cardinality(Amid(own, t, r)) < context
    <3>1. PICK p \in 1..m : turns[p] = r
      BY <1>7
    <3>2. p # target
      BY <2>18, <2>21, <3>1
    <3>5. Ascends(turns, own, m)
      BY <1>3, <1>7, <1>9 DEF Ascends
    <3>3. CASE p < target
      <4>1. Cardinality(Amid(own, t, r)) = target - p - 1
        <5>1. /\ Cardinality(Amid(own, turns[p], turns[target])) = target - p - 1
              /\ Amid(own, turns[target], turns[p]) = Amid(own, turns[p], turns[target])
          BY <2>10, <3>3, <3>5, InsideIs
        <5> QED
          BY <2>18, <3>1, <5>1
      <4>2. p \in start..end <=> target - p - 1 < context
        BY <2>10, <2>11, <2>13, <3>3
      <4> QED
        BY <2>17, <3>1, <4>1, <4>2
    <3>4. CASE target < p
      <4>1. Cardinality(Amid(own, t, r)) = p - target - 1
        <5>1. Cardinality(Amid(own, turns[target], turns[p])) = p - target - 1
          BY <2>10, <3>4, <3>5, InsideIs
        <5> QED
          BY <2>18, <3>1, <5>1
      <4>2. p \in start..end <=> p - target - 1 < context
        BY <2>10, <2>12, <2>13, <3>4
      <4> QED
        BY <2>17, <3>1, <4>1, <4>2
    <3> QED
      BY <2>10, <3>2, <3>3, <3>4
  <2>22. window # << >>
    BY <2>19 DEF ToSet
  <2>23. ToSet(window) \subseteq own
    BY <1>8, <2>10, <2>13, <2>16
  <2> QED
    BY <1>10, <1>12, <2>19, <2>20, <2>21, <2>22, <2>23 DEF Surrounds
<1> QED
  BY <1>11, <1>12

(* A window of a session is exact.                                         *)
LEMMA WindowHolds ==
  ASSUME NEW q, WindowQuery(q)
  PROVE  WindowExact(q, TurnsOrError(q))
<1>1. PICK rows : rows = q.rows /\ KeyedRows(rows)
  BY DEF WindowQuery
<1>2. q.index \in Nat /\ q.context \in Nat
  BY DEF WindowQuery
<1>3. \A r, s \in {x \in ToSet(rows) : ~x.passage} :
        r.session = s.session /\ r.index = s.index => r = s
  BY <1>1 DEF WindowQuery
<1> DEFINE Own(session) == {r \in ToSet(rows) : r.session = session /\ ~r.passage}
<1>4. ASSUME NEW session
      PROVE  Surrounds(GetTurns(rows, session, q.index, q.context), Own(session), q.index, q.context)
  <2>1. \A r, s \in Own(session) : r.index = s.index => r = s
    BY <1>3
  <2> QED
    BY <1>1, <1>2, <2>1, TurnsAround
<1>5. PICK exact : exact = GetTurns(rows, q.id, q.index, q.context)
  OBVIOUS
<1>6. PICK matches : matches = SessionsWithPrefix(rows, q.prefix)
  OBVIOUS
<1>7. PICK one : one = CHOOSE s \in matches : TRUE
  OBVIOUS
<1>8. PICK other : other = GetTurns(rows, one, q.index, q.context)
  OBVIOUS
<1>9. PICK window : window = TurnsOrError(q)
  OBVIOUS
<1>10. window = IF exact # << >> THEN exact ELSE IF Cardinality(matches) = 1 THEN other ELSE << >>
  BY <1>1, <1>5, <1>6, <1>7, <1>8, <1>9 DEF TurnsOrError
<1>11. PICK there : there = {r.session : r \in {x \in ToSet(rows) : ~x.passage}}
  OBVIOUS
<1>12. PICK sessions : sessions = {r.session : r \in ToSet(window)}
  OBVIOUS
<1>13. \A session : Own(session) # {} <=> session \in there
  BY <1>11
<1>14. Surrounds(exact, Own(q.id), q.index, q.context)
  BY <1>4, <1>5
<1>15. exact # << >> <=> q.id \in there
  BY <1>13, <1>14 DEF Surrounds
<1>16. IsFiniteSet(matches) /\ q.prefix \cap there \subseteq matches /\ matches \subseteq q.prefix
  <2>1. PICK some : some = {x \in ToSet(rows) : x.session \in q.prefix}
    OBVIOUS
  <2>2. IsFiniteSet(some)
    BY <1>1, <2>1, KeyedAre, FS_Subset DEF KeyedFacts
  <2>3. PICK f : f = [r \in some |-> r.session]
    OBVIOUS
  <2>4. matches = {f[r] : r \in some}
    BY <1>6, <2>1, <2>3 DEF SessionsWithPrefix
  <2>5. IsFiniteSet(matches)
    BY <2>2, <2>4, Images DEF Imaged
  <2>6. matches = {r.session : r \in some}
    BY <2>3, <2>4
  <2> QED
    BY <1>11, <2>1, <2>5, <2>6
<1>17. Cardinality(matches) = 1 => one \in q.prefix
  <2>1. ASSUME Cardinality(matches) = 1 PROVE matches # {}
    BY <2>1, FS_EmptySet
  <2> QED
    BY <1>7, <1>16, <2>1
<1>18. Cardinality(q.prefix \cap there) > 1 => Cardinality(matches) # 1
  <2>1. PICK some : some = q.prefix \cap there
    OBVIOUS
  <2>2. some \in SUBSET matches
    BY <1>16, <2>1
  <2>3. Cardinality(some) <= Cardinality(matches) /\ Cardinality(some) \in Nat
        /\ Cardinality(matches) \in Nat
    BY <1>16, <2>2, FS_Subset, FS_CardinalityType
  <2> QED
    BY <2>1, <2>3
(* The window is one of the session that is shown, or empty.               *)
<1>19. ASSUME window # << >>
       PROVE  \E s \in {q.id} \cup q.prefix :
                 /\ Surrounds(window, Own(s), q.index, q.context) /\ Own(s) # {}
                 /\ q.id \in there => s = q.id
                 /\ q.id \in there \/ ~(Cardinality(q.prefix \cap there) > 1)
  <2>1. CASE exact # << >>
    <3>1. window = exact /\ q.id \in there /\ Own(q.id) # {}
      BY <1>10, <1>13, <1>15, <2>1
    <3> HIDE DEF Own
    <3> QED
      BY <1>14, <3>1
  <2>2. CASE exact = << >>
    <3>1. Cardinality(matches) = 1 /\ window = other /\ q.id \notin there
      BY <1>10, <1>15, <1>19, <2>2
    <3>2. Surrounds(window, Own(one), q.index, q.context)
      BY <1>4, <1>8, <3>1
    <3>3. Own(one) # {}
      BY <1>19, <3>2 DEF Surrounds
    <3> HIDE DEF Own
    <3> QED
      BY <1>17, <1>18, <3>1, <3>2, <3>3
  <2> QED
    BY <2>1, <2>2
<1>20. CASE window = << >>
  <2>1. ToSet(window) = {} /\ sessions = {}
    BY <1>12, <1>20 DEF ToSet
  <2>2. Cardinality(sessions) <= 1
    BY <2>1, FS_EmptySet
  <2>3. q.id \notin there
    BY <1>10, <1>15, <1>20
  <2> QED
    BY <1>1, <1>9, <1>11, <1>12, <2>1, <2>2, <2>3 DEF WindowExact
<1>21. CASE window # << >>
  <2>1. PICK s \in {q.id} \cup q.prefix :
           /\ Surrounds(window, Own(s), q.index, q.context) /\ Own(s) # {}
           /\ q.id \in there => s = q.id
           /\ q.id \in there \/ ~(Cardinality(q.prefix \cap there) > 1)
    BY <1>19, <1>21
  <2>2. PICK own : own = Own(s)
    OBVIOUS
  <2>3. /\ ToSet(window) \subseteq own /\ own # {}
        /\ \E t \in own : /\ \A x \in own : Away(t, q.index) <= Away(x, q.index)
                          /\ t \in ToSet(window)
                          /\ \A r \in own \ {t} :
                               r \in ToSet(window) <=> Cardinality(Amid(own, t, r)) < q.context
    BY <2>1, <2>2 DEF Surrounds
  <2>4. PICK t \in own : /\ \A x \in own : Away(t, q.index) <= Away(x, q.index)
                         /\ t \in ToSet(window)
                         /\ \A r \in own \ {t} :
                              r \in ToSet(window) <=> Cardinality(Amid(own, t, r)) < q.context
    BY <2>3
  <2>5. sessions = {s}
    <3>1. \A r \in ToSet(window) : r.session = s
      BY <2>2, <2>3
    <3> QED
      BY <1>12, <2>4, <3>1
  <2>6. Cardinality(sessions) <= 1
    <3>1. Cardinality({s}) = 1
      BY FS_Singleton
    <3> QED
      BY <2>5, <3>1
  <2>7. own = {r \in ToSet(rows) : r.session \in sessions /\ ~r.passage}
    BY <2>2, <2>5
  <2> HIDE DEF Own
  <2>8. PICK close : close = {r \in own : \A x \in own : Away(r, q.index) <= Away(x, q.index)}
    OBVIOUS
  <2>9. t \in close
    BY <2>4, <2>8
  <2>10. \E u \in close : /\ u \in ToSet(window)
                          /\ \A r \in own \ {u} :
                               r \in ToSet(window) <=> Cardinality(Amid(own, u, r)) < q.context
    BY <2>4, <2>9
  <2>11. /\ Cardinality(sessions) <= 1 /\ sessions \subseteq {q.id} \cup q.prefix
         /\ q.id \in there => sessions = {q.id}
         /\ q.id \notin there /\ Cardinality(q.prefix \cap there) > 1 => sessions = {}
    BY <2>1, <2>5, <2>6
  <2> DEFINE theirs == {r.session : r \in ToSet(window)}
             present == {r.session : r \in {x \in ToSet(q.rows) : ~x.passage}}
             mine == {r \in ToSet(q.rows) : r.session \in theirs /\ ~r.passage}
             closest == {r \in mine : \A x \in mine : Away(r, q.index) <= Away(x, q.index)}
  <2>12. WindowExact(q, window)
           <=> /\ Cardinality(theirs) <= 1 /\ theirs \subseteq {q.id} \cup q.prefix
               /\ q.id \in present => theirs = {q.id}
               /\ q.id \notin present /\ Cardinality(q.prefix \cap present) > 1 => theirs = {}
               /\ theirs # {} =>
                    \E u \in closest :
                      /\ u \in ToSet(window)
                      /\ \A r \in mine \ {u} :
                           r \in ToSet(window) <=> Cardinality(Amid(mine, u, r)) < q.context
    BY DEF WindowExact, Amid
  <2>13. theirs = sessions /\ present = there
    BY <1>1, <1>11, <1>12
  <2> HIDE DEF theirs, present
  <2>14. mine = own
    BY <1>1, <2>7, <2>13
  <2> HIDE DEF mine
  <2>15. closest = close
    BY <2>8, <2>14
  <2> HIDE DEF closest
  <2> QED
    BY <1>9, <2>10, <2>11, <2>12, <2>13, <2>14, <2>15
<1> QED
  BY <1>20, <1>21

-----------------------------------------------------------------------------
ListingInv ==
  /\ input \in Given(area)
  /\ output # << >> =>
       /\ area = "listing" =>
            output[1] = RecentListing(input.scan, input.fetch, input.filter, input.n)
       /\ area = "timeline" => output[1] = Timeline(input)
       /\ area = "issue" => output[1] = SessionsByIssue(input)
       /\ area = "sessions" => output[1] = ListSessions(input)
       /\ area = "window" => output[1] = TurnsOrError(input)
       /\ area = "tail" => output[1] = SessionTurns(input)

(* The output is that of the function of the area on an input of it.       *)
LEMMA ListingInvHolds == Spec => []ListingInv
<1>1. Init => ListingInv
  <2>1. SUFFICES ASSUME Init PROVE ListingInv
    OBVIOUS
  <2>2. /\ area \in DOMAIN Inputs
        /\ \E i \in DOMAIN Inputs[area] : input \in Inputs[area][i]
    BY <2>1 DEF Init
  <2>3. input \in Given(area)
    BY <2>2 DEF Given
  <2> QED
    BY <2>1, <2>3 DEF Init, ListingInv
<1>2. ListingInv /\ [Next]_vars => ListingInv'
  <2>1. SUFFICES ASSUME ListingInv, [Next]_vars PROVE ListingInv'
    OBVIOUS
  <2>2. area' = area /\ input' = input /\ input' \in Given(area')
    BY <2>1 DEF ListingInv, Next, Call, vars
  <2>3. CASE UNCHANGED vars
    BY <2>1, <2>3 DEF ListingInv, vars
  <2>4. CASE Call("listing", RecentListing(input.scan, input.fetch, input.filter, input.n))
    BY <2>2, <2>4 DEF ListingInv, Call
  <2>5. CASE Call("timeline", Timeline(input))
    BY <2>2, <2>5 DEF ListingInv, Call
  <2>6. CASE Call("issue", SessionsByIssue(input))
    BY <2>2, <2>6 DEF ListingInv, Call
  <2>7. CASE Call("sessions", ListSessions(input))
    BY <2>2, <2>7 DEF ListingInv, Call
  <2>8. CASE Call("window", TurnsOrError(input))
    BY <2>2, <2>8 DEF ListingInv, Call
  <2>9. CASE Call("tail", SessionTurns(input))
    BY <2>2, <2>9 DEF ListingInv, Call
  <2>10. CASE area \notin {"listing", "timeline", "issue", "sessions", "window", "tail"}
    BY <2>2, <2>10 DEF ListingInv
  <2> QED
    BY <2>1, <2>3, <2>4, <2>5, <2>6, <2>7, <2>8, <2>9, <2>10 DEF Next, Call
<1> QED
  BY <1>1, <1>2, PTL DEF Spec

(* Whatever the rows and the limits are, a listing, a timeline, the        *)
(* sessions of issues, the list of sessions, a window and a tail are what  *)
(* one look at all rows gives: nothing newer or nearer is left out, and    *)
(* nothing is shown twice.                                                 *)
THEOREM ListedExactly == Spec => []ListingSound
<1>1. FtsCap \in Nat /\ ScanLimit \in Nat /\ TitleTurns \in Nat /\ WrappedChunk \in Nat \ {0}
  BY LimitsAssumption
<1>2. ListingInv => ListingSound
  <2>1. SUFFICES ASSUME ListingInv, output # << >> PROVE ListingSound
    BY DEF ListingSound, Computed
  <2>2. ASSUME area = "listing" PROVE ListingExact(input, output[1])
    <3>1. ListingQuery(input)
      BY <2>1, <2>2, ListingAssumption DEF ListingInv
    <3>2. ListingExact(input, RecentListing(input.scan, input.fetch, input.filter, input.n))
      BY <3>1, ListingHolds
    <3> QED
      BY <2>1, <2>2, <3>2 DEF ListingInv
  <2>3. ASSUME area = "timeline" PROVE TimelineExact(input, output[1])
    <3>1. TimelineQuery(input)
      BY <2>1, <2>3, ListingAssumption DEF ListingInv
    <3>2. TimelineExact(input, Timeline(input))
      BY <1>1, <3>1, TimelineHolds
    <3> QED
      BY <2>1, <2>3, <3>2 DEF ListingInv
  <2>4. ASSUME area = "issue" PROVE SessionsExact(input, output[1])
    <3>1. IssueQuery(input)
      BY <2>1, <2>4, ListingAssumption DEF ListingInv
    <3>2. SessionsExact(input, SessionsByIssue(input))
      BY <1>1, <3>1, IssueHolds
    <3> QED
      BY <2>1, <2>4, <3>2 DEF ListingInv
  <2>5. ASSUME area = "sessions" PROVE SessionPageExact(input, output[1])
    <3>1. SessionQuery(input)
      BY <2>1, <2>5, ListingAssumption DEF ListingInv
    <3>2. SessionPageExact(input, ListSessions(input))
      BY <1>1, <3>1, SessionsHold
    <3> QED
      BY <2>1, <2>5, <3>2 DEF ListingInv
  <2>6. ASSUME area = "window" PROVE WindowExact(input, output[1])
    <3>1. WindowQuery(input)
      BY <2>1, <2>6, ListingAssumption DEF ListingInv
    <3>2. WindowExact(input, TurnsOrError(input))
      BY <3>1, WindowHolds
    <3> QED
      BY <2>1, <2>6, <3>2 DEF ListingInv
  <2>7. ASSUME area = "tail" PROVE TailExact(input, output[1])
    <3>1. TailQuery(input)
      BY <2>1, <2>7, ListingAssumption DEF ListingInv
    <3>2. TailExact(input, SessionTurns(input))
      BY <3>1, TailHolds
    <3> QED
      BY <2>1, <2>7, <3>2 DEF ListingInv
  <2> QED
    BY <2>2, <2>3, <2>4, <2>5, <2>6, <2>7 DEF ListingSound, Computed
<1> QED
  BY <1>2, ListingInvHolds, PTL
=============================================================================
