----------------------------- MODULE SourceProofs -----------------------------
(***************************************************************************)
(* The functions of TranscriptParse, TurnText, ProviderReading and         *)
(* ProviderDiscovery on every input: a parse finds each turn as the whole  *)
(* transcript has it, what redact masks is what the audit reports while no *)
(* secret holds a placeholder, stripping keeps all words, passages cover a *)
(* turn, whole units are stored; a session has one source, with a root of  *)
(* its own; and a source that grew is read as one visit to its last state  *)
(* would read it.  Also those of TurnListing, for any rows and limits.     *)
(***************************************************************************)
EXTENDS ProviderReading, ProviderDiscovery, TurnText, SessionListing,
        FiniteSetTheorems, SequenceTheorems, WellFoundedInduction, TLAPS

(* A set of numbers has a least one.                                       *)
LEMMA Least ==
  ASSUME NEW S \in SUBSET Nat, S # {}
  PROVE  \E n \in S : \A k \in S : n <= k
<1> DEFINE less == OpToRel(<, Nat)
<1>1. IsWellFoundedOn(less, Nat)
  BY NatLessThanWellFounded
<1>2. \A k, n \in Nat : k < n => <<k, n>> \in less
  BY DEF OpToRel
<1> HIDE DEF less
<1>3. PICK n \in S : \A k \in S : <<k, n>> \notin less
  BY <1>1, WFMin
<1>4. \A k \in S : ~(k < n)
  BY <1>2, <1>3
<1> QED
  BY <1>4

(* R is a strict total order on S.                                         *)
Orders(R, S) ==
  /\ \A x \in S : <<x, x>> \notin R
  /\ \A x, y \in S : x # y => <<x, y>> \in R \/ <<y, x>> \in R
  /\ \A x, y, z \in S : <<x, y>> \in R /\ <<y, z>> \in R => <<x, z>> \in R

(* A finite set has a first element in a strict total order.               *)
LEMMA FirstOne ==
  ASSUME NEW S, IsFiniteSet(S), S # {}, NEW R, Orders(R, S)
  PROVE  \E x \in S : \A y \in S \ {x} : <<x, y>> \in R
<1> DEFINE ahead(x) == {y \in S : <<y, x>> \in R}
           counts == {Cardinality(ahead(x)) : x \in S}
<1>1. \A x \in S : IsFiniteSet(ahead(x)) /\ Cardinality(ahead(x)) \in Nat
  <2>1. \A x \in S : ahead(x) \in SUBSET S
    OBVIOUS
  <2> HIDE DEF ahead
  <2> QED
    BY <2>1, FS_Subset, FS_CardinalityType
<1> HIDE DEF ahead
<1>2. counts # {} /\ counts \in SUBSET Nat
  BY <1>1
<1>3. PICK n \in counts : \A k \in counts : n <= k
  <2> HIDE DEF counts
  <2> QED
    BY <1>2, Least
<1>4. PICK x \in S : \A y \in S : Cardinality(ahead(x)) <= Cardinality(ahead(y))
  BY <1>3
<1>5. ASSUME NEW y \in S \ {x}, <<x, y>> \notin R PROVE FALSE
  <2>1. y \in ahead(x)
    BY <1>5 DEF ahead, Orders
  <2>2. ahead(y) \subseteq ahead(x) \ {y}
    BY <2>1 DEF ahead, Orders
  <2>3. Cardinality(ahead(y)) <= Cardinality(ahead(x) \ {y})
    <3>1. IsFiniteSet(ahead(x) \ {y})
      BY <1>1, FS_RemoveElement
    <3> QED
      BY <2>2, <3>1, FS_Subset
  <2>4. Cardinality(ahead(x) \ {y}) = Cardinality(ahead(x)) - 1
    <3> QED
      BY <2>1, <1>1, FS_RemoveElement
  <2> QED
    BY <2>3, <2>4, <1>1, <1>4
<1> QED
  BY <1>4, <1>5

(* Of a finite set of numbers, Max is the greatest.                        *)
LEMMA MaxHeld ==
  ASSUME NEW nums \in SUBSET Nat, IsFiniteSet(nums), nums # {}
  PROVE  Max(nums) \in nums /\ \A n \in nums : n <= Max(nums)
<1> DEFINE R == {p \in nums \X nums : p[1] > p[2]}
           S == nums
<1>1. \A x, y \in nums : <<x, y>> \in R <=> x > y
  OBVIOUS
<1>2. \E x \in nums : \A y \in nums \ {x} : <<x, y>> \in R
  <2>1. Orders(R, nums)
    <3> HIDE DEF R
    <3> QED
      BY <1>1 DEF Orders
  <2>2. IsFiniteSet(S) /\ S # {} /\ Orders(R, S)
    BY <2>1
  <2> HIDE DEF R, S
  <2>3. \E x \in S : \A y \in S \ {x} : <<x, y>> \in R
    BY <2>2, FirstOne
  <2> QED
    BY <2>3 DEF S
<1>3. PICK x \in nums : \A y \in nums \ {x} : <<x, y>> \in R
  <2> HIDE DEF R
  <2> QED
    BY <1>2, Zenon
<1>4. \A y \in nums \ {x} : x > y
  BY <1>1, <1>3, Zenon
<1>5. \A y \in nums : x >= y
  BY <1>4
<1>6. Max(nums) \in nums /\ \A n \in nums : Max(nums) >= n
  BY <1>5, Zenon DEF Max
<1> QED
  BY <1>6

(* Of a set of numbers, Min is the least.                                  *)
LEMMA MinHeld ==
  ASSUME NEW nums \in SUBSET Nat, nums # {}
  PROVE  Min(nums) \in nums /\ \A n \in nums : Min(nums) <= n
<1>1. \E n \in nums : \A k \in nums : n <= k
  BY Least
<1> QED
  BY <1>1, Zenon DEF Min

(* What holds at 0, and at a number when it does at the one before, holds. *)
LEMMA Induction ==
  ASSUME NEW n \in Nat, NEW good, 0 \in good, \A i \in 1..n : i - 1 \in good => i \in good
  PROVE  \A i \in 0..n : i \in good
<1> DEFINE bad == (0..n) \ good
<1>1. SUFFICES ASSUME bad # {} PROVE FALSE
  OBVIOUS
<1>2. bad \in SUBSET Nat
  OBVIOUS
<1>3. PICK m \in bad : \A k \in bad : m <= k
  <2> HIDE DEF bad
  <2> QED
    BY <1>1, <1>2, Least
<1>4. m \in 1..n
  OBVIOUS
<1>5. m - 1 \notin bad
  <2> HIDE DEF bad
  <2> QED
    BY <1>2, <1>3, <1>4
<1>6. m - 1 \in 0..n
  BY <1>4
<1> QED
  BY <1>4, <1>5, <1>6

(* A recursion, given by its step as a function, has a solution.           *)
Iteration(State, start, n, step) ==
  \E f \in [0..n -> State] : f[0] = start /\ \A i \in 1..n : f[i] = step[i][f[i - 1]]

LEMMA Iterates ==
  ASSUME NEW State, NEW start \in State, NEW n \in Nat, NEW step \in [1..n -> [State -> State]]
  PROVE  Iteration(State, start, n, step)
<1> DEFINE Upto(f, m) == f[0] = start /\ \A i \in 1..m : f[i] = step[i][f[i - 1]]
           good == {m \in 0..n : \E f \in [0..n -> State] : Upto(f, m)}
<1>1. 0 \in good
  <2>1. Upto([i \in 0..n |-> start], 0)
    OBVIOUS
  <2>2. [i \in 0..n |-> start] \in [0..n -> State]
    OBVIOUS
  <2> HIDE DEF Upto
  <2> QED
    BY <2>1, <2>2
<1>2. ASSUME NEW m \in 1..n, m - 1 \in good PROVE m \in good
  <2>1. PICK f \in [0..n -> State] : Upto(f, m - 1)
    BY <1>2
  <2> DEFINE g == [f EXCEPT ![m] = step[m][f[m - 1]]]
  <2>2. m - 1 \in 0..n /\ m \in 0..n /\ f[m - 1] \in State
    OBVIOUS
  <2>3. g \in [0..n -> State]
    BY <2>2
  <2>4. \A i \in 0..n : i # m => g[i] = f[i]
    OBVIOUS
  <2>5. g[m] = step[m][f[m - 1]]
    BY <2>2
  <2> HIDE DEF g
  <2>6. \A i \in 1..m : i \in 0..n /\ i - 1 \in 0..n /\ i - 1 # m
    OBVIOUS
  <2>7. ASSUME NEW i \in 1..m PROVE g[i] = step[i][g[i - 1]]
    <3>1. g[i - 1] = f[i - 1]
      BY <2>4, <2>6
    <3>2. CASE i = m
      BY <2>5, <3>1, <3>2
    <3>3. CASE i # m
      <4>1. i \in 1..(m - 1) /\ i \in 0..n
        BY <3>3
      <4> QED
        BY <2>1, <2>4, <3>1, <3>3, <4>1
    <3> QED
      BY <3>2, <3>3
  <2>8. g[0] = start
    BY <2>1, <2>4
  <2> QED
    BY <2>3, <2>7, <2>8
<1>3. n \in good
  <2> HIDE DEF good
  <2>1. \A m \in 1..n : m - 1 \in good => m \in good
    BY <1>2
  <2>2. n \in 0..n
    OBVIOUS
  <2>3. \A m \in 0..n : m \in good
    BY <1>1, <2>1, Induction
  <2> QED
    BY <2>2, <2>3
<1> QED
  BY <1>3 DEF Iteration

(* So has one over the subsets of a finite set.                            *)
Picks(S, last) == \A T \in SUBSET S : T # {} => last[T] \in T

Passes(S, last, good) ==
  {} \in good /\ \A T \in SUBSET S : T # {} /\ T \ {last[T]} \in good => T \in good

LEMMA SetInduction ==
  ASSUME NEW S, IsFiniteSet(S), NEW last, Picks(S, last), NEW good, Passes(S, last, good)
  PROVE  SUBSET S \subseteq good
<1> USE DEF Picks, Passes
<1> DEFINE bad == {T \in SUBSET S : T \notin good}
           sizes == {Cardinality(T) : T \in bad}
<1>1. SUFFICES ASSUME bad # {} PROVE FALSE
  OBVIOUS
<1>2. \A T \in SUBSET S : IsFiniteSet(T) /\ Cardinality(T) \in Nat
  BY FS_Subset, FS_CardinalityType
<1>3. sizes \in SUBSET Nat /\ sizes # {}
  BY <1>1, <1>2
<1>4. PICK n \in sizes : \A k \in sizes : n <= k
  <2> HIDE DEF sizes
  <2> QED
    BY <1>3, Least
<1>5. PICK T \in bad : \A U \in bad : Cardinality(T) <= Cardinality(U)
  BY <1>4
<1>6. T # {} /\ T \in SUBSET S
  OBVIOUS
<1>7. Cardinality(T \ {last[T]}) = Cardinality(T) - 1
  BY <1>2, <1>6, FS_RemoveElement
<1>8. T \ {last[T]} \notin bad
  <2> HIDE DEF bad
  <2> QED
    BY <1>2, <1>5, <1>6, <1>7
<1> QED
  BY <1>6, <1>8

SetIteration(S, last, State, start, step) ==
  \E f \in [SUBSET S -> State] :
    f[{}] = start /\ \A T \in SUBSET S : T # {} => f[T] = step[last[T]][f[T \ {last[T]}]]

LEMMA SetIterates ==
  ASSUME NEW S, IsFiniteSet(S), NEW last, Picks(S, last), NEW State, NEW start \in State, NEW step \in [S -> [State -> State]]
  PROVE  SetIteration(S, last, State, start, step)
<1> USE DEF Picks
<1> DEFINE Step(f, T) == step[last[T]][f[T \ {last[T]}]]
           Upto(f, m) == /\ f[{}] = start
                         /\ \A T \in SUBSET S : T # {} /\ Cardinality(T) <= m => f[T] = Step(f, T)
           n == Cardinality(S)
           good == {m \in 0..n : \E f \in [SUBSET S -> State] : Upto(f, m)}
<1>1. \A T \in SUBSET S : /\ IsFiniteSet(T) /\ Cardinality(T) \in Nat /\ Cardinality(T) <= n
                          /\ T # {} => /\ Cardinality(T) > 0 /\ T \ {last[T]} \in SUBSET S
                                       /\ last[T] \in S
                                       /\ Cardinality(T \ {last[T]}) = Cardinality(T) - 1
  <2>1. SUFFICES ASSUME NEW T \in SUBSET S
                 PROVE  /\ IsFiniteSet(T) /\ Cardinality(T) \in Nat /\ Cardinality(T) <= n
                        /\ T # {} => /\ Cardinality(T) > 0 /\ T \ {last[T]} \in SUBSET S
                                     /\ last[T] \in S
                                     /\ Cardinality(T \ {last[T]}) = Cardinality(T) - 1
    OBVIOUS
  <2>2. IsFiniteSet(T) /\ Cardinality(T) \in Nat /\ Cardinality(T) <= n
    BY FS_Subset, FS_CardinalityType
  <2>3. T # {} => Cardinality(T) # 0
    BY <2>2, FS_EmptySet
  <2>4. T # {} => Cardinality(T \ {last[T]}) = Cardinality(T) - 1
    BY <2>2, FS_RemoveElement
  <2> QED
    BY <2>2, <2>3, <2>4
<1>2. n \in Nat
  BY FS_CardinalityType
<1> HIDE DEF n
<1>3. 0 \in good
  <2>1. ASSUME NEW T \in SUBSET S, T # {} PROVE ~(Cardinality(T) <= 0)
    <3>1. Cardinality(T) \in Nat /\ Cardinality(T) > 0
      BY <1>1, <2>1
    <3> QED
      BY <3>1
  <2>2. Upto([T \in SUBSET S |-> start], 0)
    BY <2>1
  <2>3. [T \in SUBSET S |-> start] \in [SUBSET S -> State]
    OBVIOUS
  <2>4. 0 \in 0..n
    BY <1>2
  <2> HIDE DEF Upto
  <2>5. \E f \in [SUBSET S -> State] : Upto(f, 0)
    BY <2>2, <2>3, Zenon
  <2> QED
    BY <2>4, <2>5
<1>4. ASSUME NEW m \in 1..n, m - 1 \in good PROVE m \in good
  <2>1. PICK f \in [SUBSET S -> State] : Upto(f, m - 1)
    BY <1>4
  <2> DEFINE g == [T \in SUBSET S |-> IF T = {} THEN start ELSE Step(f, T)]
  <2>2. g[{}] = start /\ \A T \in SUBSET S : T # {} => g[T] = Step(f, T)
    OBVIOUS
  <2>3. \A T \in SUBSET S : T # {} => Step(f, T) \in State
    <3>1. SUFFICES ASSUME NEW T \in SUBSET S, T # {} PROVE Step(f, T) \in State
      OBVIOUS
    <3>2. T \ {last[T]} \in SUBSET S /\ last[T] \in S
      BY <1>1, <3>1
    <3>3. f[T \ {last[T]}] \in State
      BY <3>2
    <3>4. step[last[T]] \in [State -> State]
      BY <3>2
    <3> QED
      BY <3>3, <3>4
  <2>4. g \in [SUBSET S -> State]
    BY <2>3
  <2> HIDE DEF g
  <2>5. \A T \in SUBSET S : Cardinality(T) <= m - 1 => g[T] = f[T]
    BY <2>1, <2>2
  <2>6. \A T \in SUBSET S : T # {} /\ Cardinality(T) <= m => g[T] = Step(g, T)
    <3>1. SUFFICES ASSUME NEW T \in SUBSET S, T # {}, Cardinality(T) <= m PROVE g[T] = Step(g, T)
      OBVIOUS
    <3>2. T \ {last[T]} \in SUBSET S /\ Cardinality(T \ {last[T]}) = Cardinality(T) - 1
          /\ Cardinality(T) \in Nat
      BY <1>1, <3>1
    <3>3. g[T \ {last[T]}] = f[T \ {last[T]}]
      BY <2>5, <3>1, <3>2
    <3> QED
      BY <2>2, <3>1, <3>3
  <2>7. Upto(g, m)
    BY <2>2, <2>6
  <2>8. m \in 0..n
    BY <1>2
  <2> HIDE DEF Upto
  <2> QED
    BY <2>4, <2>7, <2>8
<1>5. n \in good
  <2> HIDE DEF good
  <2> QED
    BY <1>2, <1>3, <1>4, Induction
<1>6. PICK f \in [SUBSET S -> State] : Upto(f, n)
  BY <1>5
<1> QED
  BY <1>1, <1>6 DEF SetIteration

-----------------------------------------------------------------------------
(* What the parse of a transcript returns, for every transcript and every  *)
(* offset: the turns that start there or later, each in the version that a *)
(* reading of the whole file gives (ParseMeans), and an offset no turn of  *)
(* which can still grow (Closed).                                          *)
(*                                                                         *)
(* The parse is a recursive function of the line number.  Its value is     *)
(* given in closed form (ReadTo), which satisfies the recursion and so is  *)
(* the value at the first line at which it could differ.                   *)

(* Turns, without recursion.                                               *)

Users == {"user", "brief", "noise"}
Breaks == Users \cup {"summary"}

(* The replies to line u among the first i lines.                          *)
RepliesTo(ls, u, i) ==
  {k \in (u + 1)..i : ls[k] = "reply" /\ \A j \in (u + 1)..k : ls[j] \notin Breaks}

(* A turn of the transcript as it may have been read earlier.              *)
Version(ls, t) ==
  /\ t \in Turn /\ t.at < Len(ls)
  /\ \/ t.kind = "summary" /\ ls[t.at + 1] = "summary" /\ t.replies = {}
     \/ /\ t.kind = "turn" /\ ls[t.at + 1] \in Users
        /\ t.replies \subseteq RepliesTo(ls, t.at + 1, Len(ls))

(* A turn of the transcript as it is read now.                             *)
Latest(ls, t) ==
  /\ Version(ls, t)
  /\ t.kind = "turn" => /\ t.replies = RepliesTo(ls, t.at + 1, Len(ls))
                        /\ ls[t.at + 1] = "brief" => t.replies # {}

(* No turn that starts before p can still grow.                            *)
Closed(ls, p) ==
  /\ p \in 0..Len(ls)
  /\ \/ p < Len(ls) /\ ls[p + 1] \in Breaks
     \/ \A u \in 1..p : ls[u] \in Users => \E e \in (u + 1)..p : ls[e] \in Breaks

-----------------------------------------------------------------------------
(* The state of the parse that started at an offset, before line i + 1.    *)

IsOpen(ls, start, u, i) ==
  u \in (start + 1)..i /\ ls[u] \in Users /\ \A j \in (u + 1)..i : ls[j] \notin Breaks

(* A turn that is complete: a summary, or one that another line follows    *)
(* which starts a turn.                                                    *)
Past(ls, t, i) ==
  \/ t.kind = "summary" /\ ls[t.at + 1] = "summary" /\ t.replies = {}
  \/ /\ t.kind = "turn" /\ ls[t.at + 1] \in Users
     /\ \E e \in (t.at + 2)..i : ls[e] \in Breaks
     /\ t.replies = RepliesTo(ls, t.at + 1, i)
     /\ ls[t.at + 1] = "brief" => t.replies # {}

OpenAt(ls, start, i) ==
  IF \E u \in (start + 1)..i : IsOpen(ls, start, u, i)
  THEN CHOOSE u \in (start + 1)..i : IsOpen(ls, start, u, i) ELSE 0

ReadTo(ls, start, i) ==
  [turns |-> {t \in Turn : start <= t.at /\ t.at < i /\ Past(ls, t, i)},
   user |-> OpenAt(ls, start, i),
   replies |-> {k \in (start + 1)..i : ls[k] = "reply" /\ \A j \in k..i : ls[j] \notin Breaks}]

(* At most one turn is open, the last that started.                        *)
LEMMA OpenUser ==
  ASSUME NEW ls \in Seq(LineKind), NEW start \in Nat, NEW i \in start..Len(ls)
  PROVE  LET u == OpenAt(ls, start, i)
         IN  /\ u = 0 => \A v \in (start + 1)..i : ~IsOpen(ls, start, v, i)
             /\ u # 0 => IsOpen(ls, start, u, i) /\ u \in (start + 1)..i
             /\ \A v \in (start + 1)..i : IsOpen(ls, start, v, i) => u = v
<1> DEFINE u == OpenAt(ls, start, i)
<1>1. CASE \E v \in (start + 1)..i : IsOpen(ls, start, v, i)
  <2>1. u \in (start + 1)..i /\ IsOpen(ls, start, u, i)
    BY <1>1 DEF OpenAt
  <2>2. ASSUME NEW v \in (start + 1)..i, IsOpen(ls, start, v, i) PROVE u = v
    BY <2>1, <2>2 DEF IsOpen, Breaks
  <2>3. QED
    BY <2>1, <2>2
<1>2. CASE ~\E v \in (start + 1)..i : IsOpen(ls, start, v, i)
  BY <1>2 DEF OpenAt
<1>3. QED
  BY <1>1, <1>2

(* What is built of the open turn.                                         *)
LEMMA BuiltIs ==
  ASSUME NEW ls \in Seq(LineKind), NEW start \in Nat, NEW i \in start..Len(ls), NEW t
  PROVE  t \in Built(ls, ReadTo(ls, start, i)) <=>
           /\ t \in Turn /\ t.kind = "turn" /\ t.at + 1 = OpenAt(ls, start, i)
           /\ IsOpen(ls, start, t.at + 1, i)
           /\ t.replies = RepliesTo(ls, t.at + 1, i)
           /\ ls[t.at + 1] = "brief" => t.replies # {}
<1> DEFINE u == OpenAt(ls, start, i)
           loose == {k \in (start + 1)..i : ls[k] = "reply" /\ \A j \in k..i : ls[j] \notin Breaks}
<1>1. /\ ReadTo(ls, start, i).user = u /\ ReadTo(ls, start, i).replies = loose
  BY DEF ReadTo
<1>2. CASE u = 0
  <2>1. Built(ls, ReadTo(ls, start, i)) = {}
    BY <1>1, <1>2 DEF Built
  <2>2. t \in Turn => t.at \in Nat
    BY DEF Turn
  <2>3. QED
    BY <1>2, <2>1, <2>2
<1>3. CASE u # 0
  <2>1. IsOpen(ls, start, u, i) /\ u \in (start + 1)..i
    BY <1>3, OpenUser
  <2>2. loose = RepliesTo(ls, u, i)
    <3>1. ls[u] \in Breaks
      BY <2>1 DEF IsOpen, Breaks
    <3>2. \A k \in loose : k \in RepliesTo(ls, u, i)
      BY <2>1, <3>1 DEF RepliesTo, IsOpen
    <3>3. \A k \in RepliesTo(ls, u, i) : k \in loose
      BY <2>1 DEF RepliesTo, IsOpen
    <3>4. QED
      BY <3>2, <3>3
  <2>3. [kind |-> "turn", at |-> u - 1, replies |-> loose] \in Turn
    <3>1. u - 1 \in Nat
      BY <2>1
    <3>2. loose \in SUBSET (Nat \ {0})
      OBVIOUS
    <3>3. QED
      BY <3>1, <3>2 DEF Turn
  <2>4. Built(ls, ReadTo(ls, start, i)) =
          IF ls[u] = "brief" /\ loose = {} THEN {}
          ELSE {[kind |-> "turn", at |-> u - 1, replies |-> loose]}
    BY <1>1, <1>3 DEF Built
  <2> HIDE DEF u, loose
  <2>5. ASSUME t \in Built(ls, ReadTo(ls, start, i))
        PROVE  /\ t \in Turn /\ t.kind = "turn" /\ t.at + 1 = u
               /\ t.replies = loose /\ (ls[u] = "brief" => t.replies # {})
    <3>1. t = [kind |-> "turn", at |-> u - 1, replies |-> loose] /\ ~(ls[u] = "brief" /\ loose = {})
      BY <2>4, <2>5
    <3>2. t.at + 1 = u
      BY <3>1, <2>1
    <3>3. QED
      BY <3>1, <3>2, <2>3
  <2>6. ASSUME t \in Turn, t.kind = "turn", t.at + 1 = u, t.replies = loose,
               ls[u] = "brief" => t.replies # {}
        PROVE  t \in Built(ls, ReadTo(ls, start, i))
    <3>1. t = [kind |-> t.kind, at |-> t.at, replies |-> t.replies] /\ t.at \in Nat
      BY <2>6 DEF Turn
    <3>2. t = [kind |-> "turn", at |-> u - 1, replies |-> loose]
      BY <2>6, <3>1, <2>1
    <3>3. QED
      BY <2>4, <2>6, <3>2
  <2>7. QED
    BY <2>1, <2>2, <2>5, <2>6 DEF u
<1>4. QED
  BY <1>2, <1>3

-----------------------------------------------------------------------------
(* The closed form satisfies the recursion.                                *)

(* A reading begins with nothing found.                                    *)
LEMMA ReadStart ==
  ASSUME NEW ls \in Seq(LineKind), NEW start \in Nat
  PROVE  ReadTo(ls, start, start) = Nothing
<1>1. {t \in Turn : start <= t.at /\ t.at < start /\ Past(ls, t, start)} = {}
  BY DEF Turn
<1>2. OpenAt(ls, start, start) = 0
  BY DEF OpenAt
<1>3. {k \in (start + 1)..start : ls[k] = "reply" /\ \A j \in k..start : ls[j] \notin Breaks} = {}
  OBVIOUS
<1>4. QED
  BY <1>1, <1>2, <1>3 DEF ReadTo, Nothing

(* A turn that is complete stays as it is.                                 *)
LEMMA PastStays ==
  ASSUME NEW ls \in Seq(LineKind), NEW i \in 1..Len(ls), NEW t \in Turn, t.at < i - 1
  PROVE  /\ Past(ls, t, i - 1) => Past(ls, t, i)
         /\ ls[i] \notin Breaks /\ Past(ls, t, i) => Past(ls, t, i - 1)
<1>1. t.at \in Nat
  BY DEF Turn
<1>2. ASSUME NEW e \in (t.at + 2)..(i - 1), ls[e] \in Breaks
      PROVE  RepliesTo(ls, t.at + 1, i - 1) = RepliesTo(ls, t.at + 1, i)
  <2>1. ASSUME NEW k \in RepliesTo(ls, t.at + 1, i) PROVE k \in RepliesTo(ls, t.at + 1, i - 1)
    <3>1. k \in (t.at + 2)..i /\ ls[k] = "reply" /\ \A j \in (t.at + 2)..k : ls[j] \notin Breaks
      BY <1>1, <2>1 DEF RepliesTo
    <3>2. k # i
      BY <1>1, <1>2, <3>1
    <3>3. QED
      BY <1>1, <3>1, <3>2 DEF RepliesTo
  <2>2. ASSUME NEW k \in RepliesTo(ls, t.at + 1, i - 1) PROVE k \in RepliesTo(ls, t.at + 1, i)
    BY <1>1, <2>2 DEF RepliesTo
  <2>3. QED
    BY <2>1, <2>2
<1>3. Past(ls, t, i - 1) => Past(ls, t, i)
  BY <1>1, <1>2 DEF Past
<1>4. ASSUME ls[i] \notin Breaks, NEW e \in (t.at + 2)..i, ls[e] \in Breaks
      PROVE  e \in (t.at + 2)..(i - 1)
  BY <1>1, <1>4
<1>5. ls[i] \notin Breaks /\ Past(ls, t, i) => Past(ls, t, i - 1)
  BY <1>1, <1>2, <1>4 DEF Past
<1>6. QED
  BY <1>3, <1>5

(* The open turn is the one that line i completes.                         *)
LEMMA PastBegins ==
  ASSUME NEW ls \in Seq(LineKind), NEW start \in Nat, NEW i \in (start + 1)..Len(ls),
         ls[i] \in Breaks, NEW t \in Turn, start <= t.at, t.at < i - 1
  PROVE  Past(ls, t, i) <=>
           Past(ls, t, i - 1) \/ t \in Built(ls, ReadTo(ls, start, i - 1))
<1>1. t.at \in Nat /\ i - 1 \in start..Len(ls) /\ i \in 1..Len(ls)
  BY DEF Turn
<1>2. Past(ls, t, i - 1) => Past(ls, t, i)
  BY <1>1, PastStays
<1>3. ASSUME NEW u \in (start + 1)..(i - 1), u = t.at + 1, \A j \in (u + 1)..(i - 1) : ls[j] \notin Breaks
      PROVE  RepliesTo(ls, t.at + 1, i - 1) = RepliesTo(ls, t.at + 1, i)
  <2>1. ls[i] # "reply"
    BY DEF Breaks, Users
  <2>2. QED
    BY <1>1, <2>1 DEF RepliesTo
<1>4. ASSUME t \in Built(ls, ReadTo(ls, start, i - 1)) PROVE Past(ls, t, i)
  <2>1. /\ t.kind = "turn" /\ IsOpen(ls, start, t.at + 1, i - 1)
        /\ t.replies = RepliesTo(ls, t.at + 1, i - 1) /\ (ls[t.at + 1] = "brief" => t.replies # {})
    BY <1>1, <1>4, BuiltIs
  <2>2. RepliesTo(ls, t.at + 1, i - 1) = RepliesTo(ls, t.at + 1, i)
    BY <1>1, <1>3, <2>1 DEF IsOpen
  <2>3. i \in (t.at + 2)..i /\ ls[t.at + 1] \in Users
    BY <1>1, <2>1 DEF IsOpen
  <2>4. QED
    BY <2>1, <2>2, <2>3 DEF Past
<1>5. ASSUME Past(ls, t, i), ~Past(ls, t, i - 1) PROVE t \in Built(ls, ReadTo(ls, start, i - 1))
  <2>1. /\ t.kind = "turn" /\ ls[t.at + 1] \in Users /\ t.replies = RepliesTo(ls, t.at + 1, i)
        /\ (ls[t.at + 1] = "brief" => t.replies # {})
    BY <1>5 DEF Past
  <2>2. ASSUME NEW e \in (t.at + 2)..(i - 1), ls[e] \in Breaks PROVE FALSE
    <3>1. RepliesTo(ls, t.at + 1, i - 1) = RepliesTo(ls, t.at + 1, i)
      <4>1. ASSUME NEW k \in RepliesTo(ls, t.at + 1, i) PROVE k \in RepliesTo(ls, t.at + 1, i - 1)
        <5>1. k \in (t.at + 2)..i /\ ls[k] = "reply" /\ \A j \in (t.at + 2)..k : ls[j] \notin Breaks
          BY <1>1, <4>1 DEF RepliesTo
        <5>2. k # i
          BY <1>1, <2>2, <5>1
        <5>3. QED
          BY <1>1, <5>1, <5>2 DEF RepliesTo
      <4>2. ASSUME NEW k \in RepliesTo(ls, t.at + 1, i - 1) PROVE k \in RepliesTo(ls, t.at + 1, i)
        BY <1>1, <4>2 DEF RepliesTo
      <4>3. QED
        BY <4>1, <4>2
    <3>2. Past(ls, t, i - 1)
      BY <2>1, <2>2, <3>1 DEF Past
    <3>3. QED
      BY <1>5, <3>2
  <2>3. t.at + 1 \in (start + 1)..(i - 1) /\ IsOpen(ls, start, t.at + 1, i - 1)
    BY <1>1, <2>1, <2>2 DEF IsOpen
  <2>4. OpenAt(ls, start, i - 1) = t.at + 1
    BY <1>1, <2>3, OpenUser
  <2>5. RepliesTo(ls, t.at + 1, i - 1) = RepliesTo(ls, t.at + 1, i)
    BY <1>1, <1>3, <2>2, <2>3
  <2>6. QED
    BY <1>1, <2>1, <2>3, <2>4, <2>5, BuiltIs
<1>6. QED
  BY <1>2, <1>4, <1>5

(* Replies that are read join those found.                                 *)
LEMMA Added ==
  ASSUME NEW turns, NEW user, NEW replies, NEW more
  PROVE  [[turns |-> turns, user |-> user, replies |-> replies] EXCEPT !.replies = @ \cup more] =
           [turns |-> turns, user |-> user, replies |-> replies \cup more]
OBVIOUS

(* A line changes what has been read as ReadLine says.                     *)
LEMMA ReadLineStep ==
  ASSUME NEW ls \in Seq(LineKind), NEW start \in Nat, NEW i \in (start + 1)..Len(ls)
  PROVE  ReadTo(ls, start, i) = ReadLine(ls, ReadTo(ls, start, i - 1), i)
<1> DEFINE s == ReadTo(ls, start, i - 1)
           turns == {t \in Turn : start <= t.at /\ t.at < i /\ Past(ls, t, i)}
           loose == {k \in (start + 1)..i : ls[k] = "reply" /\ \A j \in k..i : ls[j] \notin Breaks}
           before == {t \in Turn : start <= t.at /\ t.at < i - 1 /\ Past(ls, t, i - 1)}
           summary == [kind |-> "summary", at |-> i - 1, replies |-> {}]
<1>1. /\ i - 1 \in start..Len(ls) /\ i \in 1..Len(ls) /\ i \in start..Len(ls) /\ ls[i] \in LineKind
      /\ i \in Int /\ start \in Int
  OBVIOUS
<1>2. \A t \in Turn : t.at \in Nat
  BY DEF Turn
<1>3. ReadTo(ls, start, i) = [turns |-> turns, user |-> OpenAt(ls, start, i), replies |-> loose]
  BY DEF ReadTo
<1>4. /\ s = [turns |-> before, user |-> OpenAt(ls, start, i - 1), replies |-> s.replies]
      /\ s.replies = {k \in (start + 1)..(i - 1) : ls[k] = "reply" /\ \A j \in k..(i - 1) : ls[j] \notin Breaks}
  BY DEF ReadTo
<1>5. ASSUME NEW t \in Turn, t.at = i - 1
      PROVE  Past(ls, t, i) <=> t = summary /\ ls[i] = "summary"
  <2>1. t = [kind |-> t.kind, at |-> t.at, replies |-> t.replies]
    BY DEF Turn
  <2>2. (t.at + 2)..i = {} /\ t.at + 1 = i
    BY <1>1, <1>5
  <2>3. Past(ls, t, i) => t.kind = "summary" /\ ls[i] = "summary" /\ t.replies = {}
    BY <2>2 DEF Past
  <2>4. t = summary /\ ls[i] = "summary" => Past(ls, t, i)
    BY <2>2 DEF Past
  <2>5. QED
    BY <1>5, <2>1, <2>3, <2>4
<1>6. summary \in Turn
  BY <1>1 DEF Turn
<1>7. CASE ls[i] \in Breaks
  <2>1. loose = {}
    BY <1>1, <1>7
  <2>2. turns = before \cup Built(ls, s) \cup (IF ls[i] = "summary" THEN {summary} ELSE {})
    <3>1. ASSUME NEW t \in turns
          PROVE  t \in before \cup Built(ls, s) \cup (IF ls[i] = "summary" THEN {summary} ELSE {})
      <4>1. CASE t.at = i - 1
        BY <1>5, <4>1
      <4>2. CASE t.at < i - 1
        BY <1>1, <1>7, <4>2, PastBegins
      <4>3. QED
        BY <1>1, <1>2, <4>1, <4>2
    <3>2. ASSUME NEW t \in before PROVE t \in turns
      BY <1>1, <1>2, <1>7, PastBegins
    <3>3. ASSUME NEW t \in Built(ls, s) PROVE t \in turns
      <4>1. t \in Turn /\ IsOpen(ls, start, t.at + 1, i - 1)
        BY <1>1, BuiltIs
      <4>2. start <= t.at /\ t.at < i - 1
        BY <1>1, <1>2, <4>1 DEF IsOpen
      <4>3. Past(ls, t, i)
        BY <1>7, <4>1, <4>2, <3>3, PastBegins
      <4>4. t.at < i
        BY <1>1, <1>2, <4>1, <4>2
      <4>5. QED
        BY <4>1, <4>2, <4>3, <4>4
    <3>4. ls[i] = "summary" => summary \in turns
      BY <1>1, <1>5, <1>6
    <3>5. before \cup Built(ls, s) \cup (IF ls[i] = "summary" THEN {summary} ELSE {}) \subseteq turns
      BY <3>2, <3>3, <3>4
    <3> HIDE DEF turns, before, summary, s
    <3>6. turns \subseteq before \cup Built(ls, s) \cup (IF ls[i] = "summary" THEN {summary} ELSE {})
      BY <3>1
    <3>7. QED
      BY <3>5, <3>6
  <2>3. CASE ls[i] = "summary"
    <3>1. OpenAt(ls, start, i) = 0
      <4>1. \A u \in (start + 1)..i : ~IsOpen(ls, start, u, i)
        BY <1>1, <2>3 DEF IsOpen, Breaks, Users
      <4>2. QED
        BY <4>1 DEF OpenAt
    <3>2. ReadTo(ls, start, i) = [turns |-> before \cup Built(ls, s) \cup {summary}, user |-> 0, replies |-> {}]
      BY <1>3, <2>1, <2>2, <2>3, <3>1
    <3>3. ReadLine(ls, s, i) = [turns |-> s.turns \cup Built(ls, s) \cup {summary}, user |-> 0, replies |-> {}]
      BY <2>3 DEF ReadLine
    <3>4. s.turns = before
      BY <1>4
    <3>5. QED
      BY <3>2, <3>3, <3>4
  <2>4. CASE ls[i] \in Users
    <3>1. IsOpen(ls, start, i, i)
      BY <1>1, <2>4 DEF IsOpen
    <3>2. OpenAt(ls, start, i) = i
      BY <1>1, <3>1, OpenUser
    <3>3. ls[i] # "summary"
      BY <2>4 DEF Users
    <3>4. ReadTo(ls, start, i) = [turns |-> before \cup Built(ls, s), user |-> i, replies |-> {}]
      BY <1>3, <2>1, <2>2, <3>2, <3>3
    <3>5. ReadLine(ls, s, i) = [turns |-> s.turns \cup Built(ls, s), user |-> i, replies |-> {}]
      BY <2>4, <3>3 DEF ReadLine, Users
    <3>6. s.turns = before
      BY <1>4
    <3>7. QED
      BY <3>4, <3>5, <3>6
  <2>5. QED
    BY <1>7, <2>3, <2>4 DEF Breaks
<1>8. CASE ls[i] \notin Breaks
  <2>1. turns = before
    <3>1. ASSUME NEW t \in turns PROVE t \in before
      <4>1. t.at # i - 1
        BY <1>5, <1>8 DEF Breaks
      <4>2. QED
        BY <1>1, <1>2, <1>8, <4>1, PastStays
    <3>2. ASSUME NEW t \in before PROVE t \in turns
      BY <1>1, <1>2, PastStays
    <3>3. QED
      BY <3>1, <3>2
  <2>2. OpenAt(ls, start, i) = OpenAt(ls, start, i - 1)
    <3>1. ASSUME NEW u \in (start + 1)..i
          PROVE  IsOpen(ls, start, u, i) <=> u \in (start + 1)..(i - 1) /\ IsOpen(ls, start, u, i - 1)
      <4>1. u = i => ls[u] \notin Users
        BY <1>8 DEF Breaks
      <4>2. u # i => u \in (start + 1)..(i - 1)
        BY <1>1
      <4>3. u # i => (IsOpen(ls, start, u, i) <=> IsOpen(ls, start, u, i - 1))
        BY <1>1, <1>8, <4>2 DEF IsOpen
      <4>4. QED
        BY <1>1, <4>1, <4>2, <4>3 DEF IsOpen
    <3> DEFINE u == OpenAt(ls, start, i)
               v == OpenAt(ls, start, i - 1)
    <3>2. u # 0 => IsOpen(ls, start, u, i) /\ u \in (start + 1)..i
      BY <1>1, OpenUser
    <3>3. \A w \in (start + 1)..i : IsOpen(ls, start, w, i) => u = w
      BY <1>1, OpenUser
    <3>4. v # 0 => IsOpen(ls, start, v, i - 1) /\ v \in (start + 1)..(i - 1)
      BY <1>1, OpenUser
    <3>5. \A w \in (start + 1)..(i - 1) : IsOpen(ls, start, w, i - 1) => v = w
      BY <1>1, OpenUser
    <3> HIDE DEF u, v
    <3>6. u # 0 => v = u
      BY <3>1, <3>2, <3>5
    <3>7. v # 0 => u = v
      BY <1>1, <3>1, <3>3, <3>4
    <3>8. u = v
      BY <3>6, <3>7
    <3>9. QED
      BY <3>8 DEF u, v
  <2>3. loose = s.replies \cup (IF ls[i] = "reply" THEN {i} ELSE {})
    <3>1. ASSUME NEW k \in loose PROVE k \in s.replies \/ (k = i /\ ls[i] = "reply")
      BY <1>1, <1>4
    <3>2. ASSUME NEW k \in s.replies PROVE k \in loose
      <4>1. k \in (start + 1)..(i - 1) /\ ls[k] = "reply" /\ \A j \in k..(i - 1) : ls[j] \notin Breaks
        BY <1>4
      <4>2. \A j \in k..i : j = i \/ j \in k..(i - 1)
        BY <1>1, <4>1
      <4>3. QED
        BY <1>1, <1>8, <4>1, <4>2
    <3>3. ls[i] = "reply" => i \in loose
      BY <1>1, <1>8
    <3> HIDE DEF loose, s
    <3>4. QED
      BY <3>1, <3>2, <3>3
  <2>4. CASE ls[i] = "reply"
    <3> DEFINE open == OpenAt(ls, start, i - 1)
    <3>1. ReadLine(ls, s, i) = [s EXCEPT !.replies = @ \cup {i}]
      BY <2>4 DEF ReadLine
    <3> HIDE DEF turns, loose, before, s, open
    <3>2. PICK x : s = [turns |-> before, user |-> open, replies |-> x] /\ x = s.replies
      BY <1>4 DEF open
    <3>3. ReadLine(ls, s, i) = [turns |-> before, user |-> open, replies |-> x \cup {i}]
      BY <3>1, <3>2, Added
    <3>4. loose = s.replies \cup {i}
      BY <2>3, <2>4
    <3>5. ReadTo(ls, start, i) = ReadLine(ls, s, i)
      BY <1>3, <2>1, <2>2, <3>2, <3>3, <3>4 DEF open
    <3>6. QED
      BY <3>5 DEF s
  <2>5. CASE ls[i] # "reply"
    <3>1. ReadLine(ls, s, i) = s
      BY <1>1, <1>8, <2>5 DEF ReadLine, LineKind, Breaks, Users
    <3> HIDE DEF turns, loose, before, s
    <3>2. loose = s.replies
      BY <2>3, <2>5
    <3>3. ReadTo(ls, start, i) = s
      BY <1>3, <1>4, <2>1, <2>2, <3>2
    <3>4. QED
      BY <3>1, <3>3 DEF s
  <2>6. QED
    BY <2>4, <2>5
<1>9. QED
  BY <1>7, <1>8

(* The recursion has a value, and it is the closed form.                   *)
LEMMA ScanIs ==
  ASSUME NEW ls \in Seq(LineKind), NEW start \in Nat
  PROVE  \A i \in start..Len(ls) : Scan(ls, start)[i] = ReadTo(ls, start, i)
<1> DEFINE Body(g) == [i \in start..Len(ls) |->
                         IF i = start THEN Nothing ELSE ReadLine(ls, g[i - 1], i)]
           Solves(g) == g = Body(g)
           h == [i \in start..Len(ls) |-> ReadTo(ls, start, i)]
           scan == Scan(ls, start)
<1>1. Solves(h)
  <2>1. ASSUME NEW i \in start..Len(ls)
        PROVE  h[i] = IF i = start THEN Nothing ELSE ReadLine(ls, h[i - 1], i)
    <3>1. CASE i = start
      BY <3>1, ReadStart
    <3>2. CASE i # start
      <4>1. i \in (start + 1)..Len(ls) /\ i - 1 \in start..Len(ls)
        BY <3>2
      <4>2. h[i - 1] = ReadTo(ls, start, i - 1) /\ h[i] = ReadTo(ls, start, i)
        BY <4>1
      <4>3. ReadTo(ls, start, i) = ReadLine(ls, ReadTo(ls, start, i - 1), i)
        BY <4>1, ReadLineStep
      <4>4. QED
        BY <3>2, <4>2, <4>3
    <3>3. QED
      BY <3>1, <3>2
  <2>2. h = [i \in start..Len(ls) |-> h[i]]
    OBVIOUS
  <2> HIDE DEF h
  <2>3. QED
    BY <2>1, <2>2
<1>2. Solves(scan)
  <2>1. scan = CHOOSE g : Solves(g)
    BY DEF Scan
  <2>2. QED
    BY <1>1, <2>1, Zenon
<1> HIDE DEF scan, h
<1>3. ASSUME NEW i \in start..Len(ls)
      PROVE  scan[i] = IF i = start THEN Nothing ELSE ReadLine(ls, scan[i - 1], i)
  BY <1>2
<1> DEFINE wrong == {i \in start..Len(ls) : scan[i] # ReadTo(ls, start, i)}
<1>4. SUFFICES ASSUME wrong # {} PROVE FALSE
  BY DEF scan
<1>5. wrong \in SUBSET Nat
  OBVIOUS
<1>6. PICK n \in wrong : \A m \in wrong : n <= m
  BY <1>4, <1>5, Least
<1>7. n # start
  BY <1>3, <1>6, ReadStart
<1>8. n \in (start + 1)..Len(ls) /\ n - 1 \in start..Len(ls) /\ n - 1 \notin wrong
  BY <1>6, <1>7
<1>9. scan[n] = ReadLine(ls, ReadTo(ls, start, n - 1), n)
  BY <1>3, <1>7, <1>8
<1>10. QED
  BY <1>6, <1>8, <1>9, ReadLineStep

-----------------------------------------------------------------------------
(* What a parse returns.                                                   *)

(* A turn of the transcript is complete, or it is the open one.            *)
LEMMA LatestIs ==
  ASSUME NEW ls \in Seq(LineKind), NEW start \in 0..Len(ls), NEW t \in Turn, start <= t.at
  PROVE  /\ Latest(ls, t) <=> \/ t.at < Len(ls) /\ Past(ls, t, Len(ls))
                             \/ t \in Built(ls, ReadTo(ls, start, Len(ls)))
<1> DEFINE n == Len(ls)
<1>1. t.at \in Nat /\ n \in start..n /\ start \in Nat /\ n \in Nat
  BY DEF Turn
<1>2. Past(ls, t, n) /\ t.at < n => Latest(ls, t)
  BY DEF Past, Latest, Version
<1>3. t \in Built(ls, ReadTo(ls, start, n)) => Latest(ls, t)
  <2>1. SUFFICES ASSUME t \in Built(ls, ReadTo(ls, start, n)) PROVE Latest(ls, t)
    OBVIOUS
  <2>2. /\ t.kind = "turn" /\ IsOpen(ls, start, t.at + 1, n)
        /\ t.replies = RepliesTo(ls, t.at + 1, n) /\ (ls[t.at + 1] = "brief" => t.replies # {})
    BY <1>1, <2>1, BuiltIs
  <2>3. t.at < n /\ ls[t.at + 1] \in Users
    BY <1>1, <2>2 DEF IsOpen
  <2>4. QED
    BY <2>2, <2>3 DEF Latest, Version
<1>4. ASSUME Latest(ls, t), ~Past(ls, t, n) PROVE t \in Built(ls, ReadTo(ls, start, n))
  <2>1. /\ t.at < n /\ t.kind = "turn" /\ ls[t.at + 1] \in Users
        /\ t.replies = RepliesTo(ls, t.at + 1, n) /\ (ls[t.at + 1] = "brief" => t.replies # {})
    BY <1>4 DEF Latest, Version, Past
  <2>2. \A e \in (t.at + 2)..n : ls[e] \notin Breaks
    BY <1>4, <2>1 DEF Past
  <2>3. t.at + 1 \in (start + 1)..n /\ IsOpen(ls, start, t.at + 1, n)
    BY <1>1, <2>1, <2>2 DEF IsOpen
  <2>4. OpenAt(ls, start, n) = t.at + 1
    BY <1>1, <2>3, OpenUser
  <2>5. QED
    BY <1>1, <2>1, <2>3, <2>4, BuiltIs
<1>5. Latest(ls, t) => t.at < n
  BY DEF Latest, Version
<1>6. QED
  BY <1>2, <1>3, <1>4, <1>5

(* A parse returns the turns that start at its offset or later, each as    *)
(* the whole transcript has it; before a half-written line only those that *)
(* it does not read again.                                                 *)
THEOREM ParseMeans ==
  ASSUME NEW ls \in Seq(LineKind), NEW half \in BOOLEAN, NEW start \in 0..Len(ls), NEW t
  PROVE  t \in Parse(ls, half, start).turns <=>
           Latest(ls, t) /\ start <= t.at /\ (half => t.at < Parse(ls, half, start).resume)
<1> DEFINE n == Len(ls)
           s == ReadTo(ls, start, n)
           p == Parse(ls, half, start)
<1>1. start \in Nat /\ n \in start..n /\ n \in Nat
  OBVIOUS
<1>2. Scan(ls, start)[n] = s
  BY <1>1, ScanIs
<1>3. s.turns = {x \in Turn : start <= x.at /\ x.at < n /\ Past(ls, x, n)} /\ s.user = OpenAt(ls, start, n)
  BY DEF ReadTo
<1>4. Latest(ls, t) => t \in Turn /\ t.at < n /\ t.at \in Nat
  BY DEF Latest, Version, Turn
<1>5. ASSUME t \in Built(ls, s)
      PROVE  t \in Turn /\ start <= t.at /\ t.at + 1 = s.user /\ s.user # 0 /\ t.at \in Nat
  <2>1. t \in Turn /\ t.at + 1 = s.user /\ IsOpen(ls, start, t.at + 1, n)
    BY <1>1, <1>3, <1>5, BuiltIs
  <2>2. t.at \in Nat
    BY <2>1 DEF Turn
  <2>3. QED
    BY <1>1, <2>1, <2>2 DEF IsOpen
<1>6. ASSUME t \in Turn, Past(ls, t, n), start <= t.at, t.at < n, s.user # 0 PROVE t.at < s.user - 1
  <2>1. IsOpen(ls, start, s.user, n) /\ s.user \in (start + 1)..n
    BY <1>1, <1>3, <1>6, OpenUser
  <2>2. t.at \in Nat
    BY <1>6 DEF Turn
  <2>3. ls[s.user] \in Users /\ \A j \in (s.user + 1)..n : ls[j] \notin Breaks
    BY <2>1 DEF IsOpen
  <2>4. ls[t.at + 1] \in Breaks
    BY <1>6 DEF Past, Breaks
  <2>5. t.at + 1 <= s.user
    BY <1>1, <1>6, <2>1, <2>2, <2>3, <2>4
  <2>6. t.at + 1 # s.user
    <3>1. SUFFICES ASSUME t.at + 1 = s.user PROVE FALSE
      OBVIOUS
    <3>2. PICK e \in (t.at + 2)..n : ls[e] \in Breaks
      BY <1>6, <2>3, <3>1 DEF Past, Users
    <3>3. QED
      BY <2>1, <2>2, <2>3, <3>1, <3>2
  <2>7. QED
    BY <2>1, <2>2, <2>5, <2>6
<1>7. CASE start >= FileSize(ls, half)
  <2>1. start = n /\ ~half /\ p.turns = {}
    BY <1>1, <1>7 DEF FileSize, Parse
  <2>2. QED
    BY <1>4, <2>1
<1>8. CASE ~(start >= FileSize(ls, half)) /\ half /\ s.user # 0
  <2>1. p.turns = s.turns /\ p.resume = s.user - 1
    BY <1>2, <1>8 DEF Parse
  <2>2. t \in s.turns => Latest(ls, t) /\ start <= t.at /\ t.at < p.resume
    BY <1>3, <1>6, <1>8, <2>1, LatestIs
  <2>3. ASSUME Latest(ls, t), start <= t.at, t.at < p.resume PROVE t \in s.turns
    <3>1. t \notin Built(ls, s)
      BY <1>1, <1>3, <1>5, <2>1, <2>3, OpenUser
    <3>2. QED
      BY <1>3, <1>4, <2>3, <3>1, LatestIs
  <2>4. QED
    BY <1>8, <2>1, <2>2, <2>3
<1>9. CASE ~(start >= FileSize(ls, half)) /\ ~(half /\ s.user # 0)
  <2>1. p.turns = s.turns \cup Built(ls, s) /\ p.resume = ResumeAt(s, n)
    BY <1>2, <1>9 DEF Parse
  <2>2. t \in p.turns <=> Latest(ls, t) /\ start <= t.at
    BY <1>3, <1>4, <1>5, <2>1, LatestIs
  <2>3. half => p.resume = n
    BY <1>9, <2>1 DEF ResumeAt
  <2>4. QED
    BY <1>4, <2>2, <2>3
<1>10. QED
  BY <1>7, <1>8, <1>9

(* Of a transcript without one it returns all of them.                     *)
LEMMA WholeParse ==
  ASSUME NEW ls \in Seq(LineKind), NEW start \in 0..Len(ls), NEW t
  PROVE  t \in Parse(ls, FALSE, start).turns <=> Latest(ls, t) /\ start <= t.at
<1>1. FALSE \in BOOLEAN
  OBVIOUS
<1>2. t \in Parse(ls, FALSE, start).turns <=>
        Latest(ls, t) /\ start <= t.at /\ (FALSE => t.at < Parse(ls, FALSE, start).resume)
  BY <1>1, ParseMeans, Zenon
<1>3. QED
  BY <1>2, Zenon

(* The offset to go on from is further on, and no turn before it can still *)
(* grow if none before the old one could.                                  *)
THEOREM ParseResumes ==
  ASSUME NEW ls \in Seq(LineKind), NEW half \in BOOLEAN, NEW start \in 0..Len(ls)
  PROVE  LET p == Parse(ls, half, start)
         IN  /\ p.consumed \in Nat
             /\ p.resume \in start..Len(ls)
             /\ Closed(ls, start) => Closed(ls, p.resume)
<1> DEFINE n == Len(ls)
           s == ReadTo(ls, start, n)
           u == s.user
           p == Parse(ls, half, start)
<1>1. start \in Nat /\ n \in start..n /\ n \in Nat
  OBVIOUS
<1>2. Scan(ls, start)[n] = s
  BY <1>1, ScanIs
<1>3. u = OpenAt(ls, start, n)
  BY DEF ReadTo
<1>4. u # 0 => u \in (start + 1)..n /\ IsOpen(ls, start, u, n)
  BY <1>1, <1>3, OpenUser
<1>5. u = 0 => \A v \in (start + 1)..n : ~IsOpen(ls, start, v, n)
  BY <1>1, <1>3, OpenUser
<1>6. CASE start >= FileSize(ls, half)
  <2>1. start = n /\ p.resume = n /\ p.consumed = n
    BY <1>1, <1>6 DEF FileSize, Parse
  <2>2. QED
    BY <1>1, <2>1
<1>7. CASE ~(start >= FileSize(ls, half))
  <2>1. p.resume = (IF u = 0 THEN n ELSE u - 1) /\ p.consumed \in {n, u - 1} /\ (u = 0 => p.consumed = n)
    BY <1>2, <1>7 DEF Parse, ResumeAt
  <2>2. CASE u # 0
    <3>1. p.resume = u - 1 /\ p.resume \in start..n /\ p.consumed \in Nat
      BY <1>1, <1>4, <2>1, <2>2
    <3>2. ls[u] \in Breaks
      BY <1>4, <2>2 DEF IsOpen, Breaks
    <3>3. Closed(ls, p.resume)
      BY <1>1, <1>4, <2>2, <3>1, <3>2 DEF Closed
    <3>4. QED
      BY <3>1, <3>3
  <2>3. CASE u = 0
    <3>1. p.resume = n /\ p.consumed \in Nat
      BY <1>1, <2>1, <2>3
    <3>2. ASSUME Closed(ls, start), NEW v \in 1..n, ls[v] \in Users,
                 \A e \in (v + 1)..n : ls[e] \notin Breaks
          PROVE  FALSE
      <4>1. CASE v > start
        BY <1>1, <1>5, <2>3, <3>2, <4>1 DEF IsOpen
      <4>2. CASE v <= start
        BY <1>1, <3>2, <4>2 DEF Closed
      <4>3. QED
        BY <4>1, <4>2
    <3>3. Closed(ls, start) => Closed(ls, n)
      BY <1>1, <3>2 DEF Closed
    <3>4. QED
      BY <1>1, <3>1, <3>3
  <2>4. QED
    BY <2>2, <2>3
<1>8. QED
  BY <1>6, <1>7

(* Reading on from an offset finds what a reading of the whole file finds  *)
(* from there on.                                                          *)
THEOREM Incremental ==
  ASSUME NEW ls \in Seq(LineKind), NEW start \in 0..Len(ls)
  PROVE  Parse(ls, FALSE, start).turns = {t \in Parse(ls, FALSE, 0).turns : start <= t.at}
<1>1. ASSUME NEW t
      PROVE  /\ t \in Parse(ls, FALSE, start).turns <=> Latest(ls, t) /\ start <= t.at
             /\ t \in Parse(ls, FALSE, 0).turns <=> Latest(ls, t) /\ 0 <= t.at
  <2>1. 0 \in 0..Len(ls)
    OBVIOUS
  <2>2. QED
    BY <2>1, WholeParse
<1>2. \A t : Latest(ls, t) => 0 <= t.at
  BY DEF Latest, Version, Turn
<1> DEFINE part == Parse(ls, FALSE, start).turns
           full == Parse(ls, FALSE, 0).turns
<1> HIDE DEF part, full
<1>3. \A t : t \in part <=> t \in full /\ start <= t.at
  BY <1>1, <1>2 DEF part, full
<1>4. part = {t \in full : start <= t.at}
  BY <1>3
<1>5. QED
  BY <1>4 DEF part, full

-----------------------------------------------------------------------------
(* Versions of a turn, and a transcript that grows.                        *)

(* Two versions of the turn at one place differ in their replies only, and *)
(* the latest has those of every other.                                    *)
LEMMA OneTurn ==
  ASSUME NEW ls \in Seq(LineKind), NEW s, NEW t, Version(ls, s), Version(ls, t), s.at = t.at
  PROVE  /\ s.kind = t.kind
         /\ t.kind = "summary" \/ s.replies = t.replies => s = t
         /\ Latest(ls, t) => s.replies \subseteq t.replies
         /\ Latest(ls, s) /\ Latest(ls, t) => s = t
<1>1. s.kind = t.kind
  BY DEF Version, Users
<1>2. /\ s = [kind |-> s.kind, at |-> s.at, replies |-> s.replies]
      /\ t = [kind |-> t.kind, at |-> t.at, replies |-> t.replies]
      /\ t.kind \in {"turn", "summary"}
  BY DEF Version, Turn
<1>3. t.kind = "summary" => s.replies = {} /\ t.replies = {}
  BY <1>1 DEF Version
<1>4. t.kind = "summary" \/ s.replies = t.replies => s = t
  BY <1>1, <1>2, <1>3
<1>5. Latest(ls, t) => s.replies \subseteq t.replies
  BY <1>1, <1>2, <1>3 DEF Latest, Version
<1>6. Latest(ls, s) /\ Latest(ls, t) => s = t
  BY <1>1, <1>2, <1>4 DEF Latest
<1>7. QED
  BY <1>1, <1>4, <1>5, <1>6

(* The lines of ls are the first of more.                                  *)
Continues(ls, more) == Len(ls) <= Len(more) /\ \A i \in 1..Len(ls) : more[i] = ls[i]

(* A line more leaves those before it as they are.                         *)
LEMMA Grown ==
  ASSUME NEW ls \in Seq(LineKind), NEW kind \in LineKind
  PROVE  Append(ls, kind) \in Seq(LineKind) /\ Continues(ls, Append(ls, kind))
BY DEF Continues

(* A version of a turn remains one.                                        *)
LEMMA VersionGrows ==
  ASSUME NEW ls \in Seq(LineKind), NEW more \in Seq(LineKind), Continues(ls, more),
         NEW t, Version(ls, t)
  PROVE  Version(more, t)
<1>1. Len(ls) <= Len(more) /\ Len(more) \in Nat /\ \A i \in 1..Len(ls) : more[i] = ls[i]
  BY DEF Continues
<1>2. t \in Turn /\ t.at \in Nat /\ t.at < Len(ls) /\ Len(ls) \in Nat
  BY DEF Version, Turn
<1>3. more[t.at + 1] = ls[t.at + 1]
  BY <1>1, <1>2
<1>4. RepliesTo(ls, t.at + 1, Len(ls)) \subseteq RepliesTo(more, t.at + 1, Len(more))
  BY <1>1, <1>2 DEF RepliesTo
<1>5. QED
  BY <1>1, <1>2, <1>3, <1>4 DEF Version

(* A place behind which no turn is open stays one.                         *)
LEMMA ClosedGrows ==
  ASSUME NEW ls \in Seq(LineKind), NEW more \in Seq(LineKind), Continues(ls, more), NEW p, Closed(ls, p)
  PROVE  Closed(more, p)
<1>1. Len(ls) <= Len(more) /\ Len(more) \in Nat /\ \A i \in 1..Len(ls) : more[i] = ls[i]
  BY DEF Continues
<1>2. p \in 0..Len(ls) /\ p \in 0..Len(more) /\ Len(ls) \in Nat
  BY <1>1 DEF Closed
<1>3. CASE p < Len(ls) /\ ls[p + 1] \in Breaks
  <2>1. more[p + 1] = ls[p + 1] /\ p < Len(more)
    BY <1>1, <1>2, <1>3
  <2> QED
    BY <1>2, <1>3, <2>1 DEF Closed
<1>4. CASE \A u \in 1..p : ls[u] \in Users => \E e \in (u + 1)..p : ls[e] \in Breaks
  <2>1. ASSUME NEW u \in 1..p, more[u] \in Users PROVE \E e \in (u + 1)..p : more[e] \in Breaks
    <3>1. ls[u] \in Users
      BY <1>1, <1>2, <2>1
    <3>2. PICK e \in (u + 1)..p : ls[e] \in Breaks
      BY <1>4, <2>1, <3>1
    <3>3. e \in 1..Len(ls)
      BY <1>2, <3>2
    <3>4. more[e] = ls[e]
      BY <1>1, <3>3
    <3> QED
      BY <3>2, <3>4
  <2> QED
    BY <1>2, <2>1 DEF Closed
<1> QED
  BY <1>3, <1>4 DEF Closed

(* Before a closed offset nothing changes.                                 *)
LEMMA Settled ==
  ASSUME NEW ls \in Seq(LineKind), NEW more \in Seq(LineKind), Continues(ls, more), NEW p, Closed(ls, p),
         NEW t, t.at < p, Latest(more, t)
  PROVE  Latest(ls, t) /\ ls[t.at + 1] = more[t.at + 1]
<1>1. Len(ls) <= Len(more) /\ Len(more) \in Nat /\ \A i \in 1..Len(ls) : more[i] = ls[i]
  BY DEF Continues
<1>2. p \in 0..Len(ls) /\ Len(ls) \in Nat
  BY DEF Closed
<1>3. t \in Turn /\ t.at \in Nat /\ Latest(more, t)
  BY DEF Latest, Version, Turn
<1>4. t.at < Len(ls) /\ more[t.at + 1] = ls[t.at + 1]
  BY <1>1, <1>2, <1>3
<1>5. ASSUME t.kind = "turn" PROVE RepliesTo(more, t.at + 1, Len(more)) = RepliesTo(ls, t.at + 1, Len(ls))
  <2>1. ls[t.at + 1] \in Users
    BY <1>3, <1>4, <1>5 DEF Latest, Version
  <2>2. PICK e \in (t.at + 2)..Len(ls) : ls[e] \in Breaks
    <3>1. CASE p < Len(ls) /\ ls[p + 1] \in Breaks
      BY <1>2, <1>3, <3>1
    <3>2. CASE \A u \in 1..p : ls[u] \in Users => \E e \in (u + 1)..p : ls[e] \in Breaks
      <4>1. t.at + 1 \in 1..p
        BY <1>2, <1>3
      <4>2. PICK e \in (t.at + 2)..p : ls[e] \in Breaks
        <5>1. \E e \in (t.at + 1 + 1)..p : ls[e] \in Breaks
          BY <2>1, <3>2, <4>1
        <5>2. t.at + 1 + 1 = t.at + 2
          BY <1>3
        <5>3. QED
          BY <5>1, <5>2
      <4>3. QED
        BY <1>2, <1>3, <4>2
    <3>3. QED
      BY <3>1, <3>2 DEF Closed
  <2>3. more[e] \in Breaks /\ e \in (t.at + 2)..Len(more)
    BY <1>1, <1>2, <1>3, <2>2
  <2>4. ASSUME NEW k \in RepliesTo(more, t.at + 1, Len(more)) PROVE k \in RepliesTo(ls, t.at + 1, Len(ls))
    <3>1. /\ k \in (t.at + 2)..Len(more) /\ more[k] = "reply"
          /\ \A j \in (t.at + 2)..k : more[j] \notin Breaks
      BY <1>3, <2>4 DEF RepliesTo
    <3>2. k < e
      BY <1>3, <2>3, <3>1
    <3>3. k \in (t.at + 2)..Len(ls) /\ \A j \in (t.at + 2)..k : more[j] = ls[j]
      BY <1>1, <1>2, <1>3, <2>2, <3>1, <3>2
    <3>4. QED
      BY <1>3, <3>1, <3>3 DEF RepliesTo
  <2>5. RepliesTo(ls, t.at + 1, Len(ls)) \subseteq RepliesTo(more, t.at + 1, Len(more))
    BY SMTT(20), <1>1, <1>2, <1>3 DEF RepliesTo
  <2>6. QED
    BY <2>4, <2>5
<1>6. Latest(ls, t)
  BY <1>3, <1>4, <1>5 DEF Latest, Version
<1>7. QED
  BY <1>4, <1>6

-----------------------------------------------------------------------------
(* Masking one value.                                                      *)

(* Where a value occurs in a text, character by character.                 *)
LEMMA OccursAt ==
  ASSUME NEW text \in Seq(Nat), NEW v \in Seq(Nat), v # << >>, NEW i \in 1..Len(text)
  PROVE  /\ Occurs(text, v, i) <=> /\ i + Len(v) - 1 <= Len(text)
                                   /\ \A k \in 1..Len(v) : text[i + k - 1] = v[k]
         /\ i \in Reach(v, i)
         /\ \A k \in Reach(v, i) : k - i + 1 \in 1..Len(v) /\ k = i + (k - i + 1) - 1
         /\ Occurs(text, v, i) => Reach(v, i) \subseteq DOMAIN text /\ text[i] = v[1]
<1> DEFINE part == SubSeq(text, i, i + Len(v) - 1)
<1>1. Len(v) \in Nat \ {0} /\ Len(text) \in Nat /\ i \in Nat \ {0}
  OBVIOUS
<1>2. ASSUME i + Len(v) - 1 <= Len(text)
      PROVE  Len(part) = Len(v) /\ part \in Seq(Nat) /\ \A k \in 1..Len(v) : part[k] = text[i + k - 1]
  <2>1. \A k \in i..i + Len(v) - 1 : text[k] \in Nat
    BY <1>1, <1>2
  <2> QED
    BY <1>1, <1>2, <2>1
<1>3. ASSUME i + Len(v) - 1 <= Len(text)
      PROVE  part = v <=> \A k \in 1..Len(v) : text[i + k - 1] = v[k]
  <2>1. part = v <=> \A k \in 1..Len(v) : part[k] = v[k]
    <3> HIDE DEF part
    <3>1. DOMAIN part = 1..Len(part) /\ DOMAIN v = 1..Len(v)
      BY <1>2, <1>3
    <3>2. part = [k \in 1..Len(v) |-> part[k]] /\ v = [k \in 1..Len(v) |-> v[k]]
      BY <1>2, <1>3, <3>1
    <3> QED
      BY <3>2
  <2> HIDE DEF part
  <2> QED
    BY <1>2, <1>3, <2>1
<1>4. /\ i \in Reach(v, i)
      /\ \A k \in Reach(v, i) : k - i + 1 \in 1..Len(v) /\ k = i + (k - i + 1) - 1
  BY <1>1 DEF Reach
<1>5. Occurs(text, v, i) <=> /\ i + Len(v) - 1 <= Len(text)
                             /\ \A k \in 1..Len(v) : text[i + k - 1] = v[k]
  BY <1>3 DEF Occurs
<1>6. ASSUME Occurs(text, v, i) PROVE Reach(v, i) \subseteq DOMAIN text /\ text[i] = v[1]
  <2>1. i + Len(v) - 1 <= Len(text)
    BY <1>5, <1>6
  <2>2. Reach(v, i) \subseteq 1..Len(text)
    BY <1>1, <2>1 DEF Reach
  <2>3. 1 \in 1..Len(v) /\ i + 1 - 1 = i
    BY <1>1
  <2> QED
    BY <1>5, <1>6, <2>2, <2>3
<1> QED
  BY <1>4, <1>5, <1>6

(* Where a value is to be masked: where it occurs outside of placeholders. *)
Places(text, v) == {i \in 1..Len(text) : Occurs(text, v, i) /\ text[i] # 0}

Reaches(text, v) == UNION {Reach(v, i) : i \in Places(text, v)}

(* What masking a value covers: only of its places, each place from its    *)
(* start on, and all of them if they do not overlap.                       *)
ValueMasked(text, v, reach) ==
  /\ MaskValue(text, v) = Blanked(text, reach)
  /\ reach \subseteq Reaches(text, v)
  /\ Places(text, v) \subseteq reach
  /\ Apart(text, v) => reach = Reaches(text, v)

LEMMA MaskIs ==
  ASSUME NEW text \in Seq(Nat), NEW v \in Seq(Nat), v # << >>
  PROVE  \E reach : ValueMasked(text, v, reach)
<1> DEFINE n == Len(text)
           State == [cursor : Nat, reach : SUBSET Nat]
           start == [cursor |-> 1, reach |-> {}]
           Takes(s, i) == i >= s.cursor /\ Occurs(text, v, i)
           New(i) == IF text[i] = 0 THEN {} ELSE Reach(v, i)
           After(s, i) == IF Takes(s, i)
                          THEN [cursor |-> i + Len(v), reach |-> s.reach \cup New(i)]
                          ELSE s
           Solves(f) == f = [i \in 0..n |-> IF i = 0 THEN start ELSE After(f[i - 1], i)]
           scan == CHOOSE f : Solves(f)
           step == [i \in 1..n |-> [s \in State |-> After(s, i)]]
<1>1. n \in Nat /\ Len(v) \in Nat \ {0}
  OBVIOUS
<1>2. \A i \in 1..n : New(i) \in SUBSET Nat
  BY <1>1 DEF Reach
<1>3. ASSUME NEW s \in State, NEW i \in 1..n PROVE After(s, i) \in State
  <2> HIDE DEF Takes, New
  <2> QED
    BY <1>1, <1>2, <1>3
<1>4. step \in [1..n -> [State -> State]]
  <2> HIDE DEF After, State
  <2> QED
    BY <1>3
<1>5. start \in State
  OBVIOUS
<1>6. PICK f \in [0..n -> State] : f[0] = start /\ \A i \in 1..n : f[i] = step[i][f[i - 1]]
  <2>1. n \in Nat
    BY <1>1
  <2> HIDE DEF n, State, start, step, Takes, After, Solves, scan
  <2>2. Iteration(State, start, n, step)
    BY <1>4, <1>5, <2>1, Iterates
  <2> QED
    BY <2>2 DEF Iteration
<1>7. Solves(f)
  <2>1. ASSUME NEW i \in 1..n PROVE f[i] = After(f[i - 1], i)
    <3>1. f[i - 1] \in State
      <4>1. i - 1 \in 0..n
        BY <1>1
      <4> HIDE DEF n, State
      <4> QED
        BY <4>1
    <3> HIDE DEF After, State
    <3> QED
      BY <1>6, <3>1
  <2>2. ASSUME NEW i \in 0..n PROVE f[i] = IF i = 0 THEN start ELSE After(f[i - 1], i)
    <3> HIDE DEF After, State, start, step
    <3> QED
      BY <1>1, <1>6, <2>1
  <2>3. f = [i \in 0..n |-> f[i]]
    OBVIOUS
  <2> HIDE DEF After, start, State
  <2> QED
    BY <2>2, <2>3
<1>8. Solves(scan)
  <2> HIDE DEF Solves
  <2> QED
    BY <1>7, Zenon
<1>9. MaskValue(text, v) = Blanked(text, scan[n].reach)
  BY DEF MaskValue
<1> HIDE DEF scan
<1>10. scan[0] = start /\ \A i \in 1..n : scan[i] = After(scan[i - 1], i)
  <2>1. 0 \in 0..n /\ \A i \in 1..n : i \in 0..n /\ i # 0
    BY <1>1
  <2> HIDE DEF After, start, n
  <2> QED
    BY <1>8, <2>1
<1> DEFINE upTo(i) == UNION {Reach(v, j) : j \in {k \in Places(text, v) : k <= i}}
           stops(i) == {1} \cup {j + Len(v) : j \in {k \in 1..i : Occurs(text, v, k)}}
           good == {i \in 0..n :
                      /\ scan[i].cursor \in stops(i)
                      /\ scan[i].reach \subseteq upTo(i)
                      /\ \A k \in Places(text, v) : k <= i => k \in scan[i].reach
                      /\ v[1] # 0 => i + 1..scan[i].cursor - 1 \subseteq scan[i].reach
                      /\ Apart(text, v) => scan[i].reach = upTo(i)}
<1>11. 0 \in good
  <2>1. upTo(0) = {} /\ \A k \in Places(text, v) : ~(k <= 0)
    BY DEF Places
  <2>2. scan[0].cursor = 1 /\ scan[0].reach = {}
    BY <1>10
  <2>3. 0 + 1..scan[0].cursor - 1 = {} /\ scan[0].cursor \in stops(0) /\ 0 \in 0..n
    BY <1>1, <2>2
  <2> HIDE DEF upTo, stops
  <2> QED
    BY <2>1, <2>2, <2>3
<1>12. ASSUME NEW i \in 1..n, i - 1 \in good PROVE i \in good
  <2> DEFINE s == scan[i - 1]
  <2>1. /\ s.cursor \in stops(i - 1)
        /\ s.reach \subseteq upTo(i - 1)
        /\ \A k \in Places(text, v) : k <= i - 1 => k \in s.reach
        /\ v[1] # 0 => (i - 1) + 1..s.cursor - 1 \subseteq s.reach
        /\ Apart(text, v) => s.reach = upTo(i - 1)
    BY <1>12
  <2>2. scan[i] = After(s, i)
    BY <1>10
  <2>3. \A j \in stops(i - 1) : j \in Nat
    BY <1>1
  <2>4. s.cursor \in Nat /\ (i - 1) + 1 = i /\ i \in Nat
    <3>1. (i - 1) + 1 = i /\ i \in Nat
      BY <1>1
    <3> HIDE DEF s, stops
    <3> QED
      BY <2>1, <2>3, <3>1
  <2>5. \A k \in Places(text, v) : k \in 1..n /\ Occurs(text, v, k) /\ text[k] # 0
    BY DEF Places
  <2>6. upTo(i) = upTo(i - 1) \cup (IF i \in Places(text, v) THEN Reach(v, i) ELSE {})
    <3>1. \A k \in Places(text, v) : k <= i <=> k <= i - 1 \/ k = i
      BY <1>1, <2>5
    <3> QED
      BY <3>1
  <2>7. stops(i - 1) \subseteq stops(i) /\ (Occurs(text, v, i) => i + Len(v) \in stops(i))
    BY <1>1
  <2>8. Occurs(text, v, i) => text[i] = v[1] /\ i \in Reach(v, i)
    BY OccursAt
  <2>9. Occurs(text, v, i) => (i \in Places(text, v) <=> text[i] # 0)
    BY DEF Places
  <2>10. Occurs(text, v, i) /\ Apart(text, v) => i >= s.cursor
    <3>1. SUFFICES ASSUME Occurs(text, v, i), Apart(text, v) PROVE i >= s.cursor
      OBVIOUS
    <3>2. CASE s.cursor = 1
      BY <3>2
    <3>3. ASSUME NEW j \in 1..i - 1, Occurs(text, v, j), s.cursor = j + Len(v) PROVE i >= s.cursor
      <4>1. j \in DOMAIN text /\ i \in DOMAIN text /\ j < i
        BY <1>1
      <4>2. j + Len(v) <= i
        <5> HIDE DEF n
        <5> QED
          BY <3>1, <3>3, <4>1, Zenon DEF Apart
      <4> QED
        BY <1>1, <3>3, <4>1, <4>2
    <3> QED
      BY <2>1, <3>2, <3>3
  <2>11. CASE Takes(s, i)
    <3>1. Occurs(text, v, i) /\ scan[i].cursor = i + Len(v) /\ scan[i].reach = s.reach \cup New(i)
      BY <2>2, <2>11
    <3>2. New(i) = IF i \in Places(text, v) THEN Reach(v, i) ELSE {}
      BY <2>9, <3>1
    <3>3. i + 1..i + Len(v) - 1 \subseteq Reach(v, i)
      BY <1>1 DEF Reach
    <3>4. \A k \in Places(text, v) : k <= i => k <= i - 1 \/ k = i
      BY <1>1, <2>5
    <3>5. v[1] # 0 => i + 1..scan[i].cursor - 1 \subseteq scan[i].reach
      <4> HIDE DEF New, s
      <4> QED
        BY <2>8, <2>9, <3>1, <3>2, <3>3
    <3>6. scan[i].cursor \in stops(i)
      BY <2>7, <3>1
    <3> HIDE DEF s, New, upTo, stops
    <3>7. /\ scan[i].reach \subseteq upTo(i)
          /\ Apart(text, v) => scan[i].reach = upTo(i)
      BY <2>1, <2>6, <3>1, <3>2
    <3>8. \A k \in Places(text, v) : k <= i => k \in scan[i].reach
      BY <2>1, <2>8, <3>1, <3>2, <3>4
    <3> QED
      BY <3>5, <3>6, <3>7, <3>8
  <2>12. CASE ~Takes(s, i)
    <3>1. scan[i] = s
      BY <2>2, <2>12
    <3>2. i \in Places(text, v) => i \in s.reach /\ ~Apart(text, v)
      <4>1. SUFFICES ASSUME i \in Places(text, v) PROVE i \in s.reach /\ ~Apart(text, v)
        OBVIOUS
      <4>2. Occurs(text, v, i) /\ v[1] # 0
        BY <2>5, <2>8, <4>1
      <4>3. ~(i >= s.cursor)
        BY <2>12, <4>2
      <4>4. i \in (i - 1) + 1..s.cursor - 1
        BY <2>4, <4>3
      <4> QED
        BY <2>1, <2>10, <4>2, <4>3, <4>4
    <3>3. \A k \in Places(text, v) : k <= i => k <= i - 1 \/ k = i
      BY <1>1, <2>5
    <3>4. i + 1..s.cursor - 1 \subseteq (i - 1) + 1..s.cursor - 1
      BY <2>4
    <3> HIDE DEF s, upTo, stops
    <3>5. /\ scan[i].reach \subseteq upTo(i)
          /\ Apart(text, v) => scan[i].reach = upTo(i)
      BY <2>1, <2>6, <3>1, <3>2
    <3>6. \A k \in Places(text, v) : k <= i => k \in scan[i].reach
      BY <2>1, <3>1, <3>2, <3>3
    <3> QED
      BY <2>1, <2>7, <3>1, <3>4, <3>5, <3>6
  <2> QED
    BY <2>11, <2>12
<1>13. n \in good
  <2>1. n \in Nat /\ n \in 0..n
    BY <1>1
  <2> HIDE DEF good, n
  <2> QED
    BY <1>11, <1>12, <2>1, Induction
<1>14. upTo(n) = Reaches(text, v) /\ \A k \in Places(text, v) : k <= n
  BY DEF Places, Reaches
<1>15. ValueMasked(text, v, scan[n].reach)
  BY <1>9, <1>13, <1>14 DEF ValueMasked
<1> QED
  BY <1>15

(* Where a value occurs clear of what is masked, and what it then masks.   *)
Free(text, masked, v) == {i \in 1..Len(text) : Occurs(text, v, i) /\ Reach(v, i) \cap masked = {}}

Masking(text, masked, v) == {Reach(v, i) : i \in Free(text, masked, v)}

Taken(masked, claimed) == masked \cup UNION claimed

(* One value is claimed wherever it occurs clear of what was claimed or    *)
(* masked before.                                                          *)
LEMMA SpansIs ==
  ASSUME NEW text \in Seq(Nat), NEW v \in Seq(Nat), v # << >>, Apart(text, v),
         NEW masked, NEW claimed
  PROVE  SpansOf(text, masked, claimed, v)
           = claimed \cup Masking(text, Taken(masked, claimed), v)
<1> DEFINE n == Len(text)
           taken == Taken(masked, claimed)
           State == [cursor : Nat, claimed : SUBSET (claimed \cup SUBSET Nat)]
           start == [cursor |-> 1, claimed |-> claimed]
           Meets(s, i) == i >= s.cursor /\ Occurs(text, v, i)
           Blocked(s, i) == Reach(v, i) \cap (masked \cup UNION s.claimed) # {}
           After(s, i) == IF Meets(s, i)
                          THEN [cursor |-> i + Len(v),
                                claimed |-> IF Blocked(s, i) THEN s.claimed
                                            ELSE s.claimed \cup {Reach(v, i)}]
                          ELSE s
           Solves(f) == f = [i \in 0..n |-> IF i = 0 THEN start ELSE After(f[i - 1], i)]
           scan == CHOOSE f : Solves(f)
           step == [i \in 1..n |-> [s \in State |-> After(s, i)]]
<1>1. n \in Nat /\ Len(v) \in Nat \ {0}
  OBVIOUS
<1>2. \A i \in 1..n : Reach(v, i) \in SUBSET Nat
  BY <1>1 DEF Reach
<1>3. ASSUME NEW s \in State, NEW i \in 1..n PROVE After(s, i) \in State
  <2>1. i + Len(v) \in Nat /\ Reach(v, i) \in SUBSET Nat
    BY <1>1, <1>2
  <2> HIDE DEF Meets, Blocked
  <2> QED
    BY <2>1
<1>4. step \in [1..n -> [State -> State]]
  <2> HIDE DEF After, State
  <2> QED
    BY <1>3
<1>5. start \in State
  OBVIOUS
<1>6. PICK f \in [0..n -> State] : f[0] = start /\ \A i \in 1..n : f[i] = step[i][f[i - 1]]
  <2>1. n \in Nat
    BY <1>1
  <2> HIDE DEF n, State, start, step, Meets, Blocked, After, Solves, scan
  <2>2. Iteration(State, start, n, step)
    BY <1>4, <1>5, <2>1, Iterates
  <2> QED
    BY <2>2 DEF Iteration
<1>7. Solves(f)
  <2>1. ASSUME NEW i \in 1..n PROVE f[i] = After(f[i - 1], i)
    <3>1. f[i - 1] \in State
      <4>1. i - 1 \in 0..n
        BY <1>1
      <4> HIDE DEF n, State
      <4> QED
        BY <4>1
    <3> HIDE DEF After, State
    <3> QED
      BY <1>6, <3>1
  <2>2. ASSUME NEW i \in 0..n PROVE f[i] = IF i = 0 THEN start ELSE After(f[i - 1], i)
    <3> HIDE DEF After, State, start, step
    <3> QED
      BY <1>1, <1>6, <2>1
  <2>3. f = [i \in 0..n |-> f[i]]
    OBVIOUS
  <2> HIDE DEF After, start, State
  <2> QED
    BY <2>2, <2>3
<1>8. Solves(scan)
  <2> HIDE DEF Solves
  <2> QED
    BY <1>7, Zenon
<1>9. SpansOf(text, masked, claimed, v) = scan[n].claimed
  BY DEF SpansOf
<1> HIDE DEF scan
<1>10. scan[0] = start /\ \A i \in 1..n : scan[i] = After(scan[i - 1], i)
  <2>1. 0 \in 0..n /\ \A i \in 1..n : i \in 0..n /\ i # 0
    BY <1>1
  <2> HIDE DEF After, start, n
  <2> QED
    BY <1>8, <2>1
<1> DEFINE upTo(i) == {Reach(v, j) : j \in {k \in Free(text, taken, v) : k <= i}}
           stops(i) == {1} \cup {j + Len(v) : j \in {k \in 1..i : Occurs(text, v, k)}}
           good == {i \in 0..n : /\ scan[i].claimed = claimed \cup upTo(i)
                                 /\ scan[i].cursor \in stops(i)}
<1>11. 0 \in good
  <2>1. upTo(0) = {}
    BY DEF Free
  <2> HIDE DEF upTo
  <2> QED
    BY <1>1, <1>10, <2>1
<1>12. ASSUME NEW i \in 1..n, i - 1 \in good PROVE i \in good
  <2> DEFINE s == scan[i - 1]
  <2>1. s.claimed = claimed \cup upTo(i - 1) /\ s.cursor \in stops(i - 1)
    BY <1>12
  <2>2. scan[i] = After(s, i)
    BY <1>10
  <2>3. ASSUME Occurs(text, v, i), NEW j \in 1..n, j < i, Occurs(text, v, j)
        PROVE  i >= j + Len(v) /\ Reach(v, j) \cap Reach(v, i) = {}
    <3>1. i >= j + Len(v)
      <4>1. i \in DOMAIN text /\ j \in DOMAIN text /\ j + Len(v) \in Int
        BY <1>1, <2>3
      <4>2. j + Len(v) <= i
        <5> HIDE DEF n
        <5> QED
          BY <2>3, <4>1, Zenon DEF Apart
      <4> QED
        BY <4>1, <4>2
    <3> QED
      BY <1>1, <3>1 DEF Reach
  <2>4. Occurs(text, v, i) => i >= s.cursor
    <3>1. SUFFICES ASSUME Occurs(text, v, i) PROVE i >= s.cursor
      OBVIOUS
    <3>2. CASE s.cursor = 1
      BY <3>2
    <3>3. ASSUME NEW j \in 1..i - 1, Occurs(text, v, j), s.cursor = j + Len(v) PROVE i >= s.cursor
      <4>1. j \in 1..n /\ j < i
        BY <1>1
      <4> QED
        BY <2>3, <3>1, <3>3, <4>1
    <3> QED
      BY <2>1, <3>2, <3>3
  <2>5. \A j \in Free(text, taken, v) : j \in 1..n /\ Occurs(text, v, j)
    BY DEF Free
  <2>6. Occurs(text, v, i) => (UNION upTo(i - 1)) \cap Reach(v, i) = {}
    <3>1. ASSUME Occurs(text, v, i), NEW j \in Free(text, taken, v), j <= i - 1
          PROVE  Reach(v, j) \cap Reach(v, i) = {}
      <4>1. j \in 1..n /\ Occurs(text, v, j)
        <5> HIDE DEF n, taken, s
        <5> QED
          BY <2>5, <3>1
      <4>2. j < i
        BY <1>1, <3>1, <4>1
      <4> QED
        BY <2>3, <3>1, <4>1, <4>2
    <3> QED
      BY <3>1
  <2>7. Meets(s, i) /\ ~Blocked(s, i) <=> i \in Free(text, taken, v)
    <3>1. i \in Free(text, taken, v) <=> Occurs(text, v, i) /\ Reach(v, i) \cap taken = {}
      BY DEF Free
    <3>2. UNION s.claimed = (UNION claimed) \cup (UNION upTo(i - 1))
      <4> HIDE DEF upTo
      <4> QED
        BY <2>1
    <3>3. Meets(s, i) <=> Occurs(text, v, i)
      BY <2>4
    <3> HIDE DEF s, upTo, Meets
    <3>4. Occurs(text, v, i) => (Blocked(s, i) <=> Reach(v, i) \cap taken # {})
      BY <2>6, <3>2 DEF Taken
    <3> HIDE DEF Blocked, taken
    <3> QED
      BY <3>1, <3>3, <3>4
  <2>8. upTo(i) = upTo(i - 1) \cup (IF i \in Free(text, taken, v) THEN {Reach(v, i)} ELSE {})
    <3>1. \A k \in Free(text, taken, v) : k <= i <=> k <= i - 1 \/ k = i
      BY <1>1, <2>5
    <3> QED
      BY <3>1
  <2>9. stops(i - 1) \subseteq stops(i) /\ (Occurs(text, v, i) => i + Len(v) \in stops(i))
    OBVIOUS
  <2> HIDE DEF upTo, stops
  <2>10. CASE Meets(s, i)
    <3>1. scan[i].cursor = i + Len(v)
      BY <2>2, <2>10
    <3>2. scan[i].claimed = IF Blocked(s, i) THEN s.claimed ELSE s.claimed \cup {Reach(v, i)}
      BY <2>2, <2>10
    <3>3. scan[i].claimed = claimed \cup upTo(i)
      BY <2>1, <2>7, <2>8, <2>10, <3>2
    <3>4. Occurs(text, v, i)
      BY <2>10
    <3> QED
      BY <2>9, <3>1, <3>3, <3>4
  <2>11. CASE ~Meets(s, i)
    <3>1. scan[i] = s
      BY <2>2, <2>11
    <3>2. upTo(i) = upTo(i - 1)
      BY <2>7, <2>8, <2>11
    <3> QED
      BY <2>1, <2>9, <3>1, <3>2
  <2> QED
    BY <2>10, <2>11
<1>13. n \in good
  <2>1. n \in Nat /\ n \in 0..n
    BY <1>1
  <2> HIDE DEF good, n
  <2> QED
    BY <1>11, <1>12, <2>1, Induction
<1>14. upTo(n) = Masking(text, taken, v)
  BY DEF Masking, Free
<1> QED
  BY <1>9, <1>13, <1>14

-----------------------------------------------------------------------------
(* The order in which values are masked.                                   *)

Candidate == [value : Seq(Nat), tier : 1..3, force : BOOLEAN, allowed : BOOLEAN, shaped : BOOLEAN]

LEMMA MaskableFinite ==
  ASSUME NEW found \in Seq(Candidate)
  PROVE  IsFiniteSet(Maskable(found))
<1> DEFINE V == {found[i].value : i \in Counted(found)}
<1>1. IsFiniteSet(Counted(found))
  <2>1. Counted(found) \subseteq 1..Len(found) /\ Len(found) \in Nat
    BY DEF Counted
  <2>2. IsFiniteSet(1..Len(found))
    BY <2>1, FS_Interval
  <2> QED
    BY <2>1, <2>2, FS_Subset
<1>2. IsFiniteSet(V)
  <2> DEFINE at == [i \in Counted(found) |-> found[i].value]
  <2>1. at \in Surjection(Counted(found), V)
    BY DEF Surjection
  <2> HIDE DEF at, V
  <2> QED
    BY <1>1, <2>1, FS_Surjection
<1>3. Maskable(found) \subseteq V
  BY DEF Maskable
<1> HIDE DEF V
<1> QED
  BY <1>2, <1>3, FS_Subset

(* What is known of a value that is to be masked.                          *)
LEMMA MaskableIs ==
  ASSUME NEW found \in Seq(Candidate), NEW v \in Maskable(found)
  PROVE  /\ v \in Seq(Nat) /\ v # << >> /\ Len(v) \in Nat
         /\ Tier(found, v) \in 1..3
         /\ Min(Finds(found, v)) \in DOMAIN found
         /\ found[Min(Finds(found, v))].value = v
<1>1. v # << >> /\ v \in {found[i].value : i \in Counted(found)}
  BY DEF Maskable
<1>2. PICK i \in Counted(found) : found[i].value = v
  BY <1>1
<1>3. /\ \A k \in DOMAIN found : k \in Nat /\ found[k] \in Candidate
      /\ Finds(found, v) \in SUBSET DOMAIN found
      /\ \A k \in Finds(found, v) : found[k].value = v
  BY DEF Finds, Counted
<1>4. i \in Finds(found, v)
  BY <1>2 DEF Finds
<1>5. v \in Seq(Nat)
  BY <1>2, <1>3, <1>4 DEF Candidate
<1>6. Tier(found, v) \in 1..3
  <2> DEFINE tiers == {found[k].tier : k \in Finds(found, v)}
  <2>1. tiers # {} /\ tiers \in SUBSET (1..3)
    BY <1>3, <1>4 DEF Candidate
  <2>2. Tier(found, v) = Min(tiers)
    BY DEF Tier
  <2> HIDE DEF tiers
  <2>3. Min(tiers) \in tiers
    <3>1. tiers \in SUBSET Nat
      BY <2>1
    <3> QED
      BY <2>1, <3>1, MinHeld
  <2> QED
    BY <2>1, <2>2, <2>3
<1>7. Min(Finds(found, v)) \in Finds(found, v)
  <2>1. Finds(found, v) \in SUBSET Nat /\ Finds(found, v) # {}
    BY <1>3, <1>4
  <2> QED
    BY <2>1, MinHeld
<1> QED
  BY <1>1, <1>3, <1>5, <1>6, <1>7

LEMMA LastIs ==
  ASSUME NEW found \in Seq(Candidate), NEW values \in SUBSET Maskable(found), values # {}
  PROVE  /\ LastOf(found, values) \in values
         /\ \A w \in values \ {LastOf(found, values)} : Precedes(found, w, LastOf(found, values))
<1> DEFINE R == {p \in values \X values : Precedes(found, p[2], p[1])}
           tier(v) == Tier(found, v)
           at(v) == Min(Finds(found, v))
<1>1. \A v, w \in values : <<v, w>> \in R <=> Precedes(found, w, v)
  OBVIOUS
<1>2. IsFiniteSet(values)
  BY MaskableFinite, FS_Subset
<1>3. \A v \in values : /\ tier(v) \in Int /\ Len(v) \in Int /\ at(v) \in Int
                        /\ found[at(v)].value = v
  <2>1. \A v \in values : v \in Maskable(found)
    OBVIOUS
  <2>2. \A v \in values : /\ Len(v) \in Nat /\ tier(v) \in 1..3 /\ at(v) \in DOMAIN found
                          /\ found[at(v)].value = v
    BY <2>1, MaskableIs
  <2>3. \A k \in DOMAIN found : k \in Int
    OBVIOUS
  <2> HIDE DEF tier, at
  <2> QED
    BY <2>2, <2>3
<1>4. \A v, w \in values :
        Precedes(found, w, v) <=> \/ tier(w) < tier(v)
                                  \/ /\ tier(w) = tier(v)
                                     /\ \/ Len(w) > Len(v)
                                        \/ Len(w) = Len(v) /\ at(w) < at(v)
  BY DEF Precedes
<1> HIDE DEF R, tier, at
<1>5. Orders(R, values)
  <2>1. \A v \in values : ~Precedes(found, v, v)
    BY <1>3, <1>4
  <2>2. \A v, w \in values : v # w => at(v) # at(w)
    BY <1>3
  <2>3. \A v, w \in values : v # w => Precedes(found, w, v) \/ Precedes(found, v, w)
    BY <1>3, <1>4, <2>2
  <2>4. \A u, v, w \in values :
          Precedes(found, v, u) /\ Precedes(found, w, v) => Precedes(found, w, u)
    BY SMTT(20), <1>3, <1>4
  <2> QED
    BY <1>1, <2>1, <2>3, <2>4 DEF Orders
<1>6. \E v \in values : \A w \in values \ {v} : <<v, w>> \in R
  BY <1>2, <1>5, FirstOne
<1>7. \E v \in values : \A w \in values \ {v} : Precedes(found, w, v)
  BY <1>1, <1>6
<1> QED
  BY <1>7, Zenon DEF LastOf

-----------------------------------------------------------------------------
(* The values are taken one after the other.                               *)

MaskedBy(text, found, out) ==
  /\ Redact(text, found) = out[Maskable(found)]
  /\ out[{}] = text
  /\ \A values \in SUBSET Maskable(found) : values # {} =>
       out[values] = MaskValue(out[values \ {LastOf(found, values)}], LastOf(found, values))

ClaimedBy(text, found, out) ==
  /\ Spans(text, found) = out[Maskable(found)]
  /\ out[{}] = {}
  /\ \A values \in SUBSET Maskable(found) : values # {} =>
       out[values] = SpansOf(text, Hidden(text), out[values \ {LastOf(found, values)}],
                             LastOf(found, values))

LEMMA MaskingIn ==
  ASSUME NEW text \in Seq(Nat), NEW v \in Seq(Nat), NEW masked
  PROVE  Masking(text, masked, v) \in SUBSET SUBSET Nat
<1>1. \A i \in 1..Len(text) : Reach(v, i) \in SUBSET Nat
  BY DEF Reach
<1> QED
  BY <1>1 DEF Masking, Free

(* A text with a value masked is still a text, and as long.                *)
LEMMA MaskedText ==
  ASSUME NEW text \in Seq(Nat), NEW v \in Seq(Nat), v # << >>
  PROVE  MaskValue(text, v) \in Seq(Nat) /\ Len(MaskValue(text, v)) = Len(text)
<1>1. PICK reach : ValueMasked(text, v, reach)
  BY MaskIs
<1>2. MaskValue(text, v) = Blanked(text, reach)
  BY <1>1 DEF ValueMasked
<1>3. Blanked(text, reach) = [i \in 1..Len(text) |-> IF i \in reach THEN 0 ELSE text[i]]
  BY DEF Blanked
<1>4. Blanked(text, reach) \in [1..Len(text) -> Nat] /\ Len(text) \in Nat
  BY <1>3
<1> QED
  BY <1>2, <1>3, <1>4

LEMMA RedactIs ==
  ASSUME NEW text \in Seq(Nat), NEW found \in Seq(Candidate)
  PROVE  \E out : MaskedBy(text, found, out)
<1> DEFINE S == Maskable(found)
           State == Seq(Nat)
           last == [T \in SUBSET S |-> LastOf(found, T)]
           Solves(f) == f = [T \in SUBSET S |-> IF T = {} THEN text
                                                ELSE MaskValue(f[T \ {LastOf(found, T)}], LastOf(found, T))]
           out == CHOOSE f : Solves(f)
           step == [v \in S |-> [m \in State |-> MaskValue(m, v)]]
<1>1. IsFiniteSet(S)
  BY MaskableFinite
<1>2. Picks(S, last)
  BY LastIs DEF Picks
<1>3. step \in [S -> [State -> State]]
  <2>1. ASSUME NEW v \in S, NEW m \in State PROVE MaskValue(m, v) \in State
    <3>1. v \in Seq(Nat) /\ v # << >>
      BY MaskableIs
    <3> QED
      BY <3>1, MaskedText
  <2> HIDE DEF S, State
  <2> QED
    BY <2>1
<1>4. text \in State
  OBVIOUS
<1>5. SetIteration(S, last, State, text, step)
  <2> HIDE DEF S, last, State, step, Solves, out
  <2> QED
    BY <1>1, <1>2, <1>3, <1>4, SetIterates
<1>6. PICK f \in [SUBSET S -> State] :
        f[{}] = text /\ \A T \in SUBSET S : T # {} => f[T] = step[last[T]][f[T \ {last[T]}]]
  BY <1>5, Zenon DEF SetIteration
<1>7. Solves(f)
  <2>1. ASSUME NEW T \in SUBSET S, T # {}
        PROVE  f[T] = MaskValue(f[T \ {LastOf(found, T)}], LastOf(found, T))
    <3>1. last[T] = LastOf(found, T) /\ last[T] \in S
      BY <1>2, <2>1 DEF Picks
    <3>2. f[T \ {last[T]}] \in State
      <4> HIDE DEF State, last
      <4>1. T \ {last[T]} \in SUBSET S
        OBVIOUS
      <4> QED
        BY <4>1
    <3>3. f[T] = step[last[T]][f[T \ {last[T]}]]
      BY <1>6, <2>1
    <3> HIDE DEF S, State, last
    <3> QED
      BY <3>1, <3>2, <3>3
  <2>2. f = [T \in SUBSET S |-> f[T]]
    <3> HIDE DEF S, State
    <3> QED
      OBVIOUS
  <2> HIDE DEF S, State
  <2> QED
    BY <1>6, <2>1, <2>2
<1>8. Solves(out)
  <2> HIDE DEF Solves
  <2> QED
    BY <1>7, Zenon
<1>9. Redact(text, found) = out[S]
  BY DEF Redact
<1> HIDE DEF out
<1>10. /\ out[{}] = text
       /\ \A T \in SUBSET S : T # {} =>
            out[T] = MaskValue(out[T \ {LastOf(found, T)}], LastOf(found, T))
  <2> HIDE DEF S
  <2> QED
    BY <1>8
<1> QED
  BY <1>9, <1>10, Zenon DEF MaskedBy

LEMMA SpansIn ==
  ASSUME NEW text \in Seq(Nat), NEW v \in Seq(Nat), v # << >>, Apart(text, v),
         NEW masked, NEW c \in SUBSET SUBSET Nat
  PROVE  SpansOf(text, masked, c, v) \in SUBSET SUBSET Nat
<1>1. SpansOf(text, masked, c, v) = c \cup Masking(text, Taken(masked, c), v)
  BY SpansIs
<1>2. Masking(text, Taken(masked, c), v) \in SUBSET SUBSET Nat
  BY MaskingIn
<1> QED
  BY <1>1, <1>2

LEMMA SpansAre ==
  ASSUME NEW text \in Seq(Nat), NEW found \in Seq(Candidate),
         \A v \in Maskable(found) : Apart(text, v)
  PROVE  \E out : ClaimedBy(text, found, out)
<1> DEFINE S == Maskable(found)
           masked == Hidden(text)
           State == SUBSET SUBSET Nat
           start == {}
           last == [T \in SUBSET S |-> LastOf(found, T)]
           Solves(f) == f = [T \in SUBSET S |-> IF T = {} THEN start
                                                ELSE SpansOf(text, masked, f[T \ {LastOf(found, T)}], LastOf(found, T))]
           out == CHOOSE f : Solves(f)
           step == [v \in S |-> [c \in State |-> SpansOf(text, masked, c, v)]]
<1>1. IsFiniteSet(S)
  BY MaskableFinite
<1>2. Picks(S, last)
  BY LastIs DEF Picks
<1>3. step \in [S -> [State -> State]]
  <2>1. ASSUME NEW v \in S, NEW c \in State PROVE SpansOf(text, masked, c, v) \in State
    <3>1. v \in Seq(Nat) /\ v # << >>
      BY MaskableIs
    <3>2. Apart(text, v) /\ c \in SUBSET SUBSET Nat
      OBVIOUS
    <3> HIDE DEF S, start, last, step, Solves, out
    <3> QED
      BY <3>1, <3>2, SpansIn
  <2> HIDE DEF S, State
  <2> QED
    BY <2>1
<1>4. start \in State
  OBVIOUS
<1>5. SetIteration(S, last, State, start, step)
  <2> HIDE DEF S, last, State, step, start, Solves, out
  <2> QED
    BY <1>1, <1>2, <1>3, <1>4, SetIterates
<1>6. PICK f \in [SUBSET S -> State] :
        f[{}] = start /\ \A T \in SUBSET S : T # {} => f[T] = step[last[T]][f[T \ {last[T]}]]
  BY <1>5, Zenon DEF SetIteration
<1>7. Solves(f)
  <2>1. ASSUME NEW T \in SUBSET S, T # {}
        PROVE  f[T] = SpansOf(text, masked, f[T \ {LastOf(found, T)}], LastOf(found, T))
    <3>1. last[T] = LastOf(found, T) /\ last[T] \in S
      BY <1>2, <2>1 DEF Picks
    <3>2. f[T \ {last[T]}] \in State
      <4> HIDE DEF State, last
      <4>1. T \ {last[T]} \in SUBSET S
        OBVIOUS
      <4> QED
        BY <4>1
    <3>3. f[T] = step[last[T]][f[T \ {last[T]}]]
      BY <1>6, <2>1
    <3> HIDE DEF S, State, last
    <3> QED
      BY <3>1, <3>2, <3>3
  <2>2. f = [T \in SUBSET S |-> f[T]]
    <3> HIDE DEF S, State
    <3> QED
      OBVIOUS
  <2> HIDE DEF S, State
  <2> QED
    BY <1>6, <2>1, <2>2
<1>8. Solves(out)
  <2> HIDE DEF Solves
  <2> QED
    BY <1>7, Zenon
<1>9. Spans(text, found) = out[S]
  BY DEF Spans
<1> HIDE DEF out
<1>10. /\ out[{}] = {}
       /\ \A T \in SUBSET S : T # {} =>
            out[T] = SpansOf(text, masked, out[T \ {LastOf(found, T)}], LastOf(found, T))
  <2> HIDE DEF S
  <2> QED
    BY <1>8
<1> QED
  BY <1>9, <1>10, Zenon DEF ClaimedBy

(* What a value masks is disjoint, and clear of what was masked.           *)
LEMMA MaskingApart ==
  ASSUME NEW text \in Seq(Nat), NEW v \in Seq(Nat), v # << >>, Apart(text, v), NEW masked
  PROVE  /\ \A s \in Masking(text, masked, v) : s \cap masked = {}
         /\ \A s, t \in Masking(text, masked, v) : s # t => s \cap t = {}
         /\ \A i \in DOMAIN text : Occurs(text, v, i) =>
              /\ i \in Reach(v, i)
              /\ Reach(v, i) \cap masked = {} => Reach(v, i) \in Masking(text, masked, v)
<1>1. DOMAIN text = 1..Len(text) /\ Len(text) \in Nat /\ Len(v) \in Nat /\ Len(v) > 0
  OBVIOUS
<1>2. \A s \in Masking(text, masked, v) : s \cap masked = {}
  BY DEF Masking, Free
<1>3. ASSUME NEW i \in DOMAIN text, NEW j \in DOMAIN text, i < j,
             Occurs(text, v, i), Occurs(text, v, j)
      PROVE  Reach(v, i) \cap Reach(v, j) = {}
  <2>1. i + Len(v) <= j
    BY <1>3 DEF Apart
  <2> QED
    BY <1>1, <2>1 DEF Reach
<1>4. ASSUME NEW s \in Masking(text, masked, v), NEW t \in Masking(text, masked, v), s # t
      PROVE  s \cap t = {}
  <2>1. PICK i \in Free(text, masked, v) : s = Reach(v, i)
    BY DEF Masking
  <2>2. PICK j \in Free(text, masked, v) : t = Reach(v, j)
    BY DEF Masking
  <2>3. i \in DOMAIN text /\ j \in DOMAIN text /\ Occurs(text, v, i) /\ Occurs(text, v, j)
    BY <1>1 DEF Free
  <2>4. i < j \/ j < i
    BY <1>1, <1>4, <2>1, <2>2, <2>3
  <2> QED
    BY <1>3, <2>1, <2>2, <2>3, <2>4
<1>5. \A i \in DOMAIN text : i \in Reach(v, i)
  BY <1>1 DEF Reach
<1> QED
  BY <1>1, <1>2, <1>4, <1>5 DEF Masking, Free

(* The spans lie in the text, apart from each other.                       *)
LEMMA SpansApart ==
  ASSUME NEW text \in Seq(Nat), NEW found \in Seq(Candidate),
         \A v \in Maskable(found) : Apart(text, v),
         NEW spans, ClaimedBy(text, found, spans)
  PROVE  \A T \in SUBSET Maskable(found) :
           /\ spans[T] \subseteq SUBSET DOMAIN text
           /\ \A s, t \in spans[T] : s # t => s \cap t = {}
<1> DEFINE S == Maskable(found)
           last == [T \in SUBSET S |-> LastOf(found, T)]
           good == {T \in SUBSET S : /\ spans[T] \subseteq SUBSET DOMAIN text
                                     /\ \A s, t \in spans[T] : s # t => s \cap t = {}}
<1>1. IsFiniteSet(S) /\ Picks(S, last)
  BY MaskableFinite, LastIs DEF Picks
<1>2. {} \in good
  BY DEF ClaimedBy
<1>3. ASSUME NEW T \in SUBSET S, T # {}, T \ {last[T]} \in good PROVE T \in good
  <2> DEFINE v == last[T]
             U == T \ {v}
             taken == Taken(Hidden(text), spans[U])
             new == Masking(text, taken, v)
  <2>1. v \in S /\ v \in Seq(Nat) /\ v # << >> /\ Apart(text, v)
    <3>1. last[T] \in S
      BY <1>1, <1>3 DEF Picks
    <3> HIDE DEF last, U, taken, new
    <3> QED
      BY <3>1, MaskableIs
  <2>2. spans[U] \subseteq SUBSET DOMAIN text /\ \A s, t \in spans[U] : s # t => s \cap t = {}
    BY <1>3
  <2>3. spans[T] = SpansOf(text, Hidden(text), spans[U], v)
    BY <1>3 DEF ClaimedBy
  <2> HIDE DEF S, v, U
  <2>4. spans[T] = spans[U] \cup new
    BY <2>1, <2>3, SpansIs
  <2>5. /\ \A s \in new : s \cap taken = {}
        /\ \A s, t \in new : s # t => s \cap t = {}
    <3>1. \A m : /\ \A s \in Masking(text, m, v) : s \cap m = {}
                 /\ \A s, t \in Masking(text, m, v) : s # t => s \cap t = {}
      BY <2>1, MaskingApart
    <3> QED
      BY <3>1
  <2>6. \A s \in new : s \subseteq DOMAIN text
    BY <2>1, OccursAt DEF Masking, Free
  <2> HIDE DEF new
  <2>7. \A s \in spans[U] : s \subseteq taken
    BY DEF Taken
  <2> HIDE DEF taken
  <2>8. \A s, t \in spans[T] : s # t => s \cap t = {}
    BY <2>2, <2>4, <2>5, <2>7
  <2>9. spans[T] \subseteq SUBSET DOMAIN text
    BY <2>2, <2>4, <2>6
  <2> QED
    BY <2>8, <2>9
<1>4. SUBSET S \subseteq good
  <2>1. Passes(S, last, good)
    <3> HIDE DEF S, last, good
    <3> QED
      BY <1>2, <1>3 DEF Passes
  <2> HIDE DEF S, last, good
  <2> QED
    BY <1>1, <2>1, SetInduction
<1> QED
  BY <1>4

(* A text of which some characters are masked, all of them of the values;  *)
(* and one in which a place of the value is no longer to be read.          *)
Below(text, values, t) ==
  /\ t \in Seq(Nat) /\ Len(t) = Len(text)
  /\ \A i \in DOMAIN text :
       \/ t[i] = text[i]
       \/ t[i] = 0 /\ \E v \in values : \E k \in DOMAIN v : v[k] = text[i]

Gone(text, v, t) ==
  \A i \in DOMAIN text : Occurs(text, v, i) => \E k \in Reach(v, i) : text[k] # 0 /\ t[k] = 0

LEMMA MaskedBelow ==
  ASSUME NEW text \in Seq(Nat), NEW values, NEW t, Below(text, values, t),
         NEW v \in Seq(Nat), v \in values, v # << >>
  PROVE  /\ Below(text, values, MaskValue(t, v))
         /\ \A k \in DOMAIN text : t[k] = 0 => MaskValue(t, v)[k] = 0
         /\ v[1] # 0 => Gone(text, v, MaskValue(t, v))
<1> DEFINE new == MaskValue(t, v)
<1>1. t \in Seq(Nat) /\ DOMAIN t = DOMAIN text /\ DOMAIN text = 1..Len(text) /\ Len(text) = Len(t)
  BY DEF Below
<1>2. PICK reach : ValueMasked(t, v, reach)
  BY <1>1, MaskIs
<1>3. \A i \in DOMAIN text : new[i] = IF i \in reach THEN 0 ELSE t[i]
  BY <1>1, <1>2 DEF ValueMasked, Blanked
<1>4. new \in Seq(Nat) /\ Len(new) = Len(text)
  BY <1>1, MaskedText
<1> HIDE DEF new
<1>5. ASSUME NEW i \in DOMAIN text, new[i] # text[i]
      PROVE  new[i] = 0 /\ \E w \in values : \E k \in DOMAIN w : w[k] = text[i]
  <2>1. CASE t[i] # text[i]
    BY <1>3, <2>1 DEF Below
  <2>2. CASE t[i] = text[i]
    <3>1. i \in reach
      BY <1>3, <1>5, <2>2
    <3>2. PICK p \in Places(t, v) : i \in Reach(v, p)
      BY <1>2, <3>1 DEF ValueMasked, Reaches
    <3>3. p \in 1..Len(t) /\ Occurs(t, v, p)
      BY DEF Places
    <3>4. /\ i - p + 1 \in 1..Len(v) /\ i = p + (i - p + 1) - 1
          /\ \A k \in 1..Len(v) : t[p + k - 1] = v[k]
      BY ZenonT(30), <1>1, <3>2, <3>3, OccursAt
    <3>5. v[i - p + 1] = t[i]
      BY <3>4
    <3>6. i - p + 1 \in DOMAIN v
      BY <3>4
    <3> QED
      BY <1>3, <2>2, <3>1, <3>5, <3>6
  <2> QED
    BY <2>1, <2>2
<1>6. ASSUME v[1] # 0, NEW i \in 1..Len(text), Occurs(text, v, i)
      PROVE  \E k \in Reach(v, i) : text[k] # 0 /\ new[k] = 0
  <2>0. i \in DOMAIN text
    BY <1>1
  <2>1. Reach(v, i) \subseteq DOMAIN text /\ text[i] = v[1] /\ i \in Reach(v, i)
    <3>1. i \in Reach(v, i) /\ (Occurs(text, v, i) => Reach(v, i) \subseteq DOMAIN text /\ text[i] = v[1])
      BY OccursAt
    <3> QED
      BY <1>6, <3>1
  <2>2. CASE \E k \in Reach(v, i) : t[k] # text[k]
    <3>1. PICK k \in Reach(v, i) : t[k] # text[k]
      BY <2>2
    <3>2. k \in DOMAIN text /\ t[k] = 0
      BY <2>1, <3>1 DEF Below
    <3> QED
      BY <1>3, <3>1, <3>2
  <2>3. CASE \A k \in Reach(v, i) : t[k] = text[k]
    <3>1. /\ i + Len(v) - 1 <= Len(text)
          /\ \A k \in 1..Len(v) : text[i + k - 1] = v[k]
      BY <1>6, OccursAt
    <3>2. \A k \in 1..Len(v) : i + k - 1 \in Reach(v, i)
      <4>1. i \in Nat /\ Len(v) \in Nat
        BY <1>1
      <4> QED
        BY <4>1 DEF Reach
    <3>3. \A k \in 1..Len(v) : t[i + k - 1] = v[k]
      BY <2>3, <3>1, <3>2
    <3>4. Occurs(t, v, i)
      BY <1>1, <3>1, <3>3, OccursAt
    <3>5. t[i] = v[1]
      BY <2>1, <2>3
    <3>6. i \in Places(t, v)
      BY <1>1, <1>6, <3>4, <3>5 DEF Places
    <3>7. i \in reach
      BY <1>2, <3>6 DEF ValueMasked
    <3> QED
      BY <1>3, <1>6, <2>0, <2>1, <3>7
  <2> QED
    BY <2>2, <2>3
<1>7. Below(text, values, new)
  BY <1>4, <1>5 DEF Below
<1>8. \A k \in DOMAIN text : t[k] = 0 => new[k] = 0
  BY <1>3
<1>9. v[1] # 0 => Gone(text, v, new)
  BY <1>6 DEF Gone
<1> QED
  BY <1>7, <1>8, <1>9 DEF new

(* What is masked after some of the values.                                *)
Masked(text, values, t, T) ==
  Below(text, values, t) /\ \A v \in T : v[1] # 0 => Gone(text, v, t)

LEMMA MaskedHolds ==
  ASSUME NEW text \in Seq(Nat), NEW found \in Seq(Candidate),
         NEW out, MaskedBy(text, found, out)
  PROVE  \A T \in SUBSET Maskable(found) : Masked(text, Maskable(found), out[T], T)
<1> DEFINE S == Maskable(found)
           last == [T \in SUBSET S |-> LastOf(found, T)]
           good == {T \in SUBSET S : Masked(text, S, out[T], T)}
<1>1. IsFiniteSet(S) /\ Picks(S, last)
  BY MaskableFinite, LastIs DEF Picks
<1>2. {} \in good
  BY DEF Masked, MaskedBy, Below
<1>3. ASSUME NEW T \in SUBSET S, T # {}, T \ {last[T]} \in good PROVE T \in good
  <2> DEFINE v == last[T]
             t == out[T \ {v}]
  <2>1. v \in S /\ v \in Seq(Nat) /\ v # << >>
    BY <1>1, <1>3, MaskableIs DEF Picks
  <2>2. out[T] = MaskValue(t, v)
    BY <1>3 DEF MaskedBy
  <2>3. Below(text, S, t) /\ \A w \in T \ {v} : w[1] # 0 => Gone(text, w, t)
    BY <1>3 DEF Masked
  <2> HIDE DEF v, t, S
  <2>4. /\ Below(text, S, out[T])
        /\ \A k \in DOMAIN text : t[k] = 0 => out[T][k] = 0
        /\ v[1] # 0 => Gone(text, v, out[T])
    BY <2>1, <2>2, <2>3, MaskedBelow
  <2>5. ASSUME NEW w \in T \ {v}, w[1] # 0 PROVE Gone(text, w, out[T])
    <3>1. w \in Seq(Nat) /\ w # << >>
      BY <2>5, MaskableIs DEF S
    <3>2. \A i \in DOMAIN text : Occurs(text, w, i) => Reach(w, i) \subseteq DOMAIN text
      <4>1. \A i \in DOMAIN text : i \in 1..Len(text)
        OBVIOUS
      <4> QED
        BY <3>1, <4>1, OccursAt
    <3> QED
      BY <2>3, <2>4, <2>5, <3>2 DEF Gone
  <2>6. Masked(text, S, out[T], T)
    BY <2>4, <2>5 DEF Masked
  <2> QED
    BY <2>6
<1>4. SUBSET S \subseteq good
  <2>1. Passes(S, last, good)
    <3> HIDE DEF S, last, good
    <3> QED
      BY <1>2, <1>3 DEF Passes
  <2> HIDE DEF S, last, good
  <2> QED
    BY <1>1, <2>1, SetInduction
<1> QED
  BY <1>4

(* A value with no placeholder in it is masked in a text that has some     *)
(* spans masked, where the audit claims it beside them.                    *)
LEMMA PlainStep ==
  ASSUME NEW text \in Seq(Nat), NEW v \in Seq(Nat), v # << >>, Apart(text, v), Plain(v),
         NEW claimed, NEW after, after = claimed \cup Masking(text, Taken(Hidden(text), claimed), v)
  PROVE  MaskValue(Blanked(text, UNION claimed), v) = Blanked(text, UNION after)
<1> DEFINE m == UNION claimed
           t == Blanked(text, m)
           taken == Taken(Hidden(text), claimed)
<1>1. /\ t \in Seq(Nat) /\ Len(t) = Len(text) /\ Len(text) \in Nat
      /\ DOMAIN t = 1..Len(text) /\ DOMAIN text = 1..Len(text)
      /\ \A i \in 1..Len(text) : t[i] = IF i \in m THEN 0 ELSE text[i]
  <2> HIDE DEF m
  <2>1. t = [i \in 1..Len(text) |-> IF i \in m THEN 0 ELSE text[i]] /\ Len(text) \in Nat
    BY DEF Blanked
  <2>2. t \in [1..Len(text) -> Nat]
    BY <2>1
  <2> HIDE DEF t
  <2> QED
    BY <2>1, <2>2
<1>2. \A k \in 1..Len(v) : v[k] # 0
  BY DEF Plain
<1> HIDE DEF m, t
<1>3. ASSUME NEW i \in 1..Len(text)
      PROVE  /\ Occurs(t, v, i) <=> Occurs(text, v, i) /\ Reach(v, i) \cap m = {}
             /\ Occurs(text, v, i) => Reach(v, i) \cap Hidden(text) = {}
  <2>0. t \in Seq(Nat) /\ i \in 1..Len(t)
    BY <1>1
  <2>1. /\ Occurs(text, v, i) <=> /\ i + Len(v) - 1 <= Len(text)
                                  /\ \A k \in 1..Len(v) : text[i + k - 1] = v[k]
        /\ \A k \in Reach(v, i) : k - i + 1 \in 1..Len(v) /\ k = i + (k - i + 1) - 1
        /\ Occurs(text, v, i) => Reach(v, i) \subseteq 1..Len(text)
    <3>1. DOMAIN text = 1..Len(text)
      OBVIOUS
    <3> QED
      BY <3>1, OccursAt
  <2>2. /\ Occurs(t, v, i) <=> /\ i + Len(v) - 1 <= Len(t)
                               /\ \A k \in 1..Len(v) : t[i + k - 1] = v[k]
        /\ Occurs(t, v, i) => Reach(v, i) \subseteq DOMAIN t
    BY <2>0, OccursAt
  <2>3. \A k \in 1..Len(v) : i + k - 1 \in Reach(v, i)
    <3>1. i \in Nat /\ Len(v) \in Nat
      BY <1>1
    <3> QED
      BY <3>1 DEF Reach
  <2>4. ASSUME Occurs(t, v, i) PROVE Occurs(text, v, i) /\ Reach(v, i) \cap m = {}
    <3>1. \A k \in 1..Len(v) : t[i + k - 1] = v[k] /\ i + k - 1 \in 1..Len(text)
      BY <1>1, <2>2, <2>3, <2>4
    <3>2. \A k \in 1..Len(v) : i + k - 1 \notin m /\ text[i + k - 1] = v[k]
      BY <1>1, <1>2, <3>1
    <3>3. \A p \in Reach(v, i) : p \notin m
      <4>1. SUFFICES ASSUME NEW p \in Reach(v, i) PROVE p \notin m
        OBVIOUS
      <4>2. p - i + 1 \in 1..Len(v) /\ p = i + (p - i + 1) - 1
        BY <2>1
      <4>3. i + (p - i + 1) - 1 \notin m
        BY <3>2, <4>2
      <4> QED
        BY <4>2, <4>3
    <3> QED
      BY <1>1, <2>1, <2>2, <2>4, <3>2, <3>3
  <2>5. ASSUME Occurs(text, v, i), Reach(v, i) \cap m = {} PROVE Occurs(t, v, i)
    <3>1. \A k \in 1..Len(v) : i + k - 1 \notin m /\ i + k - 1 \in 1..Len(text)
      BY <2>1, <2>3, <2>5
    <3>2. \A k \in 1..Len(v) : t[i + k - 1] = v[k]
      BY <1>1, <2>1, <2>5, <3>1
    <3> QED
      BY <1>1, <2>1, <2>2, <2>5, <3>2
  <2>6. ASSUME Occurs(text, v, i), NEW p \in Reach(v, i) PROVE p \notin Hidden(text)
    <3>1. p - i + 1 \in 1..Len(v) /\ p = i + (p - i + 1) - 1
      BY <2>1
    <3>2. text[i + (p - i + 1) - 1] = v[p - i + 1]
      BY <2>1, <2>6, <3>1
    <3>3. text[p] = v[p - i + 1]
      BY <3>1, <3>2
    <3>4. text[p] # 0
      BY <1>2, <3>1, <3>3
    <3> QED
      BY <3>4 DEF Hidden
  <2> QED
    BY <2>4, <2>5, <2>6
<1>4. Apart(t, v)
  BY <1>1, <1>3 DEF Apart
<1>5. Places(t, v) = Free(text, taken, v)
  <2>1. ASSUME NEW i \in 1..Len(text)
        PROVE  i \in Places(t, v) <=> i \in Free(text, taken, v)
    <3>1. i \in Free(text, taken, v) <=> Occurs(text, v, i) /\ Reach(v, i) \cap taken = {}
      BY DEF Free
    <3>2. taken = Hidden(text) \cup m
      BY DEF Taken, m
    <3>3. i \in Places(t, v) <=> Occurs(t, v, i) /\ t[i] # 0
      BY <1>1 DEF Places
    <3>4. Occurs(t, v, i) => t[i] = v[1]
      <4>1. t \in Seq(Nat) /\ i \in 1..Len(t)
        BY <1>1
      <4> QED
        BY <4>1, OccursAt
    <3>5. 1 \in 1..Len(v)
      OBVIOUS
    <3>6. v[1] # 0
      BY <1>2, <3>5
    <3> HIDE DEF taken
    <3> QED
      BY <1>3, <3>1, <3>2, <3>3, <3>4, <3>6
  <2> QED
    BY <1>1, <2>1 DEF Places, Free
<1>6. Reaches(t, v) = UNION Masking(text, taken, v)
  BY <1>5 DEF Reaches, Masking
<1>7. MaskValue(t, v) = Blanked(t, Reaches(t, v))
  <2>1. PICK reach : ValueMasked(t, v, reach)
    BY <1>1, MaskIs
  <2> QED
    BY <1>4, <2>1 DEF ValueMasked
<1>8. ASSUME NEW more PROVE Blanked(t, more) = Blanked(text, m \cup more)
  <2>1. \A i \in 1..Len(text) : (IF i \in more THEN 0 ELSE t[i])
                                 = (IF i \in m \cup more THEN 0 ELSE text[i])
    BY <1>1
  <2> QED
    BY <1>1, <2>1 DEF Blanked
<1>9. m \cup UNION Masking(text, taken, v) = UNION (claimed \cup Masking(text, taken, v))
  BY DEF m
<1> QED
  BY <1>6, <1>7, <1>8, <1>9 DEF t, m

PlainIn(text, found) == \A v \in Maskable(found) : Apart(text, v) /\ Plain(v)

AsClaimed(text, found, out, spans) ==
  \A T \in SUBSET Maskable(found) : out[T] = Blanked(text, UNION spans[T])

LEMMA PlainMasked ==
  ASSUME NEW text \in Seq(Nat), NEW found \in Seq(Candidate),
         PlainIn(text, found),
         NEW out, MaskedBy(text, found, out),
         NEW spans, ClaimedBy(text, found, spans)
  PROVE  AsClaimed(text, found, out, spans)
<1> DEFINE S == Maskable(found)
           last == [T \in SUBSET S |-> LastOf(found, T)]
           good == {T \in SUBSET S : out[T] = Blanked(text, UNION spans[T])}
<1>1. IsFiniteSet(S) /\ Picks(S, last)
  BY MaskableFinite, LastIs DEF Picks
<1>2. {} \in good
  <2>1. Blanked(text, UNION {}) = text
    <3>1. \A i \in DOMAIN text : (IF i \in UNION {} THEN 0 ELSE text[i]) = text[i]
      OBVIOUS
    <3>2. text = [i \in DOMAIN text |-> text[i]]
      OBVIOUS
    <3> QED
      BY <3>1, <3>2 DEF Blanked
  <2> QED
    BY <2>1 DEF MaskedBy, ClaimedBy
<1>3. ASSUME NEW T \in SUBSET S, T # {}, T \ {last[T]} \in good PROVE T \in good
  <2> DEFINE v == last[T]
             U == T \ {v}
  <2>1. v \in S /\ v \in Seq(Nat) /\ v # << >> /\ Apart(text, v) /\ Plain(v)
    BY <1>1, <1>3, MaskableIs DEF Picks, PlainIn
  <2>2. out[U] = Blanked(text, UNION spans[U])
    BY <1>3
  <2>3. out[T] = MaskValue(out[U], v) /\ spans[T] = SpansOf(text, Hidden(text), spans[U], v)
    BY <1>3 DEF MaskedBy, ClaimedBy
  <2> HIDE DEF S, v, U
  <2>4. spans[T] = spans[U] \cup Masking(text, Taken(Hidden(text), spans[U]), v)
    BY <2>1, <2>3, SpansIs
  <2>5. MaskValue(Blanked(text, UNION spans[U]), v) = Blanked(text, UNION spans[T])
    BY <2>1, <2>4, PlainStep
  <2>6. out[T] = Blanked(text, UNION spans[T])
    BY <2>2, <2>3, <2>5
  <2> QED
    BY <2>6
<1>4. SUBSET S \subseteq good
  <2>1. Passes(S, last, good)
    <3> HIDE DEF S, last, good
    <3> QED
      BY <1>2, <1>3 DEF Passes
  <2> HIDE DEF S, last, good
  <2> QED
    BY <1>1, <2>1, SetInduction
<1> QED
  BY <1>4 DEF AsClaimed

(* Where no value is left to be masked, redacting changes nothing.         *)
LEMMA MaskedAgain ==
  ASSUME NEW text \in Seq(Nat), NEW found \in Seq(Candidate),
         \A v \in Maskable(found) : Places(text, v) = {}
  PROVE  Redact(text, found) = text
<1> DEFINE S == Maskable(found)
           last == [T \in SUBSET S |-> LastOf(found, T)]
<1>1. IsFiniteSet(S) /\ Picks(S, last)
  BY MaskableFinite, LastIs DEF Picks
<1>2. PICK out : MaskedBy(text, found, out)
  BY RedactIs
<1> DEFINE good == {T \in SUBSET S : out[T] = text}
<1>3. {} \in good
  BY <1>2 DEF MaskedBy
<1>4. ASSUME NEW T \in SUBSET S, T # {}, T \ {last[T]} \in good PROVE T \in good
  <2> DEFINE v == last[T]
  <2>1. v \in S /\ v \in Seq(Nat) /\ v # << >>
    BY <1>1, <1>4, MaskableIs DEF Picks
  <2>2. out[T] = MaskValue(out[T \ {v}], v) /\ out[T \ {v}] = text
    BY <1>2, <1>4 DEF MaskedBy
  <2> HIDE DEF v
  <2>3. PICK reach : ValueMasked(text, v, reach)
    BY <2>1, MaskIs
  <2>4. Reaches(text, v) = {}
    BY <2>1 DEF Reaches
  <2>5. MaskValue(text, v) = Blanked(text, {})
    BY <2>3, <2>4 DEF ValueMasked
  <2>6. Blanked(text, {}) = text
    <3>1. \A i \in DOMAIN text : (IF i \in {} THEN 0 ELSE text[i]) = text[i]
      OBVIOUS
    <3>2. text = [i \in DOMAIN text |-> text[i]]
      OBVIOUS
    <3> QED
      BY <3>1, <3>2 DEF Blanked
  <2> QED
    BY <2>2, <2>5, <2>6
<1>5. SUBSET S \subseteq good
  <2>1. Passes(S, last, good)
    <3> HIDE DEF S, last, good
    <3> QED
      BY <1>3, <1>4 DEF Passes
  <2> HIDE DEF S, last, good
  <2> QED
    BY <1>1, <2>1, SetInduction
<1>6. S \in good
  <2> HIDE DEF S, good
  <2> QED
    BY <1>5
<1> QED
  BY <1>2, <1>6 DEF MaskedBy

(* A value that comes before all others is masked wherever it occurs.      *)
LEMMA FirstMasked ==
  ASSUME NEW text \in Seq(Nat), NEW found \in Seq(Candidate),
         NEW v \in Maskable(found), Apart(text, v), Tier(found, v) = 1,
         \A w \in Maskable(found) \ {v} : Tier(found, w) > 1
  PROVE  Reaches(text, v) \cap DOMAIN text \subseteq Hidden(Redact(text, found))
<1> DEFINE S == Maskable(found)
           last == [T \in SUBSET S |-> LastOf(found, T)]
           first == Reaches(text, v) \cap DOMAIN text
<1>1. IsFiniteSet(S) /\ Picks(S, last)
  BY MaskableFinite, LastIs DEF Picks
<1>2. PICK out : MaskedBy(text, found, out)
  BY RedactIs
<1>3. \A T \in SUBSET S : Below(text, S, out[T])
  BY <1>2, MaskedHolds DEF Masked
<1> DEFINE good == {T \in SUBSET S : v \in T => first \subseteq Hidden(out[T])}
<1>4. {} \in good
  OBVIOUS
<1>5. ASSUME NEW T \in SUBSET S, T # {}, T \ {last[T]} \in good PROVE T \in good
  <2> DEFINE w == last[T]
             t == out[T \ {w}]
  <2>1. w \in T /\ w \in S /\ w \in Seq(Nat) /\ w # << >>
    BY <1>1, <1>5, MaskableIs DEF Picks
  <2>2. out[T] = MaskValue(t, w)
    BY <1>2, <1>5 DEF MaskedBy
  <2>3. Below(text, S, t)
    <3>1. T \ {w} \in SUBSET S
      OBVIOUS
    <3> HIDE DEF w, S
    <3> QED
      BY <1>3, <3>1
  <2>4. t \in Seq(Nat) /\ DOMAIN t = DOMAIN text
    BY <2>3 DEF Below
  <2> HIDE DEF t
  <2>5. PICK reach : ValueMasked(t, w, reach)
    BY <2>1, <2>4, MaskIs
  <2>6. out[T] = [i \in DOMAIN text |-> IF i \in reach THEN 0 ELSE t[i]]
    BY <2>2, <2>4, <2>5 DEF ValueMasked, Blanked
  <2>7. Hidden(out[T]) = Hidden(t) \cup (reach \cap DOMAIN text)
    BY <2>4, <2>6 DEF Hidden
  <2>8. CASE w # v
    <3>1. v \in T => first \subseteq Hidden(t)
      BY <1>5, <2>8 DEF t
    <3> HIDE DEF first, w
    <3> QED
      BY <2>7, <3>1
  <2>9. CASE w = v
    <3>1. \A u \in T \ {w} : Precedes(found, u, w)
      BY <1>5, LastIs
    <3>2. \A u \in T \ {w} : FALSE
      <4>1. ASSUME NEW u \in T \ {w} PROVE FALSE
        <5>1. u \in S /\ u # v
          BY <2>9
        <5>2. Tier(found, u) > 1 /\ Tier(found, u) \in 1..3
          BY <5>1, MaskableIs
        <5>3. Precedes(found, u, v)
          BY <2>9, <3>1
        <5> QED
          BY <5>2, <5>3 DEF Precedes
      <4> QED
        BY <4>1
    <3>3. T \ {w} = {}
      BY <3>2
    <3>4. t = text
      BY <1>2, <3>3 DEF MaskedBy, t
    <3> HIDE DEF w
    <3>5. reach = Reaches(text, v)
      BY <2>5, <2>9, <3>4 DEF ValueMasked
    <3> QED
      BY <2>7, <3>5
  <2> QED
    BY <2>8, <2>9
<1>6. SUBSET S \subseteq good
  <2>1. Passes(S, last, good)
    <3> HIDE DEF S, last, good
    <3> QED
      BY <1>4, <1>5 DEF Passes
  <2> HIDE DEF S, last, good
  <2> QED
    BY <1>1, <2>1, SetInduction
<1>7. S \in good
  <2> HIDE DEF S, good
  <2> QED
    BY <1>6
<1> QED
  BY <1>2, <1>7 DEF MaskedBy

LEMMA RedactionHolds ==
  ASSUME NEW q, SecretsFound(q)
  PROVE  RedactionSound(q, Redact(q.text, q.found))
<1> DEFINE text == q.text
           found == q.found
           after == Redact(text, found)
           values == Maskable(found)
           all == Spans(text, found)
<1>1. text \in Seq(Nat) /\ found \in Seq(Candidate) /\ q.again \in Seq(Candidate)
  BY DEF SecretsFound, Candidate
<1>2. \A v \in values : Apart(text, v)
  <2>1. \A v \in values : \E i \in DOMAIN found : found[i].value = v
    BY DEF Maskable, Counted
  <2> QED
    BY <2>1 DEF SecretsFound
<1>3. PICK out : MaskedBy(text, found, out)
  <2> HIDE DEF text, found
  <2> QED
    BY <1>1, RedactIs
<1>4. PICK spans : ClaimedBy(text, found, spans)
  <2> HIDE DEF text, found
  <2> QED
    BY <1>1, <1>2, SpansAre
<1> HIDE DEF text, found
<1>5. Masked(text, values, out[values], values)
  BY <1>1, <1>3, MaskedHolds
<1>6. after = out[values] /\ all = spans[values]
  BY <1>3, <1>4 DEF MaskedBy, ClaimedBy
<1>7. all \subseteq SUBSET DOMAIN text /\ \A s, t \in all : s # t => s \cap t = {}
  BY <1>1, <1>2, <1>4, <1>6, SpansApart
<1>8. (\A v \in values : Plain(v)) => after = Blanked(text, UNION all)
  <2>1. SUFFICES ASSUME \A v \in values : Plain(v) PROVE out[values] = Blanked(text, UNION spans[values])
    BY <1>6
  <2>2. PlainIn(text, found)
    BY <1>2, <2>1 DEF PlainIn
  <2>3. AsClaimed(text, found, out, spans)
    BY <1>1, <1>3, <1>4, <2>2, PlainMasked
  <2> QED
    BY <2>3 DEF AsClaimed
<1>9. \A v \in values : v \in Seq(Nat) /\ v # << >>
  BY <1>1, MaskableIs
<1>10. ASSUME NEW v \in values, v[1] # 0, Tier(found, v) = 1,
              \A w \in values \ {v} : Tier(found, w) > 1,
              NEW i \in DOMAIN text, Occurs(text, v, i)
       PROVE  Reach(v, i) \subseteq Hidden(after)
  <2>1. Reaches(text, v) \cap DOMAIN text \subseteq Hidden(after)
    BY <1>1, <1>2, <1>10, FirstMasked
  <2>2. i \in 1..Len(text)
    BY <1>1
  <2>3. v \in Seq(Nat) /\ v # << >>
    BY <1>9
  <2>4. Reach(v, i) \subseteq DOMAIN text /\ text[i] = v[1]
    BY <1>1, <1>10, <2>2, <2>3, OccursAt
  <2>5. i \in Places(text, v)
    BY <1>10, <2>2, <2>4 DEF Places
  <2> QED
    BY <2>1, <2>4, <2>5 DEF Reaches
<1> HIDE DEF after, all, values
<1>11. Below(text, values, after) /\ \A v \in values : v[1] # 0 => Gone(text, v, after)
  BY <1>5, <1>6 DEF Masked
<1>12. after \in Seq(Nat) /\ Len(after) = Len(text) /\ DOMAIN after = DOMAIN text
  BY <1>1, <1>11 DEF Below
<1>13. \A i \in DOMAIN after :
         \/ after[i] = text[i]
         \/ after[i] = 0 /\ \E v \in values : \E k \in DOMAIN v : v[k] = text[i]
  BY <1>11, <1>12 DEF Below
<1>14. \A v \in values : v[1] # 0 =>
         \A i \in DOMAIN text : Occurs(text, v, i) => \E k \in Reach(v, i) : text[k] # 0 /\ after[k] = 0
  BY <1>11 DEF Gone
<1>15. ASSUME \A v \in values : Plain(v)
       PROVE  /\ Hidden(after) = Hidden(text) \cup UNION all
              /\ \A s \in all : Snippet(text, all, s, 2) \cap Hidden(after) \subseteq Hidden(text)
  <2>1. after = [i \in DOMAIN text |-> IF i \in UNION all THEN 0 ELSE text[i]]
    BY <1>8, <1>15 DEF Blanked
  <2>2. Hidden(after) = Hidden(text) \cup UNION all
    BY <1>7, <2>1 DEF Hidden
  <2>3. \A s \in all : Snippet(text, all, s, 2) \cap Hidden(after) \subseteq Hidden(text)
    BY <2>2 DEF Snippet
  <2> QED
    BY <2>2, <2>3
<1>16. ASSUME \A v \in Maskable(q.again) : v[1] = 0 \/ (v \in values /\ Plain(v))
       PROVE  Redact(after, q.again) = after
  <2>1. ASSUME NEW v \in Maskable(q.again), NEW i \in Places(after, v) PROVE FALSE
    <3>1. v \in Seq(Nat) /\ v # << >>
      BY <1>1, MaskableIs
    <3>2. i \in 1..Len(after) /\ i \in 1..Len(text) /\ Occurs(after, v, i) /\ after[i] # 0
      BY <1>12 DEF Places
    <3>3. /\ after[i] = v[1]
          /\ i + Len(v) - 1 <= Len(after)
          /\ \A k \in 1..Len(v) : after[i + k - 1] = v[k]
      <4>1. after \in Seq(Nat) /\ i \in 1..Len(after)
        BY <1>12, <3>2
      <4> QED
        BY <3>1, <3>2, <4>1, OccursAt
    <3>4. v \in values /\ Plain(v)
      BY <1>16, <3>2, <3>3
    <3>5. \A k \in 1..Len(v) : v[k] # 0 /\ i + k - 1 \in 1..Len(text)
      <4>1. \A k \in 1..Len(v) : k \in DOMAIN v
        BY <3>1
      <4>2. i \in Nat /\ Len(v) \in Nat /\ Len(text) \in Nat /\ i >= 1
        BY <1>1, <3>1, <3>2
      <4>3. \A k \in 1..Len(v) : i + k - 1 \in 1..Len(text)
        BY <1>12, <3>3, <4>2
      <4> QED
        BY <3>4, <4>1, <4>3 DEF Plain
    <3>6. \A k \in 1..Len(v) : text[i + k - 1] = v[k]
      <4>1. ASSUME NEW p \in 1..Len(text) PROVE after[p] = text[p] \/ after[p] = 0
        <5>1. p \in DOMAIN after
          BY <1>1, <1>12
        <5> QED
          BY <1>13, <5>1
      <4> QED
        BY <3>3, <3>5, <4>1
    <3>7. Occurs(text, v, i)
      BY <1>1, <1>12, <3>1, <3>2, <3>3, <3>6, OccursAt
    <3>8. 1 \in 1..Len(v)
      BY <3>1
    <3>9. v[1] # 0
      BY <3>5, <3>8
    <3>10. PICK k \in Reach(v, i) : after[k] = 0
      BY <1>1, <1>14, <3>2, <3>4, <3>7, <3>9
    <3>11. k - i + 1 \in 1..Len(v) /\ k = i + (k - i + 1) - 1
      BY <1>1, <3>1, <3>2, OccursAt
    <3> QED
      BY <3>3, <3>5, <3>10, <3>11
  <2>2. \A v \in Maskable(q.again) : Places(after, v) = {}
    BY <2>1
  <2> QED
    BY <1>1, <1>12, <2>2, MaskedAgain
<1> QED
  BY <1>7, <1>10, <1>12, <1>13, <1>14, <1>15, <1>16
  DEF RedactionSound, text, found, after, values, all

-----------------------------------------------------------------------------
(* Boilerplate.                                                            *)

Wordy(pieces) == {k \in 1..Len(pieces) : pieces[k] = "words"}

LEMMA WordyAppend ==
  ASSUME NEW pieces \in Seq(Piece), NEW piece \in Piece
  PROVE  /\ IsFiniteSet(Wordy(pieces)) /\ Cardinality(Wordy(pieces)) \in Nat
         /\ Cardinality(Wordy(Append(pieces, piece)))
              = Cardinality(Wordy(pieces)) + (IF piece = "words" THEN 1 ELSE 0)
<1> DEFINE more == Append(pieces, piece)
           n == Len(pieces)
<1>1. /\ n \in Nat /\ Len(more) = n + 1 /\ more[n + 1] = piece
      /\ \A k \in 1..n : more[k] = pieces[k]
  OBVIOUS
<1>2. IsFiniteSet(Wordy(pieces)) /\ n + 1 \notin Wordy(pieces)
  <2>1. Wordy(pieces) \subseteq 1..n /\ n + 1 \notin 1..n
    BY <1>1 DEF Wordy
  <2>2. IsFiniteSet(1..n)
    BY <1>1, FS_Interval
  <2> QED
    BY <2>1, <2>2, FS_Subset
<1>3. Wordy(more) = Wordy(pieces) \cup (IF piece = "words" THEN {n + 1} ELSE {})
  <2>1. \A k \in 1..n + 1 : k \in 1..n \/ k = n + 1
    BY <1>1
  <2>2. 1..n \subseteq 1..n + 1 /\ n + 1 \in 1..n + 1
    BY <1>1
  <2> HIDE DEF n, more
  <2> QED
    BY <1>1, <2>1, <2>2 DEF Wordy, n
<1> HIDE DEF more, n
<1>4. Cardinality(Wordy(pieces)) \in Nat
  BY <1>2, FS_CardinalityType
<1>5. Cardinality(Wordy(pieces) \cup {n + 1}) = Cardinality(Wordy(pieces)) + 1
  BY <1>2, FS_AddElement
<1>6. CASE piece = "words"
  BY <1>2, <1>3, <1>4, <1>5, <1>6 DEF more
<1>7. CASE piece # "words"
  BY <1>2, <1>3, <1>4, <1>7 DEF more
<1> QED
  BY <1>6, <1>7

(* The words before a block that never ends.                               *)
Spoken(pieces) == {i \in DOMAIN pieces : pieces[i] = "words" /\ \A o \in 1..i : pieces[o] # "open"}

(* A stripped section has none of what is stripped, and all its words.     *)
LEMMA StripSectionIs ==
  ASSUME NEW pieces \in Seq(Piece)
  PROVE  /\ StripSection(pieces) \in Seq(Piece)
         /\ ToSet(StripSection(pieces)) \cap {"block", "open", "echo"} = {}
         /\ Cardinality(Spoken(StripSection(pieces))) = Cardinality(Spoken(pieces))
<1> DEFINE n == Len(pieces)
           State == Seq(Piece)
           start == << >>
           Open == {i \in DOMAIN pieces : pieces[i] = "open"}
           kept == {i \in DOMAIN pieces : pieces[i] # "block" /\ \A o \in Open : i < o}
           Echoed(i) == \E j \in kept : /\ j < i /\ {pieces[j], pieces[i]} = {"echo"}
                                       /\ \A k \in kept : k <= j \/ k >= i
           Shown(piece) == IF piece \in {"echo", "shell"} THEN "marker" ELSE piece
           Goes(i) == i \in kept /\ ~Echoed(i)
           After(s, i) == IF Goes(i) THEN Append(s, Shown(pieces[i])) ELSE s
           Solves(f) == f = [i \in 0..n |-> IF i = 0 THEN start ELSE After(f[i - 1], i)]
           text == CHOOSE f : Solves(f)
           step == [i \in 1..n |-> [s \in State |-> After(s, i)]]
<1>1. n \in Nat /\ DOMAIN pieces = 1..n
  OBVIOUS
<1>2. \A i \in 1..n : pieces[i] \in Piece /\ Shown(pieces[i]) \in Piece
  <2>1. \A i \in 1..n : pieces[i] \in Piece
    OBVIOUS
  <2>2. "marker" \in Piece
    BY DEF Piece
  <2> HIDE DEF n
  <2> QED
    BY <2>1, <2>2
<1>3. ASSUME NEW s \in State, NEW i \in 1..n PROVE After(s, i) \in State
  <2>1. Shown(pieces[i]) \in Piece
    BY <1>2
  <2> DEFINE piece == Shown(pieces[i])
  <2> HIDE DEF piece
  <2>2. Append(s, piece) \in State
    BY <2>1 DEF piece
  <2> HIDE DEF Goes, Shown, State
  <2> QED
    BY <2>2 DEF piece
<1>4. step \in [1..n -> [State -> State]]
  <2> HIDE DEF After, State
  <2> QED
    BY <1>3
<1>5. start \in State
  OBVIOUS
<1>6. PICK f \in [0..n -> State] : f[0] = start /\ \A i \in 1..n : f[i] = step[i][f[i - 1]]
  <2>1. n \in Nat
    BY <1>1
  <2> HIDE DEF n, State, start, step, Open, kept, Echoed, Shown, Goes, After, Solves, text
  <2>2. Iteration(State, start, n, step)
    BY <1>4, <1>5, <2>1, Iterates
  <2> QED
    BY <2>2 DEF Iteration
<1>7. Solves(f)
  <2>1. ASSUME NEW i \in 1..n PROVE f[i] = After(f[i - 1], i)
    <3>1. f[i - 1] \in State
      <4>1. i - 1 \in 0..n
        BY <1>1
      <4> HIDE DEF n, State
      <4> QED
        BY <4>1
    <3> HIDE DEF After, State
    <3> QED
      BY <1>6, <3>1
  <2>2. ASSUME NEW i \in 0..n PROVE f[i] = IF i = 0 THEN start ELSE After(f[i - 1], i)
    <3> HIDE DEF After, State, start, step
    <3> QED
      BY <1>1, <1>6, <2>1
  <2>3. f = [i \in 0..n |-> f[i]]
    OBVIOUS
  <2> HIDE DEF After, start, State
  <2> QED
    BY <2>2, <2>3
<1>8. Solves(text)
  <2> HIDE DEF Solves
  <2> QED
    BY <1>7, Zenon
<1>9. StripSection(pieces) = text[n]
  BY Zenon DEF StripSection
<1> HIDE DEF text
<1>10. text[0] = start /\ \A i \in 1..n : text[i] = After(text[i - 1], i)
  <2>1. 0 \in 0..n /\ \A i \in 1..n : i \in 0..n /\ i # 0
    BY <1>1
  <2> HIDE DEF After, start, n
  <2> QED
    BY <1>8, <2>1
<1> DEFINE upTo(i) == {k \in Spoken(pieces) : k <= i}
           Clean(s) == s \in State /\ \A k \in 1..Len(s) : s[k] \notin {"block", "open", "echo"}
           good == {i \in 0..n : /\ Clean(text[i]) /\ IsFiniteSet(upTo(i))
                                 /\ Cardinality(Wordy(text[i])) = Cardinality(upTo(i))}
<1>11. 0 \in good
  <2>1. upTo(0) = {} /\ Wordy(start) = {}
    BY <1>1 DEF Spoken, Wordy
  <2>2. Clean(start)
    OBVIOUS
  <2>3. IsFiniteSet({}) /\ 0 \in 0..n
    BY <1>1, FS_EmptySet
  <2> HIDE DEF upTo, Clean, start, n
  <2>4. /\ Clean(text[0]) /\ IsFiniteSet(upTo(0))
        /\ Cardinality(Wordy(text[0])) = Cardinality(upTo(0))
    BY <1>10, <2>1, <2>2, <2>3
  <2> QED
    BY <2>3, <2>4
<1>12. ASSUME NEW i \in 1..n, i - 1 \in good PROVE i \in good
  <2> DEFINE s == text[i - 1]
             piece == Shown(pieces[i])
  <2>1. Clean(s) /\ IsFiniteSet(upTo(i - 1)) /\ Cardinality(Wordy(s)) = Cardinality(upTo(i - 1))
    BY <1>12
  <2>2. text[i] = IF Goes(i) THEN Append(s, piece) ELSE s
    BY <1>10
  <2>3. Goes(i) => piece \in Piece \ {"block", "open", "echo"}
    <3>1. Goes(i) => pieces[i] # "block" /\ pieces[i] # "open"
      OBVIOUS
    <3> HIDE DEF Goes
    <3> QED
      BY <1>2, <3>1
  <2>4. i \in Spoken(pieces) <=> Goes(i) /\ piece = "words"
    <3>1. pieces[i] = "words" => ~Echoed(i)
      OBVIOUS
    <3>2. piece = "words" <=> pieces[i] = "words"
      OBVIOUS
    <3>3. i \in kept /\ pieces[i] = "words" <=> i \in Spoken(pieces)
      <4>1. ASSUME \A o \in Open : i < o, NEW o \in 1..i PROVE pieces[o] # "open"
        <5>1. o \in DOMAIN pieces /\ ~(i < o)
          BY <1>1
        <5> QED
          BY <4>1, <5>1
      <4>2. ASSUME \A o \in 1..i : pieces[o] # "open", NEW o \in Open PROVE i < o
        <5>1. o \in 1..n /\ o \notin 1..i
          BY <1>1, <4>2
        <5> QED
          BY <5>1
      <4> HIDE DEF Open
      <4> QED
        BY <1>1, <4>1, <4>2 DEF Spoken
    <3> HIDE DEF kept, Echoed, piece
    <3> QED
      BY <3>1, <3>2, <3>3
  <2>5. upTo(i) = upTo(i - 1) \cup (IF i \in Spoken(pieces) THEN {i} ELSE {})
    <3>1. \A k \in Spoken(pieces) : k <= i <=> k <= i - 1 \/ k = i
      BY <1>1 DEF Spoken
    <3> QED
      BY <3>1
  <2>6. i \notin upTo(i - 1)
    BY <1>1
  <2> HIDE DEF upTo, Goes, piece, s
  <2>7. /\ Cardinality(upTo(i - 1) \cup {i}) = Cardinality(upTo(i - 1)) + 1
        /\ IsFiniteSet(upTo(i - 1) \cup {i})
        /\ Cardinality(upTo(i - 1)) \in Nat
    BY <2>1, <2>6, FS_AddElement, FS_CardinalityType
  <2>10. i \in 0..n
    BY <1>1
  <2>8. CASE Goes(i)
    <3>1. Clean(Append(s, piece))
      BY <2>1, <2>3, <2>8
    <3>2. Cardinality(Wordy(Append(s, piece)))
            = Cardinality(Wordy(s)) + (IF piece = "words" THEN 1 ELSE 0)
      BY <2>1, <2>3, <2>8, WordyAppend
    <3> HIDE DEF Clean
    <3>3. text[i] = Append(s, piece)
      BY <2>2, <2>8
    <3>4. CASE piece = "words"
      <4>1. upTo(i) = upTo(i - 1) \cup {i}
        BY <2>4, <2>5, <2>8, <3>4
      <4>2. Cardinality(Wordy(text[i])) = Cardinality(upTo(i)) /\ IsFiniteSet(upTo(i))
        BY <2>1, <2>7, <3>2, <3>3, <3>4, <4>1
      <4> QED
        BY <2>10, <3>1, <3>3, <4>2
    <3>5. CASE piece # "words"
      <4>1. upTo(i) = upTo(i - 1)
        BY <2>4, <2>5, <2>8, <3>5
      <4>2. Cardinality(Wordy(text[i])) = Cardinality(upTo(i)) /\ IsFiniteSet(upTo(i))
        BY <2>1, <2>7, <3>2, <3>3, <3>5, <4>1
      <4> QED
        BY <2>10, <3>1, <3>3, <4>2
    <3> QED
      BY <3>4, <3>5
  <2>9. CASE ~Goes(i)
    <3> HIDE DEF Clean
    <3> QED
      BY <2>1, <2>2, <2>4, <2>5, <2>9
  <2> QED
    BY <2>8, <2>9
<1>13. n \in good
  <2>1. n \in Nat /\ n \in 0..n
    BY <1>1
  <2> HIDE DEF good, n
  <2> QED
    BY <1>11, <1>12, <2>1, Induction
<1>14. upTo(n) = Spoken(pieces)
  BY <1>1 DEF Spoken
<1>15. ASSUME NEW s, Clean(s)
       PROVE  /\ ToSet(s) \cap {"block", "open", "echo"} = {}
              /\ Spoken(s) = Wordy(s)
  <2>1. DOMAIN s = 1..Len(s) /\ Len(s) \in Nat
    BY <1>15
  <2>2. \A k \in 1..Len(s) : \A o \in 1..k : o \in 1..Len(s)
    BY <2>1
  <2> QED
    BY <1>15, <2>1, <2>2 DEF ToSet, Spoken, Wordy
<1> HIDE DEF upTo, Clean
<1>16. Clean(text[n]) /\ Cardinality(Wordy(text[n])) = Cardinality(Spoken(pieces))
  BY <1>13, <1>14
<1>17. text[n] \in Seq(Piece)
  BY <1>16 DEF Clean
<1> QED
  BY <1>9, <1>15, <1>16, <1>17

LEMMA StripHolds ==
  ASSUME NEW turn, Sections(turn)
  PROVE  StripSound(turn, Strip(turn))
<1> DEFINE stripped == Strip(turn)
<1>1. turn.user \in Seq(Piece) /\ turn.reply \in Seq(Piece)
  BY DEF Sections
<1>2. CASE ~Removed(turn)
  <2>1. stripped = turn /\ Strip(stripped) = stripped
    BY <1>2 DEF Strip
  <2> HIDE DEF stripped
  <2> QED
    BY <1>2, <2>1 DEF StripSound, StoredTurn
<1>3. CASE Removed(turn)
  <2>1. stripped.user = StripSection(turn.user) /\ stripped.reply = StripSection(turn.reply)
    BY <1>3 DEF Strip
  <2> HIDE DEF stripped
  <2>2. ~Removed(stripped)
    BY <1>1, <2>1, StripSectionIs DEF Removed
  <2>3. Strip(stripped) = stripped
    BY <2>2 DEF Strip
  <2>4. Cardinality(Spoken(stripped.user)) = Cardinality(Spoken(turn.user))
    BY <1>1, <2>1, StripSectionIs
  <2>5. Cardinality(Spoken(stripped.reply)) = Cardinality(Spoken(turn.reply))
    BY <1>1, <2>1, StripSectionIs
  <2>6. Enough(stripped) => StoredTurn(turn)
    BY DEF StoredTurn, stripped
  <2> QED
    BY <2>3, <2>4, <2>5, <2>6 DEF StripSound, Spoken, stripped
<1> QED
  BY <1>2, <1>3

-----------------------------------------------------------------------------
(* Passages.                                                               *)

LEMMA Quotient ==
  ASSUME NEW a \in Nat, NEW s \in Nat \ {0}
  PROVE  /\ a \div s \in Nat
         /\ (a \div s) * s <= a
         /\ a < (a \div s) * s + s
  OBVIOUS

LEMMA Multiples ==
  ASSUME NEW i \in Nat, NEW j \in Nat, NEW s \in Nat, i <= j
  PROVE  i * s <= j * s
  OBVIOUS

LEMMA NextMultiple ==
  ASSUME NEW i \in Nat, NEW s \in Nat
  PROVE  i * s \in Nat /\ (i + 1) * s = i * s + s
  OBVIOUS

LEMMA Enlarged ==
  ASSUME NEW a \in Nat, NEW s \in Nat \ {0}
  PROVE  a <= a * s
<1>1. 1 * a <= s * a
  BY Multiples
<1>2. 1 * a = a
  OBVIOUS
<1>3. s * a = a * s
  OBVIOUS
<1> QED
  BY <1>1, <1>2, <1>3

(* The steps to go up to m, by s each: one less does not reach it.         *)
LEMMA Ceiling ==
  ASSUME NEW m \in Nat \ {0}, NEW s \in Nat \ {0}
  PROVE  LET c == (m + s - 1) \div s
         IN  c \in Nat \ {0} /\ m <= c * s /\ (c - 1) * s < m
<1> DEFINE a == m + s - 1
           c == a \div s
<1>1. a \in Nat /\ a >= s
  OBVIOUS
<1>2. c \in Nat /\ c * s <= a /\ a < c * s + s
  BY <1>1, Quotient
<1>3. c # 0
  BY <1>1, <1>2
<1> HIDE DEF c
<1>4. c - 1 \in Nat /\ ((c - 1) + 1) * s = (c - 1) * s + s /\ (c - 1) * s \in Nat
  BY <1>2, <1>3, NextMultiple
<1>5. (c - 1) + 1 = c
  BY <1>2
<1>6. c * s \in Nat
  BY <1>2, NextMultiple
<1>7. m <= c * s /\ (c - 1) * s < m
  BY <1>2, <1>4, <1>5, <1>6
<1> QED
  BY <1>2, <1>3, <1>7 DEF c

LEMMA TokensCounted ==
  ASSUME NEW tokens \in Seq(BOOLEAN)
  PROVE  Cardinality({i \in DOMAIN tokens : tokens[i]}) \in Nat
<1>1. /\ {i \in DOMAIN tokens : tokens[i]} \subseteq 1..Len(tokens)
      /\ Len(tokens) \in Nat
  OBVIOUS
<1> DEFINE counted == {i \in DOMAIN tokens : tokens[i]}
<1>2. IsFiniteSet(1..Len(tokens))
  BY <1>1, FS_Interval
<1> HIDE DEF counted
<1>3. IsFiniteSet(counted)
  BY <1>1, <1>2, FS_Subset DEF counted
<1>4. Cardinality(counted) \in Nat
  BY <1>3, FS_CardinalityType
<1> QED
  BY <1>4 DEF counted

LEMMA PassagesHold ==
  ASSUME NEW q, Windows(q)
  PROVE  PassagesSound(q, PassagesOf(q))
<1> DEFINE n == Cardinality({i \in DOMAIN q.tokens : q.tokens[i]})
           size == q.size
           overlap == q.overlap
           s == size - overlap
           m == n - size
           c == (m + s - 1) \div s
           count == c + 1
           Start(k) == IF k = count THEN m + 1 ELSE (k - 1) * s + 1
           list == PassagesOf(q)
<1>1. /\ n \in Nat /\ size \in Nat /\ overlap \in Nat /\ s \in Nat \ {0}
      /\ q.tokenizer \in BOOLEAN
  BY TokensCounted DEF Windows
<1>2. list = IF q.tokenizer /\ n > size
             THEN [k \in 1..count |-> [from |-> Start(k), to |-> Start(k) + size - 1]]
             ELSE << >>
  BY <1>1 DEF PassagesOf, Passages
<1>3. CASE ~(q.tokenizer /\ n > size)
  <2>1. list = << >>
    BY <1>2, <1>3
  <2>2. PassagesSound(q, << >>)
    <3>1. << >> # << >> <=> q.tokenizer /\ n > q.size
      <4> HIDE DEF n
      <4> QED
        BY <1>3
    <3> QED
      BY <3>1 DEF PassagesSound
  <2> HIDE DEF list
  <2> QED
    BY <2>1, <2>2 DEF list
<1>4. CASE q.tokenizer /\ n > size
  <2> HIDE DEF n, size, overlap, list
  <2>1. m \in Nat \ {0} /\ n = m + size /\ s + overlap = size
    BY <1>1, <1>4
  <2> HIDE DEF s, m
  <2>2. c \in Nat \ {0} /\ m <= c * s /\ (c - 1) * s < m
    BY <1>1, <2>1, Ceiling
  <2> HIDE DEF c
  <2>3. count \in Nat \ {0, 1} /\ count - 1 = c
    BY <2>2
  <2>4. /\ DOMAIN list = 1..count /\ Len(list) = count
        /\ \A k \in 1..count : list[k].from = Start(k) /\ list[k].to = Start(k) + size - 1
    <3>1. list = [k \in 1..count |-> [from |-> Start(k), to |-> Start(k) + size - 1]]
      BY <1>2, <1>4
    <3> HIDE DEF count, Start
    <3> QED
      BY <2>3, <3>1
  <2>5. \A k \in 1..count : (k - 1) * s \in Nat /\ Start(k) \in Nat
    <3>1. \A k \in 1..count : k - 1 \in Nat
      BY <2>3
    <3> QED
      BY <1>1, <2>1, <3>1, NextMultiple
  <2>6. Start(1) = 1 /\ Start(count) = m + 1
    BY <1>1, <2>3
  <2>7. ASSUME NEW k \in 1..count, k > 1
        PROVE  Start(k) > Start(k - 1) /\ Start(k) <= Start(k - 1) + s
    <3>1. k - 1 \in 1..count /\ k - 1 # count /\ k - 2 \in Nat
      BY <2>3, <2>7
    <3>2. Start(k - 1) = (k - 2) * s + 1
      BY <3>1
    <3>3. (k - 2) * s \in Nat /\ ((k - 2) + 1) * s = (k - 2) * s + s
      BY <1>1, <3>1, NextMultiple
    <3>4. (k - 2) + 1 = k - 1
      BY <3>1
    <3>5. CASE k # count
      <4>1. Start(k) = (k - 1) * s + 1
        BY <3>5
      <4> QED
        BY <1>1, <3>2, <3>3, <3>4, <4>1
    <3>6. CASE k = count
      <4>1. Start(k) = m + 1 /\ k - 2 = c - 1 /\ k - 1 = c
        BY <2>3, <3>6
      <4> QED
        BY <1>1, <2>1, <2>2, <3>2, <3>3, <3>4, <4>1
    <3> QED
      BY <3>5, <3>6
  <2>8. ASSUME NEW i \in 1..n - overlap
        PROVE  \E k \in 1..count : Start(k) <= i /\ Start(k) + size - 1 >= i + overlap
    <3>1. CASE i > m
      <4>1. count \in 1..count /\ Start(count) <= i
        BY <1>1, <2>1, <2>3, <2>6, <3>1
      <4>2. Start(count) + size - 1 >= i + overlap
        BY <1>1, <2>1, <2>6
      <4> QED
        BY <4>1, <4>2
    <3>2. CASE i <= m
      <4> DEFINE d == (i - 1) \div s
      <4>1. i - 1 \in Nat
        OBVIOUS
      <4>2. d \in Nat /\ d * s <= i - 1 /\ i - 1 < d * s + s /\ d * s \in Nat
        BY <1>1, <4>1, Quotient, NextMultiple
      <4> HIDE DEF d
      <4>3. d < c
        <5>1. SUFFICES ASSUME c <= d PROVE FALSE
          BY <2>2, <4>2
        <5>2. c * s <= d * s /\ c * s \in Nat
          BY <1>1, <2>2, <4>2, <5>1, Multiples, NextMultiple
        <5> QED
          BY <2>1, <2>2, <3>2, <4>1, <4>2, <5>2
      <4>4. d + 1 \in 1..count /\ d + 1 # count /\ (d + 1) - 1 = d
        BY <2>2, <2>3, <4>2, <4>3
      <4>5. Start(d + 1) = d * s + 1
        BY <4>4
      <4>6. Start(d + 1) <= i /\ Start(d + 1) + size - 1 >= i + overlap
        BY <1>1, <2>1, <4>1, <4>2, <4>5
      <4> QED
        BY <4>4, <4>6
    <3> QED
      BY <1>1, <2>1, <3>1, <3>2
  <2> HIDE DEF Start, count
  <2>9. list # << >>
    BY <2>3, <2>4
  <2>10. list[1].from = 1 /\ list[Len(list)].to = n
    BY <1>1, <2>1, <2>3, <2>4, <2>6
  <2>11. ASSUME NEW k \in DOMAIN list PROVE list[k].to - list[k].from + 1 = size
    <3>1. list[k].from = Start(k) /\ list[k].to = Start(k) + size - 1
      BY <2>4
    <3>2. PICK a \in Nat : a = Start(k)
      BY <2>4, <2>5
    <3> QED
      BY <1>1, <3>1, <3>2
  <2>12. ASSUME NEW k \in DOMAIN list, k > 1
         PROVE  list[k].from > list[k - 1].from /\ list[k].from <= list[k - 1].to + 1 - overlap
    <3>1. k \in 1..count /\ k - 1 \in 1..count
      BY <2>3, <2>4, <2>12
    <3>2. /\ list[k].from = Start(k) /\ list[k - 1].from = Start(k - 1)
          /\ list[k - 1].to = Start(k - 1) + size - 1
          /\ Start(k) \in Nat /\ Start(k - 1) \in Nat
      BY <2>4, <2>5, <3>1
    <3>3. Start(k) > Start(k - 1) /\ Start(k) <= Start(k - 1) + s
      BY <2>7, <2>12, <3>1
    <3> QED
      BY <1>1, <2>1, <3>2, <3>3
  <2>13. \A i \in 1..n - overlap : \E k \in DOMAIN list :
           list[k].from <= i /\ list[k].to >= i + overlap
    BY <2>4, <2>8
  <2> QED
    BY <1>4, <2>9, <2>10, <2>11, <2>12, <2>13 DEF PassagesSound, n, size, overlap, list
<1> QED
  BY <1>3, <1>4

-----------------------------------------------------------------------------
(* Units.                                                                  *)

LEMMA EndsAre ==
  ASSUME NEW sizes \in Seq(Nat \ {0})
  PROVE  /\ Ends(sizes) \in [0..Len(sizes) -> Nat]
         /\ Ends(sizes)[0] = 0
         /\ \A u \in 1..Len(sizes) : Ends(sizes)[u] = Ends(sizes)[u - 1] + sizes[u]
<1> DEFINE n == Len(sizes)
           start == 0
           State == Nat
           After(s, u) == s + sizes[u]
           Solves(f) == f = [u \in 0..n |-> IF u = 0 THEN start ELSE After(f[u - 1], u)]
           ends == CHOOSE f : Solves(f)
           step == [u \in 1..n |-> [s \in State |-> After(s, u)]]
<1>1. n \in Nat /\ \A u \in 1..n : sizes[u] \in Nat
  OBVIOUS
<1>2. step \in [1..n -> [State -> State]]
  BY <1>1
<1>3. start \in State
  OBVIOUS
<1>4. PICK f \in [0..n -> State] : f[0] = start /\ \A u \in 1..n : f[u] = step[u][f[u - 1]]
  <2>1. n \in Nat
    BY <1>1
  <2> HIDE DEF n, State, start, step, After, Solves, ends
  <2>2. Iteration(State, start, n, step)
    BY <1>2, <1>3, <2>1, Iterates
  <2> QED
    BY <2>2 DEF Iteration
<1>5. Solves(f)
  <2>1. ASSUME NEW u \in 1..n PROVE f[u] = After(f[u - 1], u)
    <3>1. f[u - 1] \in State
      <4>1. u - 1 \in 0..n
        BY <1>1
      <4> HIDE DEF n, State
      <4> QED
        BY <4>1
    <3> HIDE DEF After, State
    <3> QED
      BY <1>4, <3>1
  <2>2. ASSUME NEW u \in 0..n PROVE f[u] = IF u = 0 THEN start ELSE After(f[u - 1], u)
    <3> HIDE DEF After, State, start, step
    <3> QED
      BY <1>1, <1>4, <2>1
  <2>3. f = [u \in 0..n |-> f[u]]
    OBVIOUS
  <2> HIDE DEF After, start, State
  <2> QED
    BY <2>2, <2>3
<1>6. Solves(ends)
  <2> HIDE DEF Solves
  <2> QED
    BY <1>5, Zenon
<1>7. Ends(sizes) = ends
  BY Zenon DEF Ends
<1> HIDE DEF ends
<1>8. ends[0] = 0 /\ \A u \in 1..n : ends[u] = ends[u - 1] + sizes[u]
  <2>1. 0 \in 0..n /\ \A u \in 1..n : u \in 0..n /\ u # 0
    BY <1>1
  <2> HIDE DEF n
  <2> QED
    BY <1>6, <2>1
<1> DEFINE good == {u \in 0..n : ends[u] \in Nat}
<1>9. 0 \in good /\ \A u \in 1..n : u - 1 \in good => u \in good
  <2>1. 0 \in good
    BY <1>1, <1>8
  <2>2. ASSUME NEW u \in 1..n, u - 1 \in good PROVE u \in good
    <3>1. u \in 0..n /\ sizes[u] \in Nat /\ ends[u - 1] \in Nat
      BY <1>1, <2>2
    <3> QED
      BY <1>8, <3>1
  <2> HIDE DEF good
  <2> QED
    BY <2>1, <2>2
<1>10. \A u \in 0..n : u \in good
  <2> HIDE DEF good, n
  <2> QED
    BY <1>1, <1>9, Induction
<1>11. ends \in [0..n -> Nat]
  <2>1. ends = [u \in 0..n |-> ends[u]]
    BY <1>6
  <2>2. \A u \in 0..n : ends[u] \in Nat
    BY <1>10
  <2> HIDE DEF n
  <2> QED
    BY <2>1, <2>2
<1> QED
  BY <1>7, <1>8, <1>11

LEMMA EndsWithin ==
  ASSUME NEW sizes \in Seq(Nat \ {0})
  PROVE  \A u \in 0..Len(sizes) : Ends(sizes)[u] <= Ends(sizes)[Len(sizes)]
<1> DEFINE n == Len(sizes)
           ends == Ends(sizes)
           good == {d \in 0..n : ends[n - d] <= ends[n]}
<1>1. /\ n \in Nat /\ \A u \in 1..n : sizes[u] \in Nat
      /\ ends \in [0..n -> Nat]
      /\ \A u \in 1..n : ends[u] = ends[u - 1] + sizes[u]
  BY EndsAre
<1> HIDE DEF n, ends
<1>2. 0 \in good
  <2>1. n - 0 = n /\ n \in 0..n /\ 0 \in 0..n
    BY <1>1
  <2>2. ends[n] \in Nat
    BY <1>1, <2>1
  <2> QED
    BY <2>1, <2>2
<1>3. ASSUME NEW d \in 1..n, d - 1 \in good PROVE d \in good
  <2>1. n - (d - 1) \in 1..n /\ (n - (d - 1)) - 1 = n - d /\ n - d \in 0..n /\ n \in 0..n
    BY <1>1
  <2>2. ends[n - (d - 1)] = ends[n - d] + sizes[n - (d - 1)]
    BY <1>1, <2>1
  <2>3. ends[n - d] \in Nat /\ sizes[n - (d - 1)] \in Nat /\ ends[n] \in Nat
    BY <1>1, <2>1
  <2>4. ends[n - (d - 1)] <= ends[n]
    BY <1>3
  <2>5. ends[n - d] <= ends[n]
    BY <2>2, <2>3, <2>4
  <2>6. d \in 0..n
    BY <1>1
  <2> QED
    BY <2>5, <2>6
<1>4. \A d \in 0..n : d \in good
  <2> HIDE DEF good
  <2> QED
    BY <1>1, <1>2, <1>3, Induction
<1>5. ASSUME NEW u \in 0..n PROVE ends[u] <= ends[n]
  <2>1. n - u \in 0..n /\ n - (n - u) = u
    BY <1>1
  <2>2. n - u \in good
    <3> HIDE DEF good
    <3> QED
      BY <1>4, <2>1
  <2> QED
    BY <2>1, <2>2
<1> QED
  BY <1>5 DEF n, ends

(* The rows of the first k batches.                                        *)
LEMMA BatchRows ==
  ASSUME NEW k \in Nat, NEW batch \in Nat \ {0}, NEW row \in Nat \ {0}
  PROVE  (\E b \in 1..k : row \in (b - 1) * batch + 1..b * batch) <=> row <= k * batch
<1>1. ASSUME NEW b \in 1..k, row \in (b - 1) * batch + 1..b * batch PROVE row <= k * batch
  <2>1. b * batch <= k * batch /\ b * batch \in Nat /\ k * batch \in Nat
    BY Multiples, NextMultiple
  <2> QED
    BY <1>1, <2>1
<1>2. ASSUME row <= k * batch PROVE \E b \in 1..k : row \in (b - 1) * batch + 1..b * batch
  <2> DEFINE d == (row - 1) \div batch
  <2>1. row - 1 \in Nat
    OBVIOUS
  <2>2. /\ d \in Nat /\ d * batch <= row - 1 /\ row - 1 < d * batch + batch
        /\ d * batch \in Nat /\ (d + 1) * batch = d * batch + batch
    BY <2>1, Quotient, NextMultiple
  <2> HIDE DEF d
  <2>3. d < k
    <3>1. SUFFICES ASSUME k <= d PROVE FALSE
      BY <2>2
    <3>2. k * batch <= d * batch /\ k * batch \in Nat
      BY <2>2, <3>1, Multiples, NextMultiple
    <3> QED
      BY <1>2, <2>1, <2>2, <3>2
  <2>4. d + 1 \in 1..k /\ (d + 1) - 1 = d
    BY <2>2, <2>3
  <2>5. row \in d * batch + 1..(d + 1) * batch
    BY <2>1, <2>2
  <2> QED
    BY <2>4, <2>5
<1> QED
  BY <1>1, <1>2

LEMMA UnitsHold ==
  ASSUME NEW q, Units(q)
  PROVE  UnitsSound(q, StoredUnits(q))
<1> DEFINE ends == Ends(q.sizes)
           n == Len(q.sizes)
           sizes == q.sizes
           batch == q.batch
           refused == q.refused
           all == RowCount(q)
           k == IF refused = 0 THEN all ELSE refused - 1
           InBatches(row) == \E b \in 1..k : row \in (b - 1) * batch + 1..b * batch
           RowsOf(u) == ends[u] - sizes[u] + 1..ends[u]
<1>1. sizes \in Seq(Nat \ {0}) /\ batch \in Nat \ {0} /\ refused \in Nat
  BY DEF Units
<1>2. /\ n \in Nat /\ DOMAIN sizes = 1..n
      /\ ends \in [0..n -> Nat]
      /\ \A u \in 1..n : ends[u] = ends[u - 1] + sizes[u]
      /\ \A u \in 0..n : ends[u] <= all
  BY <1>1, EndsAre, EndsWithin DEF RowCount
<1>3. all \in Nat
  <2>1. n \in 0..n /\ all = ends[n]
    BY <1>2 DEF RowCount
  <2> QED
    BY <1>2, <2>1
<1> HIDE DEF ends, n, all
<1>4. k \in Nat /\ k * batch \in Nat
  BY SMTT(20), <1>1, <1>3, NextMultiple
<1>5. ASSUME NEW u \in 1..n
      PROVE  ends[u] <= Embedded(q) <=> \A row \in RowsOf(u) : InBatches(row)
  <2>1. /\ ends[u] \in Nat /\ ends[u - 1] \in Nat /\ ends[u] = ends[u - 1] + sizes[u]
        /\ sizes[u] \in Nat \ {0} /\ ends[u] <= all
    <3>1. u \in 0..n /\ u - 1 \in 0..n
      BY <1>2
    <3>2. sizes[u] \in Nat \ {0}
      BY <1>1, <1>2
    <3> QED
      BY <1>2, <3>1, <3>2
  <2>2. ends[u] \in RowsOf(u) /\ \A row \in RowsOf(u) : row \in Nat \ {0} /\ row <= ends[u]
    BY <2>1
  <2>3. \A row \in Nat \ {0} : InBatches(row) <=> row <= k * batch
    <3> HIDE DEF k
    <3> QED
      BY <1>1, <1>4, BatchRows
  <2> HIDE DEF InBatches, RowsOf
  <2>4. (\A row \in RowsOf(u) : InBatches(row)) <=> ends[u] <= k * batch
    <3> HIDE DEF k
    <3> QED
      BY <1>4, <2>1, <2>2, <2>3
  <2>5. CASE refused = 0
    <3>1. all <= all * batch
      BY <1>1, <1>3, Enlarged
    <3>2. all * batch \in Nat
      BY <1>1, <1>3, NextMultiple
    <3>3. Embedded(q) = all
      BY <2>5 DEF Embedded, all
    <3> QED
      BY <1>3, <2>1, <2>4, <2>5, <3>1, <3>2, <3>3
  <2>6. CASE refused # 0
    <3>1. k = refused - 1
      BY <2>6
    <3>2. Embedded(q) = IF k * batch >= all THEN all ELSE k * batch
      BY <2>6, <3>1 DEF Embedded, all
    <3> HIDE DEF k
    <3> QED
      BY <1>3, <1>4, <2>1, <2>4, <3>2
  <2> QED
    BY <2>5, <2>6
<1>6. StoredUnits(q) = {u \in 1..n : \A row \in RowsOf(u) : InBatches(row)}
  <2>1. StoredUnits(q) = {u \in 1..n : ends[u] <= Embedded(q)}
    BY <1>2 DEF StoredUnits, ends
  <2> HIDE DEF RowsOf, InBatches
  <2> QED
    BY <1>5, <2>1
<1> QED
  BY <1>2, <1>6 DEF UnitsSound, ends, all

-----------------------------------------------------------------------------
(* The sources and their roots.                                            *)

(* Of bounded numbers one is the greatest.                                 *)
LEMMA Bounded ==
  ASSUME NEW nums \in SUBSET Nat, nums # {}, NEW b \in Nat, \A n \in nums : n <= b
  PROVE  IsFiniteSet(nums) /\ Max(nums) \in nums /\ \A n \in nums : n <= Max(nums)
<1>1. IsFiniteSet(0..b)
  BY FS_Interval
<1>2. nums \in SUBSET (0..b)
  OBVIOUS
<1>3. IsFiniteSet(nums)
  BY <1>1, <1>2, FS_Subset
<1> QED
  BY <1>3, MaxHeld

(* The last of the good records is the same without a record that is none. *)
LEMMA Removal ==
  ASSUME NEW S, NEW list \in Seq(S), NEW i \in DOMAIN list, NEW good, list[i] \notin good
  PROVE  LET less == RemoveAt(list, i)
             k == LastOn({j \in DOMAIN list : list[j] \in good})
             m == LastOn({j \in DOMAIN less : less[j] \in good})
         IN  /\ k \in 0..Len(list) /\ m \in Nat
             /\ k = 0 <=> m = 0
             /\ k # 0 => less[m] = list[k]
<1>1. PICK less : less = RemoveAt(list, i)
  OBVIOUS
<1>2. PICK n : n = Len(list)
  OBVIOUS
<1>3. n \in Nat /\ DOMAIN list = 1..n /\ i \in 1..n /\ i - 1 \in 0..n /\ n \in 1..n
  BY <1>2
<1>4. /\ SubSeq(list, 1, i - 1) \in Seq(S) /\ Len(SubSeq(list, 1, i - 1)) = i - 1
      /\ \A j \in 1..(i - 1) : SubSeq(list, 1, i - 1)[j] = list[j]
  BY <1>2, <1>3
<1>5. /\ SubSeq(list, i + 1, n) \in Seq(S) /\ Len(SubSeq(list, i + 1, n)) = n - i
      /\ \A j \in 1..(n - i) : SubSeq(list, i + 1, n)[j] = list[i + j]
  BY SMTT(20), <1>2, <1>3
<1>6. /\ less \in Seq(S) /\ DOMAIN less = 1..(n - 1)
      /\ \A j \in 1..(i - 1) : less[j] = list[j]
      /\ \A j \in i..(n - 1) : less[j] = list[j + 1]
  <2>1. PICK a : a = SubSeq(list, 1, i - 1)
    OBVIOUS
  <2>2. PICK b : b = SubSeq(list, i + 1, n)
    OBVIOUS
  <2>3. less = a \o b
    BY <1>1, <1>2, <2>1, <2>2 DEF RemoveAt
  <2>4. a \in Seq(S) /\ b \in Seq(S) /\ Len(a) = i - 1 /\ Len(b) = n - i
    BY <1>4, <1>5, <2>1, <2>2
  <2>5. less \in Seq(S) /\ Len(less) = n - 1
    <3>1. a \o b \in Seq(S) /\ Len(a \o b) = Len(a) + Len(b)
      BY SMTT(20), <2>4
    <3>2. (i - 1) + (n - i) = n - 1
      BY <1>3
    <3> QED
      BY <2>3, <2>4, <3>1, <3>2
  <2>6. ASSUME NEW j \in 1..(i - 1) PROVE less[j] = list[j]
    <3>1. \A x \in 1..Len(a) : (a \o b)[x] = a[x]
      BY <2>4
    <3> QED
      BY <1>4, <2>1, <2>3, <2>4, <3>1
  <2>7. ASSUME NEW j \in i..(n - 1) PROVE less[j] = list[j + 1]
    <3>1. less[j] = b[j - (i - 1)]
      <4>1. j \in Len(a) + 1..Len(a) + Len(b)
        BY <1>3, <2>4
      <4>2. \A x \in Len(a) + 1..Len(a) + Len(b) : (a \o b)[x] = b[x - Len(a)]
        BY <2>4
      <4> QED
        BY <2>3, <2>4, <4>1, <4>2
    <3>2. j - (i - 1) \in 1..(n - i)
      BY <1>3
    <3> QED
      BY SMTT(20), <1>3, <1>5, <2>2, <3>1, <3>2
  <2> QED
    BY <1>3, <2>5, <2>6, <2>7
<1>7. PICK hits : hits = {j \in DOMAIN list : list[j] \in good}
  OBVIOUS
<1>8. PICK after : after = {j \in DOMAIN less : less[j] \in good}
  OBVIOUS
<1>9. \A j \in 1..n : j \in hits => j # i /\ (IF j < i THEN j ELSE j - 1) \in after
  <2>1. ASSUME NEW j \in 1..n, j \in hits PROVE j # i /\ (IF j < i THEN j ELSE j - 1) \in after
    <3>1. list[j] \in good /\ j # i
      BY <1>7, <2>1
    <3>2. CASE j < i
      <4>1. j \in 1..(i - 1) /\ j \in 1..(n - 1)
        BY <1>3, <3>2
      <4> QED
        BY <1>6, <1>8, <3>1, <3>2, <4>1
    <3>3. CASE j > i
      <4>1. j - 1 \in i..(n - 1) /\ (j - 1) + 1 = j
        BY <1>3, <3>3
      <4> QED
        BY <1>3, <1>6, <1>8, <3>1, <3>3, <4>1
    <3> QED
      BY <1>3, <3>1, <3>2, <3>3
  <2> QED
    BY <2>1
<1>10. \A j \in 1..(n - 1) : j \in after => (IF j < i THEN j ELSE j + 1) \in hits
  <2>1. ASSUME NEW j \in 1..(n - 1), j \in after PROVE (IF j < i THEN j ELSE j + 1) \in hits
    <3>1. less[j] \in good
      BY <1>8, <2>1
    <3>2. CASE j < i
      <4>1. j \in 1..(i - 1) /\ j \in DOMAIN list
        BY <1>3, <3>2
      <4> QED
        BY <1>6, <1>7, <3>1, <3>2, <4>1
    <3>3. CASE ~(j < i)
      <4>1. j \in i..(n - 1) /\ j + 1 \in DOMAIN list
        BY <1>3, <3>3
      <4> QED
        BY <1>6, <1>7, <3>1, <3>3, <4>1
    <3> QED
      BY <3>2, <3>3
  <2> QED
    BY <2>1
<1>11. hits \in SUBSET (1..n) /\ after \in SUBSET (1..(n - 1))
  BY <1>3, <1>6, <1>7, <1>8
<1>12. /\ hits # {} => Max(hits) \in hits /\ \A j \in hits : j <= Max(hits)
       /\ after # {} => Max(after) \in after /\ \A j \in after : j <= Max(after)
  <2>1. hits # {} => Max(hits) \in hits /\ \A j \in hits : j <= Max(hits)
    <3>1. CASE hits # {}
      <4>1. hits \in SUBSET Nat /\ \A j \in hits : j <= n
        BY <1>3, <1>11
      <4> QED
        BY <1>3, <3>1, <4>1, Bounded
    <3> QED
      BY <3>1
  <2>2. after # {} => Max(after) \in after /\ \A j \in after : j <= Max(after)
    <3>1. CASE after # {}
      <4>1. after \in SUBSET Nat /\ n - 1 \in Nat /\ \A j \in after : j <= n - 1
        BY <1>3, <1>11
      <4> QED
        BY <3>1, <4>1, Bounded
    <3> QED
      BY <3>1
  <2> QED
    BY <2>1, <2>2
<1>13. PICK k : k = LastOn(hits)
  OBVIOUS
<1>14. PICK m : m = LastOn(after)
  OBVIOUS
<1>15. k = (IF hits = {} THEN 0 ELSE Max(hits)) /\ m = (IF after = {} THEN 0 ELSE Max(after))
  BY <1>13, <1>14 DEF LastOn
<1>16. CASE hits = {}
  <2>1. after = {}
    BY <1>10, <1>11, <1>16
  <2> QED
    BY <1>1, <1>3, <1>7, <1>8, <1>13, <1>14, <1>15, <1>16, <2>1
<1>17. CASE hits # {}
  <2>1. k \in hits /\ k \in 1..n /\ \A j \in hits : j <= k
    BY <1>11, <1>12, <1>15, <1>17
  <2>2. (IF k < i THEN k ELSE k - 1) \in after
    BY <1>9, <2>1
  <2>3. m \in after /\ m \in 1..(n - 1) /\ \A j \in after : j <= m
    BY <1>11, <1>12, <1>15, <2>2
  <2>4. (IF m < i THEN m ELSE m + 1) \in hits
    BY <1>10, <2>3
  <2>5. k = (IF m < i THEN m ELSE m + 1)
    BY <1>3, <1>9, <2>1, <2>2, <2>3, <2>4
  <2>6. less[m] = list[k]
    BY <1>3, <1>6, <2>3, <2>5
  <2> QED
    BY <1>1, <1>2, <1>3, <1>7, <1>8, <1>13, <1>14, <2>1, <2>3, <2>6
<1> QED
  BY <1>16, <1>17

(* The lines of history.jsonl and the records of the summaries.            *)
HistoryLine == [id : Nat, path : Seq(STRING), bad : BOOLEAN]
SummaryRecord == [id : Nat, uri : {"file", "relative", "absent"}, path : Seq(STRING), bad : BOOLEAN]

(* A line of history.jsonl that is of another conversation, or cannot be   *)
(* read, decides nothing.                                                  *)
LEMMA HistoryRemoval ==
  ASSUME NEW lines \in Seq(HistoryLine), NEW id, NEW i \in DOMAIN lines, lines[i].bad \/ lines[i].id # id
  PROVE  History(RemoveAt(lines, i), id) = History(lines, id)
<1>1. PICK S : S = HistoryLine
  OBVIOUS
<1>2. PICK good : good = {r \in S : ~r.bad /\ r.id = id /\ r.path # << >>}
  OBVIOUS
<1>3. lines \in Seq(S) /\ lines[i] \in S /\ lines[i] \notin good
  BY <1>1, <1>2
<1>4. PICK less : less = RemoveAt(lines, i)
  OBVIOUS
<1>5. less \in Seq(S)
  BY <1>3, <1>4 DEF RemoveAt
<1>6. {j \in DOMAIN lines : ~lines[j].bad /\ lines[j].id = id /\ lines[j].path # << >>}
        = {j \in DOMAIN lines : lines[j] \in good}
  <2>1. \A j \in DOMAIN lines : lines[j] \in S
    BY <1>3
  <2> QED
    BY <1>2, <2>1
<1>7. {j \in DOMAIN less : ~less[j].bad /\ less[j].id = id /\ less[j].path # << >>}
        = {j \in DOMAIN less : less[j] \in good}
  <2>1. \A j \in DOMAIN less : less[j] \in S
    BY <1>5
  <2> QED
    BY <1>2, <2>1
<1>8. PICK k : k = LastOn({j \in DOMAIN lines : lines[j] \in good})
  OBVIOUS
<1>9. PICK m : m = LastOn({j \in DOMAIN less : less[j] \in good})
  OBVIOUS
<1>10. (k = 0 <=> m = 0) /\ (k # 0 => less[m] = lines[k])
  BY <1>3, <1>4, <1>8, <1>9, Removal
<1>11. History(lines, id) = IF k = 0 THEN Unknown ELSE lines[k].path
  BY <1>6, <1>8 DEF History
<1>12. History(less, id) = IF m = 0 THEN Unknown ELSE less[m].path
  BY <1>7, <1>9 DEF History
<1> QED
  BY <1>4, <1>10, <1>11, <1>12

(* A summary of another conversation decides nothing.                      *)
LEMMA SummariesRemoval ==
  ASSUME NEW file, file.records \in Seq(SummaryRecord), NEW less, less.whole = file.whole, NEW id,
         NEW i \in DOMAIN file.records, file.records[i].bad \/ file.records[i].id # id,
         less.records = RemoveAt(file.records, i)
  PROVE  Summaries(less, id) = Summaries(file, id)
<1>1. PICK S : S = SummaryRecord
  OBVIOUS
<1>2. PICK good : good = {r \in S : Decodes(r) /\ r.id = id}
  OBVIOUS
<1>3. PICK records : records = file.records
  OBVIOUS
<1>4. PICK rest : rest = less.records
  OBVIOUS
<1>5. records \in Seq(S) /\ records[i] \in S /\ records[i] \notin good /\ i \in DOMAIN records
  BY <1>1, <1>2, <1>3 DEF Decodes
<1>6. rest = RemoveAt(records, i) /\ rest \in Seq(S)
  BY <1>3, <1>4, <1>5 DEF RemoveAt
<1>7. {j \in DOMAIN records : Decodes(records[j]) /\ records[j].id = id}
        = {j \in DOMAIN records : records[j] \in good}
  <2>1. \A j \in DOMAIN records : records[j] \in S
    BY <1>5
  <2> QED
    BY <1>2, <2>1
<1>8. {j \in DOMAIN rest : Decodes(rest[j]) /\ rest[j].id = id}
        = {j \in DOMAIN rest : rest[j] \in good}
  <2>1. \A j \in DOMAIN rest : rest[j] \in S
    BY <1>6
  <2> QED
    BY <1>2, <2>1
<1>9. PICK k : k = LastOn({j \in DOMAIN records : records[j] \in good})
  OBVIOUS
<1>10. PICK m : m = LastOn({j \in DOMAIN rest : rest[j] \in good})
  OBVIOUS
<1>11. (k = 0 <=> m = 0) /\ (k # 0 => rest[m] = records[k])
  BY <1>5, <1>6, <1>9, <1>10, Removal
<1>12. Summaries(file, id) = IF ~file.whole \/ k = 0 THEN Unknown
         ELSE IF records[k].uri = "relative" THEN Unknown ELSE records[k].path
  BY <1>3, <1>7, <1>9 DEF Summaries
<1>13. Summaries(less, id) = IF ~file.whole \/ m = 0 THEN Unknown
         ELSE IF rest[m].uri = "relative" THEN Unknown ELSE rest[m].path
  BY <1>4, <1>8, <1>10 DEF Summaries
<1> QED
  BY <1>11, <1>12, <1>13

(* What the root of an Antigravity conversation is read from.              *)
AntigravityFiles ==
  [of : {"antigravity"}, id : Nat, desktop : BOOLEAN, history : Seq(HistoryLine),
   summaries : [whole : BOOLEAN, records : Seq(SummaryRecord)]]

(* The root of a conversation is the one its own records give, and no      *)
(* record of another changes it.                                           *)
LEMMA AntigravityRootHolds ==
  ASSUME NEW q \in AntigravityFiles
  PROVE  AntigravityRootSound(q, AntigravityRoot(q))
<1>1. /\ q = [of |-> q.of, id |-> q.id, desktop |-> q.desktop, history |-> q.history,
              summaries |-> q.summaries]
      /\ q.summaries = [whole |-> q.summaries.whole, records |-> q.summaries.records]
      /\ q.history \in Seq(HistoryLine) /\ q.summaries.records \in Seq(SummaryRecord)
  BY DEF AntigravityFiles
<1>2. ASSUME NEW i \in DOMAIN q.history, q.history[i].bad \/ q.history[i].id # q.id
      PROVE  AntigravityRoot(q) = AntigravityRoot([q EXCEPT !.history = RemoveAt(@, i)])
  <2>1. PICK p : p = [q EXCEPT !.history = RemoveAt(@, i)]
    OBVIOUS
  <2>2. p.history = RemoveAt(q.history, i) /\ p.id = q.id /\ p.desktop = q.desktop /\ p.summaries = q.summaries
    BY <1>1, <2>1
  <2>3. History(p.history, p.id) = History(q.history, q.id)
    BY <1>1, <1>2, <2>2, HistoryRemoval
  <2>4. AntigravityRoot(p) = AntigravityRoot(q)
    BY <2>2, <2>3 DEF AntigravityRoot
  <2> QED
    BY <2>1, <2>4
<1>3. ASSUME NEW i \in DOMAIN q.summaries.records,
             q.summaries.records[i].bad \/ q.summaries.records[i].id # q.id
      PROVE  AntigravityRoot(q) = AntigravityRoot([q EXCEPT !.summaries.records = RemoveAt(@, i)])
  <2>1. PICK p : p = [q EXCEPT !.summaries.records = RemoveAt(@, i)]
    OBVIOUS
  <2>2. /\ p.history = q.history /\ p.id = q.id /\ p.desktop = q.desktop
        /\ p.summaries.records = RemoveAt(q.summaries.records, i)
        /\ p.summaries.whole = q.summaries.whole
    BY <1>1, <2>1
  <2>3. Summaries(p.summaries, p.id) = Summaries(q.summaries, q.id)
    BY <1>1, <1>3, <2>2, SummariesRemoval
  <2>4. AntigravityRoot(p) = AntigravityRoot(q)
    BY <2>2, <2>3 DEF AntigravityRoot
  <2> QED
    BY <2>1, <2>4
<1> QED
  BY <1>2, <1>3 DEF AntigravityRootSound

(* A prefix is what a sequence starts with.                                *)
LEMMA PrefixIs ==
  ASSUME NEW S, NEW s \in Seq(S), NEW t \in Seq(S)
  PROVE  IsPrefix(s, t) <=> Continues(s, t)
<1>1. SubSeq(s, 1, Len(s)) = s
  <2>1. SubSeq(s, 1, Len(s)) \in Seq(S) /\ Len(SubSeq(s, 1, Len(s))) = Len(s)
        /\ \A i \in 1..Len(s) : SubSeq(s, 1, Len(s))[i] = s[i]
    OBVIOUS
  <2> QED
    BY <2>1
<1>2. CASE Len(s) <= Len(t)
  <2>1. PICK u : u = SubSeq(t, 1, Len(s))
    OBVIOUS
  <2>2. u \in Seq(S) /\ Len(u) = Len(s) /\ \A i \in 1..Len(s) : u[i] = t[i]
    BY <1>2, <2>1
  <2>3. s = u <=> \A i \in 1..Len(s) : t[i] = s[i]
    BY <2>2
  <2> QED
    BY <1>1, <1>2, <2>1, <2>3 DEF IsPrefix, Continues
<1> QED
  BY <1>2 DEF IsPrefix, Continues

(* A sequence that starts with another as long as it is that one.          *)
LEMMA ContinuesEqual ==
  ASSUME NEW S, NEW s \in Seq(S), NEW t \in Seq(S), Continues(s, t), Len(s) = Len(t)
  PROVE  s = t
<1>1. \A i \in 1..Len(s) : s[i] = t[i]
  BY DEF Continues
<1> QED
  BY <1>1

(* An old path and the new one of a Cowork path map.                       *)
PathPair == [old : Seq(STRING), new : Seq(STRING)]

(* A root is remapped by a longest old path it starts with.                *)
LEMMA RemappedIs ==
  ASSUME NEW S, NEW root \in Seq(S), NEW pairs \in Seq(PathPair), root # Unknown,
         NEW fits, fits = {i \in PathMap(pairs) : IsPrefix(pairs[i].old, root)}, fits # {}
  PROVE  \E k \in fits :
           /\ \A j \in fits : Len(pairs[j].old) <= Len(pairs[k].old)
           /\ Remapped(root, pairs)
                = pairs[k].new \o SubSeq(root, Len(pairs[k].old) + 1, Len(root))
<1> DEFINE size == [i \in fits |-> Len(pairs[i].old)]
           Before(i, j) == \/ Len(pairs[j].old) < Len(pairs[i].old)
                           \/ Len(pairs[j].old) = Len(pairs[i].old) /\ i <= j
<1>1. /\ fits \in SUBSET (1..Len(pairs))
      /\ \A i \in fits : size[i] \in Nat /\ size[i] <= Len(root) /\ Len(root) \in Nat
  <2>1. \A i \in fits : i \in 1..Len(pairs) /\ pairs[i] \in PathPair
    BY DEF PathMap
  <2>2. \A i \in fits : pairs[i].old \in Seq(STRING) /\ Len(pairs[i].old) <= Len(root)
    BY <2>1 DEF PathPair, IsPrefix
  <2> QED
    BY <2>1, <2>2
<1>2. PICK nums : nums = {size[i] : i \in fits}
  OBVIOUS
<1>3. Max(nums) \in nums /\ \A m \in nums : m <= Max(nums)
  <2>1. nums \in SUBSET Nat /\ nums # {} /\ Len(root) \in Nat /\ \A m \in nums : m <= Len(root)
    BY <1>1, <1>2
  <2> QED
    BY <2>1, Bounded
<1>4. PICK long : long = {i \in fits : size[i] = Max(nums)}
  OBVIOUS
<1>5. long \in SUBSET Nat /\ long # {}
  <2>1. PICK i \in fits : size[i] = Max(nums)
    <3> HIDE DEF size
    <3> QED
      BY <1>2, <1>3
  <2>2. i \in long /\ long \subseteq fits
    BY <1>4, <2>1
  <2> QED
    BY <1>1, <2>2
<1>6. PICK k \in long : \A i \in long : k <= i
  BY <1>5, MinHeld
<1>7. k \in fits /\ size[k] = Max(nums) /\ \A j \in fits : size[j] \in nums
  BY <1>2, <1>4
<1>8. \E i \in fits : \A j \in fits : Before(i, j)
  <2>1. \A j \in fits : size[j] < size[k] \/ (size[j] = size[k] /\ k <= j)
    BY <1>1, <1>3, <1>4, <1>6, <1>7
  <2>2. \A j \in fits : Before(k, j)
    BY <1>7, <2>1
  <2> QED
    BY <1>7, <2>2
<1>9. PICK c : c = CHOOSE i \in fits : \A j \in fits : Before(i, j)
  OBVIOUS
<1>10. c \in fits /\ \A j \in fits : Before(c, j)
  <2> HIDE DEF Before
  <2> QED
    BY <1>8, <1>9
<1>11. \A j \in fits : Len(pairs[j].old) <= Len(pairs[c].old)
  <2>1. \A j \in fits : size[j] \in Nat /\ size[c] \in Nat
    BY <1>1, <1>10
  <2> QED
    BY <1>10, <2>1
<1>12. Remapped(root, pairs) = pairs[c].new \o SubSeq(root, Len(pairs[c].old) + 1, Len(root))
  BY <1>9 DEF Remapped
<1> QED
  BY <1>10, <1>11, <1>12

(* The metadata a Cowork session keeps.                                    *)
CoworkMetadata ==
  [of : {"cowork"}, readable : BOOLEAN, folders : Seq(Seq(STRING)), cwd : Seq(STRING),
   absolute : BOOLEAN, own : Seq(STRING), map : Seq(PathPair)]

(* The root of a Cowork session is the folder the user chose, remapped by  *)
(* the longest old path of the map it starts with.                         *)
LEMMA CoworkRootHolds ==
  ASSUME NEW q \in CoworkMetadata
  PROVE  CoworkRootSound(q, CoworkSource(q))
<1>1. /\ q.folders \in Seq(Seq(STRING)) /\ q.cwd \in Seq(STRING) /\ q.map \in Seq(PathPair)
      /\ q.readable \in BOOLEAN
  BY DEF CoworkMetadata
<1>2. PICK from : from = CoworkRoot(q)
  OBVIOUS
<1>3. PICK root : root = CoworkSource(q)
  OBVIOUS
<1>4. PICK pairs : pairs = q.map
  OBVIOUS
<1>5. root = Remapped(from, pairs) /\ pairs \in Seq(PathPair)
  BY <1>1, <1>2, <1>3, <1>4 DEF CoworkSource
<1>6. PICK S : S = STRING \cup {"unknown"}
  OBVIOUS
<1>7. /\ from \in Seq(S)
      /\ ~q.readable => from = Unknown
      /\ (\A i \in DOMAIN q.folders : q.folders[i] = << >>) =>
           from = Unknown \/ (q.absolute /\ ~InSandbox(q, from))
  <2>1. PICK chosen : chosen = {i \in DOMAIN q.folders : q.folders[i] # << >>}
    OBVIOUS
  <2>2. from = IF ~q.readable THEN Unknown
               ELSE IF chosen # {} THEN q.folders[Min(chosen)]
               ELSE IF q.absolute /\ ~InSandbox(q, q.cwd) THEN q.cwd
               ELSE Unknown
    BY <1>2, <2>1 DEF CoworkRoot
  <2>3. chosen # {} => Min(chosen) \in DOMAIN q.folders
    <3>1. chosen \in SUBSET Nat /\ chosen \subseteq DOMAIN q.folders
      BY <1>1, <2>1
    <3> QED
      BY <3>1, MinHeld
  <2>4. (\A i \in DOMAIN q.folders : q.folders[i] = << >>) => chosen = {}
    BY <2>1
  <2>5. q.folders \in Seq(Seq(S)) /\ q.cwd \in Seq(S)
    <3>1. PICK T : T = STRING
      OBVIOUS
    <3>2. T \subseteq S /\ q.folders \in Seq(Seq(T)) /\ q.cwd \in Seq(T)
      BY <1>1, <1>6, <3>1
    <3> QED
      BY <3>2
  <2>6. Unknown \in Seq(S)
    BY <1>6 DEF Unknown
  <2> QED
    BY <1>1, <2>2, <2>3, <2>4, <2>5, <2>6
<1>8. PICK fits : fits = {i \in PathMap(pairs) : IsPrefix(pairs[i].old, from)}
  OBVIOUS
<1>9. PICK moves : moves = {p \in ToSet(q.map) : p.old # << >> /\ p.new # << >> /\ IsPrefix(p.old, from)}
  OBVIOUS
<1>10. moves = {pairs[i] : i \in fits} /\ fits \in SUBSET DOMAIN pairs
  BY <1>4, <1>8, <1>9 DEF ToSet, PathMap
<1>11. (from = Unknown \/ fits = {}) => root = from
  BY <1>5, <1>8 DEF Remapped
<1>12. CASE from # Unknown /\ fits # {}
  <2>1. PICK k \in fits :
           /\ \A j \in fits : Len(pairs[j].old) <= Len(pairs[k].old)
           /\ root = pairs[k].new \o SubSeq(from, Len(pairs[k].old) + 1, Len(from))
    BY <1>5, <1>7, <1>8, <1>12, RemappedIs
  <2>2. PICK p : p = pairs[k]
    OBVIOUS
  <2>3. p \in moves /\ \A o \in moves : Len(o.old) <= Len(p.old)
    BY <1>10, <2>1, <2>2
  <2>4. p.old \in Seq(STRING) /\ p.new \in Seq(STRING) /\ Len(p.old) <= Len(from)
    <3>1. p \in PathPair
      BY <1>5, <1>10, <2>2
    <3> QED
      BY <1>9, <2>3, <3>1 DEF PathPair, IsPrefix
  <2>5. PICK old : old = p.old
    OBVIOUS
  <2>6. PICK new : new = p.new
    OBVIOUS
  <2>8. old \in Seq(S) /\ new \in Seq(S) /\ from \in Seq(S) /\ Len(old) <= Len(from)
    <3>1. PICK T : T = STRING
      OBVIOUS
    <3>2. T \subseteq S /\ old \in Seq(T) /\ new \in Seq(T)
      BY <1>6, <2>4, <2>5, <2>6, <3>1
    <3> QED
      BY <1>7, <2>4, <2>5, <3>2
  <2>9. PICK rest : rest = SubSeq(from, Len(old) + 1, Len(from))
    OBVIOUS
  <2>10. rest \in Seq(S) /\ Len(rest) = Len(from) - Len(old)
    BY <2>8, <2>9
  <2>11. root = new \o rest
    BY <2>1, <2>2, <2>5, <2>6, <2>9
  <2>12. /\ root \in Seq(S) /\ Len(root) = Len(new) + Len(rest)
         /\ \A i \in 1..Len(new) : root[i] = new[i]
    BY <2>8, <2>10, <2>11
  <2>13. Len(root) = Len(from) - Len(old) + Len(new)
    BY <2>8, <2>10, <2>12
  <2>14. Continues(new, root)
    BY <2>8, <2>10, <2>12 DEF Continues
  <2>15. IsPrefix(p.new, root)
    BY <2>6, <2>8, <2>12, <2>14, PrefixIs
  <2>16. q.readable /\ moves # {}
    BY <1>7, <1>12, <2>3
  <2> QED
    BY <1>2, <1>3, <1>9, <2>3, <2>5, <2>6, <2>13, <2>15, <2>16 DEF CoworkRootSound
<1>13. CASE from = Unknown \/ fits = {}
  <2>1. root = from
    BY <1>11, <1>13
  <2>2. from # Unknown => moves = {}
    BY <1>10, <1>13
  <2>3. (\A f \in ToSet(q.folders) : f = << >>) =>
          root = Unknown \/ (q.absolute /\ ~InSandbox(q, root))
    BY <1>7, <2>1 DEF ToSet
  <2> QED
    BY <1>2, <1>3, <1>7, <1>9, <2>1, <2>2, <2>3 DEF CoworkRootSound
<1> QED
  BY <1>12, <1>13

(* Each Codex session that is found is one source, with its oldest root.   *)
LEMMA CodexSourcesHold ==
  ASSUME NEW q, \A f \in q.files : f.packed \in BOOLEAN,
         \A f, g \in q.files : f.name = g.name /\ f.archived = g.archived /\ f.packed = g.packed => f = g
  PROVE  CodexSourcesSound(q, CodexSources(q))
<1>1. PICK found : found = RolloutPaths(q.files, q.unpacks)
  OBVIOUS
<1>2. found \subseteq q.files /\ \A f \in q.files :
        f \in found <=> (f.packed => q.unpacks /\ ~\E g \in q.files :
                           ~g.packed /\ g.name = f.name /\ g.archived = f.archived)
  BY <1>1 DEF RolloutPaths
<1>3. PICK sources : sources = CodexSources(q)
  OBVIOUS
<1>4. /\ \A s \in sources : \A c : c \in s.copies <=> c \in found /\ c.session = s.session
      /\ \A f \in found : \E s \in sources : s.session = f.session
      /\ \A s, t \in sources : s.session = t.session => s = t
  <2> DEFINE Ones(s) == {f \in found : f.session = s}
             Oldest(s) == CHOOSE f \in Ones(s) : \A g \in Ones(s) \ {f} : BeforeOf(f, g)
             Source(s) == [session |-> s, root |-> Oldest(s).root, copies |-> Ones(s)]
  <2>1. sources = {Source(s) : s \in {f.session : f \in found}}
    BY <1>1, <1>3 DEF CodexSources
  <2>2. \A s : Source(s).session = s /\ Source(s).copies = Ones(s)
    OBVIOUS
  <2> HIDE DEF Source
  <2> QED
    BY <2>1, <2>2
<1>5. ASSUME NEW f \in q.files, q.unpacks \/ ~f.packed
      PROVE  \E s \in sources : \E c \in s.copies :
               c.name = f.name /\ c.archived = f.archived /\ (c.packed => f.packed)
  <2>1. \E c \in found : c.name = f.name /\ c.archived = f.archived /\ (c.packed => f.packed)
    BY <1>2, <1>5
  <2> QED
    BY <1>4, <2>1
<1>6. ASSUME NEW s \in sources, NEW c \in s.copies, NEW d \in s.copies,
             c.name = d.name, c.archived = d.archived
      PROVE  c = d
  <2>1. c \in found /\ d \in found /\ c \in q.files /\ d \in q.files
    BY <1>2, <1>4
  <2>2. c.packed = d.packed
    BY <1>2, <1>6, <2>1
  <2> QED
    BY <1>6, <2>1, <2>2
<1> QED
  BY <1>3, <1>4, <1>5, <1>6 DEF CodexSourcesSound

(* A session and when it was changed.                                      *)
SessionSource == [session : Nat, at : Nat]

(* The sessions of the sources.                                            *)
SessionsOf(sources) == {s.session : s \in ToSet(sources)}

(* No session has two sources.                                             *)
OncePerSession(sources) == \A j, k \in DOMAIN sources : j # k => sources[j].session # sources[k].session

(* A session of an older file is listed when it is not yet.                *)
ListMore(sources, session, i) ==
  IF \E s \in ToSet(sources) : s.session = session THEN sources
  ELSE Append(sources, [session |-> session, at |-> i])

(* The sessions of OpenCode that are listed, file by file.                 *)
LEMMA ListedIs ==
  ASSUME NEW q, q.legacy \in Seq(Nat), q.db \in Seq(SessionSource)
  PROVE  /\ Listed(q) \in [0..Len(q.legacy) -> Seq(SessionSource)]
         /\ Listed(q)[0] = q.db
         /\ \A i \in 1..Len(q.legacy) : Listed(q)[i] = ListMore(Listed(q)[i - 1], q.legacy[i], i)
<1> DEFINE n == Len(q.legacy)
           State == Seq(SessionSource)
           start == q.db
           After(s, i) == ListMore(s, q.legacy[i], i)
           Solves(f) == f = [i \in 0..n |-> IF i = 0 THEN start ELSE After(f[i - 1], i)]
           at == CHOOSE f : Solves(f)
           step == [i \in 1..n |-> [s \in State |-> After(s, i)]]
<1>1. n \in Nat
  OBVIOUS
<1>2. start \in State /\ \A i \in 1..n : \A s \in State : After(s, i) \in State
  <2>1. \A i \in 1..n : q.legacy[i] \in Nat /\ i \in Nat
    BY <1>1
  <2>2. ASSUME NEW i \in 1..n, NEW s \in State PROVE After(s, i) \in State
    <3>1. [session |-> q.legacy[i], at |-> i] \in SessionSource
      BY <2>1 DEF SessionSource
    <3> QED
      BY <3>1 DEF ListMore
  <2> QED
    BY <2>2
<1>3. step \in [1..n -> [State -> State]]
  <2> HIDE DEF n, State, After
  <2> QED
    BY <1>2
<1>4. PICK f \in [0..n -> State] : f[0] = start /\ \A i \in 1..n : f[i] = step[i][f[i - 1]]
  <2> HIDE DEF n, State, start, step, After, Solves, at
  <2>1. Iteration(State, start, n, step)
    BY <1>1, <1>2, <1>3, Iterates
  <2> QED
    BY <2>1 DEF Iteration
<1>5. Solves(f)
  <2>1. ASSUME NEW i \in 1..n PROVE f[i] = After(f[i - 1], i)
    <3> HIDE DEF After, State, n
    <3>1. i - 1 \in 0..n
      BY <1>1
    <3>2. f[i - 1] \in State
      BY <3>1
    <3> QED
      BY <1>4, <3>2
  <2>2. ASSUME NEW i \in 0..n PROVE f[i] = IF i = 0 THEN start ELSE After(f[i - 1], i)
    <3> HIDE DEF After, State, start, step, n
    <3> QED
      BY <1>1, <1>4, <2>1
  <2>3. f = [i \in 0..n |-> f[i]]
    OBVIOUS
  <2> HIDE DEF After, start, State
  <2> QED
    BY <2>2, <2>3
<1>6. Solves(at)
  <2> HIDE DEF Solves
  <2> QED
    BY <1>5, Zenon
<1>7. Listed(q) = at
  BY Zenon DEF Listed, ListMore
<1> HIDE DEF at, After, State, start, n
<1>8. at[0] = start /\ \A i \in 1..n : at[i] = After(at[i - 1], i)
  <2>1. 0 \in 0..n /\ \A i \in 1..n : i \in 0..n /\ i # 0
    BY <1>1
  <2> QED
    BY <1>6, <2>1
<1> DEFINE good == {i \in 0..n : at[i] \in State}
<1>9. 0 \in good
  BY <1>1, <1>2, <1>8
<1>10. ASSUME NEW i \in 1..n, i - 1 \in good PROVE i \in good
  BY <1>1, <1>2, <1>8, <1>10
<1>11. \A i \in 0..n : i \in good
  <2> HIDE DEF good
  <2> QED
    BY <1>1, <1>9, <1>10, Induction
<1>12. at \in [0..n -> State]
  <2>1. at = [i \in 0..n |-> at[i]]
    BY <1>6
  <2> QED
    BY <1>11, <2>1
<1>13. \A i \in 1..n : at[i] = After(at[i - 1], i)
  BY <1>8
<1> QED
  BY <1>7, <1>8, <1>12, <1>13 DEF After, State, start, n

(* A legacy session is added once, and never over one of the database.     *)
LEMMA ListMoreHolds ==
  ASSUME NEW sources \in Seq(SessionSource), NEW session \in Nat, NEW i \in Nat, OncePerSession(sources)
  PROVE  LET more == ListMore(sources, session, i)
         IN  /\ SessionsOf(more) = SessionsOf(sources) \cup {session}
             /\ OncePerSession(more)
             /\ ToSet(sources) \subseteq ToSet(more)
<1>1. PICK more : more = ListMore(sources, session, i)
  OBVIOUS
<1>2. CASE \E s \in ToSet(sources) : s.session = session
  <2>1. more = sources
    BY <1>1, <1>2 DEF ListMore
  <2>2. SessionsOf(more) = SessionsOf(sources) \cup {session}
    BY <1>2, <2>1 DEF SessionsOf
  <2> QED
    BY <1>1, <2>1, <2>2
<1>3. CASE ~\E s \in ToSet(sources) : s.session = session
  <2>1. PICK new : new = [session |-> session, at |-> i]
    OBVIOUS
  <2>2. new \in SessionSource /\ new.session = session
    BY <2>1 DEF SessionSource
  <2>3. more = Append(sources, new)
    BY <1>1, <1>3, <2>1 DEF ListMore
  <2>4. PICK n : n = Len(sources)
    OBVIOUS
  <2>5. /\ n \in Nat /\ DOMAIN sources = 1..n /\ DOMAIN more = 1..(n + 1)
        /\ more[n + 1] = new /\ \A j \in 1..n : more[j] = sources[j]
    BY <2>2, <2>3, <2>4
  <2>6. ToSet(more) = ToSet(sources) \cup {new}
    <3>1. \A x : x \in ToSet(more) <=> \E j \in 1..(n + 1) : x = more[j]
      BY <2>5 DEF ToSet
    <3>2. \A x : x \in ToSet(sources) <=> \E j \in 1..n : x = sources[j]
      BY <2>5 DEF ToSet
    <3>3. \A j \in 1..(n + 1) : j \in 1..n \/ j = n + 1
      BY <2>5
    <3>4. \A j \in 1..n : j \in 1..(n + 1)
      BY <2>5
    <3>5. n + 1 \in 1..(n + 1)
      BY <2>5
    <3> QED
      BY <2>5, <3>1, <3>2, <3>3, <3>4, <3>5
  <2>7. SessionsOf(more) = SessionsOf(sources) \cup {session}
    BY <2>2, <2>6 DEF SessionsOf
  <2>8. \A j \in 1..n : sources[j] \in ToSet(sources)
    BY <2>5 DEF ToSet
  <2>9. ASSUME NEW j \in 1..(n + 1), NEW k \in 1..(n + 1), j # k PROVE more[j].session # more[k].session
    <3>1. CASE j \in 1..n /\ k \in 1..n
      BY <2>5, <2>9, <3>1 DEF OncePerSession
    <3>2. CASE j \in 1..n /\ k = n + 1
      BY <1>3, <2>2, <2>5, <2>8, <3>2
    <3>3. CASE j = n + 1 /\ k \in 1..n
      BY <1>3, <2>2, <2>5, <2>8, <3>3
    <3> QED
      BY <2>5, <2>9, <3>1, <3>2, <3>3
  <2>10. OncePerSession(more)
    BY <2>5, <2>9 DEF OncePerSession
  <2> QED
    BY <1>1, <2>6, <2>7, <2>10
<1> QED
  BY <1>2, <1>3

(* The OpenCode sources have each session once, those of the database as   *)
(* the database has them.                                                  *)
LEMMA OpenCodeSourcesHold ==
  ASSUME NEW q, q.legacy \in Seq(Nat), q.db \in Seq(SessionSource),
         \A i, j \in DOMAIN q.db : i # j => q.db[i].session # q.db[j].session
  PROVE  OpenCodeSourcesSound(q, OpenCodeSources(q))
<1>1. PICK at : at = Listed(q)
  OBVIOUS
<1>2. PICK n : n = Len(q.legacy)
  OBVIOUS
<1>3. PICK legacy : legacy = q.legacy
  OBVIOUS
<1>4. /\ at \in [0..n -> Seq(SessionSource)] /\ at[0] = q.db
      /\ \A i \in 1..n : at[i] = ListMore(at[i - 1], legacy[i], i)
  BY <1>1, <1>2, <1>3, ListedIs
<1>5. n \in Nat /\ DOMAIN legacy = 1..n /\ \A i \in 1..n : legacy[i] \in Nat
  BY <1>2, <1>3
<1> DEFINE Named(i) == SessionsOf(q.db) \cup {legacy[k] : k \in 1..i}
           good == {i \in 0..n : /\ SessionsOf(at[i]) = Named(i)
                                 /\ OncePerSession(at[i]) /\ ToSet(q.db) \subseteq ToSet(at[i])}
<1>6. 0 \in good
  <2>1. Named(0) = SessionsOf(q.db)
    OBVIOUS
  <2> HIDE DEF Named
  <2> QED
    BY <1>4, <1>5, <2>1 DEF OncePerSession
<1>7. ASSUME NEW i \in 1..n, i - 1 \in good PROVE i \in good
  <2>1. /\ SessionsOf(at[i - 1]) = Named(i - 1)
        /\ OncePerSession(at[i - 1]) /\ ToSet(q.db) \subseteq ToSet(at[i - 1])
    BY <1>7
  <2>2. at[i - 1] \in Seq(SessionSource) /\ legacy[i] \in Nat /\ i \in Nat
    BY <1>4, <1>5
  <2>3. at[i] = ListMore(at[i - 1], legacy[i], i)
    BY <1>4
  <2>4. /\ SessionsOf(at[i]) = SessionsOf(at[i - 1]) \cup {legacy[i]}
        /\ OncePerSession(at[i]) /\ ToSet(at[i - 1]) \subseteq ToSet(at[i])
    <3>1. PICK a : a = at[i - 1]
      OBVIOUS
    <3>2. PICK session : session = legacy[i]
      OBVIOUS
    <3>3. a \in Seq(SessionSource) /\ session \in Nat /\ at[i] = ListMore(a, session, i)
      BY <2>2, <2>3, <3>1, <3>2
    <3>4. OncePerSession(a)
      BY <2>1, <3>1
    <3>5. PICK b : b = ListMore(a, session, i)
      OBVIOUS
    <3>6. /\ SessionsOf(b) = SessionsOf(a) \cup {session}
          /\ OncePerSession(b)
          /\ ToSet(a) \subseteq ToSet(b)
      BY <2>2, <3>3, <3>4, <3>5, ListMoreHolds
    <3> QED
      BY <3>1, <3>2, <3>3, <3>5, <3>6
  <2>5. Named(i) = Named(i - 1) \cup {legacy[i]}
    BY <1>5
  <2>6. i \in 0..n
    BY <1>5
  <2>7. PICK b : b = at[i]
    OBVIOUS
  <2>8. SessionsOf(b) = Named(i)
    <3> HIDE DEF Named
    <3> QED
      BY <2>1, <2>4, <2>5, <2>7
  <2>9. OncePerSession(b) /\ ToSet(q.db) \subseteq ToSet(b)
    BY <2>1, <2>4, <2>7
  <2> QED
    BY <2>6, <2>7, <2>8, <2>9
<1>8. n \in good
  <2> HIDE DEF good
  <2>1. \A i \in 0..n : i \in good
    BY <1>5, <1>6, <1>7, Induction
  <2> QED
    BY <1>5, <2>1
<1>9. Named(n) = SessionsOf(q.db) \cup ToSet(q.legacy)
  BY <1>3, <1>5 DEF ToSet
<1>10. PICK sources : sources = OpenCodeSources(q)
  OBVIOUS
<1>11. sources = at[n]
  BY <1>1, <1>2, <1>10 DEF OpenCodeSources
<1>12. /\ SessionsOf(sources) = SessionsOf(q.db) \cup ToSet(q.legacy)
       /\ OncePerSession(sources) /\ ToSet(q.db) \subseteq ToSet(sources)
  BY <1>8, <1>9, <1>11
<1> QED
  BY <1>10, <1>12 DEF OpenCodeSourcesSound, SessionsOf, OncePerSession

(* Whatever an adapter finds, each session is found once with its own root. *)
LEMMA DiscoveryHolds ==
  ASSUME NEW q, Found(q)
  PROVE  DiscoverySound(q, Discover(q))
<1>1. CASE q \in AntigravityFiles
  <2>1. q.of = "antigravity"
    BY <1>1 DEF AntigravityFiles
  <2> QED
    BY <1>1, <2>1, AntigravityRootHolds DEF DiscoverySound, Discover
<1>2. CASE q \in CoworkMetadata
  <2>1. q.of = "cowork"
    BY <1>2 DEF CoworkMetadata
  <2> QED
    BY <1>2, <2>1, CoworkRootHolds DEF DiscoverySound, Discover
<1>3. CASE /\ q.of = "codex" /\ \A f \in q.files : f.packed \in BOOLEAN
           /\ \A f, g \in q.files :
                f.name = g.name /\ f.archived = g.archived /\ f.packed = g.packed => f = g
  BY <1>3, CodexSourcesHold DEF DiscoverySound, Discover
<1>4. CASE /\ q.of = "opencode" /\ q.legacy \in Seq(Nat) /\ q.db \in Seq(SessionSource)
           /\ \A i, j \in DOMAIN q.db : i # j => q.db[i].session # q.db[j].session
  BY <1>4, OpenCodeSourcesHold DEF DiscoverySound, Discover
<1> QED
  BY <1>1, <1>2, <1>3, <1>4
     DEF Found, AntigravityFiles, CoworkMetadata, HistoryLine, SummaryRecord, PathPair, SessionSource

-----------------------------------------------------------------------------
(* OpenCode.                                                               *)

(* The turns that a visit to a session reads.                              *)
MessageTurns(session) ==
  {[index |-> i - 1, text |-> <<i, session.messages[i]>>] :
     i \in {j \in DOMAIN session.messages : session.messages[j] > 0}}

(* The visits to the sessions, one after the other.                        *)
LEMMA OpenCodeReadsAre ==
  ASSUME NEW visits, Sessions(visits)
  PROVE  /\ OpenCodeReads(visits) \in [0..Len(visits) -> [rows : SUBSET UNION {MessageTurns(visits[w]) : w \in 1..Len(visits)}, cursor : SUBSET UNION {MessageTurns(visits[w]) : w \in 1..Len(visits)}]]
         /\ OpenCodeReads(visits)[0] = [rows |-> {}, cursor |-> {}]
         /\ \A v \in 1..Len(visits) : OpenCodeReads(visits)[v] = OpenCodeAfter(OpenCodeReads(visits)[v - 1], visits[v])
<1> DEFINE n == Len(visits)
           State == [rows : SUBSET UNION {MessageTurns(visits[w]) : w \in 1..Len(visits)}, cursor : SUBSET UNION {MessageTurns(visits[w]) : w \in 1..Len(visits)}]
           start == [rows |-> {}, cursor |-> {}]
           After(s, v) == OpenCodeAfter(s, visits[v])
           Solves(f) == f = [v \in 0..n |-> IF v = 0 THEN start ELSE After(f[v - 1], v)]
           at == CHOOSE f : Solves(f)
           step == [v \in 1..n |-> [s \in State |-> After(s, v)]]
<1>1. n \in Nat
  BY DEF Sessions
<1>2. start \in State /\ \A v \in 1..n : \A s \in State : After(s, v) \in State
  BY DEF OpenCodeAfter, Kept, OpenCodeVisit, Stored, MessageTurns
<1>3. step \in [1..n -> [State -> State]]
  <2> HIDE DEF n, State, After
  <2> QED
    BY <1>2
<1>4. PICK f \in [0..n -> State] : f[0] = start /\ \A v \in 1..n : f[v] = step[v][f[v - 1]]
  <2> HIDE DEF n, State, start, step, After, Solves, at
  <2>1. Iteration(State, start, n, step)
    BY <1>1, <1>2, <1>3, Iterates
  <2> QED
    BY <2>1 DEF Iteration
<1>5. Solves(f)
  <2>1. ASSUME NEW v \in 1..n PROVE f[v] = After(f[v - 1], v)
    <3> HIDE DEF After, State, n
    <3>1. v - 1 \in 0..n
      BY <1>1
    <3>2. f[v - 1] \in State
      BY <3>1
    <3> QED
      BY <1>4, <3>2
  <2>2. ASSUME NEW v \in 0..n PROVE f[v] = IF v = 0 THEN start ELSE After(f[v - 1], v)
    <3> HIDE DEF After, State, start, step, n
    <3> QED
      BY <1>1, <1>4, <2>1
  <2>3. f = [v \in 0..n |-> f[v]]
    OBVIOUS
  <2> HIDE DEF After, start, State
  <2> QED
    BY <2>2, <2>3
<1>6. Solves(at)
  <2> HIDE DEF Solves
  <2> QED
    BY <1>5, Zenon
<1>7. OpenCodeReads(visits) = at
  BY Zenon DEF OpenCodeReads
<1> HIDE DEF at, After, State, start, n
<1>8. at[0] = start /\ \A v \in 1..n : at[v] = After(at[v - 1], v)
  <2>1. 0 \in 0..n /\ \A v \in 1..n : v \in 0..n /\ v # 0
    BY <1>1
  <2> QED
    BY <1>6, <2>1
<1> DEFINE good == {v \in 0..n : at[v] \in State}
<1>9. 0 \in good
  BY <1>1, <1>2, <1>8
<1>10. ASSUME NEW v \in 1..n, v - 1 \in good PROVE v \in good
  BY <1>1, <1>2, <1>8, <1>10
<1>11. \A v \in 0..n : v \in good
  <2> HIDE DEF good
  <2> QED
    BY <1>1, <1>9, <1>10, Induction
<1>12. at \in [0..n -> State]
  <2>1. at = [v \in 0..n |-> at[v]]
    BY <1>6
  <2> QED
    BY <1>11, <2>1
<1>13. \A v \in 1..n : at[v] = After(at[v - 1], v)
  BY <1>8
<1> QED
  BY <1>7, <1>8, <1>12, <1>13 DEF After, State, start, n

(* The turns that a visit to a session adds: none before it has settled.   *)
Yields(session) == IF session.legacy /\ ~session.settled THEN {} ELSE MessageTurns(session)

(* What a visit adds: the cursor has what is stored.                       *)
LEMMA OpenCodeAdds ==
  ASSUME NEW s, s.rows = s.cursor, NEW session
  PROVE  LET k == OpenCodeAfter(s, session)
         IN  k.rows = k.cursor /\ k.rows = s.rows \cup Yields(session)
<1> DEFINE emitted == s.cursor
<1>1. OpenCodeVisit(session, emitted) =
        IF session.legacy /\ ~session.settled THEN [turns |-> {}, cursor |-> emitted]
        ELSE [turns |-> MessageTurns(session) \ emitted, cursor |-> emitted \cup MessageTurns(session)]
  BY DEF OpenCodeVisit, MessageTurns
<1>2. CASE session.legacy /\ ~session.settled
  BY <1>1, <1>2 DEF OpenCodeAfter, Kept, Stored, Yields
<1>3. CASE ~(session.legacy /\ ~session.settled)
  BY <1>1, <1>3 DEF OpenCodeAfter, Kept, Stored, Yields
<1> QED
  BY <1>2, <1>3

(* Each visit adds what its session yields to the rows.                    *)
LEMMA OpenCodeFold ==
  ASSUME NEW visits, Sessions(visits), NEW v \in 1..Len(visits)
  PROVE  OpenCodeReads(visits)[v].rows = OpenCodeReads(visits)[v - 1].rows \cup Yields(visits[v])
<1>1. PICK at : at = OpenCodeReads(visits)
  OBVIOUS
<1>2. PICK n : n = Len(visits)
  OBVIOUS
<1>3. n \in Nat /\ v \in 1..n
  BY <1>2 DEF Sessions
<1>4. /\ at[0] = [rows |-> {}, cursor |-> {}]
      /\ \A w \in 1..n : at[w] = OpenCodeAfter(at[w - 1], visits[w])
  BY <1>1, <1>2, OpenCodeReadsAre
<1> DEFINE good == {w \in 0..n : at[w].rows = at[w].cursor}
<1>5. \A w \in 0..n : w \in good
  <2>1. 0 \in good
    <3>1. at[0].rows = {} /\ at[0].cursor = {}
      BY <1>4
    <3>2. 0 \in 0..n
      BY <1>3
    <3> QED
      BY <3>1, <3>2
  <2>2. ASSUME NEW w \in 1..n, w - 1 \in good PROVE w \in good
    <3>1. at[w - 1].rows = at[w - 1].cursor /\ w \in 0..n
      BY <1>3, <2>2
    <3>2. at[w].rows = at[w].cursor
      BY <1>4, <3>1, OpenCodeAdds
    <3> QED
      BY <3>1, <3>2
  <2> HIDE DEF good
  <2> QED
    BY <1>3, <2>1, <2>2, Induction
<1>6. at[v - 1].rows = at[v - 1].cursor
  BY <1>3, <1>5
<1>7. at[v].rows = at[v - 1].rows \cup Yields(visits[v])
  BY <1>3, <1>4, <1>6, OpenCodeAdds
<1> QED
  BY <1>1, <1>7

(* One visit stores what the session yields.                               *)
LEMMA OpenCodeOnce ==
  ASSUME NEW session, Sessions(<<session>>)
  PROVE  OpenCodeReads(<<session>>)[1].rows = Yields(session)
<1>1. PICK list : list = <<session>>
  OBVIOUS
<1>2. Len(list) = 1 /\ list[1] = session /\ Sessions(list) /\ 1 \in 1..Len(list) /\ 1 - 1 = 0
  BY <1>1
<1>3. OpenCodeReads(list)[0].rows = {}
  <2>1. OpenCodeReads(list)[0] = [rows |-> {}, cursor |-> {}]
    BY <1>2, OpenCodeReadsAre
  <2> QED
    BY <2>1
<1>4. OpenCodeReads(list)[1].rows = OpenCodeReads(list)[1 - 1].rows \cup Yields(list[1])
  BY <1>2, OpenCodeFold
<1> QED
  BY <1>1, <1>2, <1>3, <1>4

(* The rows are of messages as some visit saw them, and all that one visit *)
(* to the last state of the session reads are there.                       *)
LEMMA OpenCodeHolds ==
  ASSUME NEW q, q.provider = "opencode", q.visits # << >>, Sessions(q.visits)
  PROVE  ReadingExact(q, ReadSource(q.provider, q.visits))
<1>1. PICK visits : visits = q.visits
  OBVIOUS
<1>2. PICK n : n = Len(visits)
  OBVIOUS
<1>3. PICK last : last = visits[n]
  OBVIOUS
<1>4. /\ visits \in Seq([messages : Seq(Nat), legacy : BOOLEAN, settled : BOOLEAN])
      /\ visits # << >> /\ Sessions(visits)
  BY <1>1 DEF Sessions
<1>5. n \in Nat /\ n \in 1..n /\ DOMAIN visits = 1..n /\ n \in 0..n
  BY <1>2, <1>4
<1>6. Sessions(<<last>>) /\ \A w \in 1..n : visits[w].messages \in Seq(Nat)
  <2>1. PICK S : S = [messages : Seq(Nat), legacy : BOOLEAN, settled : BOOLEAN]
    OBVIOUS
  <2>2. visits \in Seq(S)
    BY <1>4, <2>1
  <2>3. \A w \in 1..n : visits[w] \in S
    BY <1>5, <2>2
  <2>4. <<last>> \in Seq(S)
    BY <1>3, <1>5, <2>3
  <2>5. \A x \in S : x.messages \in Seq(Nat)
    BY <2>1
  <2> QED
    BY <2>1, <2>3, <2>4, <2>5 DEF Sessions
<1>7. PICK rows : rows = OpenCodeReads(visits)[n].rows
  OBVIOUS
<1>8. PICK once : once = OpenCodeReads(<<last>>)[1].rows
  OBVIOUS
<1>9. once \subseteq rows
  <2>1. once = Yields(last)
    BY <1>6, <1>8, OpenCodeOnce
  <2>2. rows = OpenCodeReads(visits)[n - 1].rows \cup Yields(last)
    BY <1>2, <1>3, <1>4, <1>5, <1>7, OpenCodeFold
  <2> QED
    BY <2>1, <2>2
<1>10. rows \subseteq UNION {MessageTurns(visits[w]) : w \in 1..n}
  <2>1. OpenCodeReads(visits)[n] \in [rows : SUBSET UNION {MessageTurns(visits[w]) : w \in 1..n},
                                      cursor : SUBSET UNION {MessageTurns(visits[w]) : w \in 1..n}]
    BY <1>2, <1>4, <1>5, OpenCodeReadsAre
  <2> QED
    BY <1>7, <2>1
<1>11. ASSUME NEW r \in rows
       PROVE  \E v \in DOMAIN visits : r.index < Len(visits[v].messages)
                                       /\ r.text[2] = visits[v].messages[r.index + 1]
  <2>1. PICK w \in 1..n : r \in MessageTurns(visits[w])
    BY <1>10
  <2>2. PICK messages : messages = visits[w].messages
    OBVIOUS
  <2>3. messages \in Seq(Nat)
    BY <1>6, <2>2
  <2>4. PICK i \in DOMAIN messages : r = [index |-> i - 1, text |-> <<i, messages[i]>>]
    BY <2>1, <2>2 DEF MessageTurns
  <2>5. i \in 1..Len(messages) /\ r.index = i - 1 /\ r.text[2] = messages[i]
    BY <2>3, <2>4
  <2>6. r.index < Len(messages) /\ r.text[2] = messages[r.index + 1]
    BY <2>3, <2>5
  <2> QED
    BY <1>5, <2>2, <2>6
<1>12. /\ ReadSource("opencode", visits) = rows
       /\ ReadSource("opencode", <<last>>) = once
  BY <1>2, <1>7, <1>8 DEF ReadSource
<1> QED
  BY <1>1, <1>2, <1>3, <1>9, <1>11, <1>12 DEF ReadingExact

-----------------------------------------------------------------------------
(* Codex.  A task that is read further keeps what it says.                 *)

(* The tasks that are read, and the state of a reading.                    *)
TaskRecord == [importing : BOOLEAN, user : Nat, parts : Seq(Nat)]
TaskList == {s \in [tasks : Seq(TaskRecord), current : Nat] : s.current <= Len(s.tasks)}

(* The task b is the task a, read further.                                 *)
GrownTask(a, b) ==
  a.importing = b.importing /\ Continues(a.parts, b.parts) /\ (a.parts # << >> => a.user = b.user)

(* The tasks b are the tasks a, read further.                              *)
GrownTasks(a, b) ==
  Len(a) <= Len(b) /\ \A k \in 1..Len(a) : GrownTask(a[k], b[k])

(* Reading further and then further is reading further.                    *)
LEMMA GrownTogether ==
  ASSUME NEW a \in Seq(TaskRecord), NEW b \in Seq(TaskRecord), NEW c \in Seq(TaskRecord), GrownTasks(a, b), GrownTasks(b, c)
  PROVE  GrownTasks(a, c)
<1>1. ASSUME NEW r \in TaskRecord, NEW s \in TaskRecord, NEW t \in TaskRecord, GrownTask(r, s), GrownTask(s, t)
      PROVE  GrownTask(r, t)
  <2>1. r.parts \in Seq(Nat) /\ s.parts \in Seq(Nat) /\ t.parts \in Seq(Nat)
    BY DEF TaskRecord
  <2>2. Continues(r.parts, t.parts) /\ (r.parts # << >> => s.parts # << >>)
    BY SMTT(20), <1>1, <2>1 DEF GrownTask, Continues
  <2> QED
    BY <1>1, <2>2 DEF GrownTask
<1>2. ASSUME NEW k \in 1..Len(a)
      PROVE  k \in 1..Len(b) /\ a[k] \in TaskRecord /\ b[k] \in TaskRecord /\ c[k] \in TaskRecord
             /\ GrownTask(a[k], b[k]) /\ GrownTask(b[k], c[k])
  <2>1. k \in 1..Len(b) /\ k \in 1..Len(c)
    BY DEF GrownTasks
  <2> QED
    BY <2>1 DEF GrownTasks
<1>3. Len(a) <= Len(c)
  BY DEF GrownTasks
<1> QED
  BY <1>1, <1>2, <1>3 DEF GrownTasks

(* What an entry says goes to the end of its task.                         *)
LEMMA SaidGrows ==
  ASSUME NEW task \in TaskRecord, NEW entries, NEW i \in Nat
  PROVE  Said(task, entries, i) \in TaskRecord /\ GrownTask(task, Said(task, entries, i))
<1>1. /\ task = [importing |-> task.importing, user |-> task.user, parts |-> task.parts]
      /\ task.importing \in BOOLEAN /\ task.user \in Nat /\ task.parts \in Seq(Nat)
  BY DEF TaskRecord
<1>2. CASE entries[i] = "user" /\ task.parts = << >>
  <2>1. Said(task, entries, i) = [importing |-> task.importing, user |-> i, parts |-> task.parts]
    BY <1>1, <1>2 DEF Said
  <2> QED
    BY <1>1, <1>2, <2>1 DEF TaskRecord, GrownTask, Continues
<1>3. CASE ~(entries[i] = "user" /\ task.parts = << >>)
  <2>1. Said(task, entries, i) =
          [importing |-> task.importing, user |-> task.user, parts |-> Append(task.parts, i)]
    BY <1>1, <1>3 DEF Said
  <2>2. Append(task.parts, i) \in Seq(Nat) /\ Continues(task.parts, Append(task.parts, i))
    BY <1>1 DEF Continues
  <2> QED
    BY <1>1, <2>1, <2>2 DEF TaskRecord, GrownTask
<1> QED
  BY <1>2, <1>3

(* A task is itself, read no further.                                      *)
LEMMA TaskItself ==
  ASSUME NEW task \in TaskRecord
  PROVE  GrownTask(task, task)
<1>1. task.parts \in Seq(Nat)
  BY DEF TaskRecord
<1> QED
  BY <1>1 DEF GrownTask, Continues

(* A new task goes to the end of those there are.                          *)
LEMMA TaskOpens ==
  ASSUME NEW tasks \in Seq(TaskRecord), NEW entry
  PROVE  LET more == Append(tasks, NewTask(entry))
         IN  more \in Seq(TaskRecord) /\ Len(more) = Len(tasks) + 1 /\ GrownTasks(tasks, more)
<1>1. PICK task : task = NewTask(entry)
  OBVIOUS
<1>2. task \in TaskRecord
  BY <1>1 DEF NewTask, TaskRecord
<1>3. /\ Append(tasks, task) \in Seq(TaskRecord) /\ Len(Append(tasks, task)) = Len(tasks) + 1
      /\ \A k \in 1..Len(tasks) : Append(tasks, task)[k] = tasks[k] /\ tasks[k] \in TaskRecord
  BY <1>2
<1>4. GrownTasks(tasks, Append(tasks, task))
  BY <1>3, TaskItself DEF GrownTasks
<1> QED
  BY <1>1, <1>3, <1>4

(* An entry leaves tasks that say at least what they said.                 *)
LEMMA EntryGrows ==
  ASSUME NEW entries, NEW s \in TaskList, NEW i \in Nat
  PROVE  /\ ReadEntry(entries, s, i) \in TaskList
         /\ GrownTasks(s.tasks, ReadEntry(entries, s, i).tasks)
<1>1. PICK t : t = ReadEntry(entries, s, i)
  OBVIOUS
<1>2. /\ s = [tasks |-> s.tasks, current |-> s.current]
      /\ s.tasks \in Seq(TaskRecord) /\ s.current \in Nat /\ s.current <= Len(s.tasks)
  BY DEF TaskList
<1>3. GrownTasks(s.tasks, s.tasks)
  <2>1. \A k \in 1..Len(s.tasks) : s.tasks[k] \in TaskRecord
    BY <1>2
  <2> QED
    BY <1>2, <2>1, TaskItself DEF GrownTasks
<1>4. CASE entries[i] \in Starts
  <2>1. t = [tasks |-> Append(s.tasks, NewTask(entries[i])), current |-> Len(s.tasks) + 1]
    <3>1. entries[i] # "complete"
      BY <1>4 DEF Starts
    <3> QED
      BY <1>1, <1>4, <3>1 DEF ReadEntry
  <2>2. t \in TaskList /\ GrownTasks(s.tasks, t.tasks)
    BY <1>2, <2>1, TaskOpens DEF TaskList
  <2> QED
    BY <1>1, <2>2
<1>5. CASE entries[i] = "complete"
  <2>1. entries[i] \notin Starts
    BY <1>5 DEF Starts
  <2>2. t = [tasks |-> s.tasks, current |-> 0]
    BY <1>1, <1>2, <1>5, <2>1 DEF ReadEntry
  <2>3. t \in TaskList /\ t.tasks = s.tasks
    BY <1>2, <2>2 DEF TaskList
  <2> QED
    BY <1>1, <1>3, <2>3
<1>6. CASE entries[i] \notin Starts /\ entries[i] # "complete"
  <2>1. PICK tasks : tasks = IF OpensTask(entries, s, i) THEN Append(s.tasks, NewTask("user")) ELSE s.tasks
    OBVIOUS
  <2>2. PICK k : k = IF OpensTask(entries, s, i) THEN Len(tasks) ELSE s.current
    OBVIOUS
  <2>3. t = [tasks |-> IF tasks[k].importing THEN tasks
                       ELSE [tasks EXCEPT ![k] = Said(@, entries, i)],
             current |-> k]
    BY <1>1, <1>6, <2>1, <2>2 DEF ReadEntry
  <2>4. tasks \in Seq(TaskRecord) /\ k \in 1..Len(tasks) /\ GrownTasks(s.tasks, tasks)
    <3>1. CASE OpensTask(entries, s, i)
      BY <1>2, <2>1, <2>2, <3>1, TaskOpens
    <3>2. CASE ~OpensTask(entries, s, i)
      <4>1. s.current # 0
        BY <3>2 DEF OpensTask
      <4> QED
        BY <1>2, <1>3, <2>1, <2>2, <3>2, <4>1
    <3> QED
      BY <3>1, <3>2
  <2>5. PICK said : said = Said(tasks[k], entries, i)
    OBVIOUS
  <2>6. said \in TaskRecord /\ GrownTask(tasks[k], said)
    BY <2>4, <2>5, SaidGrows
  <2>7. PICK more : more = [tasks EXCEPT ![k] = said]
    OBVIOUS
  <2>8. /\ more \in Seq(TaskRecord) /\ Len(more) = Len(tasks)
        /\ more[k] = said /\ \A j \in 1..Len(tasks) : j # k => more[j] = tasks[j]
    BY <2>4, <2>6, <2>7
  <2>9. GrownTasks(tasks, more)
    <3>1. ASSUME NEW j \in 1..Len(tasks) PROVE GrownTask(tasks[j], more[j])
      <4>1. CASE j = k
        BY <2>6, <2>8, <4>1
      <4>2. CASE j # k
        BY <2>4, <2>8, <4>2, TaskItself
      <4> QED
        BY <4>1, <4>2
    <3> QED
      BY <2>4, <2>8, <3>1 DEF GrownTasks
  <2>10. GrownTasks(s.tasks, more)
    BY <1>2, <2>4, <2>8, <2>9, GrownTogether
  <2>11. t = [tasks |-> IF tasks[k].importing THEN tasks ELSE more, current |-> k]
    BY <2>3, <2>5, <2>7
  <2>12. t \in TaskList /\ GrownTasks(s.tasks, t.tasks)
    BY <2>4, <2>8, <2>10, <2>11 DEF TaskList
  <2> QED
    BY <1>1, <2>12
<1> QED
  BY <1>4, <1>5, <1>6

(* The entries of a rollout, one after the other.                          *)
LEMMA EntriesAre ==
  ASSUME NEW entries, entries \in Seq(Entry)
  PROVE  /\ ReadEntries(entries) \in [0..Len(entries) -> TaskList]
         /\ ReadEntries(entries)[0] = [tasks |-> << >>, current |-> 0]
         /\ \A i \in 1..Len(entries) : ReadEntries(entries)[i] = ReadEntry(entries, ReadEntries(entries)[i - 1], i)
<1> DEFINE n == Len(entries)
           State == TaskList
           start == [tasks |-> << >>, current |-> 0]
           After(s, i) == ReadEntry(entries, s, i)
           Solves(f) == f = [i \in 0..n |-> IF i = 0 THEN start ELSE After(f[i - 1], i)]
           at == CHOOSE f : Solves(f)
           step == [i \in 1..n |-> [s \in State |-> After(s, i)]]
<1>1. n \in Nat
  OBVIOUS
<1>2. start \in State /\ \A i \in 1..n : \A s \in State : After(s, i) \in State
  <2>1. start \in State
    BY DEF TaskList
  <2>2. \A i \in 1..n : i \in Nat
    BY <1>1
  <2> QED
    BY <2>1, <2>2, EntryGrows
<1>3. step \in [1..n -> [State -> State]]
  <2> HIDE DEF n, State, After
  <2> QED
    BY <1>2
<1>4. PICK f \in [0..n -> State] : f[0] = start /\ \A i \in 1..n : f[i] = step[i][f[i - 1]]
  <2> HIDE DEF n, State, start, step, After, Solves, at
  <2>1. Iteration(State, start, n, step)
    BY <1>1, <1>2, <1>3, Iterates
  <2> QED
    BY <2>1 DEF Iteration
<1>5. Solves(f)
  <2>1. ASSUME NEW i \in 1..n PROVE f[i] = After(f[i - 1], i)
    <3> HIDE DEF After, State, n
    <3>1. i - 1 \in 0..n
      BY <1>1
    <3>2. f[i - 1] \in State
      BY <3>1
    <3> QED
      BY <1>4, <3>2
  <2>2. ASSUME NEW i \in 0..n PROVE f[i] = IF i = 0 THEN start ELSE After(f[i - 1], i)
    <3> HIDE DEF After, State, start, step, n
    <3> QED
      BY <1>1, <1>4, <2>1
  <2>3. f = [i \in 0..n |-> f[i]]
    OBVIOUS
  <2> HIDE DEF After, start, State
  <2> QED
    BY <2>2, <2>3
<1>6. Solves(at)
  <2> HIDE DEF Solves
  <2> QED
    BY <1>5, Zenon
<1>7. ReadEntries(entries) = at
  BY Zenon DEF ReadEntries
<1> HIDE DEF at, After, State, start, n
<1>8. at[0] = start /\ \A i \in 1..n : at[i] = After(at[i - 1], i)
  <2>1. 0 \in 0..n /\ \A i \in 1..n : i \in 0..n /\ i # 0
    BY <1>1
  <2> QED
    BY <1>6, <2>1
<1> DEFINE good == {i \in 0..n : at[i] \in State}
<1>9. 0 \in good
  BY <1>1, <1>2, <1>8
<1>10. ASSUME NEW i \in 1..n, i - 1 \in good PROVE i \in good
  BY <1>1, <1>2, <1>8, <1>10
<1>11. \A i \in 0..n : i \in good
  <2> HIDE DEF good
  <2> QED
    BY <1>1, <1>9, <1>10, Induction
<1>12. at \in [0..n -> State]
  <2>1. at = [i \in 0..n |-> at[i]]
    BY <1>6
  <2> QED
    BY <1>11, <2>1
<1>13. \A i \in 1..n : at[i] = After(at[i - 1], i)
  BY <1>8
<1> QED
  BY <1>7, <1>8, <1>12, <1>13 DEF After, State, start, n

(* What a shorter copy of a rollout says is read as in a longer one.       *)
LEMMA EntriesAgree ==
  ASSUME NEW p \in Seq(Entry), NEW e \in Seq(Entry), Steady(p), Steady(e), Continues(p, e)
  PROVE  \A i \in 0..Len(p) : ReadEntries(p)[i] = ReadEntries(e)[i]
<1>1. PICK a : a = ReadEntries(p)
  OBVIOUS
<1>2. PICK b : b = ReadEntries(e)
  OBVIOUS
<1>3. PICK n : n = Len(p)
  OBVIOUS
<1>4. n \in Nat /\ n <= Len(e) /\ \A i \in 1..n : i \in 1..Len(e) /\ e[i] = p[i]
  BY <1>3 DEF Continues
<1>5. /\ a[0] = [tasks |-> << >>, current |-> 0] /\ b[0] = [tasks |-> << >>, current |-> 0]
      /\ \A i \in 1..n : a[i] = ReadEntry(p, a[i - 1], i)
      /\ \A i \in 1..n : b[i] = ReadEntry(e, b[i - 1], i)
  BY <1>1, <1>2, <1>3, <1>4, EntriesAre
<1>6. ASSUME n # 0 PROVE ToSet(p) \cap Starts = {} <=> ToSet(e) \cap Starts = {}
  <2>1. 1 \in 1..n /\ 1 \in DOMAIN p /\ 1 \in DOMAIN e /\ p[1] = e[1] /\ p # << >> /\ e # << >>
    BY <1>3, <1>4, <1>6
  <2>2. p[1] \in ToSet(p) /\ e[1] \in ToSet(e)
    BY <2>1 DEF ToSet
  <2>3. /\ p[1] \in Starts \/ ToSet(p) \cap Starts = {}
        /\ e[1] \in Starts \/ ToSet(e) \cap Starts = {}
    BY <2>1 DEF Steady
  <2> QED
    BY <2>1, <2>2, <2>3
<1>7. ASSUME NEW i \in 1..n, NEW s PROVE ReadEntry(p, s, i) = ReadEntry(e, s, i)
  <2>1. e[i] = p[i] /\ (ToSet(p) \cap Starts = {} <=> ToSet(e) \cap Starts = {})
    BY <1>4, <1>6
  <2>2. OpensTask(p, s, i) <=> OpensTask(e, s, i)
    BY <2>1 DEF OpensTask
  <2>3. \A t : Said(t, p, i) = Said(t, e, i)
    BY <2>1 DEF Said
  <2>4. CASE OpensTask(p, s, i)
    <3>1. OpensTask(e, s, i)
      BY <2>2, <2>4
    <3> QED
      BY <2>1, <2>3, <2>4, <3>1 DEF ReadEntry
  <2>5. CASE ~OpensTask(p, s, i)
    <3>1. ~OpensTask(e, s, i)
      BY <2>2, <2>5
    <3> QED
      BY <2>1, <2>3, <2>5, <3>1 DEF ReadEntry
  <2> QED
    BY <2>4, <2>5
<1> DEFINE good == {i \in 0..n : a[i] = b[i]}
<1>8. 0 \in good
  BY <1>4, <1>5
<1>9. ASSUME NEW i \in 1..n, i - 1 \in good PROVE i \in good
  <2>1. a[i - 1] = b[i - 1] /\ i \in 0..n
    BY <1>4, <1>9
  <2>2. PICK s : s = a[i - 1]
    OBVIOUS
  <2>3. a[i] = ReadEntry(p, s, i) /\ b[i] = ReadEntry(e, s, i)
    BY <1>5, <2>1, <2>2
  <2>4. ReadEntry(p, s, i) = ReadEntry(e, s, i)
    BY <1>7
  <2> QED
    BY <2>1, <2>3, <2>4
<1>10. \A i \in 0..n : i \in good
  <2> HIDE DEF good
  <2> QED
    BY <1>4, <1>8, <1>9, Induction
<1> QED
  BY <1>1, <1>2, <1>3, <1>10

(* The tasks at one entry are those of the rollout, read less far.         *)
LEMMA TasksLater ==
  ASSUME NEW e \in Seq(Entry), NEW i \in 0..Len(e)
  PROVE  /\ ReadEntries(e)[i].tasks \in Seq(TaskRecord) /\ Tasks(e) \in Seq(TaskRecord)
         /\ GrownTasks(ReadEntries(e)[i].tasks, Tasks(e))
<1>1. PICK at : at = ReadEntries(e)
  OBVIOUS
<1>2. PICK n : n = Len(e)
  OBVIOUS
<1>3. n \in Nat /\ i \in 0..n
  BY <1>2
<1>4. at \in [0..n -> TaskList] /\ \A j \in 1..n : at[j] = ReadEntry(e, at[j - 1], j)
  BY <1>1, <1>2, EntriesAre
<1>5. \A j \in 0..n : at[j] \in TaskList /\ at[j].tasks \in Seq(TaskRecord)
  <2>1. \A s \in TaskList : s.tasks \in Seq(TaskRecord)
    BY DEF TaskList
  <2> QED
    BY <1>4, <2>1
<1>6. PICK first : first = at[i].tasks
  OBVIOUS
<1>7. first \in Seq(TaskRecord)
  BY <1>3, <1>5, <1>6
<1> DEFINE good == {j \in 0..n : j < i \/ GrownTasks(first, at[j].tasks)}
<1>8. GrownTasks(first, first)
  <2>1. \A k \in 1..Len(first) : first[k] \in TaskRecord
    BY <1>7
  <2> QED
    BY <1>7, <2>1, TaskItself DEF GrownTasks
<1>9. 0 \in good
  BY <1>3, <1>6, <1>8
<1>10. ASSUME NEW j \in 1..n, j - 1 \in good PROVE j \in good
  <2>1. j \in 0..n /\ j \in Nat
    BY <1>3
  <2>2. CASE j <= i
    BY <1>6, <1>8, <2>1, <2>2
  <2>3. CASE j > i
    <3>1. j - 1 \in 0..n /\ ~(j - 1 < i)
      BY <1>3, <2>3
    <3>2. PICK s : s = at[j - 1]
      OBVIOUS
    <3>3. s \in TaskList /\ s.tasks \in Seq(TaskRecord) /\ GrownTasks(first, s.tasks)
      BY <1>5, <1>10, <3>1, <3>2
    <3>4. PICK t : t = ReadEntry(e, s, j)
      OBVIOUS
    <3>5. t \in TaskList /\ GrownTasks(s.tasks, t.tasks) /\ t = at[j]
      BY <1>4, <2>1, <3>2, <3>3, <3>4, EntryGrows
    <3>6. t.tasks \in Seq(TaskRecord)
      BY <1>5, <2>1, <3>5
    <3>7. GrownTasks(first, t.tasks)
      BY <1>7, <3>3, <3>5, <3>6, GrownTogether
    <3> QED
      BY <2>1, <3>5, <3>7
  <2> QED
    BY <1>3, <2>1, <2>2, <2>3
<1>11. n \in good
  <2> HIDE DEF good
  <2>1. \A j \in 0..n : j \in good
    BY <1>3, <1>9, <1>10, Induction
  <2> QED
    BY <1>3, <2>1
<1>12. Tasks(e) = at[n].tasks
  BY <1>1, <1>2 DEF Tasks
<1> QED
  BY <1>1, <1>3, <1>5, <1>6, <1>7, <1>11, <1>12

(* The tasks of a rollout are those of a longer copy, read less far.       *)
LEMMA TasksGrow ==
  ASSUME NEW p \in Seq(Entry), NEW e \in Seq(Entry), Steady(p), Steady(e), Continues(p, e)
  PROVE  Tasks(p) \in Seq(TaskRecord) /\ Tasks(e) \in Seq(TaskRecord) /\ GrownTasks(Tasks(p), Tasks(e))
<1>1. Len(p) \in 0..Len(p) /\ Len(p) \in 0..Len(e)
  BY DEF Continues
<1>2. ReadEntries(p)[Len(p)] = ReadEntries(e)[Len(p)]
  BY <1>1, EntriesAgree
<1>3. Tasks(p) = ReadEntries(e)[Len(p)].tasks
  BY <1>2 DEF Tasks
<1> QED
  BY <1>1, <1>3, TasksLater

(* The text of a task.                                                     *)
TaskText(task) == <<task.user>> \o task.parts

(* A task is as long as the parts it has.                                  *)
LEMMA TextIs ==
  ASSUME NEW task \in TaskRecord
  PROVE  TaskText(task) \in Seq(Nat) /\ Len(TaskText(task)) = Len(task.parts) + 1
<1>1. task.user \in Nat /\ task.parts \in Seq(Nat)
  BY DEF TaskRecord
<1>2. <<task.user>> \in Seq(Nat) /\ Len(<<task.user>>) = 1
  BY <1>1
<1> QED
  BY <1>1, <1>2 DEF TaskText

(* The turns of a rollout.                                                 *)
LEMMA TaskTurnsAre ==
  ASSUME NEW e
  PROVE  \A t : t \in TaskTurns(e) <=>
           \E k \in DOMAIN Tasks(e) : /\ ~Tasks(e)[k].importing /\ Tasks(e)[k].parts # << >>
                                      /\ t = [index |-> k - 1, text |-> TaskText(Tasks(e)[k])]
<1>1. PICK tasks : tasks = Tasks(e)
  OBVIOUS
<1>2. TaskTurns(e) = {[index |-> k - 1, text |-> <<tasks[k].user>> \o tasks[k].parts] :
         k \in {j \in DOMAIN tasks : ~tasks[j].importing /\ tasks[j].parts # << >>}}
  BY <1>1 DEF TaskTurns
<1>3. TaskTurns(e) = {[index |-> k - 1, text |-> TaskText(tasks[k])] :
         k \in {j \in DOMAIN tasks : ~tasks[j].importing /\ tasks[j].parts # << >>}}
  BY <1>2 DEF TaskText
<1> QED
  BY <1>1, <1>3

(* A rollout gives one turn to an index.                                   *)
LEMMA OneText ==
  ASSUME NEW e \in Seq(Entry)
  PROVE  \A t, u \in TaskTurns(e) : t.index = u.index => t = u
<1>1. PICK tasks : tasks = Tasks(e)
  OBVIOUS
<1>2. tasks \in Seq(TaskRecord)
  <2>1. 0 \in 0..Len(e)
    OBVIOUS
  <2> QED
    BY <1>1, <2>1, TasksLater
<1>3. SUFFICES ASSUME NEW t \in TaskTurns(e), NEW u \in TaskTurns(e), t.index = u.index PROVE t = u
  OBVIOUS
<1>4. PICK k \in DOMAIN tasks : t = [index |-> k - 1, text |-> TaskText(tasks[k])]
  BY <1>1, TaskTurnsAre
<1>5. PICK j \in DOMAIN tasks : u = [index |-> j - 1, text |-> TaskText(tasks[j])]
  BY <1>1, TaskTurnsAre
<1>6. t.index = k - 1 /\ u.index = j - 1
  BY <1>4, <1>5
<1>7. k \in Int /\ j \in Int
  BY <1>2
<1>8. k = j
  <2>1. k - 1 = j - 1
    BY <1>3, <1>6
  <2> QED
    BY <1>7, <2>1
<1> QED
  BY <1>4, <1>5, <1>8

(* A longer copy has each turn, as long or longer.                         *)
LEMMA TurnGrows ==
  ASSUME NEW p \in Seq(Entry), NEW e \in Seq(Entry), Steady(p), Steady(e), Continues(p, e),
         NEW t \in TaskTurns(p)
  PROVE  \E u \in TaskTurns(e) :
           /\ u.index = t.index /\ Len(u.text) \in Nat /\ Len(t.text) \in Nat
           /\ Len(t.text) <= Len(u.text) /\ (Len(t.text) = Len(u.text) => t = u)
<1>1. PICK a : a = Tasks(p)
  OBVIOUS
<1>2. PICK b : b = Tasks(e)
  OBVIOUS
<1>3. a \in Seq(TaskRecord) /\ b \in Seq(TaskRecord) /\ GrownTasks(a, b)
  BY <1>1, <1>2, TasksGrow
<1>4. PICK k \in DOMAIN a : /\ ~a[k].importing /\ a[k].parts # << >>
                            /\ t = [index |-> k - 1, text |-> TaskText(a[k])]
  BY <1>1, TaskTurnsAre
<1>5. PICK x : x = a[k]
  OBVIOUS
<1>6. PICK y : y = b[k]
  OBVIOUS
<1>7. k \in 1..Len(a) /\ k \in DOMAIN b /\ x \in TaskRecord /\ y \in TaskRecord /\ GrownTask(x, y)
  <2>1. k \in 1..Len(a) /\ k \in 1..Len(b)
    BY <1>3 DEF GrownTasks
  <2> QED
    BY <1>3, <1>5, <1>6, <2>1 DEF GrownTasks
<1>8. /\ x.parts \in Seq(Nat) /\ y.parts \in Seq(Nat) /\ x.parts # << >>
      /\ x.importing = y.importing /\ x.user = y.user /\ Continues(x.parts, y.parts)
  BY <1>4, <1>5, <1>7 DEF TaskRecord, GrownTask
<1>9. ~x.importing
  BY <1>4, <1>5
<1>10. ~y.importing
  BY <1>8, <1>9
<1>11. y.parts # << >>
  BY <1>8 DEF Continues
<1>12. PICK u : u = [index |-> k - 1, text |-> TaskText(y)]
  OBVIOUS
<1>13. u \in TaskTurns(e)
  BY <1>2, <1>6, <1>7, <1>10, <1>11, <1>12, TaskTurnsAre
<1>14. /\ u.index = t.index /\ u.text = TaskText(y) /\ t.text = TaskText(x)
       /\ t = [index |-> k - 1, text |-> TaskText(x)]
  BY <1>4, <1>5, <1>12
<1>15. Len(TaskText(x)) = Len(x.parts) + 1 /\ Len(TaskText(y)) = Len(y.parts) + 1
  BY <1>7, TextIs
<1>16. Len(x.parts) \in Nat /\ Len(y.parts) \in Nat /\ Len(x.parts) <= Len(y.parts)
  BY <1>8 DEF Continues
<1>17. ASSUME Len(x.parts) = Len(y.parts) PROVE TaskText(x) = TaskText(y)
  <2>1. x.parts = y.parts
    BY <1>8, <1>17, ContinuesEqual
  <2> QED
    BY <1>8, <2>1 DEF TaskText
<1>18. Len(t.text) = Len(u.text) => t = u
  BY <1>12, <1>14, <1>15, <1>16, <1>17
<1>19. Len(t.text) \in Nat /\ Len(u.text) \in Nat /\ Len(t.text) <= Len(u.text)
  BY <1>14, <1>15, <1>16
<1> QED
  BY <1>13, <1>14, <1>18, <1>19

(* A copy of a rollout.                                                    *)
Copy == [entries : Seq(Entry), bad : BOOLEAN]

(* The visits to a session, one after the other.                           *)
LEMMA CodexReadsAre ==
  ASSUME NEW visits \in Seq(Seq(Copy))
  PROVE  /\ CodexReads(visits)[0] = [rows |-> {}, cursor |-> {}]
         /\ \A v \in 1..Len(visits) : CodexReads(visits)[v] = CodexAfter(CodexReads(visits)[v - 1], visits[v])
<1> DEFINE n == Len(visits)
           start == [rows |-> {}, cursor |-> {}]
           After(s, v) == CodexAfter(s, visits[v])
           Solves(f) == f = [v \in 0..n |-> IF v = 0 THEN start ELSE After(f[v - 1], v)]
           at == CHOOSE f : Solves(f)
           Upto(f, m) == f[0] = start /\ \A v \in 1..m : f[v] = After(f[v - 1], v)
           good == {m \in 0..n : \E f : Upto(f, m)}
<1>1. n \in Nat
  OBVIOUS
<1>2. \E f : Upto(f, n)
  <2> HIDE DEF n, start, After, Solves, at
  <2>1. 0 \in good
    <3>1. Upto([v \in 0..n |-> start], 0)
      BY <1>1
    <3> HIDE DEF Upto
    <3> QED
      BY <1>1, <3>1
  <2>2. ASSUME NEW m \in 1..n, m - 1 \in good PROVE m \in good
    <3>1. PICK f : Upto(f, m - 1)
      BY <2>2
    <3> DEFINE g == [v \in 0..n |-> IF v = m THEN After(f[m - 1], m) ELSE f[v]]
    <3>2. \A v \in 0..(m - 1) : g[v] = f[v]
      BY <1>1
    <3>3. g[m] = After(f[m - 1], m) /\ m \in 1..n /\ m - 1 \in 0..(m - 1) /\ m \in 0..n
      BY <1>1
    <3> HIDE DEF g
    <3>4. g[0] = start
      BY <1>1, <3>1, <3>2
    <3>5. ASSUME NEW v \in 1..m PROVE g[v] = After(g[v - 1], v)
      <4>1. CASE v = m
        BY <3>2, <3>3, <4>1
      <4>2. CASE v # m
        <5>1. v \in 1..(m - 1) /\ v \in 0..(m - 1) /\ v - 1 \in 0..(m - 1)
          BY <4>2
        <5> QED
          BY <3>1, <3>2, <5>1
      <4> QED
        BY <4>1, <4>2
    <3>6. Upto(g, m)
      BY <3>4, <3>5
    <3> HIDE DEF Upto
    <3> QED
      BY <3>3, <3>6
  <2>3. \A m \in 0..n : m \in good
    <3> HIDE DEF good
    <3> QED
      BY <1>1, <2>1, <2>2, Induction
  <2>4. n \in good
    <3> HIDE DEF good
    <3> QED
      BY <1>1, <2>3
  <2> HIDE DEF Upto
  <2> QED
    BY <2>4
<1>3. PICK f : Upto(f, n)
  BY <1>2
<1>4. Solves([v \in 0..n |-> f[v]])
  <2> HIDE DEF n, start, After
  <2> DEFINE h == [v \in 0..n |-> f[v]]
  <2>1. \A v \in 0..n : h[v] = f[v]
    OBVIOUS
  <2>2. ASSUME NEW v \in 0..n PROVE h[v] = IF v = 0 THEN start ELSE After(h[v - 1], v)
    <3>1. CASE v = 0
      BY <1>3, <2>1, <3>1
    <3>2. CASE v # 0
      <4>1. v \in 1..n /\ v - 1 \in 0..n
        BY <1>1, <3>2
      <4> QED
        BY <1>3, <2>1, <3>2, <4>1
    <3> QED
      BY <3>1, <3>2
  <2>3. h = [v \in 0..n |-> h[v]]
    OBVIOUS
  <2> HIDE DEF h
  <2>4. Solves(h)
    BY <2>2, <2>3
  <2> QED
    BY <2>4 DEF h
<1>5. Solves(at)
  <2> HIDE DEF Solves
  <2> QED
    BY <1>4, Zenon
<1>6. CodexReads(visits) = at
  BY Zenon DEF CodexReads
<1> HIDE DEF at, After, start, n
<1>7. at[0] = start /\ \A v \in 1..n : at[v] = After(at[v - 1], v)
  <2>1. 0 \in 0..n /\ \A v \in 1..n : v \in 0..n /\ v # 0
    BY <1>1
  <2> QED
    BY <1>5, <2>1
<1> QED
  BY <1>6, <1>7 DEF After, start, n

(* Of two copies of a rollout one continues the other.                     *)
Comparable(copies) ==
  \A c, d \in DOMAIN copies :
    /\ Steady(copies[c].entries)
    /\ \/ Continues(copies[c].entries, copies[d].entries)
       \/ Continues(copies[d].entries, copies[c].entries)

(* The turns of all copies.                                                *)
CopiesTurns(copies) == UNION {TaskTurns(copies[c].entries) : c \in DOMAIN copies}

(* The turns that are used of a session.                                   *)
Shown(copies) ==
  {t \in CopiesTurns(copies) :
     \A u \in CopiesTurns(copies) : u.index = t.index => Len(u.text) <= Len(t.text)}

(* One of the copies has all that the others have.                         *)
LEMMA LongestShown ==
  ASSUME NEW copies \in Seq(Copy), copies # << >>, Comparable(copies)
  PROVE  \E c \in DOMAIN copies : \A d \in DOMAIN copies :
           Continues(copies[d].entries, copies[c].entries)
<1>1. PICK n : n = Len(copies)
  OBVIOUS
<1>2. n \in Nat /\ n \in 1..n /\ DOMAIN copies = 1..n
  BY <1>1
<1>3. \A c \in 1..n : copies[c].entries \in Seq(Entry)
  <2>1. \A c \in 1..n : copies[c] \in Copy
    BY <1>2
  <2> QED
    BY <2>1 DEF Copy
<1> DEFINE best == {m \in 0..n : m = 0 \/ \E c \in 1..m : \A d \in 1..m :
                      Continues(copies[d].entries, copies[c].entries)}
<1>4. 0 \in best
  BY <1>2
<1>5. ASSUME NEW m \in 1..n, m - 1 \in best PROVE m \in best
  <2>1. m \in 0..n /\ m \in 1..m /\ m \in 1..n
    BY <1>2
  <2>2. PICK last : last = copies[m].entries
    OBVIOUS
  <2>3. last \in Seq(Entry)
    BY <1>3, <2>1, <2>2
  <2>4. Continues(last, last)
    BY <2>3 DEF Continues
  <2>5. CASE m = 1
    <3>1. \A d \in 1..m : d = m
      BY <2>5
    <3> QED
      BY <2>1, <2>2, <2>4, <3>1
  <2>6. CASE m # 1
    <3>1. PICK c \in 1..(m - 1) : \A d \in 1..(m - 1) :
             Continues(copies[d].entries, copies[c].entries)
      BY <1>2, <1>5, <2>6
    <3>2. PICK long : long = copies[c].entries
      OBVIOUS
    <3>3. c \in 1..n /\ c \in 1..m /\ long \in Seq(Entry)
      BY <1>2, <1>3, <3>2
    <3>4. Continues(last, long) \/ Continues(long, last)
      BY <1>2, <2>2, <3>2, <3>3 DEF Comparable
    <3>5. CASE Continues(last, long)
      <4>1. \A d \in 1..m : Continues(copies[d].entries, long)
        <5>1. \A d \in 1..m : d = m \/ d \in 1..(m - 1)
          OBVIOUS
        <5> QED
          BY <2>2, <3>1, <3>2, <3>5, <5>1
      <4> QED
        BY <2>1, <3>2, <3>3, <4>1
    <3>6. CASE Continues(long, last)
      <4>1. ASSUME NEW d \in 1..m PROVE Continues(copies[d].entries, last)
        <5>1. CASE d = m
          BY <2>2, <2>4, <5>1
        <5>2. CASE d # m
          <6>1. PICK x : x = copies[d].entries
            OBVIOUS
          <6>2. x \in Seq(Entry) /\ Continues(x, long)
            <7>1. d \in 1..(m - 1) /\ d \in 1..n
              BY <1>2, <5>2
            <7> QED
              BY <1>3, <3>1, <3>2, <6>1, <7>1
          <6>3. Continues(x, last)
            <7>1. Len(x) <= Len(long) /\ Len(long) <= Len(last)
              BY <3>6, <6>2 DEF Continues
            <7>2. Len(x) \in Nat /\ Len(long) \in Nat /\ Len(last) \in Nat
              BY <2>3, <3>3, <6>2
            <7>3. ASSUME NEW i \in 1..Len(x) PROVE last[i] = x[i]
              <8>1. i \in 1..Len(long)
                BY <7>1, <7>2
              <8>2. long[i] = x[i]
                BY <6>2 DEF Continues
              <8> QED
                BY <3>6, <8>1, <8>2 DEF Continues
            <7> QED
              BY <7>1, <7>2, <7>3 DEF Continues
          <6> QED
            BY <6>1, <6>3
        <5> QED
          BY <5>1, <5>2
      <4> QED
        BY <2>1, <2>2, <4>1
    <3> QED
      BY <3>4, <3>5, <3>6
  <2> QED
    BY <2>5, <2>6
<1>6. n \in best
  <2> HIDE DEF best
  <2>1. \A m \in 0..n : m \in best
    BY <1>2, <1>4, <1>5, Induction
  <2> QED
    BY <1>2, <2>1
<1>7. PICK c \in 1..n : \A d \in 1..n : Continues(copies[d].entries, copies[c].entries)
  <2>1. n # 0
    BY <1>2
  <2> QED
    BY <1>6, <2>1
<1> QED
  BY <1>2, <1>7

(* The turns that are used are those of the longest copy.                  *)
LEMMA ShownIs ==
  ASSUME NEW copies \in Seq(Copy), Comparable(copies), NEW c \in DOMAIN copies,
         \A d \in DOMAIN copies : Continues(copies[d].entries, copies[c].entries)
  PROVE  Shown(copies) = TaskTurns(copies[c].entries)
<1>1. PICK long : long = copies[c].entries
  OBVIOUS
<1>2. PICK turns : turns = TaskTurns(long)
  OBVIOUS
<1>3. \A d \in DOMAIN copies : copies[d].entries \in Seq(Entry) /\ Steady(copies[d].entries)
  <2>1. \A d \in DOMAIN copies : copies[d] \in Copy
    OBVIOUS
  <2> QED
    BY <2>1 DEF Copy, Comparable
<1>4. PICK all : all = CopiesTurns(copies)
  OBVIOUS
<1>5. turns \subseteq all
  BY <1>1, <1>2, <1>4 DEF CopiesTurns
<1>6. ASSUME NEW t \in all
      PROVE  \E u \in turns : /\ u.index = t.index /\ Len(u.text) \in Nat /\ Len(t.text) \in Nat
                              /\ Len(t.text) <= Len(u.text) /\ (Len(t.text) = Len(u.text) => t = u)
  <2>1. PICK d \in DOMAIN copies : t \in TaskTurns(copies[d].entries)
    BY <1>4 DEF CopiesTurns
  <2>2. PICK x : x = copies[d].entries
    OBVIOUS
  <2>3. /\ x \in Seq(Entry) /\ long \in Seq(Entry) /\ Steady(x) /\ Steady(long)
        /\ Continues(x, long) /\ t \in TaskTurns(x)
    BY <1>1, <1>3, <2>1, <2>2
  <2> QED
    BY <1>2, <2>3, TurnGrows
<1>7. \A t, u \in turns : t.index = u.index => t = u
  BY <1>1, <1>2, <1>3, OneText
<1>8. Shown(copies) = {t \in all : \A u \in all : u.index = t.index => Len(u.text) <= Len(t.text)}
  BY <1>4 DEF Shown
<1>9. ASSUME NEW t \in Shown(copies) PROVE t \in turns
  <2>1. t \in all /\ \A u \in all : u.index = t.index => Len(u.text) <= Len(t.text)
    BY <1>8
  <2>2. PICK u \in turns : /\ u.index = t.index /\ Len(u.text) \in Nat /\ Len(t.text) \in Nat
                           /\ Len(t.text) <= Len(u.text) /\ (Len(t.text) = Len(u.text) => t = u)
    BY <1>6, <2>1
  <2>3. Len(u.text) <= Len(t.text)
    BY <1>5, <2>1, <2>2
  <2> QED
    BY <2>2, <2>3
<1>10. ASSUME NEW t \in turns PROVE t \in Shown(copies)
  <2>1. ASSUME NEW u \in all, u.index = t.index PROVE Len(u.text) <= Len(t.text)
    <3>1. PICK x \in turns : x.index = u.index /\ Len(u.text) <= Len(x.text)
      BY <1>6
    <3>2. x = t
      BY <1>7, <2>1, <3>1
    <3> QED
      BY <3>1, <3>2
  <2> QED
    BY <1>5, <1>8, <2>1
<1> QED
  BY <1>1, <1>2, <1>9, <1>10

(* A session without a rollout shows nothing.                              *)
LEMMA ShownNone ==
  ASSUME NEW copies, copies = << >>
  PROVE  Shown(copies) = {}
<1>1. DOMAIN copies = {}
  OBVIOUS
<1>2. CopiesTurns(copies) = {}
  BY <1>1 DEF CopiesTurns
<1> QED
  BY <1>2 DEF Shown

(* A visit shows one turn of an index.                                     *)
LEMMA ShownSingle ==
  ASSUME NEW copies \in Seq(Copy), Comparable(copies)
  PROVE  \A t, u \in Shown(copies) : t.index = u.index => t = u
<1>1. CASE copies = << >>
  BY <1>1, ShownNone
<1>2. CASE copies # << >>
  <2>1. PICK c \in DOMAIN copies : \A d \in DOMAIN copies : Continues(copies[d].entries, copies[c].entries)
    BY <1>2, LongestShown
  <2>2. Shown(copies) = TaskTurns(copies[c].entries)
    BY <2>1, ShownIs
  <2>3. copies[c].entries \in Seq(Entry)
    <3>1. copies[c] \in Copy
      OBVIOUS
    <3> QED
      BY <3>1 DEF Copy
  <2> QED
    BY <2>2, <2>3, OneText
<1> QED
  BY <1>1, <1>2

(* No turn that was used is gone when the copies have grown.               *)
LEMMA ShownGrows ==
  ASSUME NEW a \in Seq(Copy), NEW b \in Seq(Copy), Comparable(a), Comparable(b),
         \A c \in DOMAIN a : \E d \in DOMAIN b : Continues(a[c].entries, b[d].entries)
  PROVE  \A t \in Shown(a) : \E u \in Shown(b) : u.index = t.index
<1>1. SUFFICES ASSUME NEW t \in Shown(a) PROVE \E u \in Shown(b) : u.index = t.index
  OBVIOUS
<1>2. PICK c \in DOMAIN a : t \in TaskTurns(a[c].entries)
  BY DEF Shown, CopiesTurns
<1>3. PICK d \in DOMAIN b : Continues(a[c].entries, b[d].entries)
  OBVIOUS
<1>4. b # << >>
  BY <1>3
<1>5. PICK e \in DOMAIN b : \A f \in DOMAIN b : Continues(b[f].entries, b[e].entries)
  BY <1>4, LongestShown
<1>6. PICK x : x = a[c].entries
  OBVIOUS
<1>7. PICK y : y = b[d].entries
  OBVIOUS
<1>8. PICK z : z = b[e].entries
  OBVIOUS
<1>9. a[c] \in Copy /\ b[d] \in Copy /\ b[e] \in Copy
  OBVIOUS
<1>10. x \in Seq(Entry) /\ y \in Seq(Entry) /\ z \in Seq(Entry)
  BY <1>6, <1>7, <1>8, <1>9 DEF Copy
<1>11. Steady(x) /\ Steady(z) /\ Continues(x, y) /\ Continues(y, z)
  BY <1>3, <1>5, <1>6, <1>7, <1>8 DEF Comparable
<1>12. Continues(x, z)
  BY <1>10, <1>11 DEF Continues
<1>13. Shown(b) = TaskTurns(z)
  BY <1>5, <1>8, ShownIs
<1>14. t \in TaskTurns(x)
  BY <1>2, <1>6
<1>15. \E u \in TaskTurns(z) : u.index = t.index
  BY <1>10, <1>11, <1>12, <1>14, TurnGrows
<1> QED
  BY <1>13, <1>15

(* Turns that replace those of their index take their place.               *)
LEMMA Replaced ==
  ASSUME NEW S, NEW T, \A t, u \in S : t.index = u.index => t = u,
         \A t, u \in T : t.index = u.index => t = u,
         \A t \in S : \E u \in T : u.index = t.index
  PROVE  (T \ S) \cup {r \in S : \A t \in T \ S : t.index # r.index} = T
<1>1. PICK new : new = T \ S
  OBVIOUS
<1>2. PICK kept : kept = {r \in S : \A t \in new : t.index # r.index}
  OBVIOUS
<1>3. ASSUME NEW r \in kept PROVE r \in T
  <2>1. r \in S /\ \A t \in new : t.index # r.index
    BY <1>2
  <2>2. PICK u \in T : u.index = r.index
    BY <2>1
  <2>3. u \in S
    BY <1>1, <2>1, <2>2
  <2> QED
    BY <2>1, <2>2, <2>3
<1>4. ASSUME NEW r \in T, r \notin new PROVE r \in kept
  <2>1. r \in S
    BY <1>1, <1>4
  <2>2. ASSUME NEW t \in new, t.index = r.index PROVE FALSE
    <3>1. t \in T /\ t \notin S
      BY <1>1
    <3>2. t = r
      BY <2>2, <3>1
    <3> QED
      BY <2>1, <3>1, <3>2
  <2> QED
    BY <1>2, <2>1, <2>2
<1>5. new \subseteq T
  BY <1>1
<1>6. new \cup kept = T
  BY <1>3, <1>4, <1>5
<1> QED
  BY <1>1, <1>2, <1>6

(* A visit that reads its rollouts stores what they show.                  *)
LEMMA CodexReadable ==
  ASSUME NEW copies, NEW s, s.rows = s.cursor,
         \A t, u \in s.rows : t.index = u.index => t = u,
         \A t, u \in Shown(copies) : t.index = u.index => t = u,
         \A t \in s.rows : \E u \in Shown(copies) : u.index = t.index,
         Readable(copies)
  PROVE  CodexAfter(s, copies).rows = Shown(copies) /\ CodexAfter(s, copies).cursor = Shown(copies)
<1>1. PICK turns : turns = Shown(copies)
  OBVIOUS
<1>2. PICK emitted : emitted = s.cursor
  OBVIOUS
<1>3. CodexVisit(copies, emitted) = [turns |-> turns \ emitted, cursor |-> turns]
  <2>1. turns = {t \in CopiesTurns(copies) :
                   \A u \in CopiesTurns(copies) : u.index = t.index => Len(u.text) <= Len(t.text)}
    BY <1>1 DEF Shown
  <2>2. ~\E c \in DOMAIN copies : copies[c].bad
    BY DEF Readable
  <2> QED
    BY <2>1, <2>2 DEF CodexVisit, CopiesTurns
<1>4. PICK after : after = CodexAfter(s, copies)
  OBVIOUS
<1>5. /\ after.rows = (turns \ emitted) \cup {r \in s.rows : \A t \in turns \ emitted : t.index # r.index}
      /\ after.cursor = turns
  BY <1>2, <1>3, <1>4 DEF CodexAfter, Kept, Stored
<1>6. /\ s.rows = emitted
      /\ \A t, u \in emitted : t.index = u.index => t = u
      /\ \A t, u \in turns : t.index = u.index => t = u
      /\ \A t \in emitted : \E u \in turns : u.index = t.index
  BY <1>1, <1>2
<1>7. (turns \ emitted) \cup {r \in emitted : \A t \in turns \ emitted : t.index # r.index} = turns
  BY <1>6, Replaced
<1> QED
  BY <1>1, <1>4, <1>5, <1>6, <1>7

(* A visit that cannot read a rollout changes nothing.                     *)
LEMMA CodexUnreadable ==
  ASSUME NEW copies, NEW s, ~Readable(copies)
  PROVE  CodexAfter(s, copies).rows = s.rows /\ CodexAfter(s, copies).cursor = s.cursor
<1>1. CodexVisit(copies, s.cursor) = [turns |-> {}, cursor |-> s.cursor]
  BY DEF CodexVisit, Readable
<1>2. PICK after : after = CodexAfter(s, copies)
  OBVIOUS
<1>3. after.rows = s.rows /\ after.cursor = s.cursor
  BY <1>1, <1>2 DEF CodexAfter, Kept, Stored
<1> QED
  BY <1>2, <1>3

(* All copies of a source that grows are comparable, and those of an       *)
(* earlier visit are continued by those of a later one.                    *)
LEMMA RolloutsComparable ==
  ASSUME NEW visits, RolloutsGrow(visits), NEW v \in 1..Len(visits), NEW w \in 1..Len(visits),
         v <= w, Readable(visits[v]), Readable(visits[w])
  PROVE  /\ visits[w] \in Seq(Copy) /\ Comparable(visits[w])
         /\ \A c \in DOMAIN visits[v] : \E d \in DOMAIN visits[w] :
              Continues(visits[v][c].entries, visits[w][d].entries)
<1>1. visits \in Seq(Seq(Copy)) /\ DOMAIN visits = 1..Len(visits)
  BY DEF RolloutsGrow, Copy
<1>2. \A x \in 1..Len(visits) : visits[x] \in Seq(Copy)
  BY <1>1
<1>3. \A x \in 1..Len(visits) : \A c \in DOMAIN visits[x] : visits[x][c] \in Copy
  BY <1>2
<1>4. \A x \in 1..Len(visits) : \A c \in DOMAIN visits[x] : visits[x][c].entries \in Seq(Entry)
  BY <1>3 DEF Copy
<1>5. ASSUME NEW c \in DOMAIN visits[w], NEW d \in DOMAIN visits[w]
      PROVE  /\ Steady(visits[w][c].entries)
             /\ \/ Continues(visits[w][c].entries, visits[w][d].entries)
                \/ Continues(visits[w][d].entries, visits[w][c].entries)
  <2>1. PICK x : x = visits[w][c].entries
    OBVIOUS
  <2>2. PICK y : y = visits[w][d].entries
    OBVIOUS
  <2>3. Steady(x) /\ (IsPrefix(x, y) \/ IsPrefix(y, x))
    BY <1>1, <2>1, <2>2 DEF RolloutsGrow
  <2>4. x \in Seq(Entry) /\ y \in Seq(Entry)
    BY <1>4, <2>1, <2>2
  <2>5. Continues(x, y) \/ Continues(y, x)
    BY <2>3, <2>4, PrefixIs
  <2> QED
    BY <2>1, <2>2, <2>3, <2>5
<1>6. ASSUME NEW c \in DOMAIN visits[v]
      PROVE  \E d \in DOMAIN visits[w] : Continues(visits[v][c].entries, visits[w][d].entries)
  <2>1. PICK d \in DOMAIN visits[w] : IsPrefix(visits[v][c].entries, visits[w][d].entries)
    BY <1>1 DEF RolloutsGrow
  <2>2. Continues(visits[v][c].entries, visits[w][d].entries)
    BY <1>4, <2>1, PrefixIs
  <2> QED
    BY <2>2
<1> QED
  BY <1>2, <1>5, <1>6 DEF Comparable

(* After a visit that read all, the turns in use are what is stored.       *)
LEMMA CodexExact ==
  ASSUME NEW visits, visits # << >>, RolloutsGrow(visits), Readable(visits[Len(visits)])
  PROVE  CodexReads(visits)[Len(visits)].rows = Shown(visits[Len(visits)])
<1>1. PICK n : n = Len(visits)
  OBVIOUS
<1>2. PICK at : at = CodexReads(visits)
  OBVIOUS
<1>3. visits \in Seq(Seq(Copy))
  BY DEF RolloutsGrow, Copy
<1>4. /\ at[0] = [rows |-> {}, cursor |-> {}]
      /\ \A v \in 1..n : at[v] = CodexAfter(at[v - 1], visits[v])
  BY <1>1, <1>2, <1>3, CodexReadsAre
<1>5. n \in Nat /\ n \in 1..n
  BY <1>1, <1>3
<1> DEFINE good == {v \in 0..n :
             /\ at[v].rows = at[v].cursor
             /\ \/ at[v].rows = {}
                \/ \E w \in 1..v : Readable(visits[w]) /\ at[v].rows = Shown(visits[w])
             /\ v # 0 /\ Readable(visits[v]) => at[v].rows = Shown(visits[v])}
<1>6. 0 \in good
  <2>1. at[0].rows = {} /\ at[0].cursor = {}
    BY <1>4
  <2>2. 0 \in 0..n /\ ~(0 # 0)
    BY <1>5
  <2> QED
    BY <2>1, <2>2
<1>7. ASSUME NEW v \in 1..n, v - 1 \in good PROVE v \in good
  <2>1. PICK s : s = at[v - 1]
    OBVIOUS
  <2>2. PICK copies : copies = visits[v]
    OBVIOUS
  <2>3. PICK t : t = CodexAfter(s, copies)
    OBVIOUS
  <2>4. v \in 0..n /\ v - 1 \in 0..n /\ v \in 1..v /\ v \in Nat /\ at[v] = t
    BY <1>4, <1>5, <2>1, <2>2, <2>3
  <2>5. /\ s.rows = s.cursor
        /\ s.rows = {} \/ \E w \in 1..(v - 1) : Readable(visits[w]) /\ s.rows = Shown(visits[w])
    BY <1>7, <2>1
  <2>6. CASE Readable(copies)
    <3>1. \A x, y \in Shown(copies) : x.index = y.index => x = y
      BY <1>1, <2>2, <2>4, <2>6, RolloutsComparable, ShownSingle
    <3>2. /\ \A x, y \in s.rows : x.index = y.index => x = y
          /\ \A x \in s.rows : \E y \in Shown(copies) : y.index = x.index
      <4>1. CASE s.rows = {}
        BY <4>1
      <4>2. CASE s.rows # {}
        <5>1. PICK w \in 1..(v - 1) : Readable(visits[w]) /\ s.rows = Shown(visits[w])
          BY <2>5, <4>2
        <5>2. PICK a : a = visits[w]
          OBVIOUS
        <5>3. w \in 1..Len(visits) /\ v \in 1..Len(visits) /\ w <= v /\ w <= w
          BY <1>1, <1>5
        <5>4. a \in Seq(Copy) /\ Comparable(a)
          BY <5>1, <5>2, <5>3, RolloutsComparable
        <5>5. /\ copies \in Seq(Copy) /\ Comparable(copies)
              /\ \A c \in DOMAIN a : \E d \in DOMAIN copies : Continues(a[c].entries, copies[d].entries)
          BY <2>2, <2>6, <5>1, <5>2, <5>3, RolloutsComparable
        <5>6. \A x \in Shown(a) : \E y \in Shown(copies) : y.index = x.index
          BY <5>4, <5>5, ShownGrows
        <5> QED
          BY <5>1, <5>2, <5>4, <5>6, ShownSingle
      <4> QED
        BY <4>1, <4>2
    <3>3. t.rows = Shown(copies) /\ t.cursor = Shown(copies)
      BY <2>3, <2>5, <2>6, <3>1, <3>2, CodexReadable
    <3> QED
      BY <2>2, <2>4, <2>6, <3>3
  <2>7. CASE ~Readable(copies)
    <3>1. t.rows = s.rows /\ t.cursor = s.cursor
      BY <2>3, <2>7, CodexUnreadable
    <3>2. \A w \in 1..(v - 1) : w \in 1..v
      BY <2>4
    <3> QED
      BY <2>2, <2>4, <2>5, <2>7, <3>1, <3>2
  <2> QED
    BY <2>6, <2>7
<1>8. n \in good
  <2> HIDE DEF good
  <2>1. \A v \in 0..n : v \in good
    BY <1>5, <1>6, <1>7, Induction
  <2> QED
    BY <1>5, <2>1
<1>9. at[n].rows = Shown(visits[n])
  BY <1>1, <1>5, <1>8
<1> QED
  BY <1>1, <1>2, <1>9

(* A sequence without its last element.                                    *)
LEMMA FrontIs ==
  ASSUME NEW S, NEW s \in Seq(S), s # << >>
  PROVE  /\ Front(s) \in Seq(S) /\ Len(Front(s)) = Len(s) - 1
         /\ \A i \in 1..(Len(s) - 1) : Front(s)[i] = s[i]
<1>1. PICK n : n = Len(s)
  OBVIOUS
<1>2. PICK u : u = SubSeq(s, 1, n - 1)
  OBVIOUS
<1>3. n \in Nat /\ n # 0 /\ n - 1 \in 0..n
  BY <1>1
<1>4. u \in Seq(S) /\ Len(u) = n - 1
  BY <1>1, <1>2, <1>3
<1>5. \A i \in 1..(n - 1) : u[i] = s[i]
  BY <1>1, <1>2, <1>3
<1>6. Front(s) = u
  BY <1>1, <1>2 DEF Front
<1> QED
  BY <1>1, <1>4, <1>5, <1>6

(* A last visit that fails leaves what was stored.                         *)
LEMMA CodexFails ==
  ASSUME NEW visits \in Seq(Seq(Copy)), visits # << >>, ~Readable(visits[Len(visits)])
  PROVE  CodexReads(visits)[Len(visits)].rows = CodexReads(Front(visits))[Len(Front(visits))].rows
<1>1. PICK n : n = Len(visits)
  OBVIOUS
<1>2. PICK front : front = Front(visits)
  OBVIOUS
<1>3. PICK m : m = Len(front)
  OBVIOUS
<1>4. /\ n \in Nat /\ n \in 1..n /\ m = n - 1 /\ m \in Nat
      /\ front \in Seq(Seq(Copy)) /\ \A i \in 1..m : front[i] = visits[i] /\ i \in 1..n
  <2>1. n \in Nat /\ n \in 1..n
    BY <1>1
  <2>2. front \in Seq(Seq(Copy)) /\ m = n - 1 /\ \A i \in 1..(n - 1) : front[i] = visits[i]
    BY <1>1, <1>2, <1>3, FrontIs
  <2>3. m \in Nat
    BY <2>1, <2>2
  <2> QED
    BY <2>1, <2>2, <2>3
<1>5. PICK a : a = CodexReads(visits)
  OBVIOUS
<1>6. PICK b : b = CodexReads(front)
  OBVIOUS
<1>7. /\ a[0] = [rows |-> {}, cursor |-> {}]
      /\ \A v \in 1..n : a[v] = CodexAfter(a[v - 1], visits[v])
  BY <1>1, <1>5, CodexReadsAre
<1>8. /\ b[0] = [rows |-> {}, cursor |-> {}]
      /\ \A v \in 1..m : b[v] = CodexAfter(b[v - 1], front[v])
  BY <1>3, <1>4, <1>6, CodexReadsAre
<1> DEFINE good == {i \in 0..m : a[i] = b[i]}
<1>9. 0 \in good
  BY <1>4, <1>7, <1>8
<1>10. ASSUME NEW i \in 1..m, i - 1 \in good PROVE i \in good
  <2>1. a[i - 1] = b[i - 1] /\ i \in 0..m /\ i \in 1..n /\ front[i] = visits[i]
    BY <1>4, <1>10
  <2>2. a[i] = b[i]
    BY <1>7, <1>8, <2>1
  <2> QED
    BY <2>1, <2>2
<1>11. a[m] = b[m]
  <2> HIDE DEF good
  <2>1. \A i \in 0..m : i \in good
    BY <1>4, <1>9, <1>10, Induction
  <2>2. m \in good
    BY <1>4, <2>1
  <2> QED
    BY <2>2 DEF good
<1>12. a[n].rows = a[m].rows
  <2>1. PICK s : s = a[m]
    OBVIOUS
  <2>2. PICK copies : copies = visits[n]
    OBVIOUS
  <2>3. a[n] = CodexAfter(s, copies)
    BY <1>4, <1>7, <2>1, <2>2
  <2>4. CodexAfter(s, copies).rows = s.rows
    BY <1>1, <2>2, CodexUnreadable
  <2> QED
    BY <2>1, <2>3, <2>4
<1> QED
  BY <1>1, <1>2, <1>3, <1>5, <1>6, <1>11, <1>12

(* What the visits to a Codex session leave is what one visit to its last  *)
(* readable state would store.                                             *)
LEMMA CodexReadingHolds ==
  ASSUME NEW q, q.provider = "codex", q.visits # << >>, RolloutsGrow(q.visits)
  PROVE  ReadingExact(q, ReadSource(q.provider, q.visits))
<1>1. PICK visits : visits = q.visits
  OBVIOUS
<1>2. PICK n : n = Len(visits)
  OBVIOUS
<1>3. PICK last : last = visits[n]
  OBVIOUS
<1>4. visits # << >> /\ RolloutsGrow(visits) /\ visits \in Seq(Seq(Copy)) /\ n \in 1..n
  <2>1. visits # << >> /\ RolloutsGrow(visits)
    BY <1>1
  <2>2. visits \in Seq(Seq(Copy))
    BY <2>1 DEF RolloutsGrow, Copy
  <2> QED
    BY <1>2, <2>1, <2>2
<1>5. PICK rows : rows = CodexReads(visits)[n].rows
  OBVIOUS
<1>6. ReadSource("codex", visits) = rows
  BY <1>2, <1>5 DEF ReadSource
<1>7. CASE Readable(last)
  <2>1. PICK list : list = <<last>>
    OBVIOUS
  <2>2. list # << >> /\ Len(list) = 1 /\ list[1] = last /\ DOMAIN list = 1..1
    BY <2>1
  <2>3. RolloutsGrow(list)
    <3>1. last \in Seq(Copy)
      BY <1>2, <1>3, <1>4
    <3>2. list \in Seq(Seq(Copy))
      BY <2>1, <3>1
    <3>3. \A v, w \in DOMAIN list : list[v] = last /\ list[w] = last
      BY <2>2
    <3>4. \A c \in DOMAIN last : IsPrefix(last[c].entries, last[c].entries)
      <4>1. ASSUME NEW c \in DOMAIN last PROVE IsPrefix(last[c].entries, last[c].entries)
        <5>1. PICK x : x = last[c].entries
          OBVIOUS
        <5>2. last[c] \in Copy
          BY <3>1
        <5>3. x \in Seq(Entry)
          BY <5>1, <5>2 DEF Copy
        <5>4. Continues(x, x)
          BY <5>3 DEF Continues
        <5> QED
          BY <5>1, <5>3, <5>4, PrefixIs
      <4> QED
        BY <4>1
    <3>5. \A c, d \in DOMAIN last :
            /\ Steady(last[c].entries)
            /\ IsPrefix(last[c].entries, last[d].entries) \/ IsPrefix(last[d].entries, last[c].entries)
      <4>1. n \in DOMAIN visits
        BY <1>2, <1>4
      <4> QED
        BY <1>3, <1>4, <1>7, <4>1 DEF RolloutsGrow
    <3> QED
      BY <3>2, <3>3, <3>4, <3>5 DEF RolloutsGrow, Copy
  <2>4. PICK once : once = CodexReads(list)[1].rows
    OBVIOUS
  <2>5. rows = Shown(last)
    BY <1>2, <1>3, <1>4, <1>5, <1>7, CodexExact
  <2>6. once = Shown(last)
    BY <1>7, <2>2, <2>3, <2>4, CodexExact
  <2>7. ReadSource("codex", list) = once
    BY <2>2, <2>4 DEF ReadSource
  <2> QED
    BY <1>1, <1>2, <1>3, <1>6, <1>7, <2>1, <2>5, <2>6, <2>7 DEF ReadingExact
<1>8. CASE ~Readable(last)
  <2>1. PICK front : front = Front(visits)
    OBVIOUS
  <2>2. rows = CodexReads(front)[Len(front)].rows
    BY <1>2, <1>3, <1>4, <1>5, <1>8, <2>1, CodexFails
  <2>3. ReadSource("codex", front) = CodexReads(front)[Len(front)].rows
    BY DEF ReadSource
  <2> QED
    BY <1>1, <1>2, <1>3, <1>6, <1>8, <2>1, <2>2, <2>3 DEF ReadingExact
<1> QED
  BY <1>7, <1>8

-----------------------------------------------------------------------------
(* Antigravity.                                                            *)

(* A line of the transcript of an Antigravity conversation, and the file.  *)
StepLine == [step : Nat \cup {-1}, text : BOOLEAN]
StepFile == [lines : Seq(StepLine), half : BOOLEAN]

(* The lines of a file, one after the other.                               *)
LEMMA ReadStepsAre ==
  ASSUME NEW file \in StepFile, NEW cursor
  PROVE  /\ ReadSteps(file, cursor)[0] = [last |-> cursor.last, emitted |-> cursor.emitted, turns |-> {}]
         /\ \A i \in 1..Len(file.lines) : ReadSteps(file, cursor)[i] = ReadStep(file, ReadSteps(file, cursor)[i - 1], i)
<1> DEFINE n == Len(file.lines)
           start == [last |-> cursor.last, emitted |-> cursor.emitted, turns |-> {}]
           After(s, i) == ReadStep(file, s, i)
           Solves(f) == f = [i \in 0..n |-> IF i = 0 THEN start ELSE After(f[i - 1], i)]
           at == CHOOSE f : Solves(f)
           Upto(f, m) == f[0] = start /\ \A i \in 1..m : f[i] = After(f[i - 1], i)
           good == {m \in 0..n : \E f : Upto(f, m)}
<1>1. n \in Nat
  BY DEF StepFile
<1>2. \E f : Upto(f, n)
  <2> HIDE DEF n, start, After, Solves, at
  <2>1. 0 \in good
    <3>1. Upto([i \in 0..n |-> start], 0)
      BY <1>1
    <3> HIDE DEF Upto
    <3> QED
      BY <1>1, <3>1
  <2>2. ASSUME NEW m \in 1..n, m - 1 \in good PROVE m \in good
    <3>1. PICK f : Upto(f, m - 1)
      BY <2>2
    <3> DEFINE g == [i \in 0..n |-> IF i = m THEN After(f[m - 1], m) ELSE f[i]]
    <3>2. \A i \in 0..(m - 1) : g[i] = f[i]
      BY <1>1
    <3>3. g[m] = After(f[m - 1], m) /\ m \in 1..n /\ m - 1 \in 0..(m - 1) /\ m \in 0..n
      BY <1>1
    <3> HIDE DEF g
    <3>4. g[0] = start
      BY <1>1, <3>1, <3>2
    <3>5. ASSUME NEW i \in 1..m PROVE g[i] = After(g[i - 1], i)
      <4>1. CASE i = m
        BY <3>2, <3>3, <4>1
      <4>2. CASE i # m
        <5>1. i \in 1..(m - 1) /\ i \in 0..(m - 1) /\ i - 1 \in 0..(m - 1)
          BY <4>2
        <5> QED
          BY <3>1, <3>2, <5>1
      <4> QED
        BY <4>1, <4>2
    <3>6. Upto(g, m)
      BY <3>4, <3>5
    <3> HIDE DEF Upto
    <3> QED
      BY <3>3, <3>6
  <2>3. \A m \in 0..n : m \in good
    <3> HIDE DEF good
    <3> QED
      BY <1>1, <2>1, <2>2, Induction
  <2>4. n \in good
    <3> HIDE DEF good
    <3> QED
      BY <1>1, <2>3
  <2> HIDE DEF Upto
  <2> QED
    BY <2>4
<1>3. PICK f : Upto(f, n)
  BY <1>2
<1>4. Solves([i \in 0..n |-> f[i]])
  <2> HIDE DEF n, start, After
  <2> DEFINE h == [i \in 0..n |-> f[i]]
  <2>1. \A i \in 0..n : h[i] = f[i]
    OBVIOUS
  <2>2. ASSUME NEW i \in 0..n PROVE h[i] = IF i = 0 THEN start ELSE After(h[i - 1], i)
    <3>1. CASE i = 0
      BY <1>3, <2>1, <3>1
    <3>2. CASE i # 0
      <4>1. i \in 1..n /\ i - 1 \in 0..n
        BY <1>1, <3>2
      <4> QED
        BY <1>3, <2>1, <3>2, <4>1
    <3> QED
      BY <3>1, <3>2
  <2>3. h = [i \in 0..n |-> h[i]]
    OBVIOUS
  <2> HIDE DEF h
  <2>4. Solves(h)
    BY <2>2, <2>3
  <2> QED
    BY <2>4 DEF h
<1>5. Solves(at)
  <2> HIDE DEF Solves
  <2> QED
    BY <1>4, Zenon
<1>6. ReadSteps(file, cursor) = at
  BY Zenon DEF ReadSteps
<1> HIDE DEF at, After, start, n
<1>7. at[0] = start /\ \A i \in 1..n : at[i] = After(at[i - 1], i)
  <2>1. 0 \in 0..n /\ \A i \in 1..n : i \in 0..n /\ i # 0
    BY <1>1
  <2> QED
    BY <1>5, <2>1
<1> QED
  BY <1>6, <1>7 DEF After, start, n

(* The visits to a file, one after the other.                              *)
LEMMA AntigravityReadsAre ==
  ASSUME NEW visits \in Seq(StepFile)
  PROVE  /\ AntigravityReads(visits)[0] = [rows |-> {}, cursor |-> [last |-> -1, emitted |-> {}]]
         /\ \A v \in 1..Len(visits) : AntigravityReads(visits)[v] = AntigravityAfter(AntigravityReads(visits)[v - 1], visits[v])
<1> DEFINE n == Len(visits)
           start == [rows |-> {}, cursor |-> [last |-> -1, emitted |-> {}]]
           After(s, v) == AntigravityAfter(s, visits[v])
           Solves(f) == f = [v \in 0..n |-> IF v = 0 THEN start ELSE After(f[v - 1], v)]
           at == CHOOSE f : Solves(f)
           Upto(f, m) == f[0] = start /\ \A v \in 1..m : f[v] = After(f[v - 1], v)
           good == {m \in 0..n : \E f : Upto(f, m)}
<1>1. n \in Nat
  OBVIOUS
<1>2. \E f : Upto(f, n)
  <2> HIDE DEF n, start, After, Solves, at
  <2>1. 0 \in good
    <3>1. Upto([v \in 0..n |-> start], 0)
      BY <1>1
    <3> HIDE DEF Upto
    <3> QED
      BY <1>1, <3>1
  <2>2. ASSUME NEW m \in 1..n, m - 1 \in good PROVE m \in good
    <3>1. PICK f : Upto(f, m - 1)
      BY <2>2
    <3> DEFINE g == [v \in 0..n |-> IF v = m THEN After(f[m - 1], m) ELSE f[v]]
    <3>2. \A v \in 0..(m - 1) : g[v] = f[v]
      BY <1>1
    <3>3. g[m] = After(f[m - 1], m) /\ m \in 1..n /\ m - 1 \in 0..(m - 1) /\ m \in 0..n
      BY <1>1
    <3> HIDE DEF g
    <3>4. g[0] = start
      BY <1>1, <3>1, <3>2
    <3>5. ASSUME NEW v \in 1..m PROVE g[v] = After(g[v - 1], v)
      <4>1. CASE v = m
        BY <3>2, <3>3, <4>1
      <4>2. CASE v # m
        <5>1. v \in 1..(m - 1) /\ v \in 0..(m - 1) /\ v - 1 \in 0..(m - 1)
          BY <4>2
        <5> QED
          BY <3>1, <3>2, <5>1
      <4> QED
        BY <4>1, <4>2
    <3>6. Upto(g, m)
      BY <3>4, <3>5
    <3> HIDE DEF Upto
    <3> QED
      BY <3>3, <3>6
  <2>3. \A m \in 0..n : m \in good
    <3> HIDE DEF good
    <3> QED
      BY <1>1, <2>1, <2>2, Induction
  <2>4. n \in good
    <3> HIDE DEF good
    <3> QED
      BY <1>1, <2>3
  <2> HIDE DEF Upto
  <2> QED
    BY <2>4
<1>3. PICK f : Upto(f, n)
  BY <1>2
<1>4. Solves([v \in 0..n |-> f[v]])
  <2> HIDE DEF n, start, After
  <2> DEFINE h == [v \in 0..n |-> f[v]]
  <2>1. \A v \in 0..n : h[v] = f[v]
    OBVIOUS
  <2>2. ASSUME NEW v \in 0..n PROVE h[v] = IF v = 0 THEN start ELSE After(h[v - 1], v)
    <3>1. CASE v = 0
      BY <1>3, <2>1, <3>1
    <3>2. CASE v # 0
      <4>1. v \in 1..n /\ v - 1 \in 0..n
        BY <1>1, <3>2
      <4> QED
        BY <1>3, <2>1, <3>2, <4>1
    <3> QED
      BY <3>1, <3>2
  <2>3. h = [v \in 0..n |-> h[v]]
    OBVIOUS
  <2> HIDE DEF h
  <2>4. Solves(h)
    BY <2>2, <2>3
  <2> QED
    BY <2>4 DEF h
<1>5. Solves(at)
  <2> HIDE DEF Solves
  <2> QED
    BY <1>4, Zenon
<1>6. AntigravityReads(visits) = at
  BY Zenon DEF AntigravityReads
<1> HIDE DEF at, After, start, n
<1>7. at[0] = start /\ \A v \in 1..n : at[v] = After(at[v - 1], v)
  <2>1. 0 \in 0..n /\ \A v \in 1..n : v \in 0..n /\ v # 0
    BY <1>1
  <2> QED
    BY <1>5, <2>1
<1> QED
  BY <1>6, <1>7 DEF After, start, n

(* A line that changes nothing once a step has been read.                  *)
Silent(file, i, last) ==
  \/ file.half /\ i = Len(file.lines)
  \/ file.lines[i].step = -1 \/ ~file.lines[i].text
  \/ StepOf(file.lines, i) <= last

(* What a line does.                                                       *)
LEMMA StepRead ==
  ASSUME NEW file \in StepFile, NEW s, NEW i \in 1..Len(file.lines), s.last \in Int,
         \A t \in s.emitted : t.index \in Int /\ t.index <= s.last
  PROVE  LET t == ReadStep(file, s, i)
         IN  /\ Silent(file, i, s.last) => t = s
             /\ ~Silent(file, i, s.last) =>
                  /\ t.last = StepOf(file.lines, i) /\ t.last > s.last
                  /\ t.emitted = s.emitted \cup {[index |-> t.last, text |-> <<i>>]}
                  /\ t.turns = s.turns \cup {[index |-> t.last, text |-> <<i>>]}
             /\ t.last \in Int /\ s.last <= t.last /\ Silent(file, i, t.last)
             /\ \A e \in t.emitted : e.index \in Int /\ e.index <= t.last
<1>1. PICK t : t = ReadStep(file, s, i)
  OBVIOUS
<1>2. PICK step : step = StepOf(file.lines, i)
  OBVIOUS
<1>3. step \in Int
  <2>1. file.lines \in Seq(StepLine)
    BY DEF StepFile
  <2>2. file.lines[i] \in StepLine
    BY <2>1
  <2>3. file.lines[i].step \in Int
    BY <2>2 DEF StepLine
  <2> QED
    BY <1>2, <2>3 DEF StepOf
<1>4. PICK turn : turn = [index |-> step, text |-> <<i>>]
  OBVIOUS
<1>5. turn.index = step
  BY <1>4
<1>6. CASE Silent(file, i, s.last)
  <2>1. t = s
    BY <1>1, <1>6 DEF ReadStep, Silent
  <2> QED
    BY <1>1, <1>6, <2>1
<1>7. CASE ~Silent(file, i, s.last)
  <2>1. step > s.last /\ turn \notin s.emitted
    BY <1>2, <1>3, <1>5, <1>7 DEF Silent
  <2>2. t = [last |-> step, emitted |-> s.emitted \cup {turn}, turns |-> s.turns \cup {turn}]
    BY <1>1, <1>2, <1>4, <1>7, <2>1 DEF ReadStep, Silent
  <2>3. t.last = step /\ t.emitted = s.emitted \cup {turn} /\ t.turns = s.turns \cup {turn}
    BY <2>2
  <2>4. Silent(file, i, t.last)
    BY <1>2, <1>3, <2>3 DEF Silent
  <2>5. \A e \in t.emitted : e.index \in Int /\ e.index <= t.last
    BY <1>3, <1>5, <2>1, <2>3
  <2> QED
    BY <1>1, <1>2, <1>3, <1>4, <1>7, <2>1, <2>3, <2>4, <2>5
<1> QED
  BY <1>6, <1>7

(* A line with nothing to say at one cursor has nothing to say later.      *)
LEMMA IdleLater ==
  ASSUME NEW file \in StepFile, NEW i \in 1..Len(file.lines), NEW a \in Int, NEW b \in Int, a <= b,
         Silent(file, i, a)
  PROVE  Silent(file, i, b)
<1>1. StepOf(file.lines, i) \in Int
  <2>1. file.lines \in Seq(StepLine)
    BY DEF StepFile
  <2>2. file.lines[i] \in StepLine
    BY <2>1
  <2>3. file.lines[i].step \in Int
    BY <2>2 DEF StepLine
  <2> QED
    BY <2>3 DEF StepOf
<1> QED
  BY <1>1 DEF Silent

(* A cursor is at or after every turn it has emitted.                      *)
Ordered(cursor) == cursor.last \in Int /\ \A t \in cursor.emitted : t.index \in Int /\ t.index <= cursor.last

(* All that has been read is idle; what is emitted is in the turns.        *)
LEMMA StepsRead ==
  ASSUME NEW file \in StepFile, NEW cursor, Ordered(cursor), NEW i \in 0..Len(file.lines)
  PROVE  LET s == ReadSteps(file, cursor)[i]
         IN  /\ Ordered(s) /\ s.emitted = cursor.emitted \cup s.turns
             /\ \A j \in 1..i : Silent(file, j, s.last)
<1>1. PICK at : at = ReadSteps(file, cursor)
  OBVIOUS
<1>2. PICK n : n = Len(file.lines)
  OBVIOUS
<1>3. n \in Nat
  BY <1>2 DEF StepFile
<1>4. /\ at[0] = [last |-> cursor.last, emitted |-> cursor.emitted, turns |-> {}]
      /\ \A j \in 1..n : at[j] = ReadStep(file, at[j - 1], j)
  BY <1>1, <1>2, ReadStepsAre
<1> DEFINE good == {m \in 0..n : /\ at[m].last \in Int /\ \A t \in at[m].emitted : t.index \in Int /\ t.index <= at[m].last
                                 /\ at[m].emitted = cursor.emitted \cup at[m].turns
                                 /\ \A j \in 1..m : Silent(file, j, at[m].last)}
<1>5. 0 \in good
  <2>1. at[0].last = cursor.last /\ at[0].emitted = cursor.emitted /\ at[0].turns = {}
    BY <1>4
  <2> QED
    BY <1>3, <2>1 DEF Ordered
<1>6. ASSUME NEW m \in 1..n, m - 1 \in good PROVE m \in good
  <2>1. PICK s : s = at[m - 1]
    OBVIOUS
  <2>2. /\ s.last \in Int /\ \A t \in s.emitted : t.index \in Int /\ t.index <= s.last
        /\ s.emitted = cursor.emitted \cup s.turns
        /\ \A j \in 1..(m - 1) : Silent(file, j, s.last)
    BY <1>6, <2>1
  <2>3. PICK t : t = ReadStep(file, s, m)
    OBVIOUS
  <2>4. at[m] = t /\ m \in 1..Len(file.lines) /\ m \in 0..n
    BY <1>2, <1>3, <1>4, <2>1, <2>3
  <2>5. /\ t.last \in Int /\ s.last <= t.last /\ Silent(file, m, t.last)
        /\ \A e \in t.emitted : e.index \in Int /\ e.index <= t.last
        /\ Silent(file, m, s.last) => t = s
        /\ ~Silent(file, m, s.last) =>
             /\ t.emitted = s.emitted \cup {[index |-> t.last, text |-> <<m>>]}
             /\ t.turns = s.turns \cup {[index |-> t.last, text |-> <<m>>]}
    BY <2>2, <2>3, <2>4, StepRead
  <2>6. t.emitted = cursor.emitted \cup t.turns
    BY <2>2, <2>5
  <2>7. ASSUME NEW j \in 1..m PROVE Silent(file, j, t.last)
    <3>1. CASE j = m
      BY <2>5, <3>1
    <3>2. CASE j # m
      <4>1. j \in 1..(m - 1) /\ j \in 1..Len(file.lines)
        BY <1>2, <1>3, <3>2
      <4> QED
        BY <2>2, <2>5, <4>1, IdleLater
    <3> QED
      BY <3>1, <3>2
  <2> QED
    BY <2>4, <2>5, <2>6, <2>7
<1>7. \A m \in 0..n : m \in good
  <2> HIDE DEF good
  <2> QED
    BY <1>3, <1>5, <1>6, Induction
<1>8. i \in good
  BY <1>2, <1>7
<1> QED
  BY <1>1, <1>8 DEF Ordered

(* Lines that are idle leave the cursor.                                   *)
LEMMA IdleRead ==
  ASSUME NEW file \in StepFile, NEW cursor, Ordered(cursor), NEW k \in 0..Len(file.lines),
         \A j \in 1..k : Silent(file, j, cursor.last)
  PROVE  LET s == ReadSteps(file, cursor)[k]
         IN  s.last = cursor.last /\ s.emitted = cursor.emitted
<1>1. PICK at : at = ReadSteps(file, cursor)
  OBVIOUS
<1>2. PICK n : n = Len(file.lines)
  OBVIOUS
<1>3. n \in Nat /\ k \in 0..n /\ k \in Nat
  BY <1>2 DEF StepFile
<1>4. PICK start : start = [last |-> cursor.last, emitted |-> cursor.emitted, turns |-> {}]
  OBVIOUS
<1>5. at[0] = start /\ \A j \in 1..n : at[j] = ReadStep(file, at[j - 1], j)
  BY <1>1, <1>2, <1>4, ReadStepsAre
<1>6. /\ start.last = cursor.last /\ start.emitted = cursor.emitted
      /\ start.last \in Int /\ \A t \in start.emitted : t.index \in Int /\ t.index <= start.last
  BY <1>4 DEF Ordered
<1> DEFINE good == {m \in 0..k : at[m] = start}
<1>7. 0 \in good
  BY <1>3, <1>5
<1>8. ASSUME NEW m \in 1..k, m - 1 \in good PROVE m \in good
  <2>1. m \in 1..n /\ m \in 1..Len(file.lines) /\ m \in 0..k
    BY <1>2, <1>3
  <2>2. at[m] = ReadStep(file, start, m)
    BY <1>5, <1>8, <2>1
  <2>3. Silent(file, m, start.last)
    BY <1>6
  <2>4. at[m] = start
    BY <1>6, <2>1, <2>2, <2>3, StepRead
  <2> QED
    BY <2>1, <2>4
<1>9. \A m \in 0..k : m \in good
  <2> HIDE DEF good
  <2> QED
    BY <1>3, <1>7, <1>8, Induction
<1>10. at[k] = start
  BY <1>3, <1>9
<1> QED
  BY <1>1, <1>6, <1>10

(* Two files are read alike where their lines are the same.                *)
LEMMA AlikeRead ==
  ASSUME NEW f \in StepFile, NEW g \in StepFile, NEW c, NEW d, Ordered(c), Ordered(d),
         NEW m \in Nat, NEW k \in Nat, m <= k, k <= Len(f.lines), k <= Len(g.lines),
         ReadSteps(f, c)[m].last = ReadSteps(g, d)[m].last,
         ReadSteps(f, c)[m].emitted = ReadSteps(g, d)[m].emitted,
         \A i \in (m + 1)..k : /\ f.lines[i] = g.lines[i]
                               /\ ~(f.half /\ i = Len(f.lines)) /\ ~(g.half /\ i = Len(g.lines))
  PROVE  /\ ReadSteps(f, c)[k].last = ReadSteps(g, d)[k].last
         /\ ReadSteps(f, c)[k].emitted = ReadSteps(g, d)[k].emitted
<1>1. PICK a : a = ReadSteps(f, c)
  OBVIOUS
<1>2. PICK b : b = ReadSteps(g, d)
  OBVIOUS
<1>3. Len(f.lines) \in Nat /\ Len(g.lines) \in Nat
  BY DEF StepFile
<1>4. /\ \A j \in 1..Len(f.lines) : a[j] = ReadStep(f, a[j - 1], j)
      /\ \A j \in 1..Len(g.lines) : b[j] = ReadStep(g, b[j - 1], j)
  BY <1>1, <1>2, ReadStepsAre
<1>5. /\ \A j \in 0..Len(f.lines) : Ordered(a[j])
      /\ \A j \in 0..Len(g.lines) : Ordered(b[j])
  BY <1>1, <1>2, StepsRead
<1> DEFINE good == {i \in 0..k : i < m \/ (a[i].last = b[i].last /\ a[i].emitted = b[i].emitted)}
<1>6. 0 \in good
  BY <1>1, <1>2
<1>7. ASSUME NEW i \in 1..k, i - 1 \in good PROVE i \in good
  <2>1. CASE i <= m
    BY <1>1, <1>2, <2>1
  <2>2. CASE i > m
    <3>1. /\ i \in (m + 1)..k /\ i \in 1..Len(f.lines) /\ i \in 1..Len(g.lines) /\ i \in 0..k
          /\ i - 1 \in 0..Len(f.lines) /\ i - 1 \in 0..Len(g.lines) /\ ~(i - 1 < m)
      BY <1>3, <2>2
    <3>2. PICK s : s = a[i - 1]
      OBVIOUS
    <3>3. PICK t : t = b[i - 1]
      OBVIOUS
    <3>4. s.last = t.last /\ s.emitted = t.emitted
      BY <1>7, <3>1, <3>2, <3>3
    <3>5. /\ s.last \in Int /\ \A e \in s.emitted : e.index \in Int /\ e.index <= s.last
          /\ t.last \in Int /\ \A e \in t.emitted : e.index \in Int /\ e.index <= t.last
      BY <1>5, <3>1, <3>2, <3>3 DEF Ordered
    <3>6. Silent(f, i, s.last) <=> Silent(g, i, t.last)
      BY <3>1, <3>4 DEF Silent, StepOf
    <3>7. StepOf(f.lines, i) = StepOf(g.lines, i)
      BY <3>1 DEF StepOf
    <3>8. PICK x : x = ReadStep(f, s, i)
      OBVIOUS
    <3>9. PICK y : y = ReadStep(g, t, i)
      OBVIOUS
    <3>10. /\ Silent(f, i, s.last) => x = s
           /\ ~Silent(f, i, s.last) =>
                /\ x.last = StepOf(f.lines, i)
                /\ x.emitted = s.emitted \cup {[index |-> x.last, text |-> <<i>>]}
      BY <3>1, <3>5, <3>8, StepRead
    <3>11. /\ Silent(g, i, t.last) => y = t
           /\ ~Silent(g, i, t.last) =>
                /\ y.last = StepOf(g.lines, i)
                /\ y.emitted = t.emitted \cup {[index |-> y.last, text |-> <<i>>]}
      BY <3>1, <3>5, <3>9, StepRead
    <3>12. x.last = y.last /\ x.emitted = y.emitted
      BY <3>4, <3>6, <3>7, <3>10, <3>11
    <3> QED
      BY <1>4, <3>1, <3>2, <3>3, <3>8, <3>9, <3>12
  <2> QED
    BY <2>1, <2>2
<1>8. \A i \in 0..k : i \in good
  <2> HIDE DEF good
  <2> QED
    BY <1>6, <1>7, Induction
<1>9. a[k].last = b[k].last /\ a[k].emitted = b[k].emitted
  BY <1>8
<1> QED
  BY <1>1, <1>2, <1>9

(* The cursor before the first visit.                                      *)
Fresh == [last |-> -1, emitted |-> {}]

(* A file without a half-written line.                                     *)
Whole(lines) == [lines |-> lines, half |-> FALSE]

(* What one reading of whole lines comes to.                               *)
Pass(lines) == ReadSteps(Whole(lines), Fresh)[Len(lines)]

(* The whole lines are those of the file, without a half-written last one. *)
LEMMA WholeIs ==
  ASSUME NEW file \in StepFile
  PROVE  LET ls == WholeLines(file)
         IN  /\ ls \in Seq(StepLine) /\ Len(ls) <= Len(file.lines) /\ Len(file.lines) \in Nat
             /\ \A i \in 1..Len(ls) : ls[i] = file.lines[i] /\ ~(file.half /\ i = Len(file.lines))
             /\ Len(ls) = Len(file.lines) \/ (file.half /\ Len(file.lines) = Len(ls) + 1)
<1>1. PICK lines : lines = file.lines
  OBVIOUS
<1>2. lines \in Seq(StepLine) /\ Len(lines) \in Nat
  BY <1>1 DEF StepFile
<1>3. CASE ~file.half
  BY <1>1, <1>2, <1>3 DEF WholeLines
<1>4. CASE file.half /\ Len(lines) = 0
  <2>1. PICK ls : ls = SubSeq(lines, 1, Len(lines) - 1)
    OBVIOUS
  <2>2. ls \in Seq(StepLine) /\ Len(ls) = 0
    BY <1>2, <1>4, <2>1
  <2>3. WholeLines(file) = ls
    BY <1>1, <1>4, <2>1 DEF WholeLines, Front
  <2> QED
    BY <1>1, <1>2, <1>4, <2>2, <2>3
<1>5. CASE file.half /\ Len(lines) # 0
  <2>1. PICK ls : ls = SubSeq(lines, 1, Len(lines) - 1)
    OBVIOUS
  <2>2. /\ ls \in Seq(StepLine) /\ Len(ls) = Len(lines) - 1
        /\ \A i \in 1..Len(ls) : ls[i] = lines[i]
    <3>1. PICK m : m = Len(lines)
      OBVIOUS
    <3>2. m \in Nat /\ m # 0 /\ m - 1 \in 0..m /\ ls = SubSeq(lines, 1, m - 1)
      BY <1>2, <1>5, <2>1, <3>1
    <3>3. ls \in Seq(StepLine) /\ Len(ls) = m - 1
      BY <1>2, <3>1, <3>2
    <3>4. \A i \in 1..(m - 1) : ls[i] = lines[i]
      BY <1>2, <3>1, <3>2
    <3> QED
      BY <3>1, <3>3, <3>4
  <2>3. WholeLines(file) = ls
    BY <1>1, <1>5, <2>1 DEF WholeLines, Front
  <2> QED
    BY <1>1, <1>2, <1>5, <2>2, <2>3
<1> QED
  BY <1>3, <1>4, <1>5

(* A reading starts at the cursor before the first visit.                  *)
LEMMA FreshRead ==
  ASSUME NEW ls \in Seq(StepLine)
  PROVE  /\ Whole(ls) \in StepFile /\ Whole(ls).lines = ls /\ ~Whole(ls).half /\ Ordered(Fresh)
         /\ ReadSteps(Whole(ls), Fresh)[0].last = -1
         /\ ReadSteps(Whole(ls), Fresh)[0].emitted = {}
<1>1. Whole(ls) \in StepFile /\ Whole(ls).lines = ls /\ ~Whole(ls).half
  BY DEF Whole, StepFile
<1>2. Fresh.last = -1 /\ Fresh.emitted = {}
  BY DEF Fresh
<1>3. ReadSteps(Whole(ls), Fresh)[0] = [last |-> Fresh.last, emitted |-> Fresh.emitted, turns |-> {}]
  BY <1>1, ReadStepsAre
<1> QED
  BY <1>1, <1>2, <1>3 DEF Ordered

(* The visits so far come to one reading of the lines.                     *)
Passed(ls, s) ==
  s.cursor.last = Pass(ls).last /\ s.cursor.emitted = Pass(ls).emitted /\ s.rows = s.cursor.emitted

(* A visit comes to what one reading of all whole lines does.              *)
LEMMA VisitPasses ==
  ASSUME NEW file \in StepFile, NEW ls \in Seq(StepLine), NEW more, more = WholeLines(file),
         Continues(ls, more), NEW s, Passed(ls, s)
  PROVE  Passed(more, AntigravityAfter(s, file))
<1>1. PICK c : c = s.cursor
  OBVIOUS
<1>2. PICK m : m = Len(ls)
  OBVIOUS
<1>3. PICK k : k = Len(more)
  OBVIOUS
<1>4. PICK n : n = Len(file.lines)
  OBVIOUS
<1>5. /\ more \in Seq(StepLine) /\ k <= n /\ n \in Nat
      /\ \A i \in 1..k : more[i] = file.lines[i] /\ ~(file.half /\ i = Len(file.lines))
      /\ k = n \/ (file.half /\ n = k + 1)
  BY <1>3, <1>4, WholeIs
<1>6. m \in Nat /\ k \in Nat /\ m <= k /\ \A i \in 1..m : more[i] = ls[i]
  BY <1>2, <1>3, <1>5 DEF Continues
<1>7. PICK h : h = Whole(ls)
  OBVIOUS
<1>8. PICK g : g = Whole(more)
  OBVIOUS
<1>9. /\ h \in StepFile /\ h.lines = ls /\ ~h.half /\ g \in StepFile /\ g.lines = more /\ ~g.half
      /\ Ordered(Fresh)
      /\ ReadSteps(h, Fresh)[0].last = ReadSteps(g, Fresh)[0].last
      /\ ReadSteps(h, Fresh)[0].emitted = ReadSteps(g, Fresh)[0].emitted
  BY <1>5, <1>7, <1>8, FreshRead
<1>10. PICK p : p = ReadSteps(h, Fresh)[m]
  OBVIOUS
<1>11. /\ p = Pass(ls) /\ c.last = p.last /\ c.emitted = p.emitted /\ s.rows = c.emitted
  BY <1>1, <1>2, <1>7, <1>10 DEF Pass, Passed
<1>12. p.last = ReadSteps(g, Fresh)[m].last /\ p.emitted = ReadSteps(g, Fresh)[m].emitted
  <2>1. m <= Len(h.lines) /\ m <= Len(g.lines) /\ 0 \in Nat /\ 0 <= m
    BY <1>2, <1>3, <1>6, <1>9
  <2>2. \A i \in (0 + 1)..m : /\ h.lines[i] = g.lines[i]
                              /\ ~(h.half /\ i = Len(h.lines)) /\ ~(g.half /\ i = Len(g.lines))
    BY <1>6, <1>9
  <2> QED
    BY <1>6, <1>9, <1>10, <2>1, <2>2, AlikeRead
<1>13. Ordered(p) /\ \A j \in 1..m : Silent(h, j, p.last)
  <2>1. m \in 0..Len(h.lines)
    BY <1>2, <1>6, <1>9
  <2> QED
    BY <1>9, <1>10, <2>1, StepsRead
<1>14. Ordered(c)
  BY <1>11, <1>13 DEF Ordered
<1>15. \A j \in 1..m : Silent(file, j, c.last)
  <2>1. ASSUME NEW j \in 1..m PROVE Silent(file, j, c.last)
    <3>1. h.lines[j] = file.lines[j] /\ Silent(h, j, c.last)
      <4>1. j \in 1..k
        BY <1>6
      <4> QED
        BY <1>5, <1>6, <1>9, <1>11, <1>13, <4>1
    <3> QED
      BY <1>9, <3>1 DEF Silent, StepOf
  <2> QED
    BY <2>1
<1>16. ReadSteps(file, c)[m].last = c.last /\ ReadSteps(file, c)[m].emitted = c.emitted
  <2>1. m \in 0..Len(file.lines)
    BY <1>4, <1>5, <1>6
  <2> QED
    BY <1>14, <1>15, <2>1, IdleRead
<1>17. PICK a : a = ReadSteps(file, c)[k]
  OBVIOUS
<1>18. a.last = Pass(more).last /\ a.emitted = Pass(more).emitted
  <2>1. k <= Len(file.lines) /\ k <= Len(g.lines)
    BY <1>3, <1>4, <1>5, <1>6, <1>9
  <2>2. \A i \in (m + 1)..k : /\ file.lines[i] = g.lines[i]
                              /\ ~(file.half /\ i = Len(file.lines)) /\ ~(g.half /\ i = Len(g.lines))
    BY <1>5, <1>6, <1>9
  <2>3. /\ ReadSteps(file, c)[m].last = ReadSteps(g, Fresh)[m].last
        /\ ReadSteps(file, c)[m].emitted = ReadSteps(g, Fresh)[m].emitted
    BY <1>11, <1>12, <1>16
  <2>4. /\ ReadSteps(file, c)[k].last = ReadSteps(g, Fresh)[k].last
        /\ ReadSteps(file, c)[k].emitted = ReadSteps(g, Fresh)[k].emitted
    <3>1. m \in Nat /\ k \in Nat /\ m <= k
      BY <1>6
    <3>2. g \in StepFile /\ Ordered(Fresh)
      BY <1>9
    <3> QED
      BY <1>14, <2>1, <2>2, <2>3, <3>1, <3>2, AlikeRead
  <2> QED
    BY <1>3, <1>8, <1>17, <2>4 DEF Pass
<1>19. PICK b : b = ReadSteps(file, c)[n]
  OBVIOUS
<1>20. b.last = a.last /\ b.emitted = a.emitted
  <2>1. CASE n = k
    BY <1>17, <1>19, <2>1
  <2>2. CASE n # k
    <3>1. file.half /\ n = k + 1 /\ n \in 1..n /\ n - 1 = k /\ k \in 0..Len(file.lines) /\ n \in 1..Len(file.lines)
      <4>1. file.half /\ n = k + 1
        BY <1>5, <2>2
      <4>2. k \in Nat
        BY <1>6
      <4> QED
        BY <1>4, <4>1, <4>2
    <3>2. b = ReadStep(file, a, n)
      BY <1>4, <1>17, <1>19, <3>1, ReadStepsAre
    <3>3. a.last \in Int /\ \A t \in a.emitted : t.index \in Int /\ t.index <= a.last
      BY <1>14, <1>17, <3>1, StepsRead DEF Ordered
    <3>4. Silent(file, n, a.last)
      BY <1>4, <3>1 DEF Silent
    <3>5. b = a
      BY <3>1, <3>2, <3>3, <3>4, StepRead
    <3> QED
      BY <3>5
  <2> QED
    BY <2>1, <2>2
<1>21. b.emitted = c.emitted \cup b.turns
  <2>1. n \in 0..Len(file.lines)
    BY <1>4, <1>5
  <2> QED
    BY <1>14, <1>19, <2>1, StepsRead
<1>22. PICK t : t = AntigravityAfter(s, file)
  OBVIOUS
<1>23. t.cursor.last = b.last /\ t.cursor.emitted = b.emitted /\ t.rows = s.rows \cup b.turns
  <2>1. PICK cursor : cursor = [last |-> b.last, emitted |-> b.emitted]
    OBVIOUS
  <2>2. AntigravityVisit(file, c) = [turns |-> b.turns, cursor |-> cursor]
    BY <1>4, <1>19, <2>1 DEF AntigravityVisit
  <2>3. t.cursor = cursor /\ t.rows = s.rows \cup b.turns
    BY <1>1, <1>22, <2>2 DEF AntigravityAfter, Kept, Stored
  <2> QED
    BY <2>1, <2>3
<1> QED
  BY <1>11, <1>18, <1>20, <1>21, <1>22, <1>23 DEF Passed

(* The visits to a conversation come to one reading of its last state.     *)
LEMMA AntigravityExact ==
  ASSUME NEW visits, visits # << >>, StepsGrow(visits)
  PROVE  AntigravityReads(visits)[Len(visits)].rows = Pass(WholeLines(visits[Len(visits)])).emitted
<1>1. PICK n : n = Len(visits)
  OBVIOUS
<1>2. PICK at : at = AntigravityReads(visits)
  OBVIOUS
<1>3. visits \in Seq(StepFile)
  BY DEF StepsGrow, StepFile, StepLine
<1>4. /\ at[0] = [rows |-> {}, cursor |-> [last |-> -1, emitted |-> {}]]
      /\ \A v \in 1..n : at[v] = AntigravityAfter(at[v - 1], visits[v])
  BY <1>1, <1>2, <1>3, AntigravityReadsAre
<1>5. n \in Nat /\ n \in 1..n /\ DOMAIN visits = 1..n /\ \A v \in 1..n : visits[v] \in StepFile
  BY <1>1, <1>3
<1> DEFINE lines == [v \in 0..n |-> IF v = 0 THEN << >> ELSE WholeLines(visits[v])]
<1>6. \A v \in 1..n : WholeLines(visits[v]) \in Seq(StepLine)
  BY <1>5, WholeIs
<1>7. \A v \in 0..n : lines[v] \in Seq(StepLine)
  BY <1>6
<1>8. ASSUME NEW v \in 1..n PROVE Continues(lines[v - 1], lines[v])
  <2>1. CASE v = 1
    <3>1. lines[v - 1] = << >> /\ lines[v] \in Seq(StepLine)
      BY <1>5, <1>7, <2>1
    <3>2. PICK none : none = lines[v - 1]
      OBVIOUS
    <3>3. PICK first : first = lines[v]
      OBVIOUS
    <3>4. Len(none) = 0 /\ Len(first) \in Nat
      BY <3>1, <3>2, <3>3
    <3>5. Continues(none, first)
      BY <3>4 DEF Continues
    <3> QED
      BY <3>2, <3>3, <3>5
  <2>2. CASE v # 1
    <3>1. v - 1 \in 1..n /\ v - 1 <= v
      BY <1>5, <2>2
    <3>2. IsPrefix(WholeLines(visits[v - 1]), WholeLines(visits[v]))
      BY <1>5, <3>1 DEF StepsGrow
    <3>3. Continues(WholeLines(visits[v - 1]), WholeLines(visits[v]))
      BY <1>6, <3>1, <3>2, PrefixIs
    <3> QED
      BY <3>1, <3>3
  <2> QED
    BY <2>1, <2>2
<1> DEFINE good == {v \in 0..n : Passed(lines[v], at[v])}
<1>9. 0 \in good
  <2>1. PICK s : s = at[0]
    OBVIOUS
  <2>2. s.rows = {} /\ s.cursor.last = -1 /\ s.cursor.emitted = {}
    BY <1>4, <2>1
  <2>3. PICK none : none = lines[0]
    OBVIOUS
  <2>4. none = << >> /\ none \in Seq(StepLine) /\ Len(none) = 0
    BY <1>5, <2>3
  <2>5. Pass(none).last = -1 /\ Pass(none).emitted = {}
    BY <2>4, FreshRead DEF Pass
  <2>6. Passed(none, s)
    BY <2>2, <2>5 DEF Passed
  <2> HIDE DEF lines
  <2> QED
    BY <1>5, <2>1, <2>3, <2>6
<1>10. ASSUME NEW v \in 1..n, v - 1 \in good PROVE v \in good
  <2>1. PICK s : s = at[v - 1]
    OBVIOUS
  <2>2. PICK ls : ls = lines[v - 1]
    OBVIOUS
  <2>3. PICK more : more = lines[v]
    OBVIOUS
  <2>4. PICK file : file = visits[v]
    OBVIOUS
  <2>5. v - 1 \in 0..n /\ v \in 0..n /\ v # 0
    BY <1>5
  <2>6. ls \in Seq(StepLine) /\ more = WholeLines(file) /\ Continues(ls, more) /\ file \in StepFile
    BY <1>5, <1>7, <1>8, <2>2, <2>3, <2>4, <2>5
  <2>7. Passed(ls, s)
    BY <1>10, <2>1, <2>2
  <2>8. Passed(more, AntigravityAfter(s, file))
    BY <2>6, <2>7, VisitPasses
  <2> HIDE DEF lines
  <2> QED
    BY <1>4, <2>1, <2>3, <2>4, <2>5, <2>8
<1>11. n \in good
  <2> HIDE DEF good
  <2>1. \A v \in 0..n : v \in good
    BY <1>5, <1>9, <1>10, Induction
  <2> QED
    BY <1>5, <2>1
<1>12. Passed(WholeLines(visits[n]), at[n])
  BY <1>5, <1>11
<1> QED
  BY <1>1, <1>2, <1>12 DEF Passed

(* What the visits to an Antigravity conversation leave is what one visit  *)
(* to its last state would store.                                          *)
LEMMA AntigravityHolds ==
  ASSUME NEW q, q.provider = "antigravity", q.visits # << >>, StepsGrow(q.visits)
  PROVE  ReadingExact(q, ReadSource(q.provider, q.visits))
<1>1. PICK visits : visits = q.visits
  OBVIOUS
<1>2. PICK n : n = Len(visits)
  OBVIOUS
<1>3. PICK last : last = visits[n]
  OBVIOUS
<1>4. visits # << >> /\ StepsGrow(visits)
  BY <1>1
<1>5. PICK list : list = <<last>>
  OBVIOUS
<1>6. list # << >> /\ Len(list) = 1 /\ list[1] = last /\ DOMAIN list = 1..1
  BY <1>5
<1>7. StepsGrow(list)
  <2>1. visits \in Seq(StepFile) /\ n \in 1..n
    BY <1>2, <1>4 DEF StepsGrow, StepFile, StepLine
  <2>2. last \in StepFile /\ list \in Seq(StepFile)
    BY <1>2, <1>3, <1>5, <2>1
  <2>3. PICK ls : ls = WholeLines(last)
    OBVIOUS
  <2>4. ls \in Seq(StepLine)
    BY <2>2, <2>3, WholeIs
  <2>5. IsPrefix(ls, ls)
    BY <2>4, PrefixIs DEF Continues
  <2>6. \A v, w \in DOMAIN list : list[v] = last /\ list[w] = last
    BY <1>6
  <2> QED
    BY <2>2, <2>3, <2>5, <2>6 DEF StepsGrow, StepFile, StepLine
<1>8. PICK rows : rows = AntigravityReads(visits)[n].rows
  OBVIOUS
<1>9. PICK once : once = AntigravityReads(list)[1].rows
  OBVIOUS
<1>10. rows = once
  <2>1. rows = Pass(WholeLines(last)).emitted
    BY <1>2, <1>3, <1>4, <1>8, AntigravityExact
  <2>2. once = Pass(WholeLines(last)).emitted
    BY <1>6, <1>7, <1>9, AntigravityExact
  <2> QED
    BY <2>1, <2>2
<1>11. ReadSource("antigravity", visits) = rows /\ ReadSource("antigravity", list) = once
  BY <1>2, <1>6, <1>8, <1>9 DEF ReadSource
<1> QED
  BY <1>1, <1>2, <1>3, <1>5, <1>10, <1>11 DEF ReadingExact

-----------------------------------------------------------------------------
(* Claude.                                                                 *)

(* The states of a Claude transcript at its visits.                        *)
Transcripts(visits) == visits \in Seq([lines : Seq(LineKind), half : BOOLEAN])

(* The visits to a transcript, one after the other.                        *)
LEMMA ClaudeReadsAre ==
  ASSUME NEW visits, Transcripts(visits)
  PROVE  /\ ClaudeReads(visits)[0] = [rows |-> {}, cursor |-> [offset |-> 0, consumed |-> -1]]
         /\ \A v \in 1..Len(visits) : ClaudeReads(visits)[v] = ClaudeAfter(ClaudeReads(visits)[v - 1], visits[v])
<1> DEFINE n == Len(visits)
           start == [rows |-> {}, cursor |-> [offset |-> 0, consumed |-> -1]]
           After(s, v) == ClaudeAfter(s, visits[v])
           Solves(f) == f = [v \in 0..n |-> IF v = 0 THEN start ELSE After(f[v - 1], v)]
           at == CHOOSE f : Solves(f)
           Upto(f, m) == f[0] = start /\ \A v \in 1..m : f[v] = After(f[v - 1], v)
           good == {m \in 0..n : \E f : Upto(f, m)}
<1>1. n \in Nat
  BY DEF Transcripts
<1>2. \E f : Upto(f, n)
  <2> HIDE DEF n, start, After, Solves, at
  <2>1. 0 \in good
    <3>1. Upto([v \in 0..n |-> start], 0)
      BY <1>1
    <3> HIDE DEF Upto
    <3> QED
      BY <1>1, <3>1
  <2>2. ASSUME NEW m \in 1..n, m - 1 \in good PROVE m \in good
    <3>1. PICK f : Upto(f, m - 1)
      BY <2>2
    <3> DEFINE g == [v \in 0..n |-> IF v = m THEN After(f[m - 1], m) ELSE f[v]]
    <3>2. \A v \in 0..(m - 1) : g[v] = f[v]
      BY <1>1
    <3>3. g[m] = After(f[m - 1], m) /\ m \in 1..n /\ m - 1 \in 0..(m - 1) /\ m \in 0..n
      BY <1>1
    <3> HIDE DEF g
    <3>4. g[0] = start
      BY <1>1, <3>1, <3>2
    <3>5. ASSUME NEW v \in 1..m PROVE g[v] = After(g[v - 1], v)
      <4>1. CASE v = m
        BY <3>2, <3>3, <4>1
      <4>2. CASE v # m
        <5>1. v \in 1..(m - 1) /\ v \in 0..(m - 1) /\ v - 1 \in 0..(m - 1)
          BY <4>2
        <5> QED
          BY <3>1, <3>2, <5>1
      <4> QED
        BY <4>1, <4>2
    <3>6. Upto(g, m)
      BY <3>4, <3>5
    <3> HIDE DEF Upto
    <3> QED
      BY <3>3, <3>6
  <2>3. \A m \in 0..n : m \in good
    <3> HIDE DEF good
    <3> QED
      BY <1>1, <2>1, <2>2, Induction
  <2>4. n \in good
    <3> HIDE DEF good
    <3> QED
      BY <1>1, <2>3
  <2> HIDE DEF Upto
  <2> QED
    BY <2>4
<1>3. PICK f : Upto(f, n)
  BY <1>2
<1>4. Solves([v \in 0..n |-> f[v]])
  <2> HIDE DEF n, start, After
  <2> DEFINE h == [v \in 0..n |-> f[v]]
  <2>1. \A v \in 0..n : h[v] = f[v]
    OBVIOUS
  <2>2. ASSUME NEW v \in 0..n PROVE h[v] = IF v = 0 THEN start ELSE After(h[v - 1], v)
    <3>1. CASE v = 0
      BY <1>3, <2>1, <3>1
    <3>2. CASE v # 0
      <4>1. v \in 1..n /\ v - 1 \in 0..n
        BY <1>1, <3>2
      <4> QED
        BY <1>3, <2>1, <3>2, <4>1
    <3> QED
      BY <3>1, <3>2
  <2>3. h = [v \in 0..n |-> h[v]]
    OBVIOUS
  <2> HIDE DEF h
  <2>4. Solves(h)
    BY <2>2, <2>3
  <2> QED
    BY <2>4 DEF h
<1>5. Solves(at)
  <2> HIDE DEF Solves
  <2> QED
    BY <1>4, Zenon
<1>6. ClaudeReads(visits) = at
  BY Zenon DEF ClaudeReads
<1> HIDE DEF at, After, start, n
<1>7. at[0] = start /\ \A v \in 1..n : at[v] = After(at[v - 1], v)
  <2>1. 0 \in 0..n /\ \A v \in 1..n : v \in 0..n /\ v # 0
    BY <1>1
  <2> QED
    BY <1>5, <2>1
<1> QED
  BY <1>6, <1>7 DEF After, start, n

(* A parse of a whole file consumes it; one that stops before a            *)
(* half-written line at the end of all others leaves nothing open.         *)
LEMMA ParseConsumes ==
  ASSUME NEW ls \in Seq(LineKind), NEW half \in BOOLEAN, NEW start \in 0..Len(ls)
  PROVE  LET p == Parse(ls, half, start)
         IN  /\ p.consumed \in 0..Len(ls)
             /\ ~half => p.consumed = Len(ls)
             /\ half /\ p.consumed = Len(ls) => p.resume = Len(ls)
<1> DEFINE n == Len(ls)
           u == ReadTo(ls, start, n).user
           p == Parse(ls, half, start)
<1>1. start \in Nat /\ n \in start..n /\ n \in Nat
  OBVIOUS
<1>2. Scan(ls, start)[n] = ReadTo(ls, start, n)
  BY <1>1, ScanIs
<1>3. u = OpenAt(ls, start, n)
  BY DEF ReadTo
<1>4. u # 0 => u \in (start + 1)..n
  BY <1>1, <1>3, OpenUser
<1>5. CASE start >= FileSize(ls, half)
  BY <1>1, <1>5 DEF FileSize, Parse
<1>6. CASE ~(start >= FileSize(ls, half)) /\ half /\ u # 0
  <2>1. p.consumed = u - 1
    BY <1>2, <1>6 DEF Parse
  <2>2. u - 1 \in 0..n /\ u - 1 # n
    <3> HIDE DEF u, n
    <3> QED
      BY <1>1, <1>4, <1>6
  <2> HIDE DEF u, p
  <2> QED
    BY <1>6, <2>1, <2>2 DEF p
<1>7. CASE ~(start >= FileSize(ls, half)) /\ ~(half /\ u # 0)
  <2>1. p.consumed = n /\ (u = 0 => p.resume = n)
    BY <1>2, <1>7 DEF Parse, ResumeAt
  <2> QED
    BY <1>1, <1>7, <2>1
<1> QED
  BY <1>5, <1>6, <1>7

(* The row that a turn of the parse is stored as.                          *)
RowOf(t) == [index |-> t.at, text |-> <<t.kind, t.replies>>]

(* A version of a turn that is worth storing.                              *)
Worth(ls, t) == Version(ls, t) /\ (t.kind = "turn" /\ ls[t.at + 1] = "brief" => t.replies # {})

(* The rows of a whole transcript.                                         *)
TurnRows(ls) == {RowOf(t) : t \in {u \in Turn : Latest(ls, u)}}

(* A row is of one turn.                                                   *)
LEMMA SameRow ==
  ASSUME NEW s \in Turn, NEW t \in Turn
  PROVE  RowOf(s).index = s.at /\ (RowOf(s) = RowOf(t) => s = t)
<1>1. /\ s = [kind |-> s.kind, at |-> s.at, replies |-> s.replies]
      /\ t = [kind |-> t.kind, at |-> t.at, replies |-> t.replies]
  BY DEF Turn
<1>2. ASSUME RowOf(s) = RowOf(t) PROVE s.at = t.at /\ s.kind = t.kind /\ s.replies = t.replies
  <2>1. RowOf(s).index = s.at /\ RowOf(t).index = t.at
    BY DEF RowOf
  <2>2. RowOf(s).text = <<s.kind, s.replies>> /\ RowOf(t).text = <<t.kind, t.replies>>
    BY DEF RowOf
  <2>3. <<s.kind, s.replies>> = <<t.kind, t.replies>>
    BY <1>2, <2>2
  <2> QED
    BY <1>2, <2>1, <2>3
<1>3. RowOf(s).index = s.at
  BY DEF RowOf
<1> QED
  BY <1>1, <1>2, <1>3

(* Where a turn is stored there is one as it is now.                       *)
LEMMA LatestThere ==
  ASSUME NEW ls \in Seq(LineKind), NEW t, Worth(ls, t)
  PROVE  \E u \in Turn : Latest(ls, u) /\ u.at = t.at
<1>1. t \in Turn /\ t = [kind |-> t.kind, at |-> t.at, replies |-> t.replies]
  BY DEF Worth, Version, Turn
<1>2. CASE t.kind = "summary"
  BY <1>1, <1>2 DEF Worth, Latest
<1>3. CASE t.kind # "summary"
  <2>1. PICK replies : replies = RepliesTo(ls, t.at + 1, Len(ls))
    OBVIOUS
  <2>2. /\ t.kind = "turn" /\ ls[t.at + 1] \in Users /\ t.replies \subseteq replies /\ t.at < Len(ls)
        /\ ls[t.at + 1] = "brief" => t.replies # {}
    BY <1>3, <2>1 DEF Worth, Version
  <2>3. replies \in SUBSET (Nat \ {0}) /\ t.at \in Nat
    BY <1>1, <2>1 DEF RepliesTo, Turn
  <2>4. PICK u : u = [kind |-> "turn", at |-> t.at, replies |-> replies]
    OBVIOUS
  <2>5. u \in Turn /\ u.kind = "turn" /\ u.at = t.at /\ u.replies = replies
    BY <2>3, <2>4 DEF Turn
  <2>6. Version(ls, u)
    BY <2>1, <2>2, <2>5 DEF Version
  <2>7. Latest(ls, u)
    BY <2>1, <2>2, <2>5, <2>6 DEF Latest
  <2> QED
    BY <2>5, <2>7
<1> QED
  BY <1>2, <1>3

(* The last version of a turn is one that is stored.                       *)
LEMMA LatestWorth ==
  ASSUME NEW ls \in Seq(LineKind), NEW t, Latest(ls, t)
  PROVE  t \in Turn /\ Version(ls, t) /\ Worth(ls, t)
BY DEF Latest, Version, Worth

(* The rows, as they are after a visit.                                    *)
Single(rows) == \A r, s \in rows : r.index = s.index => r = s

(* What is stored between two visits: turns of the transcript as it is, one *)
(* to an index, among them the last version of every turn that is closed.  *)
Held(ls, rows, offset, consumed) ==
  /\ offset \in 0..Len(ls) /\ Closed(ls, offset)
  /\ consumed \in Int /\ consumed <= Len(ls)
  /\ \A r \in rows : \E t \in Turn : Worth(ls, t) /\ r = RowOf(t)
  /\ Single(rows)
  /\ \A t \in Turn : Latest(ls, t) /\ (t.at < offset \/ consumed = Len(ls)) => RowOf(t) \in rows

(* Once everything is consumed that is all there is.                       *)
LEMMA HeldExact ==
  ASSUME NEW ls \in Seq(LineKind), NEW rows, NEW offset, Held(ls, rows, offset, Len(ls))
  PROVE  rows = TurnRows(ls)
<1>1. TurnRows(ls) \subseteq rows
  BY DEF Held, TurnRows
<1>2. ASSUME NEW r \in rows PROVE r \in TurnRows(ls)
  <2>1. PICK t \in Turn : Worth(ls, t) /\ r = RowOf(t)
    BY DEF Held
  <2>2. PICK u \in Turn : Latest(ls, u) /\ u.at = t.at
    BY <2>1, LatestThere
  <2>3. RowOf(u) \in rows
    BY <2>2 DEF Held
  <2>4. RowOf(u).index = r.index
    BY <2>1, <2>2, SameRow
  <2>5. r = RowOf(u)
    BY <2>3, <2>4 DEF Held, Single
  <2> QED
    BY <2>2, <2>5 DEF TurnRows
<1> QED
  BY <1>1, <1>2

(* A visit to the transcript, grown or not, holds to it.                   *)
LEMMA ClaudeGrows ==
  ASSUME NEW ls \in Seq(LineKind), NEW more \in Seq(LineKind), Continues(ls, more),
         NEW half \in BOOLEAN, NEW file, file.lines = more, file.half = half,
         NEW s, Held(ls, s.rows, s.cursor.offset, s.cursor.consumed)
  PROVE  LET t == ClaudeAfter(s, file)
         IN  /\ Held(more, t.rows, t.cursor.offset, t.cursor.consumed)
             /\ ~half => t.cursor.consumed = Len(more)
<1>1. PICK after : after = ClaudeAfter(s, file)
  OBVIOUS
<1>2. PICK offset : offset = s.cursor.offset
  OBVIOUS
<1>3. PICK consumed : consumed = s.cursor.consumed
  OBVIOUS
<1>4. PICK old : old = s.rows
  OBVIOUS
<1>5. Held(ls, old, offset, consumed)
  BY <1>2, <1>3, <1>4
<1>6. /\ Len(ls) \in Nat /\ Len(more) \in Nat /\ Len(ls) <= Len(more)
      /\ offset \in 0..Len(ls) /\ offset \in 0..Len(more)
      /\ Closed(ls, offset) /\ consumed \in Int /\ consumed <= Len(ls)
  BY <1>5 DEF Held, Continues
<1>7. CASE consumed = FileSize(more, half)
  <2>1. ~half /\ consumed = Len(more) /\ Len(more) = Len(ls)
    BY <1>6, <1>7 DEF FileSize
  <2>2. ls = more
    BY <1>6, <2>1 DEF Continues
  <2>3. after.rows = old /\ after.cursor.offset = offset /\ after.cursor.consumed = consumed
    <3>1. ClaudeVisit(file, s.cursor) = [turns |-> {}, cursor |-> s.cursor]
      BY <1>3, <1>7 DEF ClaudeVisit
    <3>2. after.rows = old /\ after.cursor = s.cursor
      BY <1>1, <1>4, <3>1 DEF ClaudeAfter, Kept, Stored
    <3> QED
      BY <1>2, <1>3, <3>2
  <2> QED
    BY <1>1, <1>5, <2>1, <2>2, <2>3
<1>8. CASE consumed # FileSize(more, half)
  <2>1. PICK p : p = Parse(more, half, offset)
    OBVIOUS
  <2>2. PICK new : new = {RowOf(t) : t \in p.turns}
    OBVIOUS
  <2>3. /\ p.resume \in offset..Len(more) /\ Closed(more, p.resume)
        /\ p.consumed \in 0..Len(more) /\ (~half => p.consumed = Len(more))
        /\ half /\ p.consumed = Len(more) => p.resume = Len(more)
    <3>1. Closed(more, offset)
      BY <1>6, ClosedGrows
    <3> QED
      BY <1>6, <2>1, <3>1, ParseResumes, ParseConsumes
  <2>4. \A t : t \in p.turns <=> Latest(more, t) /\ offset <= t.at /\ (half => t.at < p.resume)
    BY <1>6, <2>1, ParseMeans
  <2>5. /\ after.rows = new \cup {r \in old : \A t \in new : t.index # r.index}
        /\ after.cursor.offset = p.resume /\ after.cursor.consumed = p.consumed
    <3>1. ClaudeVisit(file, s.cursor)
            = [turns |-> new, cursor |-> [offset |-> p.resume, consumed |-> p.consumed]]
      BY <1>2, <1>3, <1>8, <2>1, <2>2 DEF ClaudeVisit, RowOf
    <3>2. PICK cursor : cursor = [offset |-> p.resume, consumed |-> p.consumed]
      OBVIOUS
    <3>3. after.rows = new \cup {r \in old : \A t \in new : t.index # r.index} /\ after.cursor = cursor
      BY <1>1, <1>4, <3>1, <3>2 DEF ClaudeAfter, Kept, Stored
    <3> QED
      BY <3>2, <3>3
  <2>6. PICK rows : rows = after.rows
    OBVIOUS
  <2>7. rows = new \cup {r \in old : \A t \in new : t.index # r.index}
    BY <2>5, <2>6
  <2>8. \A r \in new : \E t \in Turn : t \in p.turns /\ Latest(more, t) /\ Worth(more, t) /\ r = RowOf(t)
    BY <2>2, <2>4, LatestWorth
  <2>9. ASSUME NEW r \in rows PROVE \E t \in Turn : Worth(more, t) /\ r = RowOf(t)
    <3>1. CASE r \in new
      BY <2>8, <3>1
    <3>2. CASE r \in old
      <4>1. PICK t \in Turn : Worth(ls, t) /\ r = RowOf(t)
        BY <1>5, <3>2 DEF Held
      <4>2. Version(more, t)
        BY <4>1, VersionGrows DEF Worth
      <4>3. more[t.at + 1] = ls[t.at + 1]
        <5>1. t.at \in Nat /\ t.at < Len(ls)
          BY <4>1 DEF Worth, Version, Turn
        <5>2. t.at + 1 \in 1..Len(ls)
          BY <1>6, <5>1
        <5> QED
          BY <5>2 DEF Continues
      <4> QED
        BY <4>1, <4>2, <4>3 DEF Worth
    <3> QED
      BY <2>7, <3>1, <3>2
  <2>10. Single(rows)
    <3>1. ASSUME NEW q \in new, NEW r \in new, q.index = r.index PROVE q = r
      <4>1. PICK t \in Turn : Latest(more, t) /\ q = RowOf(t)
        BY <2>8
      <4>2. PICK u \in Turn : Latest(more, u) /\ r = RowOf(u)
        BY <2>8
      <4>3. t.at = u.at
        BY <3>1, <4>1, <4>2, SameRow
      <4>4. Version(more, t) /\ Version(more, u)
        BY <4>1, <4>2, LatestWorth
      <4>5. t = u
        BY <4>1, <4>2, <4>3, <4>4, OneTurn
      <4> QED
        BY <4>1, <4>2, <4>5
    <3>2. Single(old)
      BY <1>5 DEF Held
    <3> QED
      BY <2>7, <3>1, <3>2 DEF Single
  <2>11. ASSUME NEW t \in Turn, Latest(more, t), t.at < p.resume \/ p.consumed = Len(more)
         PROVE  RowOf(t) \in rows
    <3>1. t.at \in Nat /\ t.at < Len(more)
      BY <2>11 DEF Latest, Version, Turn
    <3>2. half => t.at < p.resume
      BY <2>3, <2>11, <3>1
    <3>3. CASE offset <= t.at
      BY <2>2, <2>4, <2>7, <2>11, <3>2, <3>3
    <3>4. CASE t.at < offset
      <4>1. Latest(ls, t)
        BY <1>6, <2>11, <3>4, Settled
      <4>2. RowOf(t) \in old
        BY <1>5, <3>4, <4>1 DEF Held
      <4>3. \A r \in new : r.index # RowOf(t).index
        <5>1. ASSUME NEW r \in new PROVE r.index # RowOf(t).index
          <6>1. PICK u \in Turn : u \in p.turns /\ r = RowOf(u)
            BY <2>8
          <6>2. offset <= u.at /\ u.at \in Nat
            BY <2>4, <6>1 DEF Turn
          <6>3. r.index = u.at /\ RowOf(t).index = t.at
            BY <6>1, SameRow
          <6> QED
            BY <1>6, <3>1, <3>4, <6>2, <6>3
        <5> QED
          BY <5>1
      <4> QED
        BY <2>7, <4>2, <4>3
    <3> QED
      BY <1>6, <3>1, <3>3, <3>4
  <2>12. Held(more, rows, p.resume, p.consumed)
    <3>1. p.resume \in 0..Len(more) /\ p.consumed \in Int /\ p.consumed <= Len(more)
      BY <1>6, <2>3
    <3> QED
      BY <2>3, <2>9, <2>10, <2>11, <3>1 DEF Held
  <2> QED
    BY <1>1, <2>3, <2>5, <2>6, <2>12
<1> QED
  BY <1>7, <1>8

(* What is stored is what one reading of the last state yields.            *)
LEMMA ClaudeExact ==
  ASSUME NEW visits, visits # << >>, TranscriptGrows(visits)
  PROVE  ClaudeReads(visits)[Len(visits)].rows = TurnRows(visits[Len(visits)].lines)
<1>1. PICK n : n = Len(visits)
  OBVIOUS
<1>2. PICK at : at = ClaudeReads(visits)
  OBVIOUS
<1>3. Transcripts(visits)
  BY DEF TranscriptGrows, Transcripts
<1>4. /\ at[0] = [rows |-> {}, cursor |-> [offset |-> 0, consumed |-> -1]]
      /\ \A v \in 1..n : at[v] = ClaudeAfter(at[v - 1], visits[v])
  BY <1>1, <1>2, <1>3, ClaudeReadsAre
<1>5. n \in Nat /\ n \in 1..n /\ DOMAIN visits = 1..n
  BY <1>1, <1>3 DEF Transcripts
<1> DEFINE lines == [v \in 0..n |-> IF v = 0 THEN << >> ELSE visits[v].lines]
<1>6. \A v \in 1..n : visits[v].lines \in Seq(LineKind) /\ visits[v].half \in BOOLEAN
  <2>1. PICK S : S = [lines : Seq(LineKind), half : BOOLEAN]
    OBVIOUS
  <2>2. \A v \in 1..n : visits[v] \in S
    <3>1. visits \in Seq(S)
      BY <1>3, <2>1 DEF Transcripts
    <3> QED
      BY <1>5, <3>1
  <2> QED
    BY <2>1, <2>2
<1>7. \A v \in 0..n : lines[v] \in Seq(LineKind)
  BY <1>6
<1>8. ASSUME NEW v \in 1..n PROVE Continues(lines[v - 1], lines[v])
  <2>1. CASE v = 1
    <3>1. lines[v - 1] = << >> /\ lines[v] \in Seq(LineKind)
      BY <1>5, <1>7, <2>1
    <3>2. PICK none : none = lines[v - 1]
      OBVIOUS
    <3>3. PICK first : first = lines[v]
      OBVIOUS
    <3>4. Len(none) = 0 /\ Len(first) \in Nat
      BY <3>1, <3>2, <3>3
    <3>5. Continues(none, first)
      BY <3>4 DEF Continues
    <3> QED
      BY <3>2, <3>3, <3>5
  <2>2. CASE v # 1
    <3>1. v - 1 \in 1..n /\ v - 1 <= v
      BY <1>5, <2>2
    <3>2. IsPrefix(visits[v - 1].lines, visits[v].lines)
      BY <1>5, <3>1 DEF TranscriptGrows
    <3>3. Continues(visits[v - 1].lines, visits[v].lines)
      BY <1>6, <3>1, <3>2, PrefixIs
    <3> QED
      BY <3>1, <3>3
  <2> QED
    BY <2>1, <2>2
<1> DEFINE good == {v \in 0..n :
             /\ Held(lines[v], at[v].rows, at[v].cursor.offset, at[v].cursor.consumed)
             /\ v # 0 /\ ~visits[v].half => at[v].cursor.consumed = Len(lines[v])}
<1>9. 0 \in good
  <2>1. at[0].rows = {} /\ at[0].cursor.offset = 0 /\ at[0].cursor.consumed = -1
    BY <1>4
  <2>2. PICK none : none = lines[0]
    OBVIOUS
  <2>3. none = << >> /\ Len(none) = 0
    BY <1>5, <2>2
  <2>4. Held(none, {}, 0, -1)
    <3>1. Closed(none, 0)
      BY <2>3 DEF Closed
    <3>2. \A t \in Turn : ~Latest(none, t)
      BY <2>3 DEF Latest, Version, Turn
    <3> QED
      BY <2>3, <3>1, <3>2 DEF Held, Single
  <2>5. Held(lines[0], at[0].rows, at[0].cursor.offset, at[0].cursor.consumed)
    BY <2>1, <2>2, <2>4
  <2>6. 0 \in 0..n /\ ~(0 # 0)
    BY <1>5
  <2> HIDE DEF lines
  <2> QED
    BY <2>5, <2>6
<1>10. ASSUME NEW v \in 1..n, v - 1 \in good PROVE v \in good
  <2>1. PICK s : s = at[v - 1]
    OBVIOUS
  <2>2. PICK ls : ls = lines[v - 1]
    OBVIOUS
  <2>3. PICK more : more = lines[v]
    OBVIOUS
  <2>4. PICK file : file = visits[v]
    OBVIOUS
  <2>5. v - 1 \in 0..n /\ v \in 0..n /\ v # 0
    BY <1>5
  <2>6. ls \in Seq(LineKind) /\ more \in Seq(LineKind) /\ Continues(ls, more)
    BY <1>7, <1>8, <2>2, <2>3, <2>5
  <2>7. file.lines = more /\ file.half \in BOOLEAN
    BY <1>6, <2>3, <2>4, <2>5
  <2>8. Held(ls, s.rows, s.cursor.offset, s.cursor.consumed)
    BY <1>10, <2>1, <2>2
  <2>9. PICK half : half = file.half
    OBVIOUS
  <2>10. PICK t : t = ClaudeAfter(s, file)
    OBVIOUS
  <2>11. /\ Held(more, t.rows, t.cursor.offset, t.cursor.consumed)
         /\ ~half => t.cursor.consumed = Len(more)
    BY <2>6, <2>7, <2>8, <2>9, <2>10, ClaudeGrows
  <2>12. t = at[v]
    BY <1>4, <2>1, <2>4, <2>10
  <2> HIDE DEF lines
  <2> QED
    BY <2>3, <2>4, <2>5, <2>9, <2>11, <2>12
<1>11. n \in good
  <2> HIDE DEF good
  <2>1. \A v \in 0..n : v \in good
    BY <1>5, <1>9, <1>10, Induction
  <2> QED
    BY <1>5, <2>1
<1>12. ~visits[n].half
  BY <1>1 DEF TranscriptGrows
<1>13. PICK ls : ls = visits[n].lines
  OBVIOUS
<1>14. ls = lines[n] /\ ls \in Seq(LineKind)
  BY <1>5, <1>6, <1>13
<1>15. Held(ls, at[n].rows, at[n].cursor.offset, Len(ls))
  BY <1>5, <1>11, <1>12, <1>14
<1>16. at[n].rows = TurnRows(ls)
  BY <1>14, <1>15, HeldExact
<1> QED
  BY <1>1, <1>2, <1>13, <1>16

(* What the visits to a Claude transcript leave is what one visit to its   *)
(* last state would store.                                                 *)
LEMMA ClaudeHolds ==
  ASSUME NEW q, q.provider = "claude", q.visits # << >>, TranscriptGrows(q.visits)
  PROVE  ReadingExact(q, ReadSource(q.provider, q.visits))
<1>1. PICK visits : visits = q.visits
  OBVIOUS
<1>2. PICK n : n = Len(visits)
  OBVIOUS
<1>3. PICK last : last = visits[n]
  OBVIOUS
<1>4. visits # << >> /\ TranscriptGrows(visits)
  BY <1>1
<1>5. PICK list : list = <<last>>
  OBVIOUS
<1>6. list # << >> /\ Len(list) = 1 /\ list[1] = last /\ DOMAIN list = 1..1
  BY <1>5
<1>7. TranscriptGrows(list)
  <2>1. PICK S : S = [lines : Seq(LineKind), half : BOOLEAN]
    OBVIOUS
  <2>2. visits \in Seq(S) /\ n \in 1..n
    BY <1>2, <1>4, <2>1 DEF TranscriptGrows
  <2>3. last \in S /\ list \in Seq(S)
    BY <1>2, <1>3, <1>5, <2>2
  <2>4. last.lines \in Seq(LineKind)
    BY <2>1, <2>3
  <2>5. IsPrefix(last.lines, last.lines)
    BY <2>4, PrefixIs DEF Continues
  <2>6. ~last.half
    BY <1>2, <1>3, <1>4 DEF TranscriptGrows
  <2> QED
    BY <1>6, <2>1, <2>3, <2>5, <2>6 DEF TranscriptGrows
<1>8. PICK rows : rows = ClaudeReads(visits)[n].rows
  OBVIOUS
<1>9. PICK once : once = ClaudeReads(list)[1].rows
  OBVIOUS
<1>10. rows = once
  <2>1. rows = TurnRows(last.lines)
    BY <1>2, <1>3, <1>4, <1>8, ClaudeExact
  <2>2. once = TurnRows(last.lines)
    BY <1>6, <1>7, <1>9, ClaudeExact
  <2> QED
    BY <2>1, <2>2
<1>11. ReadSource("claude", visits) = rows /\ ReadSource("claude", list) = once
  BY <1>2, <1>6, <1>8, <1>9 DEF ReadSource
<1> QED
  BY <1>1, <1>2, <1>3, <1>5, <1>10, <1>11 DEF ReadingExact
-----------------------------------------------------------------------------
(* Orders.  A sorted list is told by ranks: how many come before an        *)
(* element.                                                                *)

(* Those of S that come before x, and how many they are.                   *)
Preceding(R, S, x) == {y \in S : <<y, x>> \in R}
RankIn(R, S, x) == Cardinality(Preceding(R, S, x))

(* The first n of S.                                                       *)
Firsts(R, S, n) == {x \in S : RankIn(R, S, x) < n}

(* Who comes first has the lower rank.                                     *)
LEMMA Ranks ==
  ASSUME NEW S, IsFiniteSet(S), NEW R, Orders(R, S)
  PROVE  /\ \A x \in S : RankIn(R, S, x) \in Nat /\ IsFiniteSet(Preceding(R, S, x))
         /\ \A x, y \in S : <<x, y>> \in R <=> RankIn(R, S, x) < RankIn(R, S, y)
         /\ \A x, y \in S : RankIn(R, S, x) = RankIn(R, S, y) => x = y
<1>1. ASSUME NEW x \in S
      PROVE  RankIn(R, S, x) \in Nat /\ IsFiniteSet(Preceding(R, S, x))
  <2>1. Preceding(R, S, x) \subseteq S
    BY DEF Preceding
  <2>2. IsFiniteSet(Preceding(R, S, x))
    BY <2>1, FS_Subset
  <2> QED
    BY <2>2, FS_CardinalityType DEF RankIn
<1>2. ASSUME NEW x \in S, NEW y \in S, <<x, y>> \in R
      PROVE  RankIn(R, S, x) < RankIn(R, S, y)
  <2>1. Preceding(R, S, x) \subseteq Preceding(R, S, y)
    BY <1>2 DEF Preceding, Orders
  <2>2. x \in Preceding(R, S, y) /\ x \notin Preceding(R, S, x)
    BY <1>2 DEF Preceding, Orders
  <2>3. PICK a : a = Preceding(R, S, x)
    OBVIOUS
  <2>4. PICK b : b = Preceding(R, S, y)
    OBVIOUS
  <2>5. IsFiniteSet(b) /\ a \in SUBSET b /\ a # b
    BY <1>1, <2>1, <2>2, <2>3, <2>4
  <2>6. Cardinality(a) <= Cardinality(b) /\ Cardinality(a) # Cardinality(b)
    BY <2>5, FS_Subset
  <2>7. Cardinality(a) \in Nat /\ Cardinality(b) \in Nat
    BY <1>1, <2>3, <2>4 DEF RankIn
  <2> QED
    BY <2>3, <2>4, <2>6, <2>7 DEF RankIn
<1>3. ASSUME NEW x \in S, NEW y \in S PROVE <<x, y>> \in R <=> RankIn(R, S, x) < RankIn(R, S, y)
  <2>1. x = y \/ <<x, y>> \in R \/ <<y, x>> \in R
    BY DEF Orders
  <2> QED
    BY <1>1, <1>2, <2>1
<1>4. ASSUME NEW x \in S, NEW y \in S, RankIn(R, S, x) = RankIn(R, S, y) PROVE x = y
  <2>1. x = y \/ <<x, y>> \in R \/ <<y, x>> \in R
    BY DEF Orders
  <2> QED
    BY <1>1, <1>2, <1>4, <2>1
<1> QED
  BY <1>1, <1>3, <1>4

(* The first n are n, if there are so many.                                *)
LEMMA FirstsAre ==
  ASSUME NEW S, IsFiniteSet(S), NEW R, Orders(R, S), NEW n \in Nat
  PROVE  /\ IsFiniteSet(Firsts(R, S, n))
         /\ Cardinality(Firsts(R, S, n)) = IF Cardinality(S) < n THEN Cardinality(S) ELSE n
         /\ Cardinality(S) <= n => Firsts(R, S, n) = S
<1>1. Cardinality(S) \in Nat
  BY FS_CardinalityType
<1>2. \A x \in S : RankIn(R, S, x) \in Nat
  BY Ranks
<1>3. ASSUME NEW i \in Nat
      PROVE  /\ Firsts(R, S, i) \in SUBSET S /\ IsFiniteSet(Firsts(R, S, i))
             /\ Cardinality(Firsts(R, S, i)) \in Nat /\ Cardinality(Firsts(R, S, i)) <= Cardinality(S)
             /\ Cardinality(Firsts(R, S, i)) = Cardinality(S) => Firsts(R, S, i) = S
  <2>1. Firsts(R, S, i) \in SUBSET S
    BY DEF Firsts
  <2> QED
    BY <2>1, FS_Subset, FS_CardinalityType
<1> DEFINE size(i) == IF Cardinality(S) < i THEN Cardinality(S) ELSE i
           good == {i \in 0..n : Cardinality(Firsts(R, S, i)) = size(i)}
<1>4. 0 \in good
  <2>1. Firsts(R, S, 0) = {}
    BY <1>2 DEF Firsts
  <2> QED
    BY <1>1, <2>1, FS_EmptySet
<1>5. ASSUME NEW i \in 1..n, i - 1 \in good PROVE i \in good
  <2>1. PICK k : k = i - 1
    OBVIOUS
  <2>2. k \in Nat /\ k \in 0..n /\ i = k + 1 /\ i \in Nat
    BY <2>1
  <2>3. Cardinality(Firsts(R, S, k)) = size(k)
    BY <1>5, <2>1
  <2>4. Firsts(R, S, k) \subseteq Firsts(R, S, i)
    BY <1>2, <2>2 DEF Firsts
  <2>5. CASE Firsts(R, S, k) = S
    <3>1. Firsts(R, S, i) = S
      BY <1>3, <2>2, <2>4, <2>5
    <3>2. Cardinality(S) = size(k)
      BY <2>3, <2>5
    <3>3. Cardinality(S) <= k
      BY <1>1, <2>2, <3>2
    <3> QED
      BY <1>1, <2>2, <3>1, <3>3
  <2>6. CASE Firsts(R, S, k) # S
    <3>1. Cardinality(Firsts(R, S, k)) = k /\ k < Cardinality(S)
      BY <1>1, <1>3, <2>2, <2>3, <2>6
    <3>2. S \ Firsts(R, S, k) # {} /\ S \ Firsts(R, S, k) \in SUBSET S
      BY <1>3, <2>2, <2>6
    <3>3. PICK x \in S \ Firsts(R, S, k) : \A y \in (S \ Firsts(R, S, k)) \ {x} : <<x, y>> \in R
      <4>1. PICK rest : rest = S \ Firsts(R, S, k)
        OBVIOUS
      <4>2. IsFiniteSet(rest) /\ rest # {} /\ Orders(R, rest)
        <5>1. IsFiniteSet(rest) /\ rest # {}
          BY <3>2, <4>1, FS_Subset
        <5>2. rest \subseteq S
          BY <4>1
        <5> QED
          BY <5>1, <5>2 DEF Orders
      <4>3. \E x \in rest : \A y \in rest \ {x} : <<x, y>> \in R
        BY <4>2, FirstOne
      <4> QED
        BY <4>1, <4>3
    <3>4. Preceding(R, S, x) = Firsts(R, S, k)
      <4>1. ASSUME NEW y \in S, <<y, x>> \in R PROVE y \in Firsts(R, S, k)
        <5>1. y # x /\ <<x, y>> \notin R
          BY <3>3, <4>1 DEF Orders
        <5> QED
          BY <3>3, <5>1
      <4>2. ASSUME NEW y \in Firsts(R, S, k) PROVE y \in S /\ <<y, x>> \in R
        <5>1. y \in S /\ RankIn(R, S, y) < k
          BY DEF Firsts
        <5>2. ~(RankIn(R, S, x) < k)
          BY <3>3 DEF Firsts
        <5>3. RankIn(R, S, y) < RankIn(R, S, x)
          BY <1>2, <2>2, <3>3, <5>1, <5>2
        <5> QED
          BY <3>3, <5>1, <5>3, Ranks
      <4> QED
        BY <4>1, <4>2 DEF Preceding
    <3>5. RankIn(R, S, x) = k
      BY <3>1, <3>4 DEF RankIn
    <3>6. Firsts(R, S, i) = Firsts(R, S, k) \cup {x}
      <4>1. ASSUME NEW y \in Firsts(R, S, i), y \notin Firsts(R, S, k) PROVE y = x
        <5>1. y \in S /\ RankIn(R, S, y) < i /\ ~(RankIn(R, S, y) < k)
          BY <4>1 DEF Firsts
        <5>2. RankIn(R, S, y) = RankIn(R, S, x)
          BY <1>2, <2>2, <3>5, <5>1
        <5> QED
          BY <3>3, <5>1, <5>2, Ranks
      <4>2. x \in Firsts(R, S, i)
        BY <2>2, <3>3, <3>5 DEF Firsts
      <4> QED
        BY <2>4, <4>1, <4>2
    <3>7. Cardinality(Firsts(R, S, i)) = k + 1
      <4>1. PICK a : a = Firsts(R, S, k)
        OBVIOUS
      <4>2. IsFiniteSet(a) /\ x \notin a /\ Cardinality(a) = k
        BY <1>3, <2>2, <3>1, <3>3, <4>1
      <4>3. Cardinality(a \cup {x}) = Cardinality(a) + 1
        BY <4>2, FS_AddElement
      <4> QED
        BY <3>6, <4>1, <4>2, <4>3
    <3> QED
      BY <1>1, <2>2, <3>1, <3>7
  <2> QED
    BY <2>5, <2>6
<1>6. n \in good
  <2>1. n \in 0..n
    OBVIOUS
  <2> HIDE DEF good
  <2> QED
    BY <1>4, <1>5, <2>1, Induction
<1>7. Cardinality(Firsts(R, S, n)) = size(n)
  BY <1>6
<1> QED
  BY <1>1, <1>3, <1>7

(* f lists S in its order, each element at the position of its rank.       *)
Arranges(f, R, S) ==
  /\ IsFiniteSet(S) /\ Cardinality(S) \in Nat /\ f \in [1..Cardinality(S) -> S]
  /\ \A x \in S : \E p \in 1..Cardinality(S) : f[p] = x
  /\ \A p, q \in 1..Cardinality(S) : p < q => <<f[p], f[q]>> \in R
  /\ \A p \in 1..Cardinality(S) : RankIn(R, S, f[p]) = p - 1

ByRank(R, S) == [p \in 1..Cardinality(S) |-> CHOOSE x \in S : RankIn(R, S, x) = p - 1]

(* Each rank is taken by one element.                                      *)
LEMMA Arranged ==
  ASSUME NEW S, IsFiniteSet(S), NEW R, Orders(R, S)
  PROVE  Arranges(ByRank(R, S), R, S)
<1>0. PICK n : n = Cardinality(S)
  OBVIOUS
<1> DEFINE f == [p \in 1..n |-> CHOOSE x \in S : RankIn(R, S, x) = p - 1]
<1>1. n \in Nat
  BY <1>0, FS_CardinalityType
<1>2. \A x \in S : RankIn(R, S, x) \in Nat
  BY Ranks
<1>3. ASSUME NEW p \in 1..n PROVE \E x \in S : RankIn(R, S, x) = p - 1
  <2>1. PICK k : k = p - 1
    OBVIOUS
  <2>2. k \in Nat /\ p \in Nat /\ p = k + 1 /\ k < n /\ p <= n
    BY <1>1, <2>1
  <2>3. PICK a : a = Firsts(R, S, k)
    OBVIOUS
  <2>4. PICK b : b = Firsts(R, S, p)
    OBVIOUS
  <2>5. Cardinality(a) = IF n < k THEN n ELSE k
    BY <1>0, <2>2, <2>3, FirstsAre
  <2>6. Cardinality(b) = IF n < p THEN n ELSE p
    BY <1>0, <2>2, <2>4, FirstsAre
  <2>7. IsFiniteSet(a)
    BY <1>0, <2>2, <2>3, FirstsAre
  <2>8. ~(b \subseteq a)
    <3>1. SUFFICES ASSUME b \subseteq a PROVE FALSE
      OBVIOUS
    <3>2. Cardinality(b) <= Cardinality(a)
      BY <2>7, <3>1, FS_Subset
    <3> QED
      BY <1>1, <2>2, <2>5, <2>6, <3>2
  <2>9. PICK x \in b : x \notin a
    BY <2>8
  <2>10. x \in S /\ RankIn(R, S, x) < p /\ ~(RankIn(R, S, x) < k)
    BY <2>3, <2>4, <2>9 DEF Firsts
  <2>11. RankIn(R, S, x) = k
    BY <1>2, <2>2, <2>10
  <2> QED
    BY <2>1, <2>10, <2>11
<1>4. ASSUME NEW p \in 1..n PROVE f[p] \in S /\ RankIn(R, S, f[p]) = p - 1
  BY <1>3
<1>5. f \in [1..n -> S]
  BY <1>4
<1>6. ASSUME NEW x \in S PROVE \E p \in 1..n : f[p] = x
  <2>1. PICK k : k = RankIn(R, S, x)
    OBVIOUS
  <2>2. k < n
    <3>1. PICK a : a = Preceding(R, S, x)
      OBVIOUS
    <3>2. a \in SUBSET S /\ x \notin a
      BY <3>1 DEF Preceding, Orders
    <3>3. Cardinality(a) <= Cardinality(S) /\ Cardinality(a) # Cardinality(S)
      BY <3>2, FS_Subset
    <3>4. k = Cardinality(a)
      BY <2>1, <3>1 DEF RankIn
    <3> QED
      BY <1>0, <1>1, <1>2, <2>1, <3>3, <3>4
  <2>3. PICK i : i = k + 1
    OBVIOUS
  <2>4. i \in 1..n /\ i - 1 = k
    BY <1>1, <1>2, <2>1, <2>2, <2>3
  <2>5. RankIn(R, S, f[i]) = k /\ f[i] \in S
    BY <1>4, <2>4
  <2>6. f[i] = x
    BY <2>1, <2>5, Ranks
  <2> QED
    BY <2>4, <2>6
<1>7. ASSUME NEW p \in 1..n, NEW q \in 1..n, p < q PROVE <<f[p], f[q]>> \in R
  <2>1. RankIn(R, S, f[p]) < RankIn(R, S, f[q])
    BY <1>1, <1>4, <1>7
  <2> QED
    BY <1>4, <2>1, Ranks
<1> QED
  <2>1. ByRank(R, S) = f
    BY <1>0 DEF ByRank
  <2> HIDE DEF f
  <2> QED
    BY <1>0, <1>1, <1>4, <1>5, <1>6, <1>7, <2>1 DEF Arranges

(* An order is one of every subset.                                        *)
LEMMA OrdersBelow ==
  ASSUME NEW S, NEW R, Orders(R, S), NEW T \in SUBSET S
  PROVE  Orders(R, T)
BY DEF Orders
-----------------------------------------------------------------------------
(* Lists.                                                                  *)

(* f goes through the numbers of a set upwards.                            *)
Upwards(f, keep) ==
  /\ Cardinality(keep) \in Nat /\ f \in [1..Cardinality(keep) -> keep]
  /\ \A i \in keep : \E p \in 1..Cardinality(keep) : f[p] = i
  /\ \A p, q \in 1..Cardinality(keep) : p < q => f[p] < f[q]

(* At takes the elements at the positions in keep, upwards.                *)
Takes(new, list, keep) ==
  \E f : Upwards(f, keep) /\ new = [p \in 1..Cardinality(keep) |-> list[f[p]]]

LEMMA AtIs ==
  ASSUME NEW list, NEW n \in Nat, NEW keep \in SUBSET (1..n)
  PROVE  Takes(At(list, keep), list, keep)
<1> DEFINE R == {p \in Nat \X Nat : p[1] < p[2]}
           m == Cardinality(keep)
           f == ByRank(R, keep)
           g == [p \in 1..m |-> CHOOSE i \in keep :
                                  Cardinality({j \in keep : j < i}) = p - 1]
<1>1. IsFiniteSet(keep) /\ m \in Nat /\ \A i \in keep : i \in Nat
  <2>1. IsFiniteSet(keep)
    <3>1. 0 \in Int /\ n \in Int
      OBVIOUS
    <3>2. IsFiniteSet(1..n)
      BY FS_Interval
    <3> QED
      BY <3>2, FS_Subset
  <2> QED
    BY <2>1, FS_CardinalityType
<1>2. \A i, j \in Nat : <<i, j>> \in R <=> i < j
  OBVIOUS
<1>3. Orders(R, keep)
  <2> HIDE DEF R
  <2> QED
    BY <1>1, <1>2 DEF Orders
<1>4. Arranges(f, R, keep)
  <2> HIDE DEF R
  <2> QED
    BY <1>1, <1>3, Arranged, Zenon
<1>6. /\ f \in [1..m -> keep]
      /\ \A x \in keep : \E p \in 1..m : f[p] = x
      /\ \A p, q \in 1..m : p < q => <<f[p], f[q]>> \in R
      /\ \A p \in 1..m : RankIn(R, keep, f[p]) = p - 1
  <2> HIDE DEF R, f
  <2> QED
    BY <1>4 DEF Arranges
<1> HIDE DEF f
<1> HIDE DEF R, m
<1>7. ASSUME NEW i \in keep
      PROVE  Cardinality({j \in keep : j < i}) = RankIn(R, keep, i)
  <2>1. {j \in keep : j < i} = Preceding(R, keep, i)
    BY <1>1, <1>2 DEF Preceding
  <2> QED
    BY <2>1 DEF RankIn
<1>8. ASSUME NEW p \in 1..m PROVE g[p] = f[p]
  <2>1. RankIn(R, keep, f[p]) = p - 1 /\ f[p] \in keep
    BY <1>6
  <2>2. g[p] \in keep /\ RankIn(R, keep, g[p]) = p - 1
    <3>1. \E i \in keep : Cardinality({j \in keep : j < i}) = p - 1
      BY <1>7, <2>1
    <3>2. g[p] \in keep /\ Cardinality({j \in keep : j < g[p]}) = p - 1
      BY <3>1
    <3> QED
      BY <1>7, <3>2
  <2>3. \A x, y \in keep : RankIn(R, keep, x) = RankIn(R, keep, y) => x = y
    BY <1>1, <1>3, Ranks
  <2> HIDE DEF g
  <2> QED
    BY <2>1, <2>2, <2>3
<1>9. At(list, keep) = [p \in 1..m |-> list[g[p]]]
  <2>1. At(list, keep)
          = [p \in 1..Cardinality(keep) |->
               list[CHOOSE i \in keep : Cardinality({j \in keep : j < i}) = p - 1]]
    BY DEF At
  <2> QED
    BY <2>1 DEF m
<1>10. Upwards(f, keep)
  <2>1. \A p, q \in 1..m : p < q => f[p] < f[q]
    <3> HIDE DEF f
    <3> QED
      BY <1>1, <1>2, <1>6
  <2> HIDE DEF f
  <2> QED
    BY <1>1, <1>6, <2>1 DEF Upwards, m
<1>11. At(list, keep) = [p \in 1..m |-> list[f[p]]]
  <2> HIDE DEF f, g
  <2> QED
    BY <1>8, <1>9
<1> HIDE DEF f
<1> QED
  BY <1>10, <1>11 DEF Takes, m

(* Sorting is by a weak order: of what it leaves equal it says nothing.    *)
Weakly(before, list, n) ==
  \A i, j, k \in 1..n :
    /\ <<list[i], list[i]>> \notin before
    /\ <<list[i], list[j]>> \in before => <<list[j], list[i]>> \notin before
    /\ <<list[i], list[j]>> \in before =>
         <<list[i], list[k]>> \in before \/ <<list[k], list[j]>> \in before

(* A stable sort takes each position once, and of two positions first the  *)
(* one whose element is before, or the lower one if neither is.            *)
Sorts(new, list, before, n) ==
  \E f : /\ f \in [1..n -> 1..n]
         /\ \A i \in 1..n : \E p \in 1..n : f[p] = i
         /\ \A p, q \in 1..n : p < q => f[p] # f[q] /\
              \/ <<list[f[p]], list[f[q]]>> \in before
              \/ <<list[f[q]], list[f[p]]>> \notin before /\ f[p] < f[q]
         /\ new = [p \in 1..n |-> list[f[p]]]

LEMMA StableSortIs ==
  ASSUME NEW list, NEW n \in Nat, DOMAIN list = 1..n, NEW before, Weakly(before, list, n)
  PROVE  Sorts(StableSort(list, before), list, before, n)
<1> DEFINE Sooner(i, j) == \/ <<list[i], list[j]>> \in before
                           \/ <<list[j], list[i]>> \notin before /\ i < j
           S == 1..n
           R == {p \in S \X S : Sooner(p[1], p[2])}
           f == ByRank(R, S)
           order == [i \in S |-> Cardinality({j \in S : Sooner(j, i)})]
           g == [p \in S |-> CHOOSE i \in S : order[i] = p - 1]
<1>1. IsFiniteSet(S) /\ Cardinality(S) = n
  <2>1. 1 \in Int /\ n \in Int
    OBVIOUS
  <2>2. IsFiniteSet(1..n)
    BY <2>1, FS_Interval
  <2>3. Cardinality(1..n) = IF 1 > n THEN 0 ELSE n - 1 + 1
    BY <2>1, FS_Interval
  <2>4. Cardinality(1..n) = n
    BY <2>3
  <2> QED
    BY <2>2, <2>4
<1>2. \A i, j \in S : <<i, j>> \in R <=> Sooner(i, j)
  OBVIOUS
<1>3. Orders(R, S)
  <2>1. \A i \in S : ~Sooner(i, i)
    BY DEF Weakly
  <2>2. \A i, j \in S : i # j => Sooner(i, j) \/ Sooner(j, i)
    OBVIOUS
  <2>3. ASSUME NEW i \in S, NEW j \in S, NEW k \in S, Sooner(i, j), Sooner(j, k) PROVE Sooner(i, k)
    <3>1. CASE <<list[i], list[j]>> \in before
      <4>1. <<list[i], list[k]>> \in before \/ <<list[k], list[j]>> \in before
        BY <3>1 DEF Weakly
      <4>2. <<list[k], list[j]>> \notin before
        BY <2>3 DEF Weakly
      <4> QED
        BY <4>1, <4>2
    <3>2. CASE <<list[i], list[j]>> \notin before
      <4>1. <<list[j], list[i]>> \notin before /\ i < j
        BY <2>3, <3>2
      <4>2. CASE <<list[j], list[k]>> \in before
        <5>1. <<list[j], list[i]>> \in before \/ <<list[i], list[k]>> \in before
          BY <4>2 DEF Weakly
        <5> QED
          BY <4>1, <5>1
      <4>3. CASE <<list[j], list[k]>> \notin before
        <5>1. <<list[k], list[j]>> \notin before /\ j < k
          BY <2>3, <4>3
        <5>2. <<list[k], list[i]>> \notin before
          BY <4>1, <5>1 DEF Weakly
        <5>3. i < k
          BY <4>1, <5>1
        <5> QED
          BY <5>2, <5>3
      <4> QED
        BY <4>2, <4>3
    <3> QED
      BY <3>1, <3>2
  <2> HIDE DEF Sooner, R, S
  <2> QED
    BY <1>2, <2>1, <2>2, <2>3 DEF Orders
<1>4. Arranges(f, R, S)
  <2> HIDE DEF R, S
  <2> QED
    BY <1>1, <1>3, Arranged, Zenon
<1>5. /\ f \in [S -> S]
      /\ \A x \in S : \E p \in S : f[p] = x
      /\ \A p, q \in S : p < q => <<f[p], f[q]>> \in R
      /\ \A p \in S : RankIn(R, S, f[p]) = p - 1
  <2>1. S = 1..Cardinality(S)
    BY <1>1
  <2> HIDE DEF R, S, f
  <2> QED
    BY <1>4, <2>1 DEF Arranges
<1> HIDE DEF f
<1>6. ASSUME NEW i \in S PROVE order[i] = RankIn(R, S, i)
  <2>1. {j \in S : Sooner(j, i)} = Preceding(R, S, i)
    BY <1>2 DEF Preceding
  <2>2. order[i] = Cardinality({j \in S : Sooner(j, i)})
    BY Zenon
  <2> HIDE DEF order, R, Sooner, S
  <2> QED
    BY <2>1, <2>2 DEF RankIn
<1>7. StableSort(list, before) = [p \in S |-> list[g[p]]]
  BY DEF StableSort
<1> HIDE DEF order, R, Sooner
<1>8. ASSUME NEW p \in S PROVE g[p] = f[p]
  <2>1. RankIn(R, S, f[p]) = p - 1 /\ f[p] \in S
    BY <1>5
  <2>2. g[p] \in S /\ RankIn(R, S, g[p]) = p - 1
    <3>1. \E i \in S : order[i] = p - 1
      BY <1>6, <2>1
    <3>2. g[p] \in S /\ order[g[p]] = p - 1
      <4> HIDE DEF S
      <4> QED
        BY <3>1
    <3> QED
      BY <1>6, <3>2
  <2>3. \A x, y \in S : RankIn(R, S, x) = RankIn(R, S, y) => x = y
    <3> HIDE DEF S
    <3> QED
      BY <1>1, <1>3, Ranks
  <2> HIDE DEF g
  <2> QED
    BY <2>1, <2>2, <2>3
<1> HIDE DEF g
<1>9. StableSort(list, before) = [p \in S |-> list[f[p]]]
  BY <1>7, <1>8
<1>10. \A p, q \in S : p < q => f[p] # f[q] /\ Sooner(f[p], f[q])
  <2>1. ASSUME NEW p \in S, NEW q \in S, p < q PROVE f[p] # f[q]
    <3>1. RankIn(R, S, f[p]) # RankIn(R, S, f[q])
      BY <1>5, <2>1
    <3> QED
      BY <3>1
  <2> HIDE DEF S
  <2> QED
    BY <1>2, <1>5, <2>1
<1> QED
  BY <1>5, <1>9, <1>10 DEF Sorts, Sooner

(* Where x is in a list first, or 0.                                       *)
Placed(place, list, x, n) ==
  /\ place \in 0..n
  /\ place = 0 => \A i \in 1..n : list[i] # x
  /\ place # 0 => list[place] = x /\ \A i \in 1..n : list[i] = x => place <= i

LEMMA PlaceIs ==
  ASSUME NEW list, NEW n \in Nat, Len(list) = n, NEW x
  PROVE  Placed(PlaceIn(list, x), list, x, n)
<1> DEFINE at == {i \in 1..n : list[i] = x}
           least == CHOOSE i \in at : \A j \in at : i <= j
<1>1. PlaceIn(list, x) = IF at # {} THEN least ELSE 0
  BY DEF PlaceIn, SelectInSeq, Min
<1>2. CASE at = {}
  BY <1>1, <1>2 DEF Placed
<1>3. CASE at # {}
  <2>1. at \in SUBSET Nat
    OBVIOUS
  <2>2. \E i \in at : \A j \in at : i <= j
    <3> HIDE DEF at
    <3> QED
      BY <1>3, <2>1, Least
  <2>3. least \in at /\ \A j \in at : least <= j
    <3> HIDE DEF at
    <3> QED
      BY <2>2
  <2> HIDE DEF least
  <2>4. least \in 1..n /\ list[least] = x /\ \A j \in 1..n : list[j] = x => least <= j
    BY <2>3
  <2>5. least \in 0..n /\ least # 0
    BY <2>4
  <2> QED
    BY <1>1, <1>3, <2>4, <2>5 DEF Placed
<1> QED
  BY <1>2, <1>3

(* The list has each element of S once.                                    *)
Enumerates(list, S, m) ==
  /\ m \in Nat /\ Len(list) = m /\ list \in [1..m -> S] /\ list \in Seq(S)
  /\ \A x \in S : \E p \in 1..m : list[p] = x
  /\ \A p, q \in 1..m : list[p] = list[q] => p = q
  /\ IsFiniteSet(S) /\ Cardinality(S) = m

LEMMA EnumeratesThere ==
  ASSUME NEW S, NEW m \in Nat, NEW list \in [1..m -> S],
         \A x \in S : \E p \in 1..m : list[p] = x,
         \A p, q \in 1..m : list[p] = list[q] => p = q
  PROVE  Enumerates(list, S, m)
<1>1. list \in Bijection(1..m, S)
  BY DEF Bijection, Injection, Surjection, IsInjective
<1>2. ExistsBijection(1..m, S)
  BY <1>1 DEF ExistsBijection
<1>3. Cardinality(S) = m
  BY <1>2, FS_CountingElements
<1>4. IsFiniteSet(S)
  <2>1. 1 \in Int /\ m \in Int
    OBVIOUS
  <2>2. IsFiniteSet(1..m)
    BY <2>1, FS_Interval
  <2> QED
    BY <1>2, <2>2, FS_Bijection
<1>5. Len(list) = m /\ list \in Seq(S)
  OBVIOUS
<1> QED
  BY <1>3, <1>4, <1>5 DEF Enumerates

ListedOnce(list, S) == Enumerates(list, S, Cardinality(S))

(* What is in a list, each once.                                           *)
LEMMA DistinctIs ==
  ASSUME NEW T, NEW list \in Seq(T), NEW S, S = {list[i] : i \in 1..Len(list)}
  PROVE  ListedOnce(Distinct(list), S)
<1>1. PICK n : n = Len(list)
  OBVIOUS
<1>2. n \in Nat /\ DOMAIN list = 1..n
  BY <1>1
<1> DEFINE keep == {i \in 1..n : PlaceIn(list, list[i]) = i}
           new == At(list, keep)
           m == Cardinality(keep)
<1>3. Distinct(list) = new
  BY <1>2 DEF Distinct
<1>4. Takes(new, list, keep)
  <2>1. keep \in SUBSET (1..n)
    OBVIOUS
  <2> HIDE DEF keep
  <2> QED
    BY <1>2, <2>1, AtIs, Zenon
<1>5. PICK f : Upwards(f, keep) /\ new = [p \in 1..m |-> list[f[p]]]
  <2> HIDE DEF keep, new
  <2> QED
    BY <1>4 DEF Takes
<1>6. ASSUME NEW i \in 1..n PROVE \E k \in keep : list[k] = list[i]
  <2>1. Placed(PlaceIn(list, list[i]), list, list[i], n)
    BY <1>1, <1>2, PlaceIs
  <2>2. PICK k : k = PlaceIn(list, list[i])
    OBVIOUS
  <2>3. k \in 1..n /\ list[k] = list[i]
    BY <1>2, <2>1, <2>2 DEF Placed
  <2> QED
    BY <2>2, <2>3
<1>7. ASSUME NEW i \in keep, NEW k \in keep, list[i] = list[k] PROVE i = k
  BY <1>7
<1>8. keep \subseteq 1..n
  OBVIOUS
<1> HIDE DEF keep, new
<1>9. m \in Nat /\ f \in [1..m -> keep] /\ (\A i \in keep : \E p \in 1..m : f[p] = i)
      /\ \A p, q \in 1..m : p < q => f[p] < f[q]
  BY <1>5 DEF Upwards
<1> HIDE DEF m
<1>10. new \in [1..m -> S]
  BY <1>1, <1>5, <1>8, <1>9
<1>11. ASSUME NEW x \in S PROVE \E p \in 1..m : new[p] = x
  <2>1. PICK i \in 1..n : list[i] = x
    BY <1>1
  <2>2. PICK k \in keep : list[k] = x
    BY <1>6, <2>1
  <2>3. PICK p \in 1..m : f[p] = k
    BY <1>9
  <2> QED
    BY <1>5, <2>2, <2>3
<1>12. ASSUME NEW p \in 1..m, NEW q \in 1..m, new[p] = new[q] PROVE p = q
  <2>1. list[f[p]] = list[f[q]]
    BY <1>5, <1>12
  <2>2. f[p] = f[q] /\ f[p] \in 1..n
    BY <1>7, <1>8, <1>9, <2>1
  <2> QED
    BY <1>2, <1>9, <2>2
<1>13. Enumerates(new, S, m)
  BY <1>9, <1>10, <1>11, <1>12, EnumeratesThere
<1> QED
  BY <1>3, <1>13 DEF ListedOnce, Enumerates

(* A stable sort lists the same.                                           *)
LEMMA SortListed ==
  ASSUME NEW S, NEW n, NEW list, Enumerates(list, S, n), NEW before, Weakly(before, list, n)
  PROVE  /\ Enumerates(StableSort(list, before), S, n)
         /\ Sorts(StableSort(list, before), list, before, n)
<1>1. n \in Nat /\ DOMAIN list = 1..n /\ list \in [1..n -> S]
      /\ (\A x \in S : \E p \in 1..n : list[p] = x)
      /\ (\A p, q \in 1..n : list[p] = list[q] => p = q)
  BY DEF Enumerates
<1>2. PICK new : new = StableSort(list, before)
  OBVIOUS
<1>3. Sorts(new, list, before, n)
  BY <1>1, <1>2, StableSortIs
<1>4. PICK f : /\ f \in [1..n -> 1..n]
               /\ \A i \in 1..n : \E p \in 1..n : f[p] = i
               /\ \A p, q \in 1..n : p < q => f[p] # f[q] /\
                    \/ <<list[f[p]], list[f[q]]>> \in before
                    \/ <<list[f[q]], list[f[p]]>> \notin before /\ f[p] < f[q]
               /\ new = [p \in 1..n |-> list[f[p]]]
  BY <1>3, Zenon DEF Sorts
<1>5. new \in [1..n -> S] /\ \A x \in S : \E p \in 1..n : new[p] = x
  <2>1. \A p \in 1..n : f[p] \in 1..n /\ new[p] = list[f[p]]
    BY <1>4
  <2>2. \A i \in 1..n : \E p \in 1..n : f[p] = i
    BY <1>4
  <2>3. new \in [1..n -> S]
    BY <1>1, <1>4, <2>1
  <2>4. ASSUME NEW x \in S PROVE \E p \in 1..n : new[p] = x
    <3>1. PICK i \in 1..n : list[i] = x
      BY <1>1
    <3>2. PICK p \in 1..n : f[p] = i
      BY <2>2
    <3> QED
      BY <2>1, <3>1, <3>2
  <2> QED
    BY <2>3, <2>4
<1>6. ASSUME NEW p \in 1..n, NEW q \in 1..n, new[p] = new[q] PROVE p = q
  <2>1. f[p] = f[q]
    BY <1>1, <1>4, <1>6
  <2>2. ~(p < q) /\ ~(q < p)
    BY <1>4, <2>1
  <2> QED
    BY <1>1, <2>2
<1>7. Enumerates(new, S, n)
  BY <1>1, <1>5, <1>6, EnumeratesThere
<1> QED
  BY <1>2, <1>3, <1>7

(* The first n of a list are its beginning.                                *)
Begins(new, list, n) ==
  /\ new \in Seq({list[i] : i \in 1..Len(list)})
  /\ Len(new) = IF Len(list) < n THEN Len(list) ELSE n
  /\ \A p \in 1..Len(new) : p \in 1..Len(list) /\ new[p] = list[p]

LEMMA FirstIs ==
  ASSUME NEW T, NEW list \in Seq(T), NEW n \in Nat
  PROVE  Begins(First(list, n), list, n)
<1>1. PICK m : m = IF n < Len(list) THEN n ELSE Len(list)
  OBVIOUS
<1>2. m \in Nat /\ m <= Len(list) /\ m = IF Len(list) < n THEN Len(list) ELSE n
  BY <1>1
<1>3. First(list, n) = SubSeq(list, 1, m)
  BY <1>1 DEF First
<1>4. PICK new : new = SubSeq(list, 1, m)
  OBVIOUS
<1>5. new = [p \in 1..m |-> list[p]]
  BY <1>2, <1>4
<1>6. Len(new) = m /\ \A p \in 1..m : p \in 1..Len(list) /\ new[p] = list[p]
  BY <1>2, <1>5
<1>7. new \in Seq({list[i] : i \in 1..Len(list)})
  <2>1. PICK S : S = {list[i] : i \in 1..Len(list)}
    OBVIOUS
  <2>2. \A p \in 1..m : list[p] \in S
    BY <1>2, <2>1
  <2>3. new \in [1..m -> S]
    BY <1>5, <2>2
  <2>4. new \in Seq(S)
    BY <1>2, <2>3
  <2> QED
    BY <2>1, <2>4
<1> QED
  BY <1>2, <1>3, <1>4, <1>6, <1>7 DEF Begins

(* Higher keys come first: a weak order.                                   *)
LEMMA DescendingIs ==
  ASSUME NEW S, NEW key, DOMAIN key = S, \A x \in S : key[x] \in Int,
         NEW list, NEW n \in Nat, \A i \in 1..n : list[i] \in S
  PROVE  /\ \A x, y \in S : <<x, y>> \in Descending(key) <=> key[x] > key[y]
         /\ Weakly(Descending(key), list, n)
<1>1. PICK before : before = Descending(key)
  OBVIOUS
<1>2. \A x, y \in S : <<x, y>> \in before <=> key[x] > key[y]
  BY <1>1 DEF Descending
<1>3. Weakly(before, list, n)
  <2>1. ASSUME NEW i \in 1..n, NEW j \in 1..n, NEW k \in 1..n
        PROVE  /\ <<list[i], list[i]>> \notin before
               /\ <<list[i], list[j]>> \in before => <<list[j], list[i]>> \notin before
               /\ <<list[i], list[j]>> \in before =>
                    <<list[i], list[k]>> \in before \/ <<list[k], list[j]>> \in before
    <3>1. PICK x \in S : x = list[i]
      OBVIOUS
    <3>2. PICK y \in S : y = list[j]
      OBVIOUS
    <3>3. PICK z \in S : z = list[k]
      OBVIOUS
    <3>4. key[x] \in Int /\ key[y] \in Int /\ key[z] \in Int
      OBVIOUS
    <3> QED
      BY <1>2, <3>1, <3>2, <3>3, <3>4
  <2> QED
    BY <2>1 DEF Weakly
<1> QED
  BY <1>1, <1>2, <1>3

(* The score of a key is a number.                                         *)
LEMMA FusedIs ==
  ASSUME NEW T, NEW vec \in Seq(T), NEW kw \in Seq(T), NEW ids \in Seq(T),
         NEW weight \in Nat, NEW x
  PROVE  Fused(vec, kw, weight, ids, x) \in Int
<1>1. ASSUME NEW list \in Seq(T), NEW w \in Nat PROVE Gain(list, w, x) \in Int
  <2>1. PICK n : n = Len(list)
    OBVIOUS
  <2>2. n \in Nat
    BY <2>1
  <2>3. PICK p : p = PlaceIn(list, x)
    OBVIOUS
  <2>4. p \in 0..n
    BY <2>1, <2>2, <2>3, PlaceIs DEF Placed
  <2>5. PICK d : d = K + p
    OBVIOUS
  <2>6. d \in Nat \ {0}
    BY <2>2, <2>4, <2>5 DEF K
  <2>7. PICK s : s = Scale
    OBVIOUS
  <2>8. s \in Nat
    BY <2>7 DEF Scale
  <2>9. PICK g : g = s \div d
    OBVIOUS
  <2>10. g \in Int
    BY <2>6, <2>8, <2>9
  <2>11. w * g \in Int
    BY <2>10
  <2>12. Gain(list, w, x) = IF p = 0 THEN 0 ELSE w * g
    BY <2>3, <2>5, <2>7, <2>9 DEF Gain
  <2> QED
    BY <2>11, <2>12
<1>2. Gain(vec, 1, x) \in Int /\ Gain(kw, weight, x) \in Int /\ Gain(ids, 2, x) \in Int
  BY <1>1
<1> QED
  BY <1>2 DEF Fused

(* The fused list has what any of the lists has, each once, and the score  *)
(* does not rise along it.                                                 *)
Merges(list, S, m, vec, kw, weight, ids) ==
  /\ Enumerates(list, S, m)
  /\ \A p, q \in 1..m : p < q =>
       Fused(vec, kw, weight, ids, list[p]) >= Fused(vec, kw, weight, ids, list[q])

LEMMA MergeIs ==
  ASSUME NEW T, NEW vec \in Seq(T), NEW kw \in Seq(T), NEW ids \in Seq(T), NEW weight \in Nat,
         NEW S, S = ToSet(vec) \cup ToSet(kw) \cup ToSet(ids)
  PROVE  Merges(RrfMerge(vec, kw, weight, ids), S, Cardinality(S), vec, kw, weight, ids)
<1>1. PICK all : all = vec \o kw \o ids
  OBVIOUS
<1>2. all \in Seq(T)
  BY <1>1
<1>3. S = {all[i] : i \in 1..Len(all)}
  <2>1. \A i \in 1..Len(vec) : i \in 1..Len(all) /\ all[i] = vec[i]
    BY <1>1
  <2>2. \A i \in 1..Len(kw) : Len(vec) + i \in 1..Len(all) /\ all[Len(vec) + i] = kw[i]
    BY <1>1
  <2>3. \A i \in 1..Len(ids) : Len(vec) + Len(kw) + i \in 1..Len(all)
                               /\ all[Len(vec) + Len(kw) + i] = ids[i]
    BY <1>1
  <2>4. ASSUME NEW i \in 1..Len(all)
        PROVE  \/ \E j \in 1..Len(vec) : all[i] = vec[j]
               \/ \E j \in 1..Len(kw) : all[i] = kw[j]
               \/ \E j \in 1..Len(ids) : all[i] = ids[j]
    <3>1. Len(all) = Len(vec) + Len(kw) + Len(ids)
      BY <1>1
    <3>2. CASE i <= Len(vec)
      BY <2>1, <3>2
    <3>3. CASE Len(vec) < i /\ i <= Len(vec) + Len(kw)
      <4>1. i - Len(vec) \in 1..Len(kw) /\ Len(vec) + (i - Len(vec)) = i
        BY <3>3
      <4> QED
        BY <2>2, <4>1
    <3>4. CASE Len(vec) + Len(kw) < i
      <4>1. i - Len(vec) - Len(kw) \in 1..Len(ids)
            /\ Len(vec) + Len(kw) + (i - Len(vec) - Len(kw)) = i
        BY <3>1, <3>4
      <4> QED
        BY <2>3, <4>1
    <3> QED
      BY <3>2, <3>3, <3>4
  <2>5. \A x : x \in S <=> \/ \E j \in 1..Len(vec) : x = vec[j]
                           \/ \E j \in 1..Len(kw) : x = kw[j]
                           \/ \E j \in 1..Len(ids) : x = ids[j]
    BY DEF ToSet
  <2>6. PICK n : n = Len(all)
    OBVIOUS
  <2>7. \A x : x \in S <=> \E i \in 1..n : x = all[i]
    <3>1. ASSUME NEW x \in S PROVE \E i \in 1..n : x = all[i]
      <4>1. \/ \E j \in 1..Len(vec) : x = vec[j]
            \/ \E j \in 1..Len(kw) : x = kw[j]
            \/ \E j \in 1..Len(ids) : x = ids[j]
        BY <2>5
      <4> QED
        BY <2>1, <2>2, <2>3, <2>6, <4>1
    <3>2. ASSUME NEW i \in 1..n PROVE all[i] \in S
      BY <2>4, <2>5, <2>6
    <3> QED
      BY <3>1, <3>2
  <2> QED
    BY <2>6, <2>7
<1>4. PICK m : m = Cardinality(S)
  OBVIOUS
<1>5. PICK found : found = Distinct(all)
  OBVIOUS
<1>6. Enumerates(found, S, m)
  BY <1>2, <1>3, <1>4, <1>5, DistinctIs DEF ListedOnce
<1>7. ToSet(found) = S
  <2>1. DOMAIN found = 1..m /\ (\A p \in 1..m : found[p] \in S) /\ \A x \in S : \E p \in 1..m : found[p] = x
    BY <1>6 DEF Enumerates
  <2> QED
    BY <2>1 DEF ToSet
<1>8. PICK key : key = [x \in S |-> Fused(vec, kw, weight, ids, x)]
  OBVIOUS
<1>9. DOMAIN key = S /\ \A x \in S : key[x] = Fused(vec, kw, weight, ids, x) /\ key[x] \in Int
  BY <1>8, FusedIs
<1>10. PICK list : list = RrfMerge(vec, kw, weight, ids)
  OBVIOUS
<1>11. list = StableSort(found, Descending(key))
  BY <1>1, <1>5, <1>7, <1>8, <1>10 DEF RrfMerge
<1>12. m \in Nat /\ \A p \in 1..m : found[p] \in S
  BY <1>6 DEF Enumerates
<1>13. PICK before : before = Descending(key)
  OBVIOUS
<1>14. (\A x, y \in S : <<x, y>> \in before <=> key[x] > key[y]) /\ Weakly(before, found, m)
  BY <1>9, <1>12, <1>13, DescendingIs
<1>15. Enumerates(list, S, m) /\ Sorts(list, found, before, m)
  BY <1>6, <1>11, <1>13, <1>14, SortListed
<1>16. PICK f : /\ f \in [1..m -> 1..m]
                /\ \A i \in 1..m : \E p \in 1..m : f[p] = i
                /\ \A p, q \in 1..m : p < q => f[p] # f[q] /\
                     \/ <<found[f[p]], found[f[q]]>> \in before
                     \/ <<found[f[q]], found[f[p]]>> \notin before /\ f[p] < f[q]
                /\ list = [p \in 1..m |-> found[f[p]]]
  BY <1>15, Zenon DEF Sorts
<1>17. ASSUME NEW p \in 1..m, NEW q \in 1..m, p < q PROVE key[list[p]] >= key[list[q]]
  <2>1. PICK x \in S : x = found[f[p]]
    BY <1>12, <1>16
  <2>2. PICK y \in S : y = found[f[q]]
    BY <1>12, <1>16
  <2>3. list[p] = x /\ list[q] = y
    BY <1>16, <2>1, <2>2
  <2>4. <<x, y>> \in before \/ <<y, x>> \notin before
    BY <1>16, <1>17, <2>1, <2>2
  <2>5. key[x] > key[y] \/ ~(key[y] > key[x])
    BY <1>14, <2>4
  <2> QED
    BY <1>9, <2>3, <2>5
<1>18. \A p \in 1..m : list[p] \in S
  BY <1>15 DEF Enumerates
<1> QED
  BY <1>4, <1>9, <1>10, <1>15, <1>17, <1>18 DEF Merges

-----------------------------------------------------------------------------
(* What a function makes of a finite set is finite, and as many if it      *)
(* keeps them apart.                                                       *)
Imaged(f, S, T) ==
  /\ IsFiniteSet(T) /\ Cardinality(T) \in Nat
  /\ (\A x, y \in S : f[x] = f[y] => x = y) => Cardinality(T) = Cardinality(S)

LEMMA Images ==
  ASSUME NEW S, IsFiniteSet(S), NEW f, NEW T, T = {f[x] : x \in S}
  PROVE  Imaged(f, S, T)
<1>1. PICK g : g = [x \in S |-> f[x]]
  OBVIOUS
<1>2. g \in Surjection(S, T)
  BY <1>1 DEF Surjection
<1>3. IsFiniteSet(T) /\ Cardinality(T) \in Nat
  BY <1>2, FS_Surjection, FS_CardinalityType
<1>4. ASSUME \A x, y \in S : f[x] = f[y] => x = y PROVE Cardinality(T) = Cardinality(S)
  <2>1. g \in Injection(S, T)
    BY <1>1, <1>4 DEF Injection, IsInjective
  <2>2. g \in Bijection(S, T)
    BY <1>2, <2>1 DEF Bijection
  <2> QED
    BY <2>2, FS_Bijection DEF ExistsBijection
<1> QED
  BY <1>3, <1>4 DEF Imaged

(* new is what list has at the positions in keep, which f goes through.    *)
Filters(new, list, S, f) ==
  /\ DOMAIN new = 1..Len(new) /\ Len(new) \in Nat /\ new \in Seq(ToSet(list))
  /\ \A p \in 1..Len(new) : f[p] \in 1..Len(list) /\ new[p] = list[f[p]] /\ new[p] \in S
  /\ \A i \in 1..Len(list) : list[i] \in S => \E p \in 1..Len(new) : f[p] = i
  /\ \A p, q \in 1..Len(new) : p < q => f[p] < f[q]

Filtered(new, list, S) == \E f : Filters(new, list, S, f)

LEMMA AmongIs ==
  ASSUME NEW T, NEW list \in Seq(T), NEW S
  PROVE  /\ Filtered(Among(list, S), list, S)
         /\ Among(list, S) \in Seq(T)
         /\ ToSet(Among(list, S)) = ToSet(list) \cap S
<1>1. PICK n \in Nat : n = Len(list) /\ DOMAIN list = 1..n
  OBVIOUS
<1>2. PICK keep : keep = {i \in DOMAIN list : list[i] \in S}
  OBVIOUS
<1>3. keep \in SUBSET (1..n)
  BY <1>1, <1>2
<1>4. PICK new : new = Among(list, S)
  OBVIOUS
<1>5. Takes(new, list, keep)
  BY <1>1, <1>2, <1>3, <1>4, AtIs DEF Among
<1>6. PICK f : Upwards(f, keep) /\ new = [p \in 1..Cardinality(keep) |-> list[f[p]]]
  BY <1>5 DEF Takes
<1>7. PICK m \in Nat : m = Cardinality(keep)
  BY <1>6 DEF Upwards
<1>8. /\ f \in [1..m -> keep] /\ new = [p \in 1..m |-> list[f[p]]]
      /\ \A i \in keep : \E p \in 1..m : f[p] = i
      /\ \A p, q \in 1..m : p < q => f[p] < f[q]
  BY <1>6, <1>7 DEF Upwards
<1>9. \A p \in 1..m : f[p] \in keep /\ f[p] \in 1..n /\ new[p] = list[f[p]] /\ new[p] \in S
                      /\ new[p] \in T
  BY <1>1, <1>2, <1>3, <1>8
<1>10. new \in [1..m -> ToSet(list)] /\ new \in [1..m -> T]
  <2>1. \A i \in 1..n : list[i] \in ToSet(list)
    BY <1>1 DEF ToSet
  <2> QED
    BY <1>8, <1>9, <2>1
<1>11. Len(new) = m /\ DOMAIN new = 1..m /\ new \in Seq(ToSet(list)) /\ new \in Seq(T)
  BY <1>10
<1>12. \A i \in 1..n : list[i] \in S => \E p \in 1..m : f[p] = i
  BY <1>1, <1>2, <1>8
<1>13. Filters(new, list, S, f)
  BY <1>1, <1>8, <1>9, <1>11, <1>12 DEF Filters
<1>14. ToSet(new) = ToSet(list) \cap S
  <2>1. ToSet(new) = {new[p] : p \in 1..m} /\ ToSet(list) = {list[i] : i \in 1..n}
    BY <1>1, <1>11 DEF ToSet
  <2>2. ASSUME NEW x \in ToSet(list) \cap S PROVE x \in ToSet(new)
    <3>1. PICK i \in 1..n : x = list[i]
      BY <2>1
    <3>2. PICK p \in 1..m : f[p] = i
      BY <1>12, <2>2, <3>1
    <3> QED
      BY <1>9, <2>1, <3>1, <3>2
  <2> QED
    BY <1>9, <2>1, <2>2
<1> QED
  BY <1>4, <1>11, <1>13, <1>14 DEF Filtered

(* A list of keys, each once, from the highest mark to the lowest.         *)
Descends(list, S, m, mark) ==
  /\ Enumerates(list, S, m)
  /\ \A p, q \in 1..m : p < q => mark[list[p]] >= mark[list[q]]

LEMMA DescendsIs ==
  ASSUME NEW T, NEW list \in Seq(T), NEW S, S = {list[i] : i \in 1..Len(list)},
         NEW mark, DOMAIN mark = S, \A x \in S : mark[x] \in Int
  PROVE  Descends(StableSort(Distinct(list), Descending(mark)), S, Cardinality(S), mark)
<1>1. PICK keys : keys = Distinct(list)
  OBVIOUS
<1>2. PICK m : m = Cardinality(S)
  OBVIOUS
<1>3. Enumerates(keys, S, m)
  BY <1>1, <1>2, DistinctIs DEF ListedOnce
<1>4. m \in Nat /\ \A i \in 1..m : keys[i] \in S
  BY <1>3 DEF Enumerates
<1>5. PICK before : before = Descending(mark)
  OBVIOUS
<1>6. /\ \A x, y \in S : <<x, y>> \in before <=> mark[x] > mark[y]
      /\ Weakly(before, keys, m)
  BY <1>4, <1>5, DescendingIs
<1>7. PICK new : new = StableSort(keys, before)
  OBVIOUS
<1>8. Enumerates(new, S, m) /\ Sorts(new, keys, before, m)
  BY <1>3, <1>6, <1>7, SortListed
<1>9. PICK f : /\ f \in [1..m -> 1..m]
               /\ \A p, q \in 1..m : p < q => f[p] # f[q] /\
                    \/ <<keys[f[p]], keys[f[q]]>> \in before
                    \/ <<keys[f[q]], keys[f[p]]>> \notin before /\ f[p] < f[q]
               /\ new = [p \in 1..m |-> keys[f[p]]]
  BY <1>8 DEF Sorts
<1>10. ASSUME NEW p \in 1..m, NEW q \in 1..m, p < q
       PROVE  mark[new[p]] >= mark[new[q]]
  <2>1. new[p] = keys[f[p]] /\ new[q] = keys[f[q]] /\ new[p] \in S /\ new[q] \in S
    BY <1>4, <1>9
  <2>2. <<new[p], new[q]>> \in before \/ <<new[q], new[p]>> \notin before
    BY <1>9, <1>10, <2>1
  <2>3. mark[new[p]] \in Int /\ mark[new[q]] \in Int
    BY <2>1
  <2>4. mark[new[p]] > mark[new[q]] \/ ~(mark[new[q]] > mark[new[p]])
    BY <1>6, <2>1, <2>2
  <2> QED
    BY <2>3, <2>4
<1> QED
  BY <1>1, <1>2, <1>5, <1>7, <1>8, <1>10 DEF Descends

-----------------------------------------------------------------------------
(* Listings.  Rows are ordered by time and doc_id, so rows of which no two *)
(* have one doc_id are in a strict total order.                            *)
Keyed(S) == \A r, s \in S : r.doc = s.doc => r = s

LEMMA TimeOrders ==
  ASSUME NEW S \in SUBSET StoredRow, Keyed(S), NEW newest \in BOOLEAN
  PROVE  Orders(InTime(newest, S), S)
<1>1. \A r, s \in S : <<r, s>> \in InTime(newest, S) <=> ComesBefore(newest, r, s)
  BY DEF InTime
<1>2. \A r \in S : r.at \in Nat /\ r.doc \in Nat
  BY DEF StoredRow
<1>3. \A r \in S : ~ComesBefore(newest, r, r)
  BY <1>2 DEF ComesBefore, Newer, Older
<1>4. \A r, s \in S : r # s => ComesBefore(newest, r, s) \/ ComesBefore(newest, s, r)
  BY <1>2 DEF ComesBefore, Newer, Older, Keyed
<1>5. \A r, s, t \in S :
        ComesBefore(newest, r, s) /\ ComesBefore(newest, s, t) => ComesBefore(newest, r, t)
  BY <1>2 DEF ComesBefore, Newer, Older
<1> QED
  BY <1>1, <1>3, <1>4, <1>5 DEF Orders

(* The best n of a set come first in that order.                           *)
LEMMA BestAre ==
  ASSUME NEW S, NEW newest, NEW n
  PROVE  Best(S, n, newest) = Firsts(InTime(newest, S), S, n)
<1>1. ASSUME NEW r \in S
      PROVE  {s \in S : ComesBefore(newest, s, r)} = Preceding(InTime(newest, S), S, r)
  BY DEF Preceding, InTime
<1> QED
  BY <1>1 DEF Best, Firsts, RankIn

(* They are told by their number and by coming before all others.          *)
LEMMA FirstsAlone ==
  ASSUME NEW S, IsFiniteSet(S), NEW R, Orders(R, S), NEW n \in Nat, NEW T \in SUBSET S,
         Cardinality(T) = IF Cardinality(S) < n THEN Cardinality(S) ELSE n,
         \A t \in T, s \in S \ T : <<t, s>> \in R
  PROVE  T = Firsts(R, S, n)
<1>1. IsFiniteSet(T) /\ Cardinality(T) \in Nat /\ Cardinality(S) \in Nat /\ Cardinality(T) <= n
  BY FS_Subset, FS_CardinalityType
<1>2. ASSUME NEW t \in T PROVE t \in Firsts(R, S, n)
  <2>1. Preceding(R, S, t) \subseteq T \ {t}
    BY DEF Preceding, Orders
  <2>2. IsFiniteSet(T \ {t}) /\ Cardinality(T \ {t}) = Cardinality(T) - 1
    BY <1>1, FS_RemoveElement
  <2>3. Cardinality(Preceding(R, S, t)) <= Cardinality(T \ {t})
        /\ Cardinality(Preceding(R, S, t)) \in Nat
    BY <2>1, <2>2, FS_Subset, FS_CardinalityType
  <2> QED
    BY <1>1, <2>2, <2>3 DEF Firsts, RankIn
<1>3. /\ IsFiniteSet(Firsts(R, S, n))
      /\ Cardinality(Firsts(R, S, n)) = IF Cardinality(S) < n THEN Cardinality(S) ELSE n
  BY FirstsAre
<1>4. T \subseteq Firsts(R, S, n)
  BY <1>2
<1>5. Cardinality(T) = Cardinality(Firsts(R, S, n))
  BY <1>3
<1> QED
  BY <1>3, <1>4, <1>5, FS_Subset

(* The first n come before all others.                                     *)
LEMMA FirstsBefore ==
  ASSUME NEW S, IsFiniteSet(S), NEW R, Orders(R, S), NEW n \in Nat
  PROVE  \A t \in Firsts(R, S, n), s \in S \ Firsts(R, S, n) : <<t, s>> \in R
<1> SUFFICES ASSUME NEW t \in Firsts(R, S, n), NEW s \in S \ Firsts(R, S, n)
             PROVE  <<t, s>> \in R
  OBVIOUS
<1>1. t \in S /\ s \in S /\ RankIn(R, S, t) < n /\ ~(RankIn(R, S, s) < n)
  BY DEF Firsts
<1>2. RankIn(R, S, t) \in Nat /\ RankIn(R, S, s) \in Nat
      /\ (<<t, s>> \in R <=> RankIn(R, S, t) < RankIn(R, S, s))
  BY <1>1, Ranks
<1> QED
  BY <1>1, <1>2

(* Of some rows one comes last.                                            *)
LEMMA Worst ==
  ASSUME NEW S \in SUBSET StoredRow, IsFiniteSet(S), S # {}, Keyed(S), NEW newest \in BOOLEAN
  PROVE  \E r \in S : \A s \in S : ~ComesBefore(newest, r, s)
<1>1. PICK r \in S : \A s \in S \ {r} : <<r, s>> \in InTime(~newest, S)
  <2>1. Orders(InTime(~newest, S), S)
    BY TimeOrders
  <2> QED
    BY <2>1, FirstOne
<1>2. \A s \in S : s.at \in Nat /\ s.doc \in Nat
  BY DEF StoredRow
<1>3. \A s \in S \ {r} : ComesBefore(~newest, r, s)
  BY <1>1 DEF InTime
<1>4. \A s \in S : ~ComesBefore(newest, r, s)
  BY <1>2, <1>3 DEF ComesBefore, Newer, Older
<1> QED
  BY <1>4

(* A row with a doc_id of its own is collected.                            *)
LEMMA AddNew ==
  ASSUME NEW S \in SUBSET StoredRow, IsFiniteSet(S), Keyed(S),
         NEW row \in StoredRow, \A s \in S : s.doc # row.doc,
         NEW limit \in Nat, NEW newest \in BOOLEAN
  PROVE  AddRow(Best(S, limit, newest), row, limit, newest) = Best(S \cup {row}, limit, newest)
<1>1. PICK kept : kept = Best(S, limit, newest)
  OBVIOUS
<1>2. PICK U : U = S \cup {row}
  OBVIOUS
<1>3. PICK R : R = InTime(newest, S)
  OBVIOUS
<1>4. PICK Q : Q = InTime(newest, U)
  OBVIOUS
<1>5. U \in SUBSET StoredRow /\ Keyed(U)
  BY <1>2 DEF Keyed
<1>6. IsFiniteSet(U) /\ Cardinality(U) = Cardinality(S) + 1 /\ Cardinality(S) \in Nat
  BY <1>2, FS_AddElement, FS_CardinalityType
<1>7. Orders(R, S) /\ Orders(Q, U)
  BY <1>3, <1>4, <1>5, TimeOrders
<1>8. /\ \A x, y \in U : <<x, y>> \in Q <=> ComesBefore(newest, x, y)
      /\ \A x, y \in S : <<x, y>> \in R <=> ComesBefore(newest, x, y)
  BY <1>3, <1>4 DEF InTime
<1>9. kept = Firsts(R, S, limit) /\ Best(U, limit, newest) = Firsts(Q, U, limit)
  BY <1>1, <1>3, <1>4, BestAre
<1>10. /\ IsFiniteSet(kept)
       /\ Cardinality(kept) = IF Cardinality(S) < limit THEN Cardinality(S) ELSE limit
       /\ Cardinality(S) <= limit => kept = S
  BY <1>7, <1>9, FirstsAre
<1>11. kept \subseteq S
  BY <1>9 DEF Firsts
<1>12. \A t \in kept, s \in S \ kept : ComesBefore(newest, t, s)
  <2>1. \A t \in kept, s \in S \ kept : <<t, s>> \in R
    BY <1>7, <1>9, FirstsBefore
  <2> QED
    BY <1>8, <1>11, <2>1
<1>13. /\ \A x \in U : ~ComesBefore(newest, x, x)
       /\ \A x, y \in U : x # y => ComesBefore(newest, x, y) \/ ComesBefore(newest, y, x)
       /\ \A x, y, z \in U :
            ComesBefore(newest, x, y) /\ ComesBefore(newest, y, z) => ComesBefore(newest, x, z)
  BY <1>7, <1>8 DEF Orders
<1>14. row \notin S /\ ~\E r \in kept : r.doc = row.doc
  BY <1>11
<1>15. CASE Cardinality(kept) < limit
  <2>1. kept = S /\ Cardinality(U) <= limit
    BY <1>6, <1>10, <1>15
  <2>2. Firsts(Q, U, limit) = U
    BY <1>6, <1>7, <2>1, FirstsAre
  <2>3. AddRow(kept, row, limit, newest) = U
    BY <1>2, <1>14, <1>15, <2>1 DEF AddRow
  <2> QED
    BY <1>1, <1>2, <1>9, <2>2, <2>3
<1>16. CASE ~(Cardinality(kept) < limit)
  <2>1. Cardinality(kept) = limit /\ limit <= Cardinality(S)
    BY <1>6, <1>10, <1>16
  <2>2. SUFFICES ASSUME NEW T, T = AddRow(kept, row, limit, newest) PROVE T = Firsts(Q, U, limit)
    BY <1>1, <1>2, <1>9
  <2>3. SUFFICES /\ T \in SUBSET U /\ Cardinality(T) = limit
                 /\ \A t \in T, s \in U \ T : ComesBefore(newest, t, s)
    <3>1. ASSUME T \in SUBSET U, Cardinality(T) = limit,
                 \A t \in T, s \in U \ T : ComesBefore(newest, t, s)
          PROVE  T = Firsts(Q, U, limit)
      <4>1. \A t \in T, s \in U \ T : <<t, s>> \in Q
        BY <1>8, <3>1
      <4>2. Cardinality(T) = IF Cardinality(U) < limit THEN Cardinality(U) ELSE limit
        BY <1>6, <2>1, <3>1
      <4> QED
        BY <1>6, <1>7, <3>1, <4>1, <4>2, FirstsAlone
    <3> QED
      BY <3>1
  <2>4. CASE kept = {}
    <3>1. T = kept
      BY <1>14, <1>16, <2>2, <2>4 DEF AddRow
    <3> QED
      BY <2>1, <2>4, <3>1
  <2>5. CASE kept # {}
    <3>1. PICK w : w = CHOOSE r \in kept : \A s \in kept : ~ComesBefore(newest, r, s)
      OBVIOUS
    <3>2. \E r \in kept : \A s \in kept : ~ComesBefore(newest, r, s)
      <4>1. kept \in SUBSET StoredRow /\ Keyed(kept)
        BY <1>11 DEF Keyed
      <4> QED
        BY <1>10, <2>5, <4>1, Worst
    <3>3. w \in kept /\ \A s \in kept : ~ComesBefore(newest, w, s)
      BY <3>1, <3>2
    <3>4. T = IF ComesBefore(newest, row, w) THEN (kept \ {w}) \cup {row} ELSE kept
      BY <1>14, <1>16, <2>2, <2>5, <3>1, Zenon DEF AddRow
    <3>5. \A s \in kept : s = w \/ ComesBefore(newest, s, w)
      BY <1>2, <1>11, <1>13, <3>3
    <3>6. CASE ComesBefore(newest, row, w)
      <4>1. T = (kept \ {w}) \cup {row}
        BY <3>4, <3>6
      <4>2. IsFiniteSet(kept \ {w}) /\ Cardinality(kept \ {w}) = limit - 1
        BY <1>10, <2>1, <3>3, FS_RemoveElement
      <4>3. row \notin kept \ {w}
        BY <1>11, <1>14
      <4>4. Cardinality(T) = limit
        <5>1. PICK most : most = kept \ {w}
          OBVIOUS
        <5>2. Cardinality(most \cup {row}) = Cardinality(most) + 1
          BY <4>2, <4>3, <5>1, FS_AddElement
        <5> QED
          BY <4>1, <4>2, <5>1, <5>2
      <4>5. \A t \in T, s \in U \ T : ComesBefore(newest, t, s)
        BY <1>2, <1>11, <1>12, <1>13, <3>3, <3>5, <3>6, <4>1
      <4> QED
        BY <1>2, <1>11, <4>1, <4>4, <4>5
    <3>7. CASE ~ComesBefore(newest, row, w)
      <4>1. T = kept
        BY <3>4, <3>7
      <4>2. ComesBefore(newest, w, row)
        BY <1>2, <1>11, <1>13, <1>14, <3>3, <3>7
      <4>3. \A t \in T, s \in U \ T : ComesBefore(newest, t, s)
        BY <1>2, <1>11, <1>12, <1>13, <3>3, <3>5, <4>1, <4>2
      <4> QED
        BY <1>2, <1>11, <2>1, <4>1, <4>3
    <3> QED
      BY <3>6, <3>7
  <2> QED
    BY <2>4, <2>5
<1> QED
  BY <1>15, <1>16

(* A row that has come before, or a copy of it, changes nothing.           *)
LEMMA AddKnown ==
  ASSUME NEW S \in SUBSET StoredRow, IsFiniteSet(S), Keyed(S),
         NEW row \in StoredRow, NEW copy \in S, copy.doc = row.doc, copy.at = row.at,
         NEW limit \in Nat, NEW newest \in BOOLEAN
  PROVE  AddRow(Best(S, limit, newest), row, limit, newest) = Best(S, limit, newest)
<1>1. PICK kept : kept = Best(S, limit, newest)
  OBVIOUS
<1>2. PICK R : R = InTime(newest, S)
  OBVIOUS
<1>3. Orders(R, S)
  BY <1>2, TimeOrders
<1>4. kept = Firsts(R, S, limit)
  BY <1>1, <1>2, BestAre
<1>5. /\ IsFiniteSet(kept) /\ Cardinality(S) \in Nat
      /\ Cardinality(kept) = IF Cardinality(S) < limit THEN Cardinality(S) ELSE limit
      /\ Cardinality(S) <= limit => kept = S
  BY <1>3, <1>4, FirstsAre, FS_CardinalityType
<1>6. kept \subseteq S
  BY <1>4 DEF Firsts
<1>7. CASE copy \in kept
  BY <1>1, <1>7 DEF AddRow
<1>8. CASE copy \notin kept
  <2>1. ~(Cardinality(kept) < limit)
    BY <1>5, <1>8
  <2>2. PICK w : w = CHOOSE r \in kept : \A s \in kept : ~ComesBefore(newest, r, s)
    OBVIOUS
  <2>3. ASSUME kept # {} PROVE ~ComesBefore(newest, row, w)
    <3>1. \E r \in kept : \A s \in kept : ~ComesBefore(newest, r, s)
      <4>1. kept \in SUBSET StoredRow /\ Keyed(kept)
        BY <1>6 DEF Keyed
      <4> QED
        BY <1>5, <2>3, <4>1, Worst
    <3>2. w \in kept
      BY <2>2, <3>1
    <3>3. <<w, copy>> \in R
      BY <1>3, <1>4, <1>8, <3>2, FirstsBefore
    <3>4. ComesBefore(newest, w, copy)
      BY <1>2, <3>3 DEF InTime
    <3>5. w.at \in Nat /\ w.doc \in Nat /\ row.at \in Nat /\ row.doc \in Nat
      BY <1>6, <3>2 DEF StoredRow
    <3> QED
      BY <3>4, <3>5 DEF ComesBefore, Newer, Older
  <2>4. AddRow(kept, row, limit, newest) = kept
    BY <2>1, <2>2, <2>3, Zenon DEF AddRow
  <2> QED
    BY <1>1, <2>4
<1> QED
  BY <1>7, <1>8

(* The first row of each doc_id among the first i.                         *)
FirstRows(rows, i) ==
  {rows[j] : j \in {k \in 1..i : \A l \in 1..k - 1 : rows[l].doc # rows[k].doc}}

(* Copies of a turn have its time.                                         *)
SameTimes(rows) ==
  \A i, j \in 1..Len(rows) : rows[i].doc = rows[j].doc => rows[i].at = rows[j].at

FirstRowsOf(rows, i, S) ==
  /\ S \in SUBSET StoredRow /\ IsFiniteSet(S) /\ Keyed(S)
  /\ \A r \in S : \E j \in 1..i : r = rows[j]
  /\ \A j \in 1..i : \E r \in S : r.doc = rows[j].doc

LEMMA FirstRowsAre ==
  ASSUME NEW rows \in Seq(StoredRow), NEW i \in 0..Len(rows)
  PROVE  FirstRowsOf(rows, i, FirstRows(rows, i))
<1> DEFINE firsts == {k \in 1..i : \A l \in 1..k - 1 : rows[l].doc # rows[k].doc}
<1>1. PICK S : S = FirstRows(rows, i)
  OBVIOUS
<1>2. S = {rows[j] : j \in firsts}
  BY <1>1 DEF FirstRows
<1>3. \A j \in 1..i : j \in 1..Len(rows) /\ rows[j] \in StoredRow
  OBVIOUS
<1>4. IsFiniteSet(1..i)
  BY FS_Interval
<1>5. IsFiniteSet(S)
  <2>1. IsFiniteSet(firsts)
    BY <1>4, FS_Subset
  <2> HIDE DEF firsts
  <2> QED
    BY <1>2, <2>1, Images DEF Imaged
<1>6. S \in SUBSET StoredRow /\ \A r \in S : \E j \in 1..i : r = rows[j]
  BY <1>2, <1>3
<1>7. Keyed(S)
  <2>1. ASSUME NEW j \in firsts, NEW k \in firsts, rows[j].doc = rows[k].doc PROVE j = k
    <3>1. j \in Nat /\ k \in Nat /\ j >= 1 /\ k >= 1
      OBVIOUS
    <3>2. ~(j < k)
      BY <2>1, <3>1
    <3>3. ~(k < j)
      BY <2>1, <3>1
    <3> QED
      BY <3>1, <3>2, <3>3
  <2> HIDE DEF firsts
  <2> QED
    BY <1>2, <2>1 DEF Keyed
<1>8. ASSUME NEW j \in 1..i PROVE \E r \in S : r.doc = rows[j].doc
  <2>1. PICK same : same = {k \in 1..i : rows[k].doc = rows[j].doc}
    OBVIOUS
  <2>2. same \in SUBSET Nat /\ same # {}
    BY <2>1
  <2>3. PICK k \in same : \A l \in same : k <= l
    BY <2>2, Least
  <2>4. k \in firsts
    BY <2>1, <2>3
  <2> QED
    BY <1>2, <2>1, <2>3, <2>4
<1> QED
  BY <1>1, <1>5, <1>6, <1>7, <1>8 DEF FirstRowsOf

(* What is collected are the best of the first rows of each doc_id.        *)
LEMMA GatheredIs ==
  ASSUME NEW rows \in Seq(StoredRow), SameTimes(rows),
         NEW limit \in Nat, NEW newest \in BOOLEAN
  PROVE  Gathered(rows, limit, newest) = Best(FirstRows(rows, Len(rows)), limit, newest)
<1> DEFINE best(i) == Best(FirstRows(rows, i), limit, newest)
           Solves(f) == f = [i \in 0..Len(rows) |->
                               IF i = 0 THEN {} ELSE AddRow(f[i - 1], rows[i], limit, newest)]
           found == CHOOSE f : Solves(f)
<1>1. PICK n : n = Len(rows)
  OBVIOUS
<1>2. n \in Nat
  BY <1>1
<1>3. best(0) = {}
  BY DEF Best, FirstRows
<1>4. ASSUME NEW i \in 1..n PROVE best(i) = AddRow(best(i - 1), rows[i], limit, newest)
  <2>1. PICK m : m = i - 1
    OBVIOUS
  <2>2. m \in 0..Len(rows) /\ i \in 1..Len(rows) /\ i = m + 1 /\ i \in 0..Len(rows) /\ m \in Nat
    BY <1>1, <1>2, <2>1
  <2>3. PICK S : S = FirstRows(rows, m)
    OBVIOUS
  <2>4. FirstRowsOf(rows, m, S)
    BY <2>2, <2>3, FirstRowsAre
  <2>5. PICK row \in StoredRow : row = rows[i]
    BY <2>2
  <2>6. CASE \E j \in 1..m : rows[j].doc = row.doc
    <3>1. FirstRows(rows, i) = S
      <4>1. {k \in 1..i : \A l \in 1..k - 1 : rows[l].doc # rows[k].doc}
            = {k \in 1..m : \A l \in 1..k - 1 : rows[l].doc # rows[k].doc}
        BY <2>2, <2>5, <2>6
      <4> QED
        BY <2>3, <4>1 DEF FirstRows
    <3>2. PICK copy \in S : copy.doc = row.doc
      BY <2>4, <2>6 DEF FirstRowsOf
    <3>3. copy.at = row.at
      <4>1. PICK j \in 1..m : copy = rows[j]
        BY <2>4, <3>2 DEF FirstRowsOf
      <4>2. j \in 1..Len(rows)
        BY <2>2
      <4> QED
        BY <2>2, <2>5, <3>2, <4>1, <4>2 DEF SameTimes
    <3>4. AddRow(Best(S, limit, newest), row, limit, newest) = Best(S, limit, newest)
      BY <2>4, <3>2, <3>3, AddKnown DEF FirstRowsOf
    <3> QED
      BY <2>1, <2>3, <2>5, <3>1, <3>4
  <2>7. CASE ~\E j \in 1..m : rows[j].doc = row.doc
    <3>1. FirstRows(rows, i) = S \cup {row}
      <4>1. {k \in 1..i : \A l \in 1..k - 1 : rows[l].doc # rows[k].doc}
            = {k \in 1..m : \A l \in 1..k - 1 : rows[l].doc # rows[k].doc} \cup {i}
        <5>1. 1..i = (1..m) \cup {i}
          BY <2>2
        <5>2. \A l \in 1..i - 1 : rows[l].doc # rows[i].doc
          BY <2>1, <2>5, <2>7
        <5> QED
          BY <5>1, <5>2
      <4> QED
        BY <2>3, <2>5, <4>1 DEF FirstRows
    <3>2. \A s \in S : s.doc # row.doc
      BY <2>4, <2>7 DEF FirstRowsOf
    <3>3. AddRow(Best(S, limit, newest), row, limit, newest) = Best(S \cup {row}, limit, newest)
      BY <2>4, <3>2, AddNew DEF FirstRowsOf
    <3> QED
      BY <2>1, <2>3, <2>5, <3>1, <3>3
  <2> QED
    BY <2>6, <2>7
<1>5. PICK f : f = [i \in 0..n |-> best(i)]
  OBVIOUS
<1>6. Solves(f)
  <2>1. ASSUME NEW i \in 0..n
        PROVE  best(i) = IF i = 0 THEN {} ELSE AddRow(f[i - 1], rows[i], limit, newest)
    <3>1. CASE i = 0
      BY <1>3, <3>1
    <3>2. CASE i # 0
      <4>1. i \in 1..n /\ i - 1 \in 0..n
        BY <1>2, <3>2
      <4>2. f[i - 1] = best(i - 1)
        BY <1>5, <4>1
      <4> QED
        BY <1>4, <3>2, <4>1, <4>2
    <3> QED
      BY <3>1, <3>2
  <2> HIDE DEF best
  <2> QED
    BY <1>1, <1>5, <2>1
<1>7. Solves(found)
  <2> HIDE DEF Solves
  <2> QED
    BY <1>6, Zenon
<1>8. Gathered(rows, limit, newest) = found[n]
  BY <1>1, Zenon DEF Gathered
<1>9. ASSUME NEW i \in 0..n
      PROVE  found[i] = IF i = 0 THEN {} ELSE AddRow(found[i - 1], rows[i], limit, newest)
  <2> HIDE DEF found, best
  <2> QED
    BY <1>1, <1>7
<1>10. found[n] = best(n)
  <2> HIDE DEF found, best, Solves
  <2> DEFINE good == {i \in 0..n : found[i] = best(i)}
  <2>1. 0 \in good
    <3>1. 0 \in 0..n
      BY <1>2
    <3>2. found[0] = {}
      BY <1>9, <3>1
    <3> QED
      BY <1>3, <3>1, <3>2
  <2>2. ASSUME NEW i \in 1..n, i - 1 \in good PROVE i \in good
    <3>1. i \in 0..n /\ i # 0
      BY <1>2
    <3>2. found[i] = AddRow(found[i - 1], rows[i], limit, newest)
      BY <1>9, <3>1
    <3> QED
      BY <1>4, <2>2, <3>1, <3>2
  <2>3. \A i \in 0..n : i \in good
    <3> HIDE DEF good
    <3> QED
      BY <1>2, <2>1, <2>2, Induction
  <2> QED
    BY <1>2, <2>3
<1> QED
  BY <1>1, <1>8, <1>10

(* They are listed in their order.                                         *)
LEMMA CollectedIs ==
  ASSUME NEW rows \in Seq(StoredRow), SameTimes(rows),
         NEW limit \in Nat, NEW newest \in BOOLEAN
  PROVE  /\ Shows(Collected(rows, limit, newest),
                  Best(FirstRows(rows, Len(rows)), limit, newest), newest)
         /\ Collected(rows, limit, newest) \in Seq(StoredRow)
<1>1. PICK S : S = FirstRows(rows, Len(rows))
  OBVIOUS
<1>2. PICK kept : kept = Best(S, limit, newest)
  OBVIOUS
<1>3. FirstRowsOf(rows, Len(rows), S)
  BY <1>1, FirstRowsAre
<1>4. kept \subseteq S
  BY <1>2 DEF Best
<1>5. kept \in SUBSET StoredRow /\ Keyed(kept) /\ IsFiniteSet(kept)
  BY <1>3, <1>4, FS_Subset DEF FirstRowsOf, Keyed
<1>6. PICK R : R = InTime(newest, kept)
  OBVIOUS
<1>7. Orders(R, kept)
  BY <1>5, <1>6, TimeOrders
<1>8. Collected(rows, limit, newest) = Sorted(kept, R)
  BY <1>1, <1>2, <1>6, GatheredIs DEF Collected
<1>9. Sorted(kept, R) = ByRank(R, kept)
  BY DEF Sorted, ByRank, RankIn, Preceding
<1>10. PICK list : list = Collected(rows, limit, newest)
  OBVIOUS
<1>11. Arranges(list, R, kept)
  BY <1>5, <1>7, <1>8, <1>9, <1>10, Arranged
<1>12. PICK m \in Nat : m = Cardinality(kept) /\ list \in [1..m -> kept]
  BY <1>11 DEF Arranges
<1>13. Len(list) = m /\ DOMAIN list = 1..m /\ list \in Seq(StoredRow)
  BY <1>5, <1>12
<1>14. ToSet(list) = kept
  BY <1>11, <1>12, <1>13 DEF Arranges, ToSet
<1>15. \A i, j \in 1..Len(list) : i < j => ComesBefore(newest, list[i], list[j])
  BY <1>6, <1>11, <1>12, <1>13 DEF Arranges, InTime
<1> QED
  BY <1>1, <1>2, <1>10, <1>13, <1>14, <1>15 DEF Shows

(* Rows with doc_ids of their own.                                         *)
KeyedFacts(rows) ==
  /\ rows \in Seq(StoredRow) /\ SameTimes(rows)
  /\ FirstRows(rows, Len(rows)) = ToSet(rows)
  /\ ToSet(rows) \in SUBSET StoredRow /\ Keyed(ToSet(rows)) /\ IsFiniteSet(ToSet(rows))
  /\ Enumerates(rows, ToSet(rows), Len(rows))

LEMMA KeyedAre ==
  ASSUME NEW rows, KeyedRows(rows)
  PROVE  KeyedFacts(rows)
<1>1. PICK n \in Nat : n = Len(rows) /\ DOMAIN rows = 1..n /\ rows \in Seq(StoredRow)
  BY DEF KeyedRows
<1>2. \A i, j \in 1..n : rows[i].doc = rows[j].doc => i = j
  BY <1>1 DEF KeyedRows
<1>3. PICK S : S = ToSet(rows)
  OBVIOUS
<1>4. S = {rows[i] : i \in 1..n}
  BY <1>1, <1>3 DEF ToSet
<1>5. \A i \in 1..n : rows[i] \in S /\ rows[i] \in StoredRow
  BY <1>1, <1>4
<1>6. SameTimes(rows)
  BY <1>1, <1>2 DEF SameTimes
<1>7. FirstRows(rows, n) = S
  <2>1. {k \in 1..n : \A l \in 1..k - 1 : rows[l].doc # rows[k].doc} = 1..n
    <3>1. ASSUME NEW k \in 1..n, NEW l \in 1..k - 1 PROVE rows[l].doc # rows[k].doc
      <4>1. l \in 1..n /\ l # k
        OBVIOUS
      <4> QED
        BY <1>2, <4>1
    <3> QED
      BY <3>1
  <2> QED
    BY <1>4, <2>1 DEF FirstRows
<1>8. S \in SUBSET StoredRow /\ Keyed(S)
  BY <1>2, <1>4, <1>5 DEF Keyed
<1>9. Enumerates(rows, S, n)
  <2>1. rows \in [1..n -> S]
    BY <1>1, <1>5
  <2>2. \A i, j \in 1..n : rows[i] = rows[j] => i = j
    BY <1>2
  <2> QED
    BY <1>4, <2>1, <2>2, EnumeratesThere
<1> QED
  BY <1>1, <1>3, <1>6, <1>7, <1>8, <1>9 DEF KeyedFacts, Enumerates

(* Some of such rows.                                                      *)
LEMMA KeyedAmong ==
  ASSUME NEW rows, KeyedRows(rows), NEW S
  PROVE  KeyedRows(Among(rows, S)) /\ ToSet(Among(rows, S)) = ToSet(rows) \cap S
<1>1. PICK n \in Nat : n = Len(rows) /\ rows \in Seq(StoredRow)
  BY DEF KeyedRows
<1>2. PICK new : new = Among(rows, S)
  OBVIOUS
<1>3. new \in Seq(StoredRow) /\ Filtered(new, rows, S) /\ ToSet(new) = ToSet(rows) \cap S
  BY <1>1, <1>2, AmongIs
<1>4. PICK f : Filters(new, rows, S, f)
  BY <1>3 DEF Filtered
<1>5. PICK m \in Nat : m = Len(new)
  BY <1>3
<1>6. ASSUME NEW p \in 1..m, NEW q \in 1..m, new[p].doc = new[q].doc PROVE p = q
  <2>1. f[p] \in 1..n /\ f[q] \in 1..n /\ new[p] = rows[f[p]] /\ new[q] = rows[f[q]]
    BY <1>1, <1>4, <1>5 DEF Filters
  <2>2. f[p] = f[q]
    BY <1>1, <1>6, <2>1 DEF KeyedRows
  <2>3. ~(p < q) /\ ~(q < p)
    BY <1>4, <1>5, <2>1, <2>2 DEF Filters
  <2> QED
    BY <2>3
<1> QED
  BY <1>2, <1>3, <1>5, <1>6 DEF KeyedRows

(* A set of at most n is the best n of itself.                             *)
LEMMA BestAll ==
  ASSUME NEW S \in SUBSET StoredRow, IsFiniteSet(S), Keyed(S), NEW n \in Nat,
         NEW newest \in BOOLEAN
  PROVE  /\ Best(S, n, newest) \subseteq S
         /\ IsFiniteSet(Best(S, n, newest)) /\ Cardinality(Best(S, n, newest)) \in Nat
         /\ Cardinality(Best(S, n, newest)) <= n
         /\ Cardinality(S) <= n => Best(S, n, newest) = S
<1>1. PICK R : R = InTime(newest, S)
  OBVIOUS
<1>2. Orders(R, S)
  BY <1>1, TimeOrders
<1>3. PICK T : T = Best(S, n, newest)
  OBVIOUS
<1>4. T = Firsts(R, S, n)
  BY <1>1, <1>3, BestAre
<1>5. /\ IsFiniteSet(T) /\ Cardinality(S) \in Nat
      /\ Cardinality(T) = IF Cardinality(S) < n THEN Cardinality(S) ELSE n
      /\ Cardinality(S) <= n => T = S
  BY <1>2, <1>4, FirstsAre, FS_CardinalityType
<1>6. T \subseteq S
  BY <1>4 DEF Firsts
<1> QED
  BY <1>3, <1>5, <1>6

(* What is collected of rows with doc_ids of their own.                    *)
LEMMA CollectedKeyed ==
  ASSUME NEW rows, KeyedRows(rows), NEW limit \in Nat, NEW newest \in BOOLEAN
  PROVE  /\ Shows(Collected(rows, limit, newest), Best(ToSet(rows), limit, newest), newest)
         /\ Collected(rows, limit, newest) \in Seq(StoredRow)
<1>1. KeyedFacts(rows)
  BY KeyedAre
<1> QED
  BY <1>1, CollectedIs DEF KeyedFacts

(* A listing shows the newest rows that match.                             *)
LEMMA ListingHolds ==
  ASSUME NEW q, ListingQuery(q)
  PROVE  ListingExact(q, RecentListing(q.scan, q.fetch, q.filter, q.n))
<1>1. PICK f : f = q.filter
  OBVIOUS
<1>2. PICK n \in Nat : n = q.n
  BY DEF ListingQuery
<1>3. PICK scan : scan = q.scan /\ KeyedRows(scan)
  BY DEF ListingQuery
<1>4. PICK fetch : fetch = q.fetch /\ KeyedRows(fetch)
  BY DEF ListingQuery
<1>5. \A r \in ToSet(scan), s \in ToSet(fetch) : r.doc = s.doc => r = s
  BY <1>3, <1>4 DEF ListingQuery
<1>6. PICK right : right = {r \in ToSet(scan) : Selected(r, f) /\ ~r.passage}
  OBVIOUS
<1>7. PICK read : read = WithoutPassages(Query(scan, f))
  OBVIOUS
<1>8. KeyedRows(read) /\ ToSet(read) = right
  BY <1>3, <1>6, <1>7, KeyedAmong DEF WithoutPassages, Query
<1>9. PICK found : found = WithoutPassages(Query(fetch, f))
  OBVIOUS
<1>10. KeyedRows(found) /\ ToSet(found) = {r \in ToSet(fetch) : Selected(r, f) /\ ~r.passage}
  BY <1>4, <1>9, KeyedAmong DEF WithoutPassages, Query
<1>11. PICK best : best = Best(right, n, TRUE)
  OBVIOUS
<1>12. KeyedFacts(read)
  BY <1>8, KeyedAre
<1>13. /\ best \subseteq right /\ IsFiniteSet(best) /\ Cardinality(best) \in Nat
       /\ Cardinality(best) <= n
  BY <1>8, <1>11, <1>12, BestAll DEF KeyedFacts
<1>14. PICK newest : newest = Collected(read, n, TRUE)
  OBVIOUS
<1>15. ToSet(newest) = best
  BY <1>8, <1>11, <1>14, CollectedKeyed DEF Shows
<1>16. PICK rows : rows = Among(found, {r \in ToSet(found) : r.doc \in DocIds(newest)})
  OBVIOUS
<1>17. PICK there : there = {r \in best : r.doc \in DocIds(fetch)}
  OBVIOUS
<1>18. KeyedRows(rows) /\ ToSet(rows) = there
  <2>1. KeyedRows(rows) /\ ToSet(rows) = {r \in ToSet(found) : r.doc \in DocIds(newest)}
    BY <1>10, <1>16, KeyedAmong
  <2>2. ASSUME NEW r \in ToSet(rows) PROVE r \in there
    <3>1. r \in ToSet(fetch)
      BY <1>10, <2>1
    <3>2. PICK s \in best : s.doc = r.doc
      BY <1>15, <2>1 DEF DocIds
    <3>3. s = r
      BY <1>5, <1>6, <1>13, <3>1, <3>2
    <3> QED
      BY <1>17, <3>1, <3>2, <3>3 DEF DocIds
  <2>3. ASSUME NEW r \in there PROVE r \in ToSet(rows)
    <3>1. r \in best /\ r \in right /\ r \in ToSet(scan)
      BY <1>6, <1>13, <1>17
    <3>2. PICK s \in ToSet(fetch) : s.doc = r.doc
      BY <1>17 DEF DocIds
    <3>3. r \in ToSet(fetch)
      BY <1>5, <3>1, <3>2
    <3>4. r \in ToSet(found)
      BY <1>6, <1>10, <3>1, <3>3
    <3> QED
      BY <1>15, <2>1, <3>1, <3>4 DEF DocIds
  <2> QED
    BY <2>1, <2>2, <2>3
<1>19. PICK list : list = RecentListing(scan, fetch, f, n)
  OBVIOUS
<1>20. Shows(list, there, TRUE)
  <2>1. CASE n = 0
    <3>1. list = << >>
      BY <1>19, <2>1 DEF RecentListing
    <3>2. best = {}
      BY <1>13, <2>1, FS_EmptySet
    <3> QED
      BY <1>17, <3>1, <3>2 DEF Shows, ToSet
  <2>2. CASE n # 0
    <3>1. list = Collected(rows, n, TRUE)
      BY <1>7, <1>9, <1>14, <1>16, <1>19, <2>2 DEF RecentListing
    <3>2. Shows(list, Best(there, n, TRUE), TRUE)
      BY <1>18, <3>1, CollectedKeyed
    <3>3. Cardinality(there) <= n /\ IsFiniteSet(there)
      <4>1. there \in SUBSET best
        BY <1>17
      <4>2. IsFiniteSet(there) /\ Cardinality(there) <= Cardinality(best)
            /\ Cardinality(there) \in Nat
        BY <1>13, <4>1, FS_Subset, FS_CardinalityType
      <4> QED
        BY <1>13, <4>2
    <3>4. KeyedFacts(rows)
      BY <1>18, KeyedAre
    <3>5. Best(there, n, TRUE) = there
      BY <1>18, <3>3, <3>4, BestAll DEF KeyedFacts
    <3> QED
      BY <3>2, <3>5
  <2> QED
    BY <2>1, <2>2
<1> QED
  BY <1>1, <1>2, <1>3, <1>4, <1>6, <1>11, <1>17, <1>19, <1>20 DEF ListingExact

(* The first row of each turn, of some rows of a stream of two parts each  *)
(* with one row per turn: those of the second part give way.               *)
InPart(stream, from, to) == {stream[i] : i \in from..to}

PartKeyed(stream, from, to) ==
  \A i, j \in from..to : stream[i].doc = stream[j].doc => i = j

LEMMA FirstAmong ==
  ASSUME NEW stream \in Seq(StoredRow), NEW a \in 0..Len(stream), NEW S \in SUBSET ToSet(stream),
         PartKeyed(stream, 1, a), PartKeyed(stream, a + 1, Len(stream)),
         NEW one, one = S \cap InPart(stream, 1, a),
         NEW two, two = S \cap InPart(stream, a + 1, Len(stream)),
         NEW list, list = Among(stream, S)
  PROVE  FirstRows(list, Len(list)) = one \cup {r \in two : r.doc \notin {s.doc : s \in one}}
<1>1. PICK n \in Nat : n = Len(stream) /\ a \in 0..n /\ DOMAIN stream = 1..n
  OBVIOUS
<1>2. Filtered(list, stream, S) /\ list \in Seq(StoredRow)
  BY AmongIs
<1>3. PICK f : Filters(list, stream, S, f)
  BY <1>2 DEF Filtered
<1>4. PICK m \in Nat : m = Len(list)
  BY <1>2
<1>5. /\ \A p \in 1..m : f[p] \in 1..n /\ list[p] = stream[f[p]] /\ list[p] \in S
      /\ \A i \in 1..n : stream[i] \in S => \E p \in 1..m : f[p] = i
      /\ \A p, q \in 1..m : p < q => f[p] < f[q]
  BY <1>1, <1>3, <1>4 DEF Filters
<1>6. /\ \A i, j \in 1..a : stream[i].doc = stream[j].doc => i = j
      /\ \A i, j \in a + 1..n : stream[i].doc = stream[j].doc => i = j
  BY <1>1 DEF PartKeyed
<1>7. PICK rows : rows = FirstRows(list, m)
  OBVIOUS
<1>8. \A r : r \in rows <=> \E k \in 1..m : r = list[k] /\ \A l \in 1..k - 1 : list[l].doc # list[k].doc
  BY <1>7 DEF FirstRows
<1>9. PICK docs : docs = {s.doc : s \in one}
  OBVIOUS
<1>10. ASSUME NEW r \in rows PROVE r \in one \cup {x \in two : x.doc \notin docs}
  <2>1. PICK k \in 1..m : r = list[k] /\ \A l \in 1..k - 1 : list[l].doc # list[k].doc
    BY <1>8
  <2>2. f[k] \in 1..n /\ r = stream[f[k]] /\ r \in S
    BY <1>5, <2>1
  <2>3. CASE f[k] <= a
    <3>1. f[k] \in 1..a
      BY <1>1, <2>2, <2>3
    <3> QED
      BY <2>2, <3>1 DEF InPart
  <2>4. CASE ~(f[k] <= a)
    <3>1. f[k] \in a + 1..n
      BY <1>1, <2>2, <2>4
    <3>2. r \in two
      BY <1>1, <2>2, <3>1 DEF InPart
    <3>3. ASSUME NEW s \in one, s.doc = r.doc PROVE FALSE
      <4>1. PICK i \in 1..a : s = stream[i]
        BY DEF InPart
      <4>2. i \in 1..n /\ stream[i] \in S /\ i < f[k]
        BY <1>1, <2>2, <2>4, <4>1
      <4>3. PICK p \in 1..m : f[p] = i
        BY <1>5, <4>2
      <4>4. ~(k < p) /\ k # p
        BY <1>5, <2>2, <4>2, <4>3
      <4>5. p \in 1..k - 1
        BY <4>4
      <4>6. list[p] = s
        BY <1>5, <4>1, <4>3
      <4> QED
        BY <2>1, <3>3, <4>5, <4>6
    <3> QED
      BY <1>9, <3>2, <3>3
  <2> QED
    BY <2>3, <2>4
<1>11. ASSUME NEW r \in one \cup {x \in two : x.doc \notin docs} PROVE r \in rows
  <2>1. \E i \in 1..n : /\ r = stream[i] /\ r \in S
                        /\ i \in 1..a \/ (i \in a + 1..n /\ r.doc \notin docs)
    <3>1. CASE r \in one
      <4>1. PICK i \in 1..a : r = stream[i]
        BY <3>1 DEF InPart
      <4> QED
        BY <1>1, <3>1, <4>1
    <3>2. CASE r \in two /\ r.doc \notin docs
      <4>1. PICK i \in a + 1..n : r = stream[i]
        BY <1>1, <3>2 DEF InPart
      <4>2. i \in 1..n
        BY <1>1
      <4> QED
        BY <3>2, <4>1, <4>2
    <3> QED
      BY <3>1, <3>2
  <2>2. PICK i \in 1..n : /\ r = stream[i] /\ r \in S
                          /\ i \in 1..a \/ (i \in a + 1..n /\ r.doc \notin docs)
    BY <2>1
  <2>3. PICK k \in 1..m : f[k] = i
    BY <1>5, <2>2
  <2>4. list[k] = r
    BY <1>5, <2>2, <2>3
  <2>5. ASSUME NEW l \in 1..k - 1, list[l].doc = list[k].doc PROVE FALSE
    <3>1. l \in 1..m /\ l < k
      BY <1>4, <2>3
    <3>2. PICK j \in 1..n : j = f[l] /\ list[l] = stream[j] /\ list[l] \in S /\ j < i
      BY <1>5, <2>3, <3>1
    <3>3. stream[j].doc = stream[i].doc
      BY <2>2, <2>4, <2>5, <3>2
    <3>4. CASE j \in 1..a
      <4>1. stream[j] \in one
        BY <3>2, <3>4 DEF InPart
      <4>2. r.doc \in docs
        BY <1>9, <2>2, <3>3, <4>1
      <4>3. i \in 1..a
        BY <2>2, <4>2
      <4> QED
        BY <1>6, <3>2, <3>3, <3>4, <4>3
    <3>5. CASE j \notin 1..a
      <4>1. j \in a + 1..n /\ i \in a + 1..n
        BY <1>1, <2>2, <3>2, <3>5
      <4> QED
        BY <1>6, <3>2, <3>3, <4>1
    <3> QED
      BY <3>4, <3>5
  <2> QED
    BY <1>8, <2>3, <2>4, <2>5
<1> QED
  BY <1>4, <1>7, <1>9, <1>10, <1>11

(* The hits of the keyword index, as many as are fetched.                  *)
LEMMA FtsHitsAre ==
  ASSUME NEW q, TimelineQuery(q), FtsCap \in Nat, NEW agents,
         NEW wanted, wanted = {r \in ToSet(q.hits) : /\ q.fts /\ q.issue \in r.names
                                                     /\ r.at >= 10 * q.from
                                                     /\ UpTo(r, q.to)
                                                     /\ r.agent \in agents}
  PROVE  /\ KeyedRows(FtsHits(q, agents)) /\ ToSet(FtsHits(q, agents)) \subseteq wanted
         /\ Cardinality(wanted) <= FtsWindow(q) \/ Len(FtsHits(q, agents)) < FtsWindow(q) =>
              ToSet(FtsHits(q, agents)) = wanted
<1>1. PICK hits : hits = FtsHits(q, agents)
  OBVIOUS
<1>2. PICK w \in Nat : w = FtsWindow(q)
  BY DEF FtsWindow, TimelineQuery
<1>3. KeyedRows(q.hits) /\ q.fts \in BOOLEAN
  BY DEF TimelineQuery
<1>4. CASE ~q.fts
  <2>1. hits = << >> /\ wanted = {}
    BY <1>1, <1>4 DEF FtsHits
  <2>2. KeyedRows(hits) /\ ToSet(hits) = {}
    BY <2>1 DEF KeyedRows, ToSet
  <2> QED
    BY <1>1, <2>1, <2>2
<1>5. CASE q.fts
  <2>1. PICK all : all = Among(q.hits, wanted)
    OBVIOUS
  <2>2. hits = First(all, w)
    BY <1>1, <1>2, <1>5, <2>1 DEF FtsHits
  <2>3. KeyedRows(all) /\ ToSet(all) = wanted
    BY <1>3, <2>1, KeyedAmong
  <2>4. KeyedFacts(all)
    BY <2>3, KeyedAre
  <2>5. PICK n \in Nat : n = Len(all) /\ all \in Seq(StoredRow) /\ DOMAIN all = 1..n
    BY <2>3 DEF KeyedRows
  <2>6. Cardinality(wanted) = n
    BY <2>3, <2>4, <2>5 DEF KeyedFacts, Enumerates
  <2>7. Begins(hits, all, w)
    BY <1>2, <2>2, <2>5, FirstIs
  <2>8. wanted = {all[i] : i \in 1..n}
    BY <2>3, <2>5 DEF ToSet
  <2>9. PICK m \in Nat : /\ m = Len(hits) /\ m = IF n < w THEN n ELSE w
                         /\ DOMAIN hits = 1..m /\ hits \in Seq(wanted)
    <3>1. hits \in Seq(wanted)
      BY <2>5, <2>7, <2>8 DEF Begins
    <3>2. Len(hits) = IF n < w THEN n ELSE w
      BY <2>5, <2>7 DEF Begins
    <3> QED
      BY <3>1, <3>2
  <2>10. \A p \in 1..m : p \in 1..n /\ hits[p] = all[p]
    BY <2>5, <2>7, <2>9 DEF Begins
  <2>11. KeyedRows(hits)
    <3>1. wanted \subseteq StoredRow
      BY <2>5, <2>8
    <3>2. \A p, r \in 1..m : hits[p].doc = hits[r].doc => p = r
      BY <2>3, <2>5, <2>10 DEF KeyedRows
    <3> QED
      BY <2>9, <3>1, <3>2 DEF KeyedRows
  <2>12. ToSet(hits) = {hits[p] : p \in 1..m}
    BY <2>9 DEF ToSet
  <2>13. ToSet(hits) \subseteq wanted
    BY <2>8, <2>10, <2>12
  <2>14. ASSUME n <= w \/ m < w PROVE ToSet(hits) = wanted
    <3>1. m = n
      BY <1>2, <2>9, <2>14
    <3> QED
      BY <2>8, <2>10, <2>12, <3>1
  <2> QED
    BY <1>1, <1>2, <2>6, <2>9, <2>11, <2>13, <2>14
<1> QED
  BY <1>3, <1>4, <1>5

(* Two lists, one after the other.                                         *)
Parted(xy, a, n, S, T) ==
  /\ xy \in Seq(StoredRow) /\ a \in 0..n
  /\ InPart(xy, 1, a) = S /\ InPart(xy, a + 1, n) = T
  /\ PartKeyed(xy, 1, a) /\ PartKeyed(xy, a + 1, n)
  /\ ToSet(xy) = S \cup T

LEMMA BothParts ==
  ASSUME NEW x, KeyedRows(x), NEW y, KeyedRows(y), NEW xy, xy = x \o y
  PROVE  Parted(xy, Len(x), Len(xy), ToSet(x), ToSet(y))
<1>1. PICK a \in Nat : a = Len(x) /\ x \in Seq(StoredRow) /\ DOMAIN x = 1..a
  BY DEF KeyedRows
<1>2. PICK b \in Nat : b = Len(y) /\ y \in Seq(StoredRow) /\ DOMAIN y = 1..b
  BY DEF KeyedRows
<1>3. PICK n \in Nat : n = a + b
  OBVIOUS
<1>4. xy \in Seq(StoredRow) /\ Len(xy) = n /\ DOMAIN xy = 1..n
  BY <1>1, <1>2, <1>3
<1>5. \A i \in 1..a : xy[i] = x[i]
  BY <1>1, <1>2
<1>6. \A i \in a + 1..n : i - a \in 1..b /\ xy[i] = y[i - a]
  BY <1>1, <1>2, <1>3
<1>7. \A i \in 1..b : a + i \in a + 1..n /\ xy[a + i] = y[i]
  BY <1>1, <1>2, <1>3
<1>8. ToSet(x) = {x[i] : i \in 1..a} /\ ToSet(y) = {y[i] : i \in 1..b}
      /\ ToSet(xy) = {xy[i] : i \in 1..n}
  BY <1>1, <1>2, <1>4 DEF ToSet
<1>9. InPart(xy, 1, a) = ToSet(x)
  BY <1>5, <1>8 DEF InPart
<1>10. InPart(xy, a + 1, n) = ToSet(y)
  <2>1. ASSUME NEW i \in a + 1..n PROVE xy[i] \in ToSet(y)
    BY <1>6, <1>8
  <2>2. ASSUME NEW i \in 1..b PROVE y[i] \in InPart(xy, a + 1, n)
    BY <1>7 DEF InPart
  <2>3. InPart(xy, a + 1, n) \subseteq ToSet(y)
    BY <2>1 DEF InPart
  <2> QED
    BY <1>8, <2>2, <2>3
<1>11. PartKeyed(xy, 1, a)
  BY <1>1, <1>5 DEF PartKeyed, KeyedRows
<1>12. PartKeyed(xy, a + 1, n)
  <2> SUFFICES ASSUME NEW i \in a + 1..n, NEW j \in a + 1..n, xy[i].doc = xy[j].doc PROVE i = j
    BY DEF PartKeyed
  <2>1. \A k, l \in 1..b : y[k].doc = y[l].doc => k = l
    BY <1>2 DEF KeyedRows
  <2>2. i - a \in 1..b /\ j - a \in 1..b /\ y[i - a].doc = y[j - a].doc
    BY <1>6
  <2>3. i - a = j - a
    BY <2>1, <2>2
  <2> QED
    BY <2>3
<1>13. ToSet(xy) = ToSet(x) \cup ToSet(y)
  <2>1. 1..n = (1..a) \cup (a + 1..n)
    BY <1>3
  <2>2. ToSet(xy) = InPart(xy, 1, a) \cup InPart(xy, a + 1, n)
    BY <1>8, <2>1 DEF InPart
  <2> QED
    BY <1>9, <1>10, <2>2
<1> QED
  BY <1>1, <1>3, <1>4, <1>9, <1>10, <1>11, <1>12, <1>13 DEF Parted

LEMMA KeyedBoth ==
  ASSUME NEW x, KeyedRows(x), NEW y, KeyedRows(y), NEW xy, xy = x \o y,
         \A r \in ToSet(x), s \in ToSet(y) : r.doc # s.doc
  PROVE  KeyedRows(xy) /\ ToSet(xy) = ToSet(x) \cup ToSet(y)
<1>1. PICK a \in Nat : a = Len(x)
  BY DEF KeyedRows
<1>2. Parted(xy, a, Len(xy), ToSet(x), ToSet(y))
  BY <1>1, BothParts
<1>3. PICK n \in Nat : n = Len(xy) /\ Parted(xy, a, n, ToSet(x), ToSet(y))
  BY <1>2 DEF Parted
<1>4. ASSUME NEW i \in 1..n, NEW j \in 1..n, xy[i].doc = xy[j].doc PROVE i = j
  <2>1. /\ i \in 1..a => xy[i] \in ToSet(x)
        /\ j \in 1..a => xy[j] \in ToSet(x)
        /\ i \in a + 1..n => xy[i] \in ToSet(y)
        /\ j \in a + 1..n => xy[j] \in ToSet(y)
    BY <1>3 DEF InPart, Parted
  <2>2. /\ i \in 1..a \/ i \in a + 1..n
        /\ j \in 1..a \/ j \in a + 1..n
    BY <1>1, <1>3 DEF Parted
  <2>3. /\ i \in 1..a /\ j \in 1..a => i = j
        /\ i \in a + 1..n /\ j \in a + 1..n => i = j
    BY <1>3, <1>4 DEF PartKeyed, Parted
  <2> QED
    BY <1>4, <2>1, <2>2, <2>3
<1> QED
  BY <1>3, <1>4 DEF KeyedRows, Parted

(* A timeline shows the best of all that match, and counts what it hides.  *)
LEMMA TimelineHolds ==
  ASSUME NEW q, TimelineQuery(q), FtsCap \in Nat
  PROVE  TimelineExact(q, Timeline(q)) /\ Timeline(q).entries \in Seq(StoredRow)
<1> DEFINE Matches(r) == TimelineMatches(q, r)
           Hides(r) == TimelineHidden(q, r)
           InBounds(r) == r.at >= 10 * q.from /\ UpTo(r, q.to)
<1>1. PICK rows : rows = q.rows /\ KeyedRows(rows)
  BY DEF TimelineQuery
<1>2. PICK hits : hits = q.hits /\ KeyedRows(hits)
  BY DEF TimelineQuery
<1>3. PICK limit \in Nat : limit = q.limit
  BY DEF TimelineQuery
<1>4. PICK newest \in BOOLEAN : newest = q.newest
  BY DEF TimelineQuery
<1>5. q.subagents \in BOOLEAN /\ q.fts \in BOOLEAN
  BY DEF TimelineQuery
<1>6. \A r \in ToSet(rows), s \in ToSet(hits) : r.doc = s.doc => s = [r EXCEPT !.stored = s.stored]
  BY <1>1, <1>2 DEF TimelineQuery
<1>7. KeyedFacts(rows) /\ KeyedFacts(hits)
  BY <1>1, <1>2, KeyedAre
<1>8. \A r \in ToSet(rows) \cup ToSet(hits) : r \in StoredRow
  BY <1>7 DEF KeyedFacts
<1>9. ASSUME NEW r \in ToSet(rows), NEW s \in ToSet(hits), r.doc = s.doc
      PROVE  /\ r.at = s.at /\ r.tags = s.tags /\ r.names = s.names /\ r.agent = s.agent
             /\ Matches(r) = Matches(s) /\ Hides(r) = Hides(s) /\ InBounds(r) = InBounds(s)
  <2>1. PICK copy : copy = s.stored
    OBVIOUS
  <2>2. s = [r EXCEPT !.stored = copy]
    BY <1>6, <1>9, <2>1
  <2>3. r \in StoredRow
    BY <1>8
  <2>4. /\ r.at = s.at /\ r.tags = s.tags /\ r.names = s.names /\ r.agent = s.agent
        /\ r.provider = s.provider /\ r.passage = s.passage
    BY <2>2, <2>3 DEF StoredRow
  <2> QED
    BY <2>4 DEF TimelineMatches, TimelineHidden, UpTo
<1>10. PICK cap : cap = FtsWindow(q)
  OBVIOUS
<1>11. PICK tag : tag = Query(rows, TimelineFilter(q))
  OBVIOUS
<1>12. PICK T : T = {r \in ToSet(rows) : InBounds(r) /\ q.issue \in r.tags}
  OBVIOUS
<1>13. KeyedRows(tag) /\ ToSet(tag) = T
  <2>1. ASSUME NEW r \in ToSet(rows)
        PROVE  Selected(r, TimelineFilter(q)) <=> InBounds(r) /\ q.issue \in r.tags
    BY DEF Selected, TimelineFilter, NoFilter, In
  <2> QED
    BY <1>1, <1>11, <1>12, <2>1, KeyedAmong DEF Query
<1> DEFINE Sought(agents) == {r \in ToSet(q.hits) : /\ q.fts /\ q.issue \in r.names
                                                    /\ r.at >= 10 * q.from
                                                    /\ UpTo(r, q.to)
                                                    /\ r.agent \in agents}
<1>14. PICK seen : seen = IF q.subagents THEN BOOLEAN ELSE {FALSE}
  OBVIOUS
<1>15. PICK V : V = Sought(seen)
  OBVIOUS
<1>16. PICK H : H = IF q.subagents THEN {} ELSE Sought({TRUE})
  OBVIOUS
<1>17. PICK vis : vis = VisibleHits(q)
  OBVIOUS
<1>18. PICK hid : hid = HiddenHits(q)
  OBVIOUS
<1>19. /\ KeyedRows(vis) /\ ToSet(vis) \subseteq V
       /\ Cardinality(V) <= cap => ToSet(vis) = V
  <2>1. vis = FtsHits(q, seen)
    BY <1>14, <1>17 DEF VisibleHits
  <2> QED
    BY <1>10, <1>15, <2>1, FtsHitsAre
<1>20. /\ KeyedRows(hid) /\ ToSet(hid) \subseteq H
       /\ Cardinality(H) <= cap \/ Len(hid) < cap => ToSet(hid) = H
  <2>1. CASE q.subagents
    <3>1. hid = << >> /\ H = {}
      BY <1>16, <1>18, <2>1 DEF HiddenHits
    <3> QED
      BY <3>1 DEF KeyedRows, ToSet
  <2>2. CASE ~q.subagents
    BY <1>10, <1>16, <1>18, <2>2, FtsHitsAre DEF HiddenHits
  <2> QED
    BY <2>1, <2>2
<1>21. \A r \in V \cup H : /\ r \in ToSet(hits) /\ q.fts /\ q.issue \in r.names /\ InBounds(r)
                           /\ q.subagents => r \in V
                           /\ ~q.subagents => (r \in V <=> ~r.agent) /\ (r \in H <=> r.agent)
  <2>1. \A r \in ToSet(hits) : r.agent \in BOOLEAN
    BY <1>8 DEF StoredRow
  <2> QED
    BY <1>2, <1>14, <1>15, <1>16, <2>1
<1>22. PICK stream : stream = TimelineStream(q)
  OBVIOUS
<1>23. PICK rest : rest = vis \o hid
  OBVIOUS
<1>24. KeyedRows(rest) /\ ToSet(rest) = ToSet(vis) \cup ToSet(hid)
  <2>1. ASSUME NEW r \in ToSet(vis), NEW s \in ToSet(hid) PROVE r.doc # s.doc
    <3>1. r \in V /\ s \in H /\ r \in ToSet(hits) /\ s \in ToSet(hits)
      BY <1>19, <1>20, <1>21
    <3>2. ~q.subagents
      BY <1>16, <3>1
    <3>3. r # s
      BY <1>21, <3>1, <3>2
    <3> QED
      BY <1>7, <3>1, <3>3 DEF KeyedFacts, Keyed
  <2> QED
    BY <1>19, <1>20, <1>23, <2>1, KeyedBoth
<1>25. stream = tag \o rest
  <2>1. vis \in Seq(StoredRow) /\ hid \in Seq(StoredRow) /\ tag \in Seq(StoredRow)
    BY <1>13, <1>19, <1>20 DEF KeyedRows
  <2>2. stream = (tag \o vis) \o hid
    BY <1>1, <1>11, <1>17, <1>18, <1>22 DEF TimelineStream
  <2>3. (tag \o vis) \o hid = tag \o (vis \o hid)
    BY <2>1
  <2> QED
    BY <1>23, <2>2, <2>3
<1>26. PICK a \in Nat : a = Len(tag)
  BY <1>13 DEF KeyedRows
<1>27. Parted(stream, a, Len(stream), T, ToSet(rest))
  BY <1>13, <1>24, <1>25, <1>26, BothParts
<1>28. PICK n \in Nat :
         /\ n = Len(stream) /\ stream \in Seq(StoredRow) /\ a \in 0..n
         /\ InPart(stream, 1, a) = T /\ InPart(stream, a + 1, n) = ToSet(rest)
         /\ PartKeyed(stream, 1, a) /\ PartKeyed(stream, a + 1, n)
         /\ ToSet(stream) = T \cup ToSet(rest)
  BY <1>27 DEF Parted
<1>29. ToSet(rest) \subseteq V \cup H
  BY <1>19, <1>20, <1>24
<1>30. T \subseteq ToSet(rows) /\ ToSet(rest) \subseteq ToSet(hits)
  BY <1>12, <1>21, <1>29
<1>31. PICK matching : matching = {r \in ToSet(stream) : Matches(r)}
  OBVIOUS
<1>32. PICK entered : entered = {r \in matching : ~Hides(r)}
  OBVIOUS
<1>33. PICK list : list = Among(stream, entered)
  OBVIOUS
<1>34. PICK one : one = entered \cap T
  OBVIOUS
<1>35. PICK two : two = entered \cap ToSet(rest)
  OBVIOUS
<1>36. FirstRows(list, Len(list)) = one \cup {r \in two : r.doc \notin {s.doc : s \in one}}
  <2>1. entered \in SUBSET ToSet(stream)
    BY <1>31, <1>32
  <2> QED
    BY SMTT(20), <1>28, <1>33, <1>34, <1>35, <2>1, FirstAmong
<1>37. list \in Seq(StoredRow) /\ ToSet(list) \subseteq T \cup ToSet(rest)
  BY <1>28, <1>33, AmongIs
<1>38. SameTimes(list)
  <2>1. ASSUME NEW r \in T \cup ToSet(rest), NEW s \in T \cup ToSet(rest), r.doc = s.doc
        PROVE  r.at = s.at
    <3>1. CASE r \in T /\ s \in T
      BY <1>7, <1>30, <2>1, <3>1 DEF KeyedFacts, Keyed
    <3>2. CASE r \in ToSet(rest) /\ s \in ToSet(rest)
      BY <1>7, <1>30, <2>1, <3>2 DEF KeyedFacts, Keyed
    <3>3. CASE r \in T /\ s \in ToSet(rest)
      BY <1>9, <1>30, <2>1, <3>3
    <3>4. CASE r \in ToSet(rest) /\ s \in T
      BY <1>9, <1>30, <2>1, <3>4
    <3> QED
      BY <2>1, <3>1, <3>2, <3>3, <3>4
  <2>2. \A i \in 1..Len(list) : list[i] \in ToSet(list)
    BY <1>37 DEF ToSet
  <2> QED
    BY <1>37, <2>1, <2>2 DEF SameTimes
<1>39. PICK line : line = Timeline(q)
  OBVIOUS
<1>40. /\ line.entries = Collected(list, limit, newest)
       /\ line.hidden = Cardinality({r.doc : r \in matching \ entered})
       /\ line.capped = (Len(hid) >= cap)
  BY <1>3, <1>4, <1>10, <1>18, <1>22, <1>31, <1>32, <1>33, <1>39 DEF Timeline
<1>41. /\ Shows(line.entries, Best(FirstRows(list, Len(list)), limit, newest), newest)
       /\ line.entries \in Seq(StoredRow)
  BY <1>37, <1>38, <1>40, CollectedIs
<1>42. PICK tagged : tagged = {r \in ToSet(rows) : q.issue \in r.tags}
  OBVIOUS
<1>43. PICK docs : docs = {s.doc : s \in tagged}
  OBVIOUS
<1>44. PICK named : named = {r \in IF q.fts THEN ToSet(hits) ELSE {} :
                               q.issue \in r.names /\ r.doc \notin docs}
  OBVIOUS
<1>45. PICK right : right = {r \in tagged \cup named : Matches(r)}
  OBVIOUS
<1>46. PICK shown : shown = {r \in right : ~Hides(r)}
  OBVIOUS
<1>47. PICK whole : whole = (Cardinality({r \in ToSet(hits) : q.issue \in r.names}) <= cap)
  OBVIOUS
<1>48. \A r : Matches(r) => InBounds(r)
  BY DEF TimelineMatches
<1>49. {r \in tagged : Matches(r)} = {r \in T : Matches(r)}
  BY <1>12, <1>42, <1>48
<1>50. ASSUME NEW r \in two, NEW s \in tagged, s.doc = r.doc PROVE s \in one
  <2>1. r \in ToSet(hits) /\ s \in ToSet(rows) /\ r \in entered /\ Matches(r) /\ ~Hides(r)
    BY <1>30, <1>31, <1>32, <1>35, <1>42
  <2>2. Matches(s) /\ ~Hides(s) /\ InBounds(s)
    BY <1>9, <1>48, <1>50, <2>1
  <2>3. s \in T /\ s \in matching
    BY <1>12, <1>28, <1>31, <1>42, <2>2
  <2> QED
    BY <1>32, <1>34, <2>2, <2>3
<1>51. ASSUME whole PROVE FirstRows(list, Len(list)) = shown
  <2>1. IsFiniteSet({r \in ToSet(hits) : q.issue \in r.names})
        /\ Cardinality({r \in ToSet(hits) : q.issue \in r.names}) <= cap
    BY <1>7, <1>47, <1>51, FS_Subset DEF KeyedFacts
  <2>2. V \in SUBSET {r \in ToSet(hits) : q.issue \in r.names}
    BY <1>21
  <2>3. Cardinality(V) <= cap
    <3>1. cap \in Nat
      BY <1>10 DEF FtsWindow, TimelineQuery
    <3> QED
      BY <2>1, <2>2, <3>1, FS_Subset, FS_CardinalityType
  <2>4. ToSet(vis) = V
    BY <1>19, <2>3
  <2>5. ASSUME NEW r \in one PROVE r \in shown
    BY <1>12, <1>31, <1>32, <1>34, <1>42, <1>45, <1>46
  <2>6. ASSUME NEW r \in two, r.doc \notin {s.doc : s \in one} PROVE r \in shown
    <3>1. r.doc \notin docs
      BY <1>43, <1>50, <2>6
    <3>2. r \in V \cup H /\ Matches(r) /\ ~Hides(r)
      BY <1>29, <1>31, <1>32, <1>35
    <3>3. r \in named
      BY <1>21, <1>44, <3>1, <3>2
    <3> QED
      BY <1>45, <1>46, <3>2, <3>3
  <2>7. ASSUME NEW r \in shown
        PROVE  r \in one \/ (r \in two /\ r.doc \notin {s.doc : s \in one})
    <3>1. Matches(r) /\ ~Hides(r) /\ InBounds(r)
      BY <1>45, <1>46, <1>48
    <3>2. CASE r \in tagged
      <4>1. r \in T
        BY <1>12, <1>42, <3>1, <3>2
      <4> QED
        BY <1>28, <1>31, <1>32, <1>34, <3>1, <4>1
    <3>3. CASE r \notin tagged
      <4>1. r \in named
        BY <1>45, <1>46, <3>3
      <4>2. q.fts /\ r \in ToSet(hits) /\ q.issue \in r.names /\ r.doc \notin docs
        BY <1>44, <4>1
      <4>3. r.agent \in BOOLEAN
        BY <1>8, <4>2 DEF StoredRow
      <4>4. r.agent \in seen
        BY <1>14, <3>1, <4>3 DEF TimelineHidden
      <4>5. r \in V
        BY <1>2, <1>15, <3>1, <4>2, <4>4
      <4>6. r \in two
        BY <1>24, <1>28, <1>31, <1>32, <1>35, <2>4, <3>1, <4>5
      <4>7. r.doc \notin {s.doc : s \in one}
        BY <1>12, <1>34, <1>42, <1>43, <4>2
      <4> QED
        BY <4>6, <4>7
    <3> QED
      BY <3>2, <3>3
  <2> QED
    BY <1>36, <2>5, <2>6, <2>7
<1>52. ASSUME ~line.capped PROVE line.hidden = Cardinality(right \ shown)
  <2>1. PICK hides : hides = right \ shown
    OBVIOUS
  <2>2. hides = {r \in right : Hides(r)}
    BY <1>46, <2>1
  <2>3. PICK hiding : hiding = matching \ entered
    OBVIOUS
  <2>4. hiding = {r \in matching : Hides(r)}
    BY <1>32, <2>3
  <2>5. ToSet(hid) = H
    <3>1. ~(Len(hid) >= cap)
      BY <1>40, <1>52
    <3>2. cap \in Nat
      BY <1>10 DEF FtsWindow, TimelineQuery
    <3>3. Len(hid) \in Nat
      BY <1>20 DEF KeyedRows
    <3>4. Len(hid) < cap
      BY <3>1, <3>2, <3>3
    <3> QED
      BY <1>20, <3>4
  <2>6. {r.doc : r \in hiding} = {r.doc : r \in hides}
    <3>1. ASSUME NEW r \in hiding PROVE \E s \in hides : s.doc = r.doc
      <4>1. Matches(r) /\ Hides(r) /\ InBounds(r) /\ r \in T \cup ToSet(rest)
        BY <1>28, <1>31, <1>48, <2>4
      <4>2. CASE r \in T
        <5>1. r \in right
          BY <1>12, <1>42, <1>45, <4>1, <4>2
        <5> QED
          BY <2>2, <4>1, <5>1
      <4>3. CASE r \in ToSet(rest)
        <5>1. r \in ToSet(hits) /\ q.fts /\ q.issue \in r.names
          BY <1>21, <1>29, <4>3
        <5>2. CASE r.doc \in docs
          <6>1. PICK s \in tagged : s.doc = r.doc
            BY <1>43, <5>2
          <6>2. s \in ToSet(rows) /\ Matches(s) /\ Hides(s)
            BY <1>9, <1>42, <4>1, <5>1, <6>1
          <6>3. s \in hides
            BY <1>45, <2>2, <6>1, <6>2
          <6> QED
            BY <6>1, <6>3
        <5>3. CASE r.doc \notin docs
          <6>1. r \in named
            BY <1>44, <5>1, <5>3
          <6> QED
            BY <1>45, <2>2, <4>1, <6>1
        <5> QED
          BY <5>2, <5>3
      <4> QED
        BY <4>1, <4>2, <4>3
    <3>2. ASSUME NEW r \in hides PROVE r \in hiding
      <4>1. Matches(r) /\ Hides(r) /\ InBounds(r) /\ r \in right
        BY <1>45, <1>48, <2>2
      <4>2. CASE r \in tagged
        <5>1. r \in T
          BY <1>12, <1>42, <4>1, <4>2
        <5> QED
          BY <1>28, <1>31, <2>4, <4>1, <5>1
      <4>3. CASE r \notin tagged
        <5>1. r \in named
          BY <1>45, <4>1, <4>3
        <5>2. q.fts /\ r \in ToSet(hits) /\ q.issue \in r.names
          BY <1>44, <5>1
        <5>3. ~q.subagents /\ r.agent
          BY <4>1 DEF TimelineHidden
        <5>4. r.agent = TRUE
          BY <1>8, <5>2, <5>3 DEF StoredRow
        <5>5. r \in H
          BY <1>2, <1>16, <4>1, <5>2, <5>3, <5>4
        <5> QED
          BY <1>24, <1>28, <1>31, <2>4, <2>5, <4>1, <5>5
      <4> QED
        BY <4>2, <4>3
    <3>3. \A r \in hiding : r.doc \in {s.doc : s \in hides}
      BY <3>1
    <3>4. \A r \in hides : r.doc \in {s.doc : s \in hiding}
      BY <3>2
    <3> QED
      BY <3>3, <3>4
  <2>7. ASSUME NEW r \in hides, NEW s \in hides, r.doc = s.doc PROVE r = s
    <3>1. r \in tagged \cup named /\ s \in tagged \cup named
      BY <1>45, <2>2
    <3>2. tagged \subseteq ToSet(rows) /\ named \subseteq ToSet(hits)
          /\ \A x \in tagged, y \in named : x.doc # y.doc
      BY <1>42, <1>43, <1>44
    <3>3. (r \in tagged /\ s \in tagged) \/ (r \in named /\ s \in named)
      BY <2>7, <3>1, <3>2
    <3> QED
      BY <1>7, <2>7, <3>2, <3>3 DEF KeyedFacts, Keyed
  <2>8. IsFiniteSet(hides)
    <3>1. hides \in SUBSET (ToSet(rows) \cup ToSet(hits))
      BY <1>42, <1>44, <1>45, <2>2
    <3>2. IsFiniteSet(ToSet(rows)) /\ IsFiniteSet(ToSet(hits))
      BY <1>7 DEF KeyedFacts
    <3>3. IsFiniteSet(ToSet(rows) \cup ToSet(hits))
      BY <3>2, FS_Union
    <3> QED
      BY <3>1, <3>3, FS_Subset
  <2>9. PICK doc : doc = [r \in hides |-> r.doc]
    OBVIOUS
  <2>10. PICK D : D = {doc[r] : r \in hides}
    OBVIOUS
  <2>11. Imaged(doc, hides, D)
    BY <2>8, <2>10, Images
  <2>12. Cardinality(D) = Cardinality(hides)
    BY <2>7, <2>9, <2>11 DEF Imaged
  <2>13. D = {r.doc : r \in hides}
    BY <2>9, <2>10
  <2> QED
    BY <1>40, <2>1, <2>3, <2>6, <2>12, <2>13
<1> QED
  BY <1>1, <1>2, <1>3, <1>4, <1>10, <1>39, <1>41, <1>42, <1>43, <1>44, <1>45, <1>46, <1>47,
     <1>51, <1>52 DEF TimelineExact

LEMMA ToSetBoth ==
  ASSUME NEW T, NEW x \in Seq(T), NEW y \in Seq(T)
  PROVE  x \o y \in Seq(T) /\ ToSet(x \o y) = ToSet(x) \cup ToSet(y)
<1>1. PICK a \in Nat : a = Len(x) /\ DOMAIN x = 1..a
  OBVIOUS
<1>2. PICK b \in Nat : b = Len(y) /\ DOMAIN y = 1..b
  OBVIOUS
<1>3. PICK xy : xy = x \o y
  OBVIOUS
<1>4. xy \in Seq(T) /\ Len(xy) = a + b /\ DOMAIN xy = 1..(a + b)
  <2>1. x \o y \in Seq(T)
    OBVIOUS
  <2> QED
    BY <1>1, <1>2, <1>3, <2>1
<1>5. \A i \in 1..(a + b) : xy[i] = IF i <= a THEN x[i] ELSE y[i - a]
  BY <1>1, <1>2, <1>3
<1>6. /\ ToSet(x) = {x[i] : i \in 1..a} /\ ToSet(y) = {y[i] : i \in 1..b}
      /\ ToSet(xy) = {xy[i] : i \in 1..(a + b)}
  BY <1>1, <1>2, <1>4 DEF ToSet
<1>7. ASSUME NEW i \in 1..(a + b) PROVE xy[i] \in ToSet(x) \cup ToSet(y)
  <2>1. CASE i <= a
    BY <1>5, <1>6, <2>1
  <2>2. CASE ~(i <= a)
    <3>1. i - a \in 1..b
      BY <2>2
    <3> QED
      BY <1>5, <1>6, <2>2, <3>1
  <2> QED
    BY <2>1, <2>2
<1>8. ASSUME NEW i \in 1..a PROVE x[i] \in ToSet(xy)
  <2>1. i \in 1..(a + b) /\ xy[i] = x[i]
    BY <1>5
  <2> QED
    BY <1>6, <2>1
<1>9. ASSUME NEW i \in 1..b PROVE y[i] \in ToSet(xy)
  <2>1. a + i \in 1..(a + b) /\ ~(a + i <= a) /\ (a + i) - a = i
    OBVIOUS
  <2>2. xy[a + i] = y[i]
    BY <1>5, <2>1
  <2> QED
    BY <1>6, <2>1, <2>2
<1>10. ToSet(xy) = ToSet(x) \cup ToSet(y)
  BY <1>6, <1>7, <1>8, <1>9
<1> QED
  BY <1>3, <1>4, <1>10

(* The newest turns of an issue, when all its hits are fetched.            *)
AllFetched(q, issue) ==
  Cardinality({r \in ToSet(q.hits[issue]) : issue \in r.names})
    <= FtsWindow([limit |-> ScanLimit])

LEMMA IssueLineIs ==
  ASSUME NEW q, IssueQuery(q), NEW issue \in q.issues, ScanLimit \in Nat, FtsCap \in Nat,
         AllFetched(q, issue)
  PROVE  /\ IssueLine(q, issue) \in Seq(StoredRow)
         /\ ToSet(IssueLine(q, issue)) = Best(Naming(q, issue), ScanLimit, TRUE)
<1>1. PICK hits : hits = q.hits[issue] /\ KeyedRows(hits)
  BY DEF IssueQuery
<1>2. PICK rows : rows = q.rows /\ KeyedRows(rows)
  BY DEF IssueQuery
<1>3. ASSUME NEW r \in ToSet(rows), NEW s \in ToSet(hits), r.doc = s.doc
      PROVE  s = [r EXCEPT !.stored = s.stored]
  <2>1. PICK kept : kept = ToSet(q.rows) \cup UNION {ToSet(q.hits[i]) : i \in q.issues}
    OBVIOUS
  <2>2. \A x, y \in kept : x.doc = y.doc => y = [x EXCEPT !.stored = y.stored]
    BY <2>1 DEF IssueQuery
  <2>3. r \in kept /\ s \in kept
    BY <1>1, <1>2, <2>1
  <2> QED
    BY <1>3, <2>2, <2>3
<1>4. PICK t : t = [rows |-> rows, hits |-> hits, issue |-> issue, providers |-> {},
                    from |-> 0, to |-> 0, limit |-> ScanLimit, newest |-> TRUE,
                    subagents |-> TRUE, fts |-> TRUE]
  OBVIOUS
<1>5. /\ t.rows = rows /\ t.hits = hits /\ t.issue = issue /\ t.providers = {} /\ t.from = 0
      /\ t.to = 0 /\ t.limit = ScanLimit /\ t.newest = TRUE /\ t.subagents = TRUE /\ t.fts = TRUE
  BY <1>4
<1>6. TimelineQuery(t)
  BY <1>1, <1>2, <1>3, <1>5 DEF TimelineQuery
<1>7. PICK line : line = Timeline(t)
  OBVIOUS
<1>8. PICK entries : entries = line.entries
  OBVIOUS
<1>9. TimelineExact(t, line) /\ entries \in Seq(StoredRow)
  BY <1>6, <1>7, <1>8, TimelineHolds
<1>10. IssueLine(q, issue) = entries
  BY <1>1, <1>2, <1>4, <1>7, <1>8 DEF IssueLine
<1>11. PICK tagged : tagged = {r \in ToSet(rows) : issue \in r.tags}
  OBVIOUS
<1>12. PICK docs : docs = {s.doc : s \in tagged}
  OBVIOUS
<1>13. PICK named : named = {r \in ToSet(hits) : issue \in r.names /\ r.doc \notin docs}
  OBVIOUS
<1>14. PICK right : right = {r \in tagged \cup named : TimelineMatches(t, r)}
  OBVIOUS
<1>15. PICK shown : shown = {r \in right : ~TimelineHidden(t, r)}
  OBVIOUS
<1>16. FtsWindow(t) = FtsWindow([limit |-> ScanLimit])
  BY <1>5 DEF FtsWindow
<1>17. Cardinality({r \in ToSet(hits) : issue \in r.names}) <= FtsWindow(t)
  BY <1>1, <1>16 DEF AllFetched
<1>18. Shows(entries, Best(shown, ScanLimit, TRUE), TRUE)
  BY <1>5, <1>8, <1>9, <1>11, <1>12, <1>13, <1>14, <1>15, <1>17, Zenon DEF TimelineExact
<1>19. \A r \in tagged \cup named : r.at \in Nat /\ issue \in r.tags \cup r.names
  <2>1. ToSet(rows) \in SUBSET StoredRow /\ ToSet(hits) \in SUBSET StoredRow
    BY <1>1, <1>2, KeyedAre DEF KeyedFacts
  <2> QED
    BY <1>11, <1>13, <2>1 DEF StoredRow
<1>20. ASSUME NEW r \in tagged \cup named
       PROVE  (TimelineMatches(t, r) <=> ~r.passage) /\ ~TimelineHidden(t, r)
  BY <1>5, <1>19 DEF TimelineMatches, TimelineHidden, In, UpTo
<1>21. shown = {r \in tagged \cup named : ~r.passage}
  BY <1>14, <1>15, <1>20
<1>22. Naming(q, issue) = {r \in tagged \cup named : ~r.passage}
  BY <1>1, <1>2, <1>11, <1>12, <1>13 DEF Naming
<1> QED
  BY <1>9, <1>10, <1>18, <1>21, <1>22 DEF Shows

(* The rows of some issues.                                                *)
Scanned(q, issues) == UNION {Best(Naming(q, i), ScanLimit, TRUE) : i \in issues}

LEMMA IssuesReadAre ==
  ASSUME NEW q, IssueQuery(q), ScanLimit \in Nat, FtsCap \in Nat,
         NEW issues, issues = q.issues, \A i \in issues : AllFetched(q, i)
  PROVE  IssuesRead(q) \in Seq(StoredRow) /\ ToSet(IssuesRead(q)) = Scanned(q, issues)
<1>0. issues \in SUBSET Nat /\ IsFiniteSet(issues)
  BY DEF IssueQuery
<1> DEFINE order == Sorted(issues, {p \in issues \X issues : p[1] < p[2]})
           Solves(f) == f = [i \in 0..Len(order) |->
                               IF i = 0 THEN << >> ELSE f[i - 1] \o IssueLine(q, order[i])]
           found == CHOOSE f : Solves(f)
<1>1. IssuesRead(q) = found[Len(order)]
  BY Zenon DEF IssuesRead
<1>2. PICK R : R = {p \in issues \X issues : p[1] < p[2]}
  OBVIOUS
<1>20. order = Sorted(issues, R)
  BY <1>2
<1> HIDE DEF order
<1>3. PICK n \in Nat : /\ n = Len(order) /\ \A i \in 1..n : order[i] \in issues
                       /\ \A x \in issues : \E i \in 1..n : order[i] = x
  <2>1. Orders(R, issues)
    BY <1>0, <1>2 DEF Orders
  <2>2. order = ByRank(R, issues)
    BY <1>20 DEF Sorted, ByRank, RankIn, Preceding
  <2>3. Arranges(order, R, issues)
    BY <1>0, <2>1, <2>2, Arranged
  <2>4. PICK m \in Nat : m = Cardinality(issues) /\ order \in [1..m -> issues]
    BY <2>3 DEF Arranges
  <2>5. Len(order) = m
    BY <2>4
  <2> QED
    BY <2>3, <2>4, <2>5 DEF Arranges
<1>4. PICK piece : piece = [i \in 1..n |-> IssueLine(q, order[i])]
  OBVIOUS
<1>5. ASSUME NEW i \in 1..n
      PROVE  /\ piece[i] = IssueLine(q, order[i]) /\ piece[i] \in Seq(StoredRow)
             /\ ToSet(piece[i]) = Best(Naming(q, order[i]), ScanLimit, TRUE)
  BY <1>3, <1>4, IssueLineIs
<1>6. PICK step : step = [i \in 1..n |-> [s \in Seq(StoredRow) |-> s \o piece[i]]]
  OBVIOUS
<1>7. step \in [1..n -> [Seq(StoredRow) -> Seq(StoredRow)]]
  <2>1. \A i \in 1..n : piece[i] \in Seq(StoredRow)
    BY <1>5
  <2> QED
    BY <1>6, <2>1
<1>8. Iteration(Seq(StoredRow), << >>, n, step)
  <2>1. << >> \in Seq(StoredRow)
    OBVIOUS
  <2> QED
    BY <1>7, <2>1, Iterates
<1>9. PICK g \in [0..n -> Seq(StoredRow)] :
        g[0] = << >> /\ \A i \in 1..n : g[i] = step[i][g[i - 1]]
  BY <1>8 DEF Iteration
<1>10. Solves(g)
  <2>1. ASSUME NEW i \in 0..n
        PROVE  g[i] = IF i = 0 THEN << >> ELSE g[i - 1] \o IssueLine(q, order[i])
    <3>1. CASE i = 0
      BY <1>9, <3>1
    <3>2. CASE i # 0
      <4>1. i \in 1..n /\ i - 1 \in 0..n
        BY <3>2
      <4> QED
        BY <1>5, <1>6, <1>9, <3>2, <4>1
    <3> QED
      BY <3>1, <3>2
  <2> QED
    BY <1>3, <1>9, <2>1
<1>11. Solves(found)
  <2> HIDE DEF Solves
  <2> QED
    BY <1>10, Zenon
<1>12. IssuesRead(q) = found[n]
  BY <1>1, <1>3
<1>13. ASSUME NEW i \in 0..n
       PROVE  found[i] = IF i = 0 THEN << >> ELSE found[i - 1] \o IssueLine(q, order[i])
  <2> HIDE DEF found
  <2> QED
    BY <1>3, <1>11
<1> DEFINE Has(i) == UNION {Best(Naming(q, order[k]), ScanLimit, TRUE) : k \in 1..i}
<1>14. found[n] \in Seq(StoredRow) /\ ToSet(found[n]) = Has(n)
  <2> HIDE DEF found, Solves, Has
  <2> DEFINE good == {i \in 0..n : found[i] \in Seq(StoredRow) /\ ToSet(found[i]) = Has(i)}
  <2>1. 0 \in good
    <3>1. 0 \in 0..n
      OBVIOUS
    <3>2. found[0] = << >>
      BY <1>13, <3>1
    <3>3. ToSet(found[0]) = {} /\ Has(0) = {}
      BY <3>2 DEF ToSet, Has
    <3>4. << >> \in Seq(StoredRow)
      OBVIOUS
    <3> QED
      BY <3>1, <3>2, <3>3, <3>4
  <2>2. ASSUME NEW i \in 1..n, i - 1 \in good PROVE i \in good
    <3>1. i \in 0..n /\ i # 0 /\ i - 1 \in 0..n
      OBVIOUS
    <3>2. found[i] = found[i - 1] \o piece[i]
      BY <1>5, <1>13, <3>1
    <3>3. found[i - 1] \in Seq(StoredRow) /\ ToSet(found[i - 1]) = Has(i - 1)
      BY <2>2
    <3>7. piece[i] \in Seq(StoredRow)
      BY <1>5
    <3>4. found[i] \in Seq(StoredRow) /\ ToSet(found[i]) = Has(i - 1) \cup ToSet(piece[i])
      BY <3>2, <3>3, <3>7, ToSetBoth
    <3>5. 1..i = (1..i - 1) \cup {i}
      OBVIOUS
    <3>6. Has(i) = Has(i - 1) \cup ToSet(piece[i])
      BY <1>5, <3>5 DEF Has
    <3> QED
      BY <3>1, <3>4, <3>6
  <2>3. \A i \in 0..n : i \in good
    <3> HIDE DEF good
    <3> QED
      BY <2>1, <2>2, Induction
  <2>4. n \in 0..n
    OBVIOUS
  <2> QED
    BY <2>3, <2>4
<1>15. Has(n) = Scanned(q, issues)
  <2>1. {order[k] : k \in 1..n} = issues
    BY <1>3
  <2>2. PICK best : best = [i \in issues |-> Best(Naming(q, i), ScanLimit, TRUE)]
    OBVIOUS
  <2>3. Has(n) = UNION {best[order[k]] : k \in 1..n}
    <3>1. \A k \in 1..n : best[order[k]] = Best(Naming(q, order[k]), ScanLimit, TRUE)
      BY <1>3, <2>2
    <3> QED
      BY ZenonT(30), <3>1 DEF Has
  <2>4. Scanned(q, issues) = UNION {best[i] : i \in issues}
    BY <2>2 DEF Scanned
  <2>5. {best[order[k]] : k \in 1..n} = {best[i] : i \in issues}
    <3> HIDE DEF Has
    <3> QED
      BY <1>3
  <2> HIDE DEF Has
  <2> QED
    BY <2>3, <2>4, <2>5
<1> QED
  BY <1>12, <1>14, <1>15

(* Of the rows of each turn, the first.                                    *)
LEMMA FirstCopiesAre ==
  ASSUME NEW rows \in Seq(StoredRow)
  PROVE  /\ FirstCopies(rows) \in Seq(StoredRow)
         /\ FirstRowsOf(rows, Len(rows), ToSet(FirstCopies(rows)))
<1>1. PICK n \in Nat : n = Len(rows)
  OBVIOUS
<1>2. PICK keep : keep = {i \in 1..n : \A j \in 1..i - 1 : rows[j].doc # rows[i].doc}
  OBVIOUS
<1>3. PICK new : new = FirstCopies(rows)
  OBVIOUS
<1>4. keep \in SUBSET (1..n)
  BY <1>2
<1>5. Takes(new, rows, keep)
  BY <1>1, <1>2, <1>3, <1>4, AtIs DEF FirstCopies
<1>6. PICK f : Upwards(f, keep) /\ new = [p \in 1..Cardinality(keep) |-> rows[f[p]]]
  BY <1>5 DEF Takes
<1>7. PICK m \in Nat : m = Cardinality(keep)
  BY <1>6 DEF Upwards
<1>8. /\ f \in [1..m -> keep] /\ new = [p \in 1..m |-> rows[f[p]]]
      /\ \A i \in keep : \E p \in 1..m : f[p] = i
  BY <1>6, <1>7 DEF Upwards
<1>9. \A i \in keep : rows[i] \in StoredRow
  BY <1>1, <1>4
<1>10. new \in Seq(StoredRow) /\ DOMAIN new = 1..m
  BY <1>8, <1>9
<1>11. ToSet(new) = {rows[i] : i \in keep}
  BY <1>8, <1>10 DEF ToSet
<1>12. ToSet(new) = FirstRows(rows, n)
  BY <1>2, <1>11 DEF FirstRows
<1>13. n \in 0..n
  OBVIOUS
<1>14. FirstRowsOf(rows, n, FirstRows(rows, n))
  BY <1>1, <1>13, FirstRowsAre
<1> QED
  BY <1>1, <1>3, <1>10, <1>12, <1>14

(* The time of the last of some rows.                                      *)
LEMMA LastAtIs ==
  ASSUME NEW S \in SUBSET StoredRow, IsFiniteSet(S), S # {}
  PROVE  LastAt(S) \in Nat /\ \A r \in S : r.at <= LastAt(S)
<1>1. PICK times : times = {r.at : r \in S}
  OBVIOUS
<1>2. PICK at : at = [r \in S |-> r.at]
  OBVIOUS
<1>3. times = {at[r] : r \in S}
  BY <1>1, <1>2
<1>4. IsFiniteSet(times)
  BY <1>3, Images DEF Imaged
<1>5. times \in SUBSET Nat /\ times # {}
  BY <1>1 DEF StoredRow
<1>6. Max(times) \in times /\ \A t \in times : t <= Max(times)
  BY <1>4, <1>5, MaxHeld
<1>7. LastAt(S) = Max(times)
  BY <1>1 DEF LastAt
<1> QED
  BY <1>1, <1>5, <1>6, <1>7

(* The keys of some rows, each once, from the one with the latest row.     *)
ByKey(rows, used, keyOf, list, Keys, last) ==
  /\ rows \in Seq(StoredRow) /\ used \in SUBSET StoredRow /\ IsFiniteSet(used)
  /\ ToSet(rows) = used /\ DOMAIN keyOf = used
  /\ list = [i \in 1..Len(rows) |-> keyOf[rows[i]]]
  /\ Keys = {keyOf[r] : r \in used}
  /\ last = [k \in ToSet(Distinct(list)) |-> LastAt({r \in used : keyOf[r] = k})]

KeysByTime(all, used, keyOf, Keys, last) ==
  /\ Descends(all, Keys, Cardinality(Keys), last)
  /\ \A k \in Keys : last[k] = LastAt({r \in used : keyOf[r] = k}) /\ last[k] \in Nat

LEMMA KeysSorted ==
  ASSUME NEW rows, NEW used, NEW keyOf, NEW list, NEW Keys, NEW last,
         ByKey(rows, used, keyOf, list, Keys, last)
  PROVE  KeysByTime(StableSort(Distinct(list), Descending(last)), used, keyOf, Keys, last)
<1>1. PICK n \in Nat : n = Len(rows) /\ DOMAIN rows = 1..n
  BY DEF ByKey
<1>2. used = {rows[i] : i \in 1..n}
  BY <1>1 DEF ToSet, ByKey
<1>3. Keys = {list[i] : i \in 1..Len(list)} /\ list \in Seq(Keys)
  <2>1. Len(list) = n /\ \A i \in 1..n : list[i] = keyOf[rows[i]]
    BY <1>1 DEF ByKey
  <2>2. ASSUME NEW i \in 1..n PROVE list[i] \in Keys
    <3>1. rows[i] \in used
      BY <1>2
    <3>2. keyOf[rows[i]] \in Keys
      BY <3>1 DEF ByKey
    <3> QED
      BY <2>1, <3>2
  <2>3. list \in [1..n -> Keys]
    BY <1>1, <2>1, <2>2 DEF ByKey
  <2>4. \A k \in Keys : \E i \in 1..n : list[i] = k
    BY <1>2, <2>1 DEF ByKey
  <2>5. list \in Seq(Keys)
    BY <2>3
  <2>6. Keys = {list[i] : i \in 1..n}
    BY <2>2, <2>4
  <2> QED
    BY <2>1, <2>5, <2>6
<1>4. PICK keys : keys = Distinct(list)
  OBVIOUS
<1>5. PICK m : m = Cardinality(Keys)
  OBVIOUS
<1>6. Enumerates(keys, Keys, m)
  BY <1>3, <1>4, <1>5, DistinctIs DEF ListedOnce
<1>7. ToSet(keys) = Keys
  <2>1. m \in Nat /\ DOMAIN keys = 1..m /\ \A p \in 1..m : keys[p] \in Keys
    BY <1>6 DEF Enumerates
  <2>2. \A x \in Keys : \E p \in 1..m : keys[p] = x
    BY <1>6 DEF Enumerates
  <2> QED
    BY <2>1, <2>2 DEF ToSet
<1>8. DOMAIN last = Keys /\ \A k \in Keys : last[k] = LastAt({r \in used : keyOf[r] = k})
  BY <1>4, <1>7 DEF ByKey
<1>9. ASSUME NEW k \in Keys PROVE last[k] \in Nat
  <2>1. PICK S : S = {r \in used : keyOf[r] = k}
    OBVIOUS
  <2>2. S \in SUBSET used /\ S # {} /\ S \in SUBSET StoredRow
    BY <2>1 DEF ByKey
  <2> QED
    BY <1>8, <2>1, <2>2, FS_Subset, LastAtIs DEF ByKey
<1>10. Descends(StableSort(keys, Descending(last)), Keys, m, last)
  <2>1. \A k \in Keys : last[k] \in Int
    <3>1. \A k \in Keys : last[k] \in Nat
      BY <1>9
    <3> QED
      BY <3>1
  <2>2. DOMAIN last = Keys
    BY <1>8
  <2>3. Descends(StableSort(Distinct(list), Descending(last)), Keys, Cardinality(Keys), last)
    BY <1>3, <2>1, <2>2, DescendsIs
  <2> QED
    BY <1>4, <1>5, <2>3
<1> QED
  BY <1>4, <1>5, <1>8, <1>9, <1>10 DEF KeysByTime

(* The first n sessions of such a list.                                    *)
TopKeysOf(top, w, Keys, last, n) ==
  /\ top \in Seq(Keys) /\ w = Len(top) /\ w \in Nat
  /\ Cardinality(Keys) \in Nat /\ w = IF Cardinality(Keys) < n THEN Cardinality(Keys) ELSE n
  /\ Cardinality({top[i] : i \in 1..w}) = w
  /\ \A i \in 1..w, k \in Keys \ {top[j] : j \in 1..w} : last[top[i]] >= last[k]

LEMMA TopKeys ==
  ASSUME NEW Keys, NEW m, NEW last, NEW sorted, Descends(sorted, Keys, m, last),
         \A k \in Keys : last[k] \in Nat,
         NEW n \in Nat, NEW top, top = First(sorted, n)
  PROVE  TopKeysOf(top, Len(top), Keys, last, n)
<1>1. /\ m \in Nat /\ m = Cardinality(Keys) /\ sorted \in Seq(Keys) /\ Len(sorted) = m
      /\ \A p \in 1..m : sorted[p] \in Keys
      /\ \A k \in Keys : \E p \in 1..m : sorted[p] = k
      /\ \A p, q \in 1..m : sorted[p] = sorted[q] => p = q
      /\ \A p, q \in 1..m : p < q => last[sorted[p]] >= last[sorted[q]]
  BY DEF Descends, Enumerates
<1>2. Begins(top, sorted, n)
  BY <1>1, FirstIs
<1>3. PICK w : w = Len(top)
  OBVIOUS
<1>4. w = (IF m < n THEN m ELSE n) /\ w \in Nat /\ w <= m
  BY <1>1, <1>2, <1>3 DEF Begins
<1>5. \A p \in 1..w : p \in 1..m /\ top[p] = sorted[p] /\ top[p] \in Keys
  BY <1>1, <1>2, <1>3 DEF Begins
<1>6. top \in Seq(Keys)
  <2>1. {sorted[i] : i \in 1..Len(sorted)} \subseteq Keys
    BY <1>1
  <2>2. top \in Seq({sorted[i] : i \in 1..Len(sorted)})
    BY <1>2 DEF Begins
  <2>3. PICK T : T = {sorted[i] : i \in 1..Len(sorted)}
    OBVIOUS
  <2> QED
    BY <2>1, <2>2, <2>3
<1>7. PICK listed : listed = {top[i] : i \in 1..w}
  OBVIOUS
<1>8. Cardinality(listed) = w
  <2>1. IsFiniteSet(1..w) /\ Cardinality(1..w) = w
    <3>1. w \in Nat
      BY <1>4
    <3> QED
      BY <3>1, FS_Interval
  <2>2. \A p, q \in 1..w : top[p] = top[q] => p = q
    BY <1>1, <1>5
  <2>3. Imaged(top, 1..w, listed)
    BY <1>7, <2>1, Images
  <2> QED
    BY <2>1, <2>2, <2>3 DEF Imaged
<1>9. ASSUME NEW i \in 1..w, NEW k \in Keys \ listed PROVE last[top[i]] >= last[k]
  <2>1. PICK p \in 1..m : sorted[p] = k
    BY <1>1
  <2>2. p \notin 1..w
    BY <1>5, <1>7, <2>1
  <2>3. i < p /\ i \in 1..m /\ top[i] = sorted[i]
    BY <1>4, <1>5, <2>2
  <2> QED
    BY <1>1, <2>1, <2>3
<1> QED
  BY <1>1, <1>3, <1>4, <1>6, <1>7, <1>8, <1>9 DEF TopKeysOf

(* The sessions of some issues, or of a day.                               *)
LEMMA IssueHolds ==
  ASSUME NEW q, IssueQuery(q), ScanLimit \in Nat, FtsCap \in Nat
  PROVE  SessionsExact(q, SessionsByIssue(q))
<1> DEFINE found == IF q.issues # {} THEN IssuesRead(q)
                    ELSE IF q.day # 0 /\ q.roots # {} THEN DayRows(q.rows, q.day)
                    ELSE << >>
           read == FirstCopies(found)
           used == {r \in ToSet(read) : /\ In(r.root, q.roots)
                                        /\ q.day # 0 => r.at \div 10 = q.day /\ r.at # 0
                                        /\ SessionKey(r)[2] \notin {0, q.except}}
           Using(key) == {r \in used : SessionKey(r) = key}
           rows == Among(read, used)
           list == [i \in 1..Len(rows) |-> SessionKey(rows[i])]
           last == [key \in ToSet(Distinct(list)) |-> LastAt(Using(key))]
           all == StableSort(Distinct(list), Descending(last))
           top == First(all, q.limit)
           answer == [i \in 1..Len(top) |->
                        [key |-> top[i], turns |-> Cardinality(Using(top[i])), last |-> last[top[i]],
                         issues |-> UNION {r.tags : r \in Using(top[i])}]]
           given == IF q.issues # {}
                    THEN UNION {Best(Naming(q, i), ScanLimit, TRUE) : i \in q.issues}
                    ELSE IF q.day # 0 /\ q.roots # {} THEN {r \in ToSet(q.rows) : ~r.passage}
                    ELSE {}
           right == {r \in given : /\ In(r.root, q.roots) /\ SessionKey(r)[2] \notin {0, q.except}
                                   /\ q.day # 0 => r.at \div 10 = q.day}
           Of(key) == {r \in right : SessionKey(r) = key}
           Keys == {SessionKey(r) : r \in right}
           listed == {e.key : e \in ToSet(answer)}
           Right == /\ Len(answer) = Cardinality(listed)
                    /\ Len(answer) = IF Cardinality(Keys) < q.limit THEN Cardinality(Keys) ELSE q.limit
                    /\ \A e \in ToSet(answer) : /\ e.turns = Cardinality({r.doc : r \in Of(e.key)})
                                                /\ \A k \in Keys \ listed : \A r \in Of(k) : r.at <= e.last
<1>0. SessionsByIssue(q) = answer
  BY Zenon DEF SessionsByIssue
<1>1. PICK stored : stored = q.rows /\ KeyedRows(stored)
  BY DEF IssueQuery
<1>2. PICK limit \in Nat : limit = q.limit
  BY DEF IssueQuery
<1>3. PICK issues : issues = q.issues /\ issues \in SUBSET Nat /\ IsFiniteSet(issues)
  BY DEF IssueQuery
<1>4. q.day \in Nat
  BY DEF IssueQuery
<1>5. SUFFICES ASSUME \A i \in issues : AllFetched(q, i) PROVE Right
  <2>1. ASSUME (\A i \in issues : AllFetched(q, i)) => Right PROVE SessionsExact(q, answer)
    <3> HIDE DEF answer
    <3> QED
      BY <1>3, <2>1 DEF AllFetched, SessionsExact
  <2> QED
    BY <1>0, <2>1
<1> HIDE DEF found, read, used, rows, list, last, all, top, answer, given, right, Keys, listed
<1>6. KeyedFacts(stored)
  BY <1>1, KeyedAre
<1>7. ToSet(stored) \in SUBSET StoredRow
  BY <1>6 DEF KeyedFacts
<1>8. PICK kept : kept = ToSet(stored) \cup UNION {ToSet(q.hits[i]) : i \in issues}
  OBVIOUS
<1>9. \A r, s \in kept : r.doc = s.doc => s = [r EXCEPT !.stored = s.stored]
  BY <1>1, <1>3, <1>8 DEF IssueQuery
<1>41. ASSUME NEW i \in issues PROVE ToSet(q.hits[i]) \in SUBSET StoredRow
  <2>1. KeyedRows(q.hits[i])
    BY <1>3, <1>41 DEF IssueQuery
  <2> QED
    BY <2>1, KeyedAre DEF KeyedFacts
<1>42. kept \in SUBSET StoredRow
  <2>1. ASSUME NEW r \in kept PROVE r \in StoredRow
    BY <1>7, <1>8, <1>41
  <2> QED
    BY <2>1
(* A turn is the same in all that is read of it.                           *)
<1>43. ASSUME NEW r \in kept, NEW s \in kept, r.doc = s.doc
       PROVE  SessionKey(r) = SessionKey(s) /\ r.at = s.at /\ r.root = s.root
  <2>1. PICK copy : copy = s.stored
    OBVIOUS
  <2>2. s = [r EXCEPT !.stored = copy]
    BY <1>9, <1>43, <2>1
  <2>3. r \in StoredRow
    BY <1>42
  <2>4. /\ r.at = s.at /\ r.root = s.root /\ r.provider = s.provider
        /\ r.thread = s.thread /\ r.session = s.session
    BY <2>2, <2>3 DEF StoredRow
  <2> QED
    BY <2>4 DEF SessionKey
<1>44. PICK S : S = ToSet(found)
  OBVIOUS
<1>45. found = IF issues # {} THEN IssuesRead(q)
              ELSE IF q.day # 0 /\ q.roots # {} THEN DayRows(stored, q.day)
              ELSE << >>
  BY <1>1, <1>3 DEF found
<1>46. given = IF issues # {} THEN Scanned(q, issues)
               ELSE IF q.day # 0 /\ q.roots # {} THEN {r \in ToSet(stored) : ~r.passage}
               ELSE {}
  BY <1>1, <1>3 DEF given, Scanned
<1> DEFINE Fits(r) == /\ In(r.root, q.roots) /\ SessionKey(r)[2] \notin {0, q.except}
                      /\ q.day # 0 => r.at \div 10 = q.day
<1>47. right = {r \in given : Fits(r)}
  BY DEF right
<1>48. found \in Seq(StoredRow) /\ S \in SUBSET kept /\ right = {r \in S : Fits(r)}
  <2> HIDE DEF Fits
  <2>1. CASE issues # {}
    <3>1. found = IssuesRead(q) /\ given = Scanned(q, issues)
      BY <1>45, <1>46, <2>1
    <3>2. found \in Seq(StoredRow) /\ S = given
      BY <1>3, <1>5, <1>44, <3>1, IssuesReadAre
    <3>3. ASSUME NEW r \in given PROVE r \in kept
      <4>1. PICK i \in issues : r \in Best(Naming(q, i), ScanLimit, TRUE)
        BY <3>1 DEF Scanned
      <4>2. r \in Naming(q, i)
        BY <4>1 DEF Best
      <4>3. r \in ToSet(stored) \/ r \in ToSet(q.hits[i])
        BY <1>1, <4>2 DEF Naming
      <4> QED
        BY <1>8, <4>3
    <3> QED
      BY <1>47, <3>2, <3>3
  <2>2. CASE issues = {} /\ q.day # 0 /\ q.roots # {}
    <3>1. found = DayRows(stored, q.day) /\ given = {r \in ToSet(stored) : ~r.passage}
      BY <1>45, <1>46, <2>2
    <3>2. PICK near : near = {r \in ToSet(stored) : ~r.passage /\ r.at \div 10 \in q.day - 1..q.day + 1}
      OBVIOUS
    <3>3. found = Among(stored, near)
      BY <3>1, <3>2 DEF DayRows
    <3>4. KeyedRows(found) /\ S = near
      BY <1>1, <1>44, <3>2, <3>3, KeyedAmong
    <3>5. found \in Seq(StoredRow)
      BY <3>4 DEF KeyedRows
    <3>6. ASSUME NEW r \in ToSet(stored), Fits(r)
          PROVE  r.at \div 10 \in q.day - 1..q.day + 1
      BY <1>4, <2>2, <3>6 DEF Fits
    <3>7. \A r \in given : Fits(r) => r \in near
      BY <3>1, <3>2, <3>6
    <3>8. near \subseteq given /\ near \subseteq kept
      BY <1>8, <3>1, <3>2
    <3> QED
      BY <1>47, <3>4, <3>5, <3>7, <3>8
  <2>3. CASE issues = {} /\ ~(q.day # 0 /\ q.roots # {})
    <3>1. found = << >> /\ given = {}
      BY <1>45, <1>46, <2>3
    <3>2. found \in Seq(StoredRow) /\ S = {}
      BY <1>44, <3>1 DEF ToSet
    <3> QED
      BY <1>47, <3>1, <3>2
  <2> QED
    BY <2>1, <2>2, <2>3
<1>49. PICK n \in Nat : n = Len(found) /\ S = {found[i] : i \in 1..n}
  BY <1>44, <1>48 DEF ToSet
<1>50. PICK F : F = ToSet(read)
  OBVIOUS
<1>51. /\ read \in Seq(StoredRow) /\ F \in SUBSET StoredRow /\ IsFiniteSet(F) /\ Keyed(F)
       /\ (\A r \in F : r \in S) /\ \A s \in S : \E r \in F : r.doc = s.doc
  <2>1. read \in Seq(StoredRow) /\ FirstRowsOf(found, n, F)
    BY <1>48, <1>49, <1>50, FirstCopiesAre DEF read
  <2>2. /\ F \in SUBSET StoredRow /\ IsFiniteSet(F) /\ Keyed(F)
        /\ \A r \in F : \E j \in 1..n : r = found[j]
        /\ \A j \in 1..n : \E r \in F : r.doc = found[j].doc
    BY <2>1 DEF FirstRowsOf
  <2> QED
    BY <1>49, <2>1, <2>2
<1>52. used = {r \in F : Fits(r)}
  <2>1. used = {r \in F : /\ In(r.root, q.roots)
                          /\ q.day # 0 => r.at \div 10 = q.day /\ r.at # 0
                          /\ SessionKey(r)[2] \notin {0, q.except}}
    BY <1>50 DEF used
  <2>2. ASSUME NEW r \in F
        PROVE  (q.day # 0 => r.at \div 10 = q.day) <=> (q.day # 0 => r.at \div 10 = q.day /\ r.at # 0)
    <3>1. r.at \in Nat
      BY <1>51 DEF StoredRow
    <3>2. r.at = 0 => r.at \div 10 = 0
      BY <3>1
    <3> QED
      BY <1>4, <3>2
  <2> QED
    BY <2>1, <2>2
<1>53. \A r, s \in kept : r.doc = s.doc => (Fits(r) <=> Fits(s))
  BY <1>43
<1> HIDE DEF Fits
<1>54. used \subseteq right /\ \A s \in right : \E r \in used : r.doc = s.doc
  <2>1. used \subseteq right
    BY <1>48, <1>51, <1>52
  <2>2. ASSUME NEW s \in right PROVE \E r \in used : r.doc = s.doc
    <3>1. s \in S /\ s \in kept /\ Fits(s)
      BY <1>48
    <3>2. PICK r \in F : r.doc = s.doc
      BY <1>51, <3>1
    <3>3. r \in kept
      BY <1>48, <1>51
    <3>4. Fits(r)
      BY <1>53, <3>1, <3>2, <3>3
    <3> QED
      BY <1>52, <3>2, <3>4
  <2> QED
    BY <2>1, <2>2
<1>55. right \subseteq kept
  BY <1>48
<1>56. \A s \in right : \E r \in used : r.doc = s.doc /\ r.at = s.at /\ SessionKey(r) = SessionKey(s)
  <2>1. ASSUME NEW s \in right
        PROVE  \E r \in used : r.doc = s.doc /\ r.at = s.at /\ SessionKey(r) = SessionKey(s)
    <3>1. PICK r \in used : r.doc = s.doc
      BY <1>54
    <3>2. r \in kept /\ s \in kept
      BY <1>54, <1>55
    <3> QED
      BY <1>43, <3>1, <3>2
  <2> QED
    BY <2>1
<1>12. used \in SUBSET StoredRow /\ IsFiniteSet(used) /\ used \subseteq ToSet(read)
  <2>1. used \in SUBSET F
    BY <1>52
  <2> QED
    BY <1>50, <1>51, <2>1, FS_Subset
<1>13. rows = Among(read, used)
  BY DEF rows
<1>14. rows \in Seq(StoredRow) /\ ToSet(rows) = used
  <2>1. rows \in Seq(StoredRow) /\ ToSet(rows) = ToSet(read) \cap used
    BY <1>13, <1>51, AmongIs
  <2> QED
    BY <1>12, <2>1
<1>15. PICK keyOf : keyOf = [r \in used |-> SessionKey(r)]
  OBVIOUS
<1>16. list = [i \in 1..Len(rows) |-> SessionKey(rows[i])]
  BY DEF list
<1>17. last = [key \in ToSet(Distinct(list)) |-> LastAt(Using(key))]
  BY DEF last
<1>18. Keys = {SessionKey(r) : r \in used}
  <2>1. Keys = {SessionKey(r) : r \in right}
    BY DEF Keys
  <2>2. \A r \in used : SessionKey(r) \in Keys
    BY <1>54, <2>1
  <2>3. \A s \in right : SessionKey(s) \in {SessionKey(r) : r \in used}
    BY <1>56
  <2> QED
    BY <2>1, <2>2, <2>3
<1>19. \A k : {r \in used : keyOf[r] = k} = Using(k)
  BY <1>15
<1>57. ASSUME NEW k PROVE Cardinality({r.doc : r \in Of(k)}) = Cardinality(Using(k))
  <2>1. PICK U : U = Using(k)
    OBVIOUS
  <2>2. U \in SUBSET used
    BY <2>1
  <2>3. IsFiniteSet(U) /\ U \subseteq F
    BY <1>12, <1>50, <2>2, FS_Subset
  <2>4. PICK doc : doc = [r \in U |-> r.doc]
    OBVIOUS
  <2>5. PICK D : D = {doc[r] : r \in U}
    OBVIOUS
  <2>6. Imaged(doc, U, D)
    BY <2>3, <2>5, Images
  <2>7. \A r, s \in U : doc[r] = doc[s] => r = s
    BY <1>51, <2>3, <2>4 DEF Keyed
  <2>8. Cardinality(D) = Cardinality(U)
    BY <2>6, <2>7 DEF Imaged
  <2>9. D = {r.doc : r \in U}
    BY <2>4, <2>5
  <2>10. \A r \in U : r \in Of(k)
    BY <1>54, <2>1
  <2>11. ASSUME NEW s \in Of(k) PROVE \E r \in U : r.doc = s.doc
    <3>1. s \in right /\ SessionKey(s) = k
      BY <2>11
    <3>2. PICK r \in used : r.doc = s.doc /\ SessionKey(r) = k
      BY <1>56, <3>1
    <3> QED
      BY <2>1, <3>2
  <2>12. D = {r.doc : r \in Of(k)}
    <3> HIDE DEF Of
    <3> QED
      BY <2>9, <2>10, <2>11
  <2> QED
    BY <2>1, <2>8, <2>12
<1>20. ByKey(rows, used, keyOf, list, Keys, last)
  <2>1. list = [i \in 1..Len(rows) |-> keyOf[rows[i]]]
    <3>1. \A i \in 1..Len(rows) : rows[i] \in used
      BY <1>14 DEF ToSet
    <3> QED
      BY <1>15, <1>16, <3>1
  <2>2. Keys = {keyOf[r] : r \in used} /\ DOMAIN keyOf = used
    BY <1>15, <1>18
  <2>3. last = [k \in ToSet(Distinct(list)) |-> LastAt({r \in used : keyOf[r] = k})]
    BY <1>17, <1>19
  <2> QED
    BY <1>12, <1>14, <2>1, <2>2, <2>3 DEF ByKey
<1>21. KeysByTime(all, used, keyOf, Keys, last)
  BY <1>20, KeysSorted DEF all
<1>22. PICK m : m = Cardinality(Keys)
  OBVIOUS
<1>23. /\ Descends(all, Keys, m, last) /\ \A k \in Keys : last[k] \in Nat
       /\ \A k \in Keys : last[k] = LastAt(Using(k))
  BY <1>19, <1>21, <1>22 DEF KeysByTime
<1>24. TopKeysOf(top, Len(top), Keys, last, limit)
  BY <1>2, <1>23, TopKeys DEF top
<1>25. PICK w : w = Len(top)
  OBVIOUS
<1>26. PICK shown : shown = {top[i] : i \in 1..w}
  OBVIOUS
<1>27. /\ w \in Nat /\ top \in Seq(Keys) /\ w = IF m < limit THEN m ELSE limit
       /\ Cardinality(shown) = w
       /\ \A i \in 1..w, k \in Keys \ shown : last[top[i]] >= last[k]
  BY <1>22, <1>24, <1>25, <1>26 DEF TopKeysOf
<1>28. \A i \in 1..w : top[i] \in Keys
  <2>1. top \in Seq(Keys)
    BY <1>27
  <2> QED
    BY <1>25, <2>1
<1>29. answer = [i \in 1..w |->
                   [key |-> top[i], turns |-> Cardinality(Using(top[i])), last |-> last[top[i]],
                    issues |-> UNION {r.tags : r \in Using(top[i])}]]
  BY <1>25 DEF answer
<1>30. /\ Len(answer) = w /\ DOMAIN answer = 1..w
       /\ \A i \in 1..w : /\ answer[i].key = top[i] /\ answer[i].turns = Cardinality(Using(top[i]))
                          /\ answer[i].last = last[top[i]]
  <2> HIDE DEF Using
  <2> QED
    BY <1>27, <1>29
<1>31. ToSet(answer) = {answer[i] : i \in 1..w}
  BY <1>30 DEF ToSet
<1>32. listed = shown
  <2>1. \A i \in 1..w : answer[i].key = top[i] /\ answer[i] \in ToSet(answer)
    BY <1>30, <1>31
  <2>2. ASSUME NEW e \in ToSet(answer) PROVE \E i \in 1..w : e.key = top[i]
    <3>1. PICK i \in 1..w : e = answer[i]
      BY <1>31
    <3> QED
      BY <2>1, <3>1
  <2>3. listed = {e.key : e \in ToSet(answer)}
    BY DEF listed
  <2>4. shown \subseteq listed
    BY <1>26, <2>1, <2>3
  <2>5. listed \subseteq shown
    BY <1>26, <2>2, <2>3
  <2> QED
    BY <2>4, <2>5
<1>33. ASSUME NEW e \in ToSet(answer)
       PROVE  /\ e.turns = Cardinality({r.doc : r \in Of(e.key)})
              /\ \A k \in Keys \ listed : \A r \in Of(k) : r.at <= e.last
  <2>1. PICK i \in 1..w : e = answer[i]
    BY <1>31
  <2>2. e.key = top[i] /\ e.turns = Cardinality(Using(top[i])) /\ e.last = last[top[i]] /\ top[i] \in Keys
    BY <1>28, <1>30, <2>1
  <2>3. ASSUME NEW k \in Keys \ listed, NEW r \in Of(k) PROVE r.at <= e.last
    <3>1. last[top[i]] >= last[k] /\ last[k] \in Nat /\ last[top[i]] \in Nat
      BY <1>23, <1>27, <1>32, <2>2
    <3>2. PICK mine : mine = Using(k)
      OBVIOUS
    <3>3. PICK u \in mine : u.at = r.at
      <4>1. r \in right /\ SessionKey(r) = k
        BY <2>3
      <4>2. PICK u \in used : u.at = r.at /\ SessionKey(u) = k
        BY <1>56, <4>1
      <4> QED
        BY <3>2, <4>2
    <3>4. r.at <= last[k] /\ r.at \in Nat
      <4>1. mine \in SUBSET used /\ mine # {}
        BY <3>2, <3>3
      <4>2. mine \in SUBSET StoredRow /\ IsFiniteSet(mine)
        BY <1>12, <4>1, FS_Subset
      <4>3. u.at \in Nat
        BY <3>3, <4>2 DEF StoredRow
      <4>4. u.at <= LastAt(mine)
        BY <3>3, <4>1, <4>2, LastAtIs
      <4> QED
        BY <1>23, <2>3, <3>2, <3>3, <4>3, <4>4
    <3> QED
      BY <2>2, <3>1, <3>4
  <2>4. e.turns = Cardinality({r.doc : r \in Of(e.key)})
    <3> HIDE DEF Of, Using
    <3> QED
      BY <1>57, <2>2
  <2> QED
    BY <2>3, <2>4
<1> QED
  <2> HIDE DEF Of
  <2> QED
    BY <1>2, <1>22, <1>27, <1>30, <1>32, <1>33
=============================================================================
