---------------------------- MODULE FoldTheorems ----------------------------
(***************************************************************************)
(* Induction over numbers and finite sets, and what it says of the folds   *)
(* of the community modules.                                               *)
(*                                                                         *)
(* An induction theorem is stated about a set (the numbers, the subsets    *)
(* that have a property) instead of a predicate, so that it is a           *)
(* first-order fact the provers can instantiate: it follows from the       *)
(* minimal elements of a well-founded order.  In the same way the operator *)
(* of a fold is a function here.                                           *)
(***************************************************************************)
EXTENDS FiniteSetTheorems, FiniteSetsExt, TLAPS

-----------------------------------------------------------------------------
(* Induction.                                                              *)

(* A set of numbers with 0 and the successors of its elements is Nat.      *)
LEMMA NatSetInduction ==
  ASSUME NEW G, 0 \in G, \A n \in Nat : n \in G => n + 1 \in G
  PROVE  Nat \subseteq G
<1> DEFINE R == OpToRel(<, Nat)
<1> DEFINE Bad == Nat \ G
<1> SUFFICES ASSUME Bad # {} PROVE FALSE
  OBVIOUS
<1>1. IsWellFoundedOn(R, Nat)
  BY NatLessThanWellFounded
<1>2. \A i, j \in Nat : i < j => <<i, j>> \in R
  BY DEF OpToRel
<1> HIDE DEF R
<1>3. PICK n \in Bad : \A m \in Bad : <<m, n>> \notin R
  BY <1>1, WFMin
<1>4. n # 0
  OBVIOUS
<1>5. n - 1 \in Nat /\ <<n - 1, n>> \in R
  BY <1>2, <1>4
<1>6. n - 1 \in G
  BY <1>3, <1>5
<1> QED
  BY <1>3, <1>5, <1>6

(* A set of subsets of S is all of them, if it has a subset of S whenever  *)
(* it has the smaller ones.                                                *)
LEMMA SubsetInduction ==
  ASSUME NEW S, IsFiniteSet(S), NEW G,
         \A T \in SUBSET S : (\A x \in T : T \ {x} \in G) => T \in G
  PROVE  \A T \in SUBSET S : T \in G
<1> DEFINE R == StrictSubsetOrdering(S)
<1> DEFINE Bad == (SUBSET S) \ G
<1> SUFFICES ASSUME Bad # {} PROVE FALSE
  OBVIOUS
<1>1. IsWellFoundedOn(R, SUBSET S)
  <2>1. FiniteSubsetsOf(S) = SUBSET S
    BY FS_FiniteSubsetsOfFinite
  <2>2. IsWellFoundedOn(R, FiniteSubsetsOf(S))
    BY FS_StrictSubsetOrderingWellFounded
  <2> HIDE DEF R
  <2> QED
    BY <2>1, <2>2
<1>2. \A T, U \in SUBSET S : T \subseteq U /\ T # U => <<T, U>> \in R
  BY DEF StrictSubsetOrdering
<1> HIDE DEF R
<1>3. PICK T \in Bad : \A U \in Bad : <<U, T>> \notin R
  BY <1>1, WFMin
<1>4. \A x \in T : T \ {x} \in G
  <2> SUFFICES ASSUME NEW x \in T, T \ {x} \notin G PROVE FALSE
    OBVIOUS
  <2>1. T \ {x} \in Bad /\ T \ {x} \subseteq T /\ T \ {x} # T
    OBVIOUS
  <2> QED
    BY <1>2, <1>3, <2>1
<1> QED
  BY <1>4

(* A set of numbers up to n has a maximum, and that of 1..n is n.          *)
LEMMA MaxOfInterval ==
  ASSUME NEW n \in Nat
  PROVE  /\ \A t \in SUBSET (1..n) : t # {} => Max(t) \in t
         /\ n > 0 => Max(1..n) = n
<1> DEFINE HasMax(t) == \E x \in t : \A y \in t : x >= y
           G == {m \in Nat : \A t \in SUBSET (1..m) : t # {} => HasMax(t)}
<1>1. 0 \in G
  <2>1. 1..0 = {}
    OBVIOUS
  <2> QED
    BY <2>1
<1>2. ASSUME NEW m \in Nat, m \in G PROVE m + 1 \in G
  <2> SUFFICES ASSUME NEW t \in SUBSET (1..(m + 1)), t # {} PROVE HasMax(t)
    OBVIOUS
  <2>1. CASE m + 1 \in t
    BY <2>1
  <2>2. CASE m + 1 \notin t
    <3>1. t \in SUBSET (1..m)
      BY <2>2
    <3> QED
      BY <1>2, <3>1
  <2> QED
    BY <2>1, <2>2
<1>3. n \in G
  <2> HIDE DEF G
  <2> QED
    BY <1>1, <1>2, NatSetInduction
<1>4. \A t \in SUBSET (1..n) : t # {} => Max(t) \in t
  BY <1>3 DEF Max
<1>5. ASSUME n > 0 PROVE Max(1..n) = n
  <2>1. n \in 1..n /\ \A y \in 1..n : n >= y
    BY <1>5
  <2>2. \A x \in 1..n : (\A y \in 1..n : x >= y) => x = n
    BY <1>5
  <2> QED
    BY <2>1, <2>2 DEF Max
<1> QED
  BY <1>4, <1>5

-----------------------------------------------------------------------------
(* Recursion.                                                              *)

Solves(g, S, base, step, pick) ==
  \A s \in SUBSET S :
    g[s] = IF s = {} THEN base ELSE step[<<pick[s], g[s \ {pick[s]}]>>]

(* The recursion of MapThenFoldSet has a solution: it is unfolded up to    *)
(* sets of one size after the other.                                       *)
LEMMA FoldExists ==
  ASSUME NEW S, IsFiniteSet(S), NEW X, NEW base \in X,
         NEW step \in [S \X X -> X],
         NEW pick, \A s \in SUBSET S : s # {} => pick[s] \in s
  PROVE  \E g \in [SUBSET S -> X] : Solves(g, S, base, step, pick)
<1> DEFINE Sub(n) == {s \in SUBSET S : Cardinality(s) <= n}
           Rec(g, s) == IF s = {} THEN base ELSE step[<<pick[s], g[s \ {pick[s]}]>>]
           G == {n \in Nat : \E g \in [Sub(n) -> X] : \A s \in Sub(n) : g[s] = Rec(g, s)}
<1>1. \A s \in SUBSET S : Cardinality(s) \in Nat /\ (Cardinality(s) = 0 <=> s = {})
  BY FS_Subset, FS_CardinalityType, FS_EmptySet
<1>2. ASSUME NEW s \in SUBSET S, s # {}
      PROVE  /\ pick[s] \in S /\ s \ {pick[s]} \in SUBSET S
             /\ Cardinality(s \ {pick[s]}) = Cardinality(s) - 1
  BY <1>2, FS_Subset, FS_RemoveElement
<1>3. 0 \in G
  <2> DEFINE g == [s \in Sub(0) |-> base]
  <2>1. \A s \in Sub(0) : s = {}
    BY <1>1
  <2>2. g \in [Sub(0) -> X] /\ \A s \in Sub(0) : g[s] = Rec(g, s)
    BY <2>1
  <2> QED
    BY <2>2
<1>4. ASSUME NEW n \in Nat, n \in G PROVE n + 1 \in G
  <2>1. PICK g \in [Sub(n) -> X] : \A s \in Sub(n) : g[s] = Rec(g, s)
    BY <1>4
  <2> DEFINE h == [s \in Sub(n + 1) |-> IF s \in Sub(n) THEN g[s] ELSE Rec(g, s)]
  <2>2. ASSUME NEW s \in Sub(n + 1), s # {} PROVE s \ {pick[s]} \in Sub(n)
    BY <1>1, <1>2, <2>2
  <2>3. ASSUME NEW s \in Sub(n + 1) PROVE Rec(g, s) \in X
    BY <1>2, <2>2
  <2>4. h \in [Sub(n + 1) -> X]
    BY <2>3
  <2>5. ASSUME NEW s \in Sub(n + 1) PROVE h[s] = Rec(h, s)
    <3>1. h[s] = Rec(g, s)
      BY <2>1
    <3>2. ASSUME s # {} PROVE h[s \ {pick[s]}] = g[s \ {pick[s]}]
      <4>1. s \ {pick[s]} \in Sub(n) /\ s \ {pick[s]} \in Sub(n + 1)
        BY <1>1, <2>2, <3>2
      <4> QED
        BY <4>1
    <3> HIDE DEF h
    <3> QED
      BY <3>1, <3>2
  <2> HIDE DEF h, Rec, Sub
  <2> QED
    BY <2>4, <2>5
<1> HIDE DEF G
<1>5. Cardinality(S) \in G
  BY <1>1, <1>3, <1>4, NatSetInduction
<1>6. Sub(Cardinality(S)) = SUBSET S
  BY <1>1, FS_Subset
<1> QED
  BY <1>5, <1>6 DEF G, Solves
-----------------------------------------------------------------------------
(* Sums of the values of a function.                                       *)

(* The sum of f over the subsets of its domain.                            *)
Partial(f, S, g) ==
  \A s \in SUBSET S :
    g[s] = IF s = {} THEN 0
           ELSE f[CHOOSE x \in s : TRUE] + g[s \ {CHOOSE x \in s : TRUE}]

LEMMA SumUnfolds ==
  ASSUME NEW S, IsFiniteSet(S), NEW f \in [S -> Int]
  PROVE  \E g \in [SUBSET S -> Int] : Partial(f, S, g) /\ SumFunction(f) = g[S]
<1> DEFINE pick == [s \in SUBSET S |-> CHOOSE x \in s : TRUE]
           step == [a \in S \X Int |-> f[a[1]] + a[2]]
           Unfolded(g) == [s \in SUBSET S |->
                             IF s = {} THEN 0
                             ELSE LET x == CHOOSE y \in s : TRUE IN f[x] + g[s \ {x}]]
<1>1. \A s \in SUBSET S : s # {} => pick[s] \in s
  OBVIOUS
<1>2. step \in [S \X Int -> Int]
  OBVIOUS
<1>3. PICK g \in [SUBSET S -> Int] : Solves(g, S, 0, step, pick)
  <2>1. 0 \in Int
    OBVIOUS
  <2> HIDE DEF pick, step
  <2> QED
    BY <1>1, <1>2, <2>1, FoldExists
<1>4. ASSUME NEW s \in SUBSET S, s # {}
      PROVE  step[<<pick[s], g[s \ {pick[s]}]>>] = f[pick[s]] + g[s \ {pick[s]}]
  <2>1. pick[s] \in S /\ g[s \ {pick[s]}] \in Int
    BY <1>1, <1>4
  <2> HIDE DEF pick
  <2> QED
    BY <2>1
<1>5. g = Unfolded(g)
  <2>1. \A s \in SUBSET S : g[s] = Unfolded(g)[s]
    <3> HIDE DEF step
    <3> QED
      BY <1>3, <1>4 DEF Solves
  <2> QED
    BY <2>1
<1>6. PICK h : h = Unfolded(h) /\ SumFunction(f) = h[S]
  <2> DEFINE k == CHOOSE k : k = Unfolded(k)
  <2>1. k = Unfolded(k)
    <3> HIDE DEF Unfolded
    <3> QED
      BY <1>5
  <2>2. SumFunction(f) = k[S]
    BY DEF SumFunction, SumFunctionOnSet, FoldFunctionOnSet, MapThenFoldSet
  <2> HIDE DEF k
  <2> QED
    BY <2>1, <2>2
<1>8. Partial(f, S, h)
  BY <1>6 DEF Partial
<1>9. h \in [SUBSET S -> Int]
  <2> DEFINE G == {s \in SUBSET S : h[s] \in Int}
  <2>1. ASSUME NEW s \in SUBSET S, \A x \in s : s \ {x} \in G PROVE s \in G
    <3>1. CASE s = {}
      <4>1. h[s] = 0
        BY <1>8, <3>1 DEF Partial
      <4> QED
        BY <4>1
    <3>2. CASE s # {}
      <4> DEFINE y == CHOOSE y \in s : TRUE
      <4>1. y \in s
        BY <3>2
      <4>2. h[s] = f[y] + h[s \ {y}]
        BY <1>8, <3>2 DEF Partial
      <4> HIDE DEF y
      <4>3. f[y] \in Int /\ h[s \ {y}] \in Int
        BY <2>1, <4>1
      <4>4. h[s] \in Int
        BY <4>2, <4>3
      <4> QED
        BY <4>4
    <3> QED
      BY <3>1, <3>2
  <2>2. \A s \in SUBSET S : s \in G
    <3> HIDE DEF G
    <3>1. \A s \in SUBSET S : (\A y \in s : s \ {y} \in G) => s \in G
      BY <2>1
    <3> QED
      BY <3>1, SubsetInduction
  <2>3. h = [s \in SUBSET S |-> h[s]]
    BY <1>6
  <2> QED
    BY <2>2, <2>3
<1> QED
  BY <1>6, <1>8, <1>9

(* Functions that differ in one place have sums that differ as much.       *)
LEMMA SumChange ==
  ASSUME NEW S, IsFiniteSet(S), NEW f \in [S -> Int], NEW h \in [S -> Int],
         NEW x \in S, \A y \in S \ {x} : h[y] = f[y]
  PROVE  SumFunction(h) = SumFunction(f) + h[x] - f[x]
<1>1. PICK F \in [SUBSET S -> Int] : Partial(f, S, F) /\ SumFunction(f) = F[S]
  BY SumUnfolds
<1>2. PICK H \in [SUBSET S -> Int] : Partial(h, S, H) /\ SumFunction(h) = H[S]
  BY SumUnfolds
<1> DEFINE G == {s \in SUBSET S : H[s] = F[s] + IF x \in s THEN h[x] - f[x] ELSE 0}
<1>3. ASSUME NEW s \in SUBSET S, \A y \in s : s \ {y} \in G PROVE s \in G
  <2>1. CASE s = {}
    BY <1>1, <1>2, <2>1 DEF Partial
  <2>2. CASE s # {}
    <3> DEFINE y == CHOOSE y \in s : TRUE
    <3>1. y \in s
      BY <2>2
    <3>2. F[s] = f[y] + F[s \ {y}] /\ H[s] = h[y] + H[s \ {y}]
      BY <1>1, <1>2, <2>2 DEF Partial
    <3> HIDE DEF y
    <3>3. H[s \ {y}] = F[s \ {y}] + IF x \in s \ {y} THEN h[x] - f[x] ELSE 0
      BY <1>3, <3>1
    <3>4. F[s \ {y}] \in Int /\ f[y] \in Int /\ h[y] \in Int /\ f[x] \in Int /\ h[x] \in Int
      BY <3>1
    <3>5. CASE y = x
      BY <3>1, <3>2, <3>3, <3>4, <3>5
    <3>6. CASE y # x
      BY <3>1, <3>2, <3>3, <3>4, <3>6
    <3> QED
      BY <3>5, <3>6
  <2> QED
    BY <2>1, <2>2
<1>4. S \in G
  <2> HIDE DEF G
  <2>1. \A s \in SUBSET S : (\A y \in s : s \ {y} \in G) => s \in G
    BY <1>3
  <2>2. \A s \in SUBSET S : s \in G
    BY <2>1, SubsetInduction
  <2> QED
    BY <2>2
<1> QED
  BY <1>1, <1>2, <1>4

LEMMA SumIsInt ==
  ASSUME NEW S, IsFiniteSet(S), NEW f \in [S -> Int]
  PROVE  SumFunction(f) \in Int
<1>1. PICK g \in [SUBSET S -> Int] : Partial(f, S, g) /\ SumFunction(f) = g[S]
  BY SumUnfolds
<1> QED
  BY <1>1

(* A sum of zeros, and a sum of numbers that are not negative.             *)
LEMMA SumOfZeros ==
  ASSUME NEW S, IsFiniteSet(S), NEW f \in [S -> Int], \A x \in S : f[x] = 0
  PROVE  SumFunction(f) = 0
<1>1. PICK F \in [SUBSET S -> Int] : Partial(f, S, F) /\ SumFunction(f) = F[S]
  BY SumUnfolds
<1> DEFINE G == {s \in SUBSET S : F[s] = 0}
<1>2. ASSUME NEW s \in SUBSET S, \A y \in s : s \ {y} \in G PROVE s \in G
  <2>1. CASE s = {}
    BY <1>1, <2>1 DEF Partial
  <2>2. CASE s # {}
    <3> DEFINE y == CHOOSE y \in s : TRUE
    <3>1. y \in s
      BY <2>2
    <3>2. F[s] = f[y] + F[s \ {y}]
      BY <1>1, <2>2 DEF Partial
    <3> HIDE DEF y
    <3> QED
      BY <1>2, <3>1, <3>2
  <2> QED
    BY <2>1, <2>2
<1>3. S \in G
  <2> HIDE DEF G
  <2>1. \A s \in SUBSET S : (\A y \in s : s \ {y} \in G) => s \in G
    BY <1>2
  <2>2. \A s \in SUBSET S : s \in G
    BY <2>1, SubsetInduction
  <2> QED
    BY <2>2
<1> QED
  BY <1>1, <1>3

LEMMA SumIsNat ==
  ASSUME NEW S, IsFiniteSet(S), NEW f \in [S -> Nat]
  PROVE  SumFunction(f) \in Nat
<1>0. f \in [S -> Int]
  OBVIOUS
<1>1. PICK F \in [SUBSET S -> Int] : Partial(f, S, F) /\ SumFunction(f) = F[S]
  BY <1>0, SumUnfolds
<1> DEFINE G == {s \in SUBSET S : F[s] \in Nat}
<1>2. ASSUME NEW s \in SUBSET S, \A y \in s : s \ {y} \in G PROVE s \in G
  <2>1. CASE s = {}
    BY <1>1, <2>1 DEF Partial
  <2>2. CASE s # {}
    <3> DEFINE y == CHOOSE y \in s : TRUE
    <3>1. y \in s
      BY <2>2
    <3>2. F[s] = f[y] + F[s \ {y}]
      BY <1>1, <2>2 DEF Partial
    <3> HIDE DEF y
    <3> QED
      BY <1>2, <3>1, <3>2
  <2> QED
    BY <2>1, <2>2
<1>3. S \in G
  <2> HIDE DEF G
  <2>1. \A s \in SUBSET S : (\A y \in s : s \ {y} \in G) => s \in G
    BY <1>2
  <2>2. \A s \in SUBSET S : s \in G
    BY <2>1, SubsetInduction
  <2> QED
    BY <2>2
<1> QED
  BY <1>1, <1>3
=============================================================================
