---- MODULE DataInduction ----
(***************************************************************************)
(* Induction over data, in a form that needs no operator as a parameter: a *)
(* set that is closed under the steps of the induction is everything.  The *)
(* library's well-founded orders give the smallest counterexample.  From   *)
(* it follow what the sums and selections of the models compute.           *)
(***************************************************************************)
EXTENDS Integers, Sequences, Functions, FiniteSetTheorems, WellFoundedInduction, TLAPS

\* Every non-empty set of naturals has a least element.
LEMMA LeastNatural ==
    ASSUME NEW T \in SUBSET Nat, T # {}
    PROVE  \E n \in T : \A m \in T : n <= m
<1> DEFINE R == OpToRel(<, Nat)
<1>1. IsWellFoundedOn(R, Nat)
  BY NatLessThanWellFounded
<1>2. \A x, y \in Nat : x < y => <<x, y>> \in R
  BY DEF OpToRel
<1> HIDE DEF R
<1>3. PICK x \in T : \A y \in T : ~ (<<y, x>> \in R)
  BY <1>1, WFMin
<1>4. \A y \in T : ~ (y < x)
  BY <1>2, <1>3
<1> QED
  BY <1>4

\* Mathematical induction.
LEMMA NaturalsFromZero ==
    ASSUME NEW P, 0 \in P, \A n \in Nat : n \in P => n + 1 \in P
    PROVE  Nat \subseteq P
<1> DEFINE T == Nat \ P
<1> SUFFICES ASSUME T # {} PROVE FALSE
  OBVIOUS
<1>1. PICK n \in T : \A m \in T : n <= m
  BY LeastNatural
<1>2. n # 0 /\ n - 1 \in Nat /\ n - 1 \in P
  BY <1>1
<1> QED
  BY <1>1, <1>2

\* Induction over the subsets of a finite set.
LEMMA SubsetsFromEmpty ==
    ASSUME NEW S, IsFiniteSet(S), NEW P, {} \in P,
           \A s \in SUBSET S : s # {} /\ (\A x \in s : s \ {x} \in P) => s \in P
    PROVE  SUBSET S \subseteq P
<1> DEFINE R == StrictSubsetOrdering(S)
           T == (SUBSET S) \ P
<1> SUFFICES ASSUME T # {} PROVE FALSE
  OBVIOUS
<1>1. IsWellFoundedOn(R, SUBSET S)
  BY FS_StrictSubsetOrderingWellFounded, FS_FiniteSubsetsOfFinite
<1>2. \A x, y \in SUBSET S : x \subseteq y /\ x # y => <<x, y>> \in R
  BY DEF StrictSubsetOrdering
<1> HIDE DEF R
<1>3. T \subseteq SUBSET S
  OBVIOUS
<1> HIDE DEF T
<1>4. PICK s \in T : \A y \in T : ~ (<<y, s>> \in R)
  BY <1>1, <1>3, WFMin
<1> USE DEF T
<1>5. ASSUME NEW x \in s PROVE s \ {x} \in P
  <2>1. s \ {x} \in SUBSET S /\ s \ {x} # s
    BY <1>4
  <2> QED
    BY <1>2, <1>4, <2>1
<1> QED
  BY <1>4, <1>5

-----------------------------------------------------------------------------
(* Sums over finite sets (SumFunctionOnSet of module Functions).           *)

Pick(s) == CHOOSE x \in s : TRUE
AddOne(w, g, s) == IF s = {} THEN 0 ELSE w[Pick(s)] + g[s \ {Pick(s)}]
Partial(w, S) == CHOOSE g : g = [s \in SUBSET S |-> AddOne(w, g, s)]

LEMMA SumIsPartial ==
    ASSUME NEW S, NEW w PROVE SumFunctionOnSet(w, S) = Partial(w, S)[S]
BY Zenon DEF SumFunctionOnSet, FoldFunctionOnSet, MapThenFoldSet, Partial, AddOne, Pick

LEMMA AddNone == \A w, g : AddOne(w, g, {}) = 0
BY DEF AddOne

LEMMA PickIn == ASSUME NEW s, s # {} PROVE Pick(s) \in s
BY DEF Pick

\* The recursion that defines a sum has a solution.
LEMMA PartialSums ==
    ASSUME NEW S, IsFiniteSet(S), NEW w \in [S -> Int]
    PROVE  \A s \in SUBSET S : Partial(w, S)[s] = AddOne(w, Partial(w, S), s)
<1> DEFINE Upto(n, g) == \A s \in SUBSET S : Cardinality(s) <= n => g[s] = AddOne(w, g, s)
           P == {n \in Nat : \E g \in [SUBSET S -> Int] : Upto(n, g)}
<1>0. \A s \in SUBSET S : IsFiniteSet(s) /\ Cardinality(s) \in Nat
  BY FS_Subset, FS_CardinalityType
<1>1. 0 \in P
  <2> DEFINE g == [s \in SUBSET S |-> 0]
  <2>1. \A s \in SUBSET S : Cardinality(s) <= 0 => s = {}
    BY <1>0, FS_EmptySet
  <2>2. Upto(0, g)
    BY <2>1 DEF AddOne
  <2>3. g \in [SUBSET S -> Int]
    OBVIOUS
  <2> HIDE DEF g
  <2> QED
    BY <2>2, <2>3
<1>2. ASSUME NEW n \in Nat, n \in P PROVE n + 1 \in P
  <2>1. PICK g \in [SUBSET S -> Int] : Upto(n, g)
    BY <1>2
  <2> DEFINE h == [s \in SUBSET S |-> AddOne(w, g, s)]
  <2>2. ASSUME NEW s \in SUBSET S, s # {}
        PROVE  /\ Pick(s) \in S /\ s \ {Pick(s)} \in SUBSET S
               /\ Cardinality(s \ {Pick(s)}) = Cardinality(s) - 1
    BY <1>0, <2>2, PickIn, FS_RemoveElement
  <2>3. h \in [SUBSET S -> Int]
    <3> SUFFICES ASSUME NEW s \in SUBSET S PROVE AddOne(w, g, s) \in Int
      OBVIOUS
    <3>1. CASE s = {}
      BY <3>1, AddNone
    <3>2. CASE s # {}
      <4>1. w[Pick(s)] \in Int /\ g[s \ {Pick(s)}] \in Int
        BY <2>1, <2>2, <3>2
      <4> QED
        BY <3>2, <4>1 DEF AddOne
    <3> QED
      BY <3>1, <3>2
  <2>4. ASSUME NEW s \in SUBSET S, Cardinality(s) <= n + 1
        PROVE  h[s] = AddOne(w, h, s)
    <3>1. CASE s = {}
      BY <3>1 DEF AddOne
    <3>2. CASE s # {}
      <4> DEFINE r == s \ {Pick(s)}
      <4>1. r \in SUBSET S /\ Cardinality(r) <= n
        BY <1>0, <2>2, <2>4, <3>2
      <4>2. h[r] = g[r]
        BY <2>1, <4>1
      <4> QED
        BY <3>2, <4>2, <4>1 DEF AddOne
    <3> QED
      BY <3>1, <3>2
  <2> HIDE DEF h
  <2> QED
    BY <2>3, <2>4
<1> HIDE DEF P
<1>3. Cardinality(S) \in P
  BY <1>0, <1>1, <1>2, NaturalsFromZero
<1> USE DEF P
<1>4. PICK g \in [SUBSET S -> Int] : Upto(Cardinality(S), g)
  BY <1>3
<1>5. \A s \in SUBSET S : g[s] = AddOne(w, g, s)
  BY <1>4, FS_Subset
<1>6. g = [s \in SUBSET S |-> AddOne(w, g, s)]
  BY <1>4, <1>5
<1>7. Partial(w, S) = [s \in SUBSET S |-> AddOne(w, Partial(w, S), s)]
  BY <1>6, Zenon DEF Partial
<1> QED
  BY <1>7, Zenon

LEMMA PartialType ==
    ASSUME NEW S, IsFiniteSet(S), NEW w \in [S -> Int]
    PROVE  \A s \in SUBSET S : Partial(w, S)[s] \in Int
<1> DEFINE p == Partial(w, S)
           P == {s \in SUBSET S : p[s] \in Int}
<1>0. \A s \in SUBSET S : p[s] = AddOne(w, p, s)
  BY PartialSums
<1> HIDE DEF p
<1>1. {} \in P
  <2>1. {} \in SUBSET S
    OBVIOUS
  <2> QED
    BY <1>0, <2>1, AddNone
<1>2. ASSUME NEW s \in SUBSET S, s # {}, \A x \in s : s \ {x} \in P
      PROVE  s \in P
  <2>1. Pick(s) \in s /\ s \ {Pick(s)} \in P
    BY <1>2, PickIn
  <2>2. p[s] = w[Pick(s)] + p[s \ {Pick(s)}]
    BY <1>0, <1>2 DEF AddOne
  <2> QED
    BY <2>1, <2>2
<1> HIDE DEF P
<1>3. SUBSET S \subseteq P
  BY <1>1, <1>2, SubsetsFromEmpty
<1> QED
  BY <1>3 DEF P, p

\* A sum of integers is an integer.
LEMMA SumType ==
    ASSUME NEW S, IsFiniteSet(S), NEW w \in [S -> Int]
    PROVE  SumFunctionOnSet(w, S) \in Int
BY SumIsPartial, PartialType

\* A sum of naturals is a natural.
LEMMA SumBounds ==
    ASSUME NEW S, IsFiniteSet(S), NEW w \in [S -> Nat]
    PROVE  SumFunctionOnSet(w, S) \in Nat
<1> DEFINE p == Partial(w, S)
           P == {s \in SUBSET S : p[s] \in Nat}
<1>0. \A s \in SUBSET S : p[s] = AddOne(w, p, s)
  BY PartialSums
<1> HIDE DEF p
<1>1. {} \in P
  <2>1. {} \in SUBSET S
    OBVIOUS
  <2> QED
    BY <1>0, <2>1, AddNone
<1>2. ASSUME NEW s \in SUBSET S, s # {}, \A x \in s : s \ {x} \in P
      PROVE  s \in P
  <2>1. Pick(s) \in s /\ s \ {Pick(s)} \in P
    BY <1>2, PickIn
  <2>2. p[s] = w[Pick(s)] + p[s \ {Pick(s)}]
    BY <1>0, <1>2 DEF AddOne
  <2> QED
    BY <2>1, <2>2
<1> HIDE DEF P
<1>3. SUBSET S \subseteq P
  BY <1>1, <1>2, SubsetsFromEmpty
<1> QED
  BY <1>3, SumIsPartial DEF P, p

\* Changing one summand changes the sum as much.
LEMMA SumChange ==
    ASSUME NEW S, IsFiniteSet(S), NEW w \in [S -> Int], NEW v \in [S -> Int],
           NEW c \in S, \A x \in S : x # c => v[x] = w[x]
    PROVE  SumFunctionOnSet(v, S) = SumFunctionOnSet(w, S) + (v[c] - w[c])
<1> DEFINE p == Partial(w, S)
           q == Partial(v, S)
           More(s) == IF c \in s THEN v[c] - w[c] ELSE 0
           P == {s \in SUBSET S : q[s] = p[s] + More(s)}
<1>0. /\ \A s \in SUBSET S : p[s] \in Int /\ q[s] \in Int
      /\ \A s \in SUBSET S : p[s] = AddOne(w, p, s) /\ q[s] = AddOne(v, q, s)
  BY PartialSums, PartialType
<1> HIDE DEF p, q
<1>1. {} \in P
  <2>1. {} \in SUBSET S
    OBVIOUS
  <2> QED
    BY <1>0, <2>1, AddNone
<1>2. ASSUME NEW s \in SUBSET S, s # {}, \A x \in s : s \ {x} \in P
      PROVE  s \in P
  <2> DEFINE x == Pick(s)
             r == s \ {x}
  <2>1. x \in s /\ r \in P /\ r \in SUBSET S
    BY <1>2, PickIn
  <2>2. p[s] = w[x] + p[r] /\ q[s] = v[x] + q[r]
    BY <1>0, <1>2 DEF AddOne
  <2>3. q[r] = p[r] + More(r)
    BY <2>1
  <2>4. p[r] \in Int /\ q[r] \in Int /\ w[x] \in Int /\ v[x] \in Int /\ w[c] \in Int /\ v[c] \in Int
    BY <1>0, <2>1
  <2>5. More(s) = More(r) + (v[x] - w[x])
    <3>1. CASE x = c
      BY <2>1, <2>4, <3>1
    <3>2. CASE x # c
      BY <2>1, <2>4, <3>2
    <3> QED
      BY <3>1, <3>2
  <2>6. More(r) \in Int
    BY <2>4
  <2> HIDE DEF x, r, More
  <2> QED
    BY <2>2, <2>3, <2>4, <2>5, <2>6
<1> HIDE DEF P
<1>3. SUBSET S \subseteq P
  BY <1>1, <1>2, SubsetsFromEmpty
<1> QED
  BY <1>3, SumIsPartial DEF P, p, q

\* The sum of nothing but zeros.
LEMMA SumZero ==
    ASSUME NEW S, IsFiniteSet(S)
    PROVE  SumFunctionOnSet([x \in S |-> 0], S) = 0
<1> DEFINE w == [x \in S |-> 0]
           p == Partial(w, S)
           P == {s \in SUBSET S : p[s] = 0}
<1>0. \A s \in SUBSET S : p[s] = AddOne(w, p, s)
  BY PartialSums
<1> HIDE DEF p
<1>1. {} \in P
  <2>1. {} \in SUBSET S
    OBVIOUS
  <2> QED
    BY <1>0, <2>1, AddNone
<1>2. ASSUME NEW s \in SUBSET S, s # {}, \A x \in s : s \ {x} \in P
      PROVE  s \in P
  <2>1. Pick(s) \in s /\ s \ {Pick(s)} \in P
    BY <1>2, PickIn
  <2>2. p[s] = w[Pick(s)] + p[s \ {Pick(s)}]
    BY <1>0, <1>2 DEF AddOne
  <2> QED
    BY <2>1, <2>2
<1> HIDE DEF P
<1>3. SUBSET S \subseteq P
  BY <1>1, <1>2, SubsetsFromEmpty
<1> QED
  BY <1>3, SumIsPartial DEF P, p

====
