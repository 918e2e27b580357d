----------------------------- MODULE FoldLemmas -----------------------------
(***************************************************************************)
(* The folds of the libraries are functions defined by recursion over the  *)
(* subsets of a finite set.  That such a function exists, so that its      *)
(* equation may be used, and what follows for sums and for filtered        *)
(* sequences.  The step is given as a function, for no lemma that takes an *)
(* operator can be used by the provers.                                    *)
(***************************************************************************)
EXTENDS SequencesExt, FiniteSetTheorems, NaturalsInduction, WellFoundedInduction, TLAPS

-----------------------------------------------------------------------------
(* Induction.                                                              *)

\* A set of natural numbers that holds 0 and with n also n + 1 holds them all:
\* the least number it lacks would have a predecessor.
LEMMA Inductive ==
    ASSUME NEW T, 0 \in T, \A n \in Nat : n \in T => n + 1 \in T
    PROVE  Nat \subseteq T
  <1> DEFINE R == OpToRel(<, Nat)
  <1> SUFFICES ASSUME Nat \ T # {} PROVE FALSE
    OBVIOUS
  <1>1. PICK x \in Nat \ T : \A y \in Nat \ T : ~ (<<y, x>> \in R)
    <2>1. IsWellFoundedOn(R, Nat)
      BY NatLessThanWellFounded
    <2> HIDE DEF R
    <2>2. QED
      BY <2>1, WFMin
  <1>2. x # 0 /\ x - 1 \in Nat /\ x - 1 < x
    OBVIOUS
  <1>3. <<x - 1, x>> \in R
    BY <1>2 DEF OpToRel
  <1>4. x - 1 \in T
    BY <1>1, <1>2, <1>3
  <1>5. (x - 1) + 1 \in T
    BY <1>2, <1>4
  <1>6. QED
    BY <1>5

\* What is known of the size of a subset.
LEMMA Sized ==
    ASSUME NEW S, IsFiniteSet(S), NEW s \in SUBSET S
    PROVE  /\ IsFiniteSet(s) /\ Cardinality(s) \in Nat
           /\ Cardinality(s) <= Cardinality(S)
           /\ Cardinality(s) = 0 <=> s = {}
           /\ \A x \in s : /\ s \ {x} \in SUBSET S
                           /\ Cardinality(s \ {x}) = Cardinality(s) - 1
  <1>1. IsFiniteSet(s) /\ Cardinality(s) <= Cardinality(S)
    BY FS_Subset
  <1>2. Cardinality(s) \in Nat /\ (Cardinality(s) = 0 <=> s = {})
    BY <1>1, FS_CardinalityType, FS_EmptySet
  <1>3. ASSUME NEW x \in s PROVE Cardinality(s \ {x}) = Cardinality(s) - 1
    BY <1>1, FS_RemoveElement
  <1>4. QED
    BY <1>1, <1>2, <1>3

\* A set of subsets of the finite set S that holds {} and, with what is left of a
\* subset after some element, the subset, holds them all.
LEMMA SubsetsInductive ==
    ASSUME NEW S, IsFiniteSet(S), NEW T, {} \in T,
           \A s \in SUBSET S : s # {} => \E x \in s : s \ {x} \in T => s \in T
    PROVE  SUBSET S \subseteq T
  <1> DEFINE Sizes == {n \in Nat : \A s \in SUBSET S : Cardinality(s) = n => s \in T}
  <1>1. 0 \in Sizes
    <2>1. \A s \in SUBSET S : Cardinality(s) = 0 => s = {}
      BY Sized
    <2>2. QED
      BY <2>1
  <1>2. ASSUME NEW n \in Nat, n \in Sizes PROVE n + 1 \in Sizes
    <2>1. ASSUME NEW s \in SUBSET S, Cardinality(s) = n + 1 PROVE s \in T
      <3>1. s # {}
        BY <2>1, Sized
      <3>2. PICK x \in s : s \ {x} \in T => s \in T
        BY <3>1
      <3>3. Cardinality(s \ {x}) = n /\ s \ {x} \in SUBSET S
        BY <2>1, Sized
      <3>4. s \ {x} \in T
        BY <1>2, <3>3
      <3>5. QED
        BY <3>2, <3>4
    <2>2. QED
      BY <2>1
  <1>3. Nat \subseteq Sizes
    <2> HIDE DEF Sizes
    <2>1. QED
      BY <1>1, <1>2, Inductive
  <1>4. ASSUME NEW s \in SUBSET S PROVE s \in T
    <2>1. Cardinality(s) \in Sizes
      BY <1>3, Sized
    <2>2. QED
      BY <2>1
  <1>5. QED
    BY <1>4

-----------------------------------------------------------------------------
(* Recursion over the subsets of a finite set.                             *)

\* g folds the subsets of S: base for the empty set, and else the step for the
\* picked element, from what the others give.
Folds(g, S, base, pick, step) ==
    g = [s \in SUBSET S |-> IF s = {} THEN base
                            ELSE step[s][g[s \ {pick[s]}]]]

LEMMA FoldExists ==
    ASSUME NEW S, IsFiniteSet(S), NEW V, NEW base \in V, NEW pick, NEW step,
           \A s \in SUBSET S : s # {} => pick[s] \in s,
           \A s \in SUBSET S : \A v \in V : s # {} => step[s][v] \in V
    PROVE  \E g \in [SUBSET S -> V] : Folds(g, S, base, pick, step)
  <1> DEFINE Upto(n) == {s \in SUBSET S : Cardinality(s) <= n}
      Next(s, g) == IF s = {} THEN base ELSE step[s][g[s \ {pick[s]}]]
      Solves(g, n) == g \in [Upto(n) -> V] /\ \A s \in Upto(n) : g[s] = Next(s, g)
      T == {n \in Nat : \E g : Solves(g, n)}
  <1>1. 0 \in T
    <2>1. \A s \in Upto(0) : s = {}
      BY Sized
    <2>2. Solves([s \in Upto(0) |-> base], 0)
      BY <2>1
    <2> HIDE DEF Solves
    <2>3. QED
      BY <2>2
  <1>2. ASSUME NEW n \in Nat, n \in T PROVE n + 1 \in T
    <2>1. PICK g : Solves(g, n)
      BY <1>2
    <2> DEFINE h == [s \in Upto(n + 1) |-> Next(s, g)]
    <2>2. ASSUME NEW s \in Upto(n + 1), s # {}
          PROVE  s \ {pick[s]} \in Upto(n)
      <3>1. pick[s] \in s
        BY <2>2
      <3>2. /\ s \ {pick[s]} \in SUBSET S
            /\ Cardinality(s \ {pick[s]}) = Cardinality(s) - 1
            /\ Cardinality(s) \in Nat /\ Cardinality(s) <= n + 1
        BY <3>1, Sized
      <3>3. QED
        BY <3>2
    <2>3. \A s \in Upto(n + 1) : Next(s, g) \in V
      <3> HIDE DEF Upto
      <3>1. \A s \in Upto(n + 1) : s # {} => g[s \ {pick[s]}] \in V
        BY <2>1, <2>2
      <3>2. \A s \in Upto(n + 1) : s \in SUBSET S
        BY DEF Upto
      <3>3. QED
        BY <3>1, <3>2
    <2>4. Upto(n) \subseteq Upto(n + 1)
      BY Sized
    <2> HIDE DEF Upto
    <2>5. h \in [Upto(n + 1) -> V]
      BY <2>3
    <2>6. \A s \in Upto(n) : h[s] = g[s]
      BY <2>1, <2>4
    <2>7. \A s \in Upto(n + 1) : h[s] = Next(s, h)
      BY <2>2, <2>6
    <2> HIDE DEF h, Next
    <2>8. Solves(h, n + 1)
      BY <2>5, <2>7
    <2> HIDE DEF Solves
    <2>9. QED
      BY <2>8
  <1>3. Nat \subseteq T
    <2> HIDE DEF T
    <2>1. QED
      BY <1>1, <1>2, Inductive
  <1>4. PICK g : Solves(g, Cardinality(S))
    <2>1. Cardinality(S) \in Nat
      BY FS_CardinalityType
    <2>2. QED
      BY <1>3, <2>1
  <1>5. Upto(Cardinality(S)) = SUBSET S
    BY Sized
  <1> HIDE DEF Upto
  <1>6. g \in [SUBSET S -> V] /\ g = [s \in SUBSET S |-> Next(s, g)]
    BY <1>4, <1>5
  <1>7. QED
    BY <1>6 DEF Folds

-----------------------------------------------------------------------------
(* Sums.                                                                   *)

Some(s) == CHOOSE x \in s : TRUE
Picks(D) == [s \in SUBSET D |-> Some(s)]
Adds(f) == [s \in SUBSET DOMAIN f |-> [v \in Nat |-> f[Some(s)] + v]]

\* The sums of the parts of f.
Sums(f) == CHOOSE g : g = [s \in SUBSET DOMAIN f |->
                             IF s = {} THEN 0 ELSE f[Some(s)] + g[s \ {Some(s)}]]

LEMMA SomeIn == ASSUME NEW s, s # {} PROVE Some(s) \in s
  BY DEF Some

LEMMA SumIsPart == ASSUME NEW f PROVE SumFunction(f) = Sums(f)[DOMAIN f]
  BY DEF SumFunction, SumFunctionOnSet, FoldFunctionOnSet, MapThenFoldSet, Some, Sums

\* The functions that may be summed.
Summable(f) ==
    f = [x \in DOMAIN f |-> f[x]] /\ IsFiniteSet(DOMAIN f)
    /\ \A x \in DOMAIN f : f[x] \in Nat

LEMMA SumsDef ==
    ASSUME NEW f, Summable(f)
    PROVE  /\ Sums(f) \in [SUBSET DOMAIN f -> Nat]
           /\ Sums(f)[{}] = 0
           /\ \A s \in SUBSET DOMAIN f : s # {} =>
                 Sums(f)[s] = f[Some(s)] + Sums(f)[s \ {Some(s)}]
  <1> DEFINE D == DOMAIN f
      Is(g) == g = [s \in SUBSET D |->
                             IF s = {} THEN 0 ELSE f[Some(s)] + g[s \ {Some(s)}]]
  <1>1. \A s \in SUBSET D : s # {} => Picks(D)[s] \in s
    BY SomeIn DEF Picks
  <1>2. \A s \in SUBSET D : \A v \in Nat : s # {} => Adds(f)[s][v] \in Nat
    BY SomeIn DEF Adds, Summable
  <1>3. 0 \in Nat /\ IsFiniteSet(D)
    BY DEF Summable
  <1>4. \E h \in [SUBSET D -> Nat] : Folds(h, D, 0, Picks(D), Adds(f))
    <2> HIDE DEF D
    <2>1. QED
      BY <1>1, <1>2, <1>3, FoldExists
  <1>5. \A g \in [SUBSET D -> Nat] : Folds(g, D, 0, Picks(D), Adds(f)) => Is(g)
    BY SomeIn DEF Folds, Picks, Adds
  <1>6. Is(Sums(f))
    <2> HIDE DEF Is
    <2>1. Is(CHOOSE g : Is(g))
      BY <1>4, <1>5
    <2>2. QED
      BY <2>1 DEF Is, Sums
  <1>7. Sums(f) \in [SUBSET D -> Nat]
    <2> DEFINE T == {s \in SUBSET D : Sums(f)[s] \in Nat}
    <2>1. {} \in T
      BY <1>6
    <2>2. ASSUME NEW s \in SUBSET D, s # {}
          PROVE  s \ {Some(s)} \in T => s \in T
      <3>1. f[Some(s)] \in Nat
        BY <2>2, SomeIn DEF Summable
      <3>2. Sums(f)[s] = f[Some(s)] + Sums(f)[s \ {Some(s)}]
        BY <1>6, <2>2
      <3>3. QED
        BY <3>1, <3>2
    <2>3. SUBSET D \subseteq T
      <3>1. \A s \in SUBSET D : s # {} => \E x \in s : s \ {x} \in T => s \in T
        BY <2>2, SomeIn
      <3>2. IsFiniteSet(D)
        BY <1>3
      <3> HIDE DEF T, D
      <3>3. QED
        BY <2>1, <3>1, <3>2, SubsetsInductive
    <2>4. QED
      BY <1>6, <2>3
  <1>8. QED
    BY <1>6, <1>7

LEMMA SumType ==
    ASSUME NEW f, Summable(f)
    PROVE  SumFunction(f) \in Nat
  BY SumsDef, SumIsPart

\* When one summand becomes v the sum grows by as much.
LEMMA SumUpdated ==
    ASSUME NEW f, Summable(f), NEW d \in DOMAIN f, NEW v \in Nat
    PROVE  /\ Summable([f EXCEPT ![d] = v])
           /\ SumFunction([f EXCEPT ![d] = v]) + f[d] = SumFunction(f) + v
  <1> DEFINE D == DOMAIN f
      g == [f EXCEPT ![d] = v]
      Part(n, s) == IF d \in s THEN n ELSE 0
      T == {s \in SUBSET D : Sums(g)[s] + Part(f[d], s) = Sums(f)[s] + Part(v, s)}
  <1>1. /\ DOMAIN g = D /\ g[d] = v /\ f[d] \in Nat
        /\ \A x \in D : x # d => g[x] = f[x]
    BY DEF Summable
  <1>2. Summable(g)
    BY <1>1 DEF Summable
  <1> HIDE DEF g
  <1>3. {} \in T
    BY <1>1, <1>2, SumsDef
  <1>4. ASSUME NEW s \in SUBSET D, s # {}
        PROVE  s \ {Some(s)} \in T => s \in T
    <2> DEFINE x == Some(s)
        r == s \ {x}
    <2>1. x \in s /\ x \in D /\ r \in SUBSET D
      BY <1>4, SomeIn
    <2>2. /\ Sums(g)[s] = g[x] + Sums(g)[r] /\ Sums(f)[s] = f[x] + Sums(f)[r]
          /\ Sums(g)[r] \in Nat /\ Sums(f)[r] \in Nat
          /\ f[x] \in Nat /\ g[x] \in Nat
      BY <1>1, <1>2, <1>4, <2>1, SumsDef DEF Summable
    <2>3. x = d => Part(v, s) = v /\ Part(f[d], s) = f[d] /\ Part(v, r) = 0 /\ Part(f[d], r) = 0
      BY <2>1
    <2>4. x # d => /\ Part(v, s) = Part(v, r) /\ Part(f[d], s) = Part(f[d], r)
                   /\ g[x] = f[x]
      BY <1>1, <2>1
    <2>5. Part(v, r) \in Nat /\ Part(f[d], r) \in Nat
      BY <1>1
    <2>6. SUFFICES ASSUME Sums(g)[r] + Part(f[d], r) = Sums(f)[r] + Part(v, r)
                   PROVE  Sums(g)[s] + Part(f[d], s) = Sums(f)[s] + Part(v, s)
      BY <2>1
    <2> HIDE DEF x, r, Part
    <2>7. QED
      BY <1>1, <2>2, <2>3, <2>4, <2>5, <2>6
  <1>5. SUBSET D \subseteq T
    <2>1. \A s \in SUBSET D : s # {} => \E x \in s : s \ {x} \in T => s \in T
      BY <1>4, SomeIn
    <2>2. IsFiniteSet(D)
      BY DEF Summable
    <2> HIDE DEF T, D
    <2>3. QED
      BY <1>3, <2>1, <2>2, SubsetsInductive
  <1>6. D \in T
    BY <1>5
  <1>7. Sums(g)[D] + f[d] = Sums(f)[D] + v
    BY <1>6
  <1>8. QED
    BY <1>1, <1>2, <1>7, SumIsPart DEF g
-----------------------------------------------------------------------------
(* Folds of a sequence, from its first element to its last: the element    *)
(* picked is the one with the greatest index.                              *)

LEMMA MaxIn ==
    ASSUME NEW n \in Nat, NEW s \in SUBSET (1..n), s # {}
    PROVE  Max(s) \in s /\ \A i \in s : Max(s) >= i
  <1> DEFINE Has(t) == \E x \in t : \A y \in t : x >= y
             T == {k \in Nat : \A t \in SUBSET (1..k) : t # {} => Has(t)}
  <1>1. 0 \in T
    <2>1. 1..0 = {}
      OBVIOUS
    <2> HIDE DEF Has
    <2>2. QED
      BY <2>1
  <1>2. ASSUME NEW k \in Nat, k \in T PROVE k + 1 \in T
    <2>1. ASSUME NEW t \in SUBSET (1..(k + 1)), t # {} PROVE Has(t)
      <3>1. CASE k + 1 \in t
        BY <3>1
      <3>2. CASE k + 1 \notin t
        <4>1. t \in SUBSET (1..k)
          BY <3>2
        <4> HIDE DEF Has
        <4>2. QED
          BY <1>2, <2>1, <4>1
      <3>3. QED
        BY <3>1, <3>2
    <2> HIDE DEF Has
    <2>2. QED
      BY <2>1
  <1>3. Nat \subseteq T
    <2> HIDE DEF T
    <2>1. QED
      BY <1>1, <1>2, Inductive
  <1>4. Has(s)
    <2> HIDE DEF Has
    <2>1. QED
      BY <1>3
  <1>5. QED
    BY <1>4 DEF Max

LEMMA MaxUpto ==
    ASSUME NEW k \in Nat, k # 0
    PROVE  Max(1..k) = k /\ (1..k) \ {k} = 1..(k - 1)
  <1>1. k \in 1..k /\ 1..k \in SUBSET (1..k)
    OBVIOUS
  <1>2. Max(1..k) \in 1..k /\ Max(1..k) >= k
    BY <1>1, MaxIn
  <1>3. QED
    BY <1>2

\* g folds 1..n from base, and what it gives for an initial part follows from
\* the part one shorter.
FoldsUpto(g, n, base, step) ==
    g = [s \in SUBSET (1..n) |-> IF s = {} THEN base
                                ELSE step[Max(s)][g[s \ {Max(s)}]]]

LEMMA FoldUptoExists ==
    ASSUME NEW n \in Nat, NEW V, NEW base \in V, NEW step,
           \A k \in 1..n : \A v \in V : step[k][v] \in V
    PROVE  \E g \in [SUBSET (1..n) -> V] : FoldsUpto(g, n, base, step)
  <1> DEFINE S == 1..n
             pick == [s \in SUBSET S |-> Max(s)]
             steps == [s \in SUBSET S |-> step[Max(s)]]
  <1>1. \A s \in SUBSET S : s # {} => pick[s] \in s
    BY MaxIn
  <1>2. \A s \in SUBSET S : \A v \in V : s # {} => steps[s][v] \in V
    BY MaxIn
  <1>3. IsFiniteSet(S)
    BY FS_Interval
  <1>4. \E g \in [SUBSET S -> V] : Folds(g, S, base, pick, steps)
    <2> HIDE DEF S, pick, steps
    <2>1. QED
      BY <1>1, <1>2, <1>3, FoldExists
  <1>5. \A g : Folds(g, S, base, pick, steps) => FoldsUpto(g, n, base, step)
    BY DEF Folds, FoldsUpto
  <1>6. QED
    BY <1>4, <1>5
=============================================================================
