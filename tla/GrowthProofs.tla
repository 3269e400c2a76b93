---------------------------- MODULE GrowthProofs ---------------------------
(* What a player wears and endures, and how he grows and dies: the scenes of *)
(* World where numbers are kept as the sums of others.  Of both, that the    *)
(* property which the run checks on a small instance holds for any slots,    *)
(* types of items, conditions, levels, vocations, tables and blessings.      *)
EXTENDS World, Sequences, FiniteSetTheorems, WellFoundedInduction, TLAPS

-----------------------------------------------------------------------------
(* Sets of numbers.                                                          *)

\* A set of numbers has a least one; one closed under successor has them all.
LEMMA LeastOf ==
  ASSUME NEW S \in SUBSET Nat, S # {}
  PROVE  \E x \in S : \A y \in S : x <= y
<1> DEFINE R == OpToRel(<, Nat)
<1>1. IsWellFoundedOn(R, Nat)
  BY NatLessThanWellFounded
<1> HIDE DEF R
<1>2. PICK x \in S : \A y \in S : ~(<<y, x>> \in R)
  BY <1>1, WFMin
<1>3. \A y \in S : ~(y < x)
  BY <1>2 DEF R, OpToRel
<1> QED
  BY <1>3

LEMMA NatInductionOnSets ==
  ASSUME NEW S \in SUBSET Nat, 0 \in S, \A n \in S : n + 1 \in S
  PROVE  S = Nat
<1>1. SUFFICES ASSUME Nat \ S # {} PROVE FALSE
  OBVIOUS
<1>2. PICK x \in Nat \ S : \A y \in Nat \ S : x <= y
  BY <1>1, LeastOf
<1>3. x # 0 /\ x - 1 \in Nat /\ ~(x <= x - 1) /\ (x - 1) + 1 = x
  BY SMT
<1>4. x - 1 \in S
  BY <1>2, <1>3
<1> QED
  BY <1>3, <1>4

-----------------------------------------------------------------------------
(* Sums over finite sets: of a function f, the sums over the subsets of its  *)
(* domain, which do not depend on the order in which they are taken.         *)
Sum(f) == Cond!SumFunction(f)

Sums(f, S, g) ==
  /\ g \in [SUBSET S -> Int] /\ g[{}] = 0
  /\ \A T \in SUBSET S : \A x \in T : g[T] = f[x] + g[T \ {x}]

\* One step of the fold that SumFunction is.
FoldStep(f, g, T) ==
  IF T = {} THEN 0 ELSE f[CHOOSE x : x \in T] + g[T \ {CHOOSE x : x \in T}]

LEMMA SmallerSet ==
  ASSUME NEW T, IsFiniteSet(T), NEW x \in T, NEW n \in Nat, Cardinality(T) <= n + 1
  PROVE  IsFiniteSet(T \ {x}) /\ Cardinality(T \ {x}) <= n
<1>1. IsFiniteSet(T \ {x}) /\ Cardinality(T \ {x}) = Cardinality(T) - 1
  BY FS_RemoveElement
<1>2. Cardinality(T) \in Nat
  BY FS_CardinalityType
<1> QED
  BY <1>1, <1>2

IsFold(f, S, g) == g = [T \in SUBSET S |-> FoldStep(f, g, T)]

\* The fold exists.
LEMMA FoldExists ==
  ASSUME NEW S, IsFiniteSet(S), NEW f
  PROVE  \E g : IsFold(f, S, g)
<1> DEFINE M == {n \in Nat : \E g : DOMAIN g = SUBSET S
                    /\ \A T \in SUBSET S : Cardinality(T) <= n => g[T] = FoldStep(f, g, T)}
<1>0. \A T \in SUBSET S : IsFiniteSet(T) /\ Cardinality(T) \in Nat
  BY FS_Subset, FS_CardinalityType
<1>1. 0 \in M
  <2> DEFINE g == [T \in SUBSET S |-> 0]
  <2>1. \A T \in SUBSET S : Cardinality(T) <= 0 => g[T] = FoldStep(f, g, T)
    <3> TAKE T \in SUBSET S
    <3> HAVE Cardinality(T) <= 0
    <3>1. Cardinality(T) = 0
      BY <1>0
    <3>2. T = {}
      BY <1>0, <3>1, FS_EmptySet
    <3> QED
      BY <3>2 DEF FoldStep
  <2>2. DOMAIN g = SUBSET S
    OBVIOUS
  <2> HIDE DEF g
  <2> QED
    BY <2>1, <2>2
<1>2. \A n \in M : n + 1 \in M
  <2> TAKE n \in M
  <2>0. n \in Nat /\ n + 1 \in Nat
    OBVIOUS
  <2>1. PICK g : /\ DOMAIN g = SUBSET S
                 /\ \A T \in SUBSET S : Cardinality(T) <= n => g[T] = FoldStep(f, g, T)
    OBVIOUS
  <2> DEFINE h == [T \in SUBSET S |-> IF Cardinality(T) <= n THEN g[T] ELSE FoldStep(f, g, T)]
  <2>2. DOMAIN h = SUBSET S
    OBVIOUS
  <2>3. \A T \in SUBSET S : Cardinality(T) <= n => h[T] = g[T]
    OBVIOUS
  <2>4. \A T \in SUBSET S : h[T] = FoldStep(f, g, T)
    <3> HIDE DEF h
    <3> TAKE T \in SUBSET S
    <3>1. h[T] = IF Cardinality(T) <= n THEN g[T] ELSE FoldStep(f, g, T)
      BY DEF h
    <3> QED
      BY <2>1, <3>1, Zenon
  <2> HIDE DEF h, M
  <2>5. ASSUME NEW T \in SUBSET S, Cardinality(T) <= n + 1
        PROVE  FoldStep(f, g, T) = FoldStep(f, h, T)
    <3>1. CASE T = {}
      BY <3>1 DEF FoldStep
    <3>2. CASE T # {}
      <4> DEFINE x == CHOOSE x : x \in T
      <4>1. x \in T
        BY <3>2
      <4> HIDE DEF x
      <4>2. T \ {x} \in SUBSET S /\ Cardinality(T \ {x}) <= n
        BY <1>0, <2>0, <2>5, <4>1, SmallerSet
      <4>3. h[T \ {x}] = g[T \ {x}]
        BY <2>3, <4>2
      <4> QED
        BY <4>3, <3>2, Zenon DEF FoldStep, x
    <3> QED
      BY <3>1, <3>2
  <2>6. \A T \in SUBSET S : Cardinality(T) <= n + 1 => h[T] = FoldStep(f, h, T)
    BY <2>4, <2>5
  <2> QED
    BY <2>0, <2>2, <2>6 DEF M
<1> HIDE DEF M
<1>3. M = Nat
  <2>1. M \in SUBSET Nat
    BY DEF M
  <2> QED
    BY <1>1, <1>2, <2>1, NatInductionOnSets
<1>4. Cardinality(S) \in M
  BY <1>0, <1>3, Zenon
<1>5. PICK g : /\ DOMAIN g = SUBSET S
               /\ \A T \in SUBSET S : Cardinality(T) <= Cardinality(S) => g[T] = FoldStep(f, g, T)
  BY <1>4 DEF M
<1>6. \A T \in SUBSET S : Cardinality(T) <= Cardinality(S)
  BY FS_Subset
<1> DEFINE h == [T \in SUBSET S |-> g[T]]
<1>7. \A T \in SUBSET S : FoldStep(f, g, T) = FoldStep(f, h, T)
  <2> TAKE T \in SUBSET S
  <2>1. CASE T = {}
    BY <2>1 DEF FoldStep
  <2>2. CASE T # {}
    <3> DEFINE x == CHOOSE x : x \in T
    <3>1. T \ {x} \in SUBSET S
      OBVIOUS
    <3>2. h[T \ {x}] = g[T \ {x}]
      BY <3>1
    <3> HIDE DEF h
    <3> QED
      BY <3>2, <2>2, Zenon DEF FoldStep
  <2> QED
    BY <2>1, <2>2
<1>8. \A T \in SUBSET S : h[T] = FoldStep(f, h, T)
  <2> HIDE DEF h
  <2> TAKE T \in SUBSET S
  <2>1. h[T] = g[T]
    BY DEF h
  <2> QED
    BY <1>5, <1>6, <1>7, <2>1, Zenon
<1>9. h = [T \in SUBSET S |-> FoldStep(f, h, T)]
  <2>1. h = [T \in SUBSET S |-> h[T]]
    OBVIOUS
  <2> HIDE DEF h
  <2> QED
    BY <1>8, <2>1, Zenon
<1> HIDE DEF h
<1> QED
  BY <1>9 DEF IsFold

LEMMA SumIsFold ==
  ASSUME NEW S, IsFiniteSet(S), NEW f, DOMAIN f = S
  PROVE  \E g : IsFold(f, S, g) /\ Sum(f) = g[S]
<1>1. \E g : IsFold(f, S, g)
  BY FoldExists
<1> DEFINE c == CHOOSE g : g = [T \in SUBSET S |-> FoldStep(f, g, T)]
<1>2. c = [T \in SUBSET S |-> FoldStep(f, c, T)]
  BY <1>1, Zenon DEF IsFold
<1>3. Sum(f) = c[S]
  BY DEF Sum, Cond!SumFunction, Cond!SumFunctionOnSet, Cond!FoldFunctionOnSet, Cond!MapThenFoldSet, FoldStep
<1> HIDE DEF c
<1> QED
  BY <1>2, <1>3 DEF IsFold

\* An order in which the first is taken last gives the same sum.
LEMMA AnyOrder ==
  ASSUME NEW S, IsFiniteSet(S), NEW f \in [S -> Int],
         NEW g, IsFold(f, S, g)
  PROVE  Sums(f, S, g)
<1> DEFINE Good(T) == g[T] \in Int /\ \A x \in T : g[T] = f[x] + g[T \ {x}]
           M == {n \in Nat : \A T \in SUBSET S : Cardinality(T) <= n => Good(T)}
<1>0. \A T \in SUBSET S : IsFiniteSet(T) /\ Cardinality(T) \in Nat
  BY FS_Subset, FS_CardinalityType
<1>1. DOMAIN g = SUBSET S /\ \A T \in SUBSET S : g[T] = FoldStep(f, g, T)
  BY Zenon DEF IsFold
<1>2. g[{}] = 0
  BY <1>1 DEF FoldStep
<1>3. 0 \in M
  <2> SUFFICES ASSUME NEW T \in SUBSET S, Cardinality(T) <= 0
               PROVE  Good(T)
    OBVIOUS
  <2>1. Cardinality(T) = 0
    BY <1>0
  <2>2. T = {}
    BY <1>0, <2>1, FS_EmptySet
  <2> QED
    BY <1>2, <2>2
<1>4. \A n \in M : n + 1 \in M
  <2> TAKE n \in M
  <2>0. n \in Nat /\ n + 1 \in Nat
    OBVIOUS
  <2>1. \A T \in SUBSET S : Cardinality(T) <= n => Good(T)
    OBVIOUS
  <2> HIDE DEF M, Good
  <2>2. ASSUME NEW T \in SUBSET S, Cardinality(T) <= n + 1
        PROVE  Good(T)
    <3>1. CASE T = {}
      BY <1>2, <3>1 DEF Good
    <3>2. CASE T # {}
      <4> DEFINE y == CHOOSE x : x \in T
      <4>1. y \in T /\ y \in S
        BY <3>2
      <4>2. g[T] = f[y] + g[T \ {y}]
        BY <1>1, <3>2, Zenon DEF FoldStep
      <4> HIDE DEF y
      <4>3. ASSUME NEW z \in T
            PROVE  T \ {z} \in SUBSET S /\ Good(T \ {z})
        <5>1. T \ {z} \in SUBSET S /\ Cardinality(T \ {z}) <= n
          BY <1>0, <2>0, <2>2, SmallerSet
        <5> QED
          BY <2>1, <5>1
      <4>4. g[T \ {y}] \in Int
        BY <4>1, <4>3 DEF Good
      <4>5. g[T] \in Int
        BY <4>1, <4>2, <4>4
      <4>6. ASSUME NEW x \in T
            PROVE  g[T] = f[x] + g[T \ {x}]
        <5>1. CASE x = y
          BY <4>2, <5>1
        <5>2. CASE x # y
          <6>1. x \in T \ {y} /\ y \in T \ {x} /\ x \in S
            BY <4>1, <5>2
          <6>2. g[T \ {y}] = f[x] + g[(T \ {y}) \ {x}]
            BY <4>1, <4>3, <6>1 DEF Good
          <6>3. g[T \ {x}] = f[y] + g[(T \ {x}) \ {y}]
            BY <4>3, <6>1 DEF Good
          <6>4. (T \ {y}) \ {x} = (T \ {x}) \ {y}
            OBVIOUS
          <6>5. (T \ {x}) \ {y} \in SUBSET S /\ Good((T \ {x}) \ {y})
            <7>1. T \ {x} \in SUBSET S /\ IsFiniteSet(T \ {x}) /\ Cardinality(T \ {x}) <= n + 1
              <8>1. Cardinality(T \ {x}) <= n
                BY <1>0, <2>0, <2>2, SmallerSet
              <8>2. T \ {x} \in SUBSET S
                OBVIOUS
              <8>3. Cardinality(T \ {x}) \in Nat /\ IsFiniteSet(T \ {x})
                BY <1>0, <8>2
              <8> QED
                BY <2>0, <8>1, <8>2, <8>3
            <7>2. (T \ {x}) \ {y} \in SUBSET S /\ Cardinality((T \ {x}) \ {y}) <= n
              BY <2>0, <6>1, <7>1, SmallerSet
            <7> QED
              BY <2>1, <7>2
          <6>6. g[(T \ {x}) \ {y}] \in Int
            BY <6>5 DEF Good
          <6>7. f[x] \in Int /\ f[y] \in Int
            BY <4>1, <6>1
          <6>8. g[(T \ {y}) \ {x}] = g[(T \ {x}) \ {y}]
            BY <6>4
          <6> QED
            BY <4>2, <6>2, <6>3, <6>6, <6>7, <6>8
        <5> QED
          BY <5>1, <5>2
      <4> QED
        BY <4>5, <4>6 DEF Good
    <3> QED
      BY <3>1, <3>2
  <2>3. \A T \in SUBSET S : Cardinality(T) <= n + 1 => Good(T)
    BY <2>2
  <2> QED
    BY <2>0, <2>3 DEF M
<1> HIDE DEF M
<1>5. M = Nat
  <2>1. M \in SUBSET Nat
    BY DEF M
  <2> QED
    BY <1>3, <1>4, <2>1, NatInductionOnSets
<1>6. \A T \in SUBSET S : Good(T)
  <2> HIDE DEF Good
  <2> TAKE T \in SUBSET S
  <2>1. Cardinality(T) \in M
    BY <1>0, <1>5, Zenon
  <2>2. \A U \in SUBSET S : Cardinality(U) <= Cardinality(T) => Good(U)
    BY <2>1 DEF M
  <2>3. Cardinality(T) <= Cardinality(T)
    BY <1>0
  <2> QED
    BY <2>2, <2>3
<1>7. g \in [SUBSET S -> Int]
  BY <1>1, <1>6 DEF IsFold
<1> QED
  BY <1>2, <1>6, <1>7 DEF Sums

LEMMA SumFacts ==
  ASSUME NEW S, IsFiniteSet(S), NEW f \in [S -> Int]
  PROVE  \E g : Sums(f, S, g) /\ Sum(f) = g[S]
<1>1. PICK g : IsFold(f, S, g) /\ Sum(f) = g[S]
  BY SumIsFold
<1>2. Sums(f, S, g)
  BY <1>1, AnyOrder
<1> QED
  BY <1>1, <1>2

\* Two ways to sum agree where the functions do.
Part(h, f, T) == h \in [T -> Int] /\ \A x \in T : h[x] = f[x]

LEMMA SumsAgree ==
  ASSUME NEW S, NEW T \in SUBSET S, IsFiniteSet(T),
         NEW f \in [S -> Int], NEW g, Sums(f, S, g),
         NEW h, Part(h, f, T), NEW k, Sums(h, T, k)
  PROVE  \A U \in SUBSET T : k[U] = g[U]
<1>a. h \in [T -> Int] /\ \A x \in T : h[x] = f[x]
  BY DEF Part
<1> DEFINE M == {n \in Nat : \A U \in SUBSET T : Cardinality(U) <= n => k[U] = g[U]}
<1>0. \A U \in SUBSET T : IsFiniteSet(U) /\ Cardinality(U) \in Nat
  BY FS_Subset, FS_CardinalityType
<1>1. 0 \in M
  <2> SUFFICES ASSUME NEW U \in SUBSET T, Cardinality(U) <= 0
               PROVE  k[U] = g[U]
    OBVIOUS
  <2>1. Cardinality(U) = 0
    BY <1>0
  <2>2. U = {}
    BY <1>0, <2>1, FS_EmptySet
  <2> QED
    BY <2>2 DEF Sums
<1>2. \A n \in M : n + 1 \in M
  <2> TAKE n \in M
  <2>0. n \in Nat /\ n + 1 \in Nat
    OBVIOUS
  <2>1. \A U \in SUBSET T : Cardinality(U) <= n => k[U] = g[U]
    OBVIOUS
  <2> HIDE DEF M
  <2>2. ASSUME NEW U \in SUBSET T, Cardinality(U) <= n + 1
        PROVE  k[U] = g[U]
    <3>1. CASE U = {}
      BY <3>1 DEF Sums
    <3>2. CASE U # {}
      <4>1. PICK x : x \in U
        BY <3>2
      <4>2. U \ {x} \in SUBSET T /\ Cardinality(U \ {x}) <= n
        BY <1>0, <2>0, <2>2, <4>1, SmallerSet
      <4>3. k[U] = h[x] + k[U \ {x}]
        BY <4>1 DEF Sums
      <4>4. g[U] = f[x] + g[U \ {x}]
        BY <4>1 DEF Sums
      <4>5. k[U \ {x}] = g[U \ {x}]
        BY <2>1, <4>2
      <4> QED
        BY <1>a, <4>1, <4>3, <4>4, <4>5
    <3> QED
      BY <3>1, <3>2
  <2>3. \A U \in SUBSET T : Cardinality(U) <= n + 1 => k[U] = g[U]
    BY <2>2
  <2> QED
    BY <2>0, <2>3 DEF M
<1> HIDE DEF M
<1>3. M = Nat
  <2>1. M \in SUBSET Nat
    BY DEF M
  <2> QED
    BY <1>1, <1>2, <2>1, NatInductionOnSets
<1> TAKE U \in SUBSET T
<1>4. Cardinality(U) \in M
  BY <1>0, <1>3, Zenon
<1>5. \A V \in SUBSET T : Cardinality(V) <= Cardinality(U) => k[V] = g[V]
  BY <1>4 DEF M
<1>6. Cardinality(U) <= Cardinality(U)
  BY <1>0
<1> QED
  BY <1>5, <1>6

\* The sum over two disjoint parts of a domain.
LEMMA SumsOfParts ==
  ASSUME NEW S, IsFiniteSet(S), NEW f \in [S -> Int], NEW g, Sums(f, S, g), NEW T \in SUBSET S
  PROVE  \A U \in SUBSET (S \ T) : g[T \cup U] = g[T] + g[U]
<1> DEFINE M == {n \in Nat : \A U \in SUBSET (S \ T) : Cardinality(U) <= n => g[T \cup U] = g[T] + g[U]}
<1>0. \A U \in SUBSET (S \ T) : IsFiniteSet(U) /\ Cardinality(U) \in Nat
  BY FS_Subset, FS_CardinalityType
<1>00. \A U \in SUBSET S : g[U] \in Int
  BY DEF Sums
<1>1. 0 \in M
  <2> SUFFICES ASSUME NEW U \in SUBSET (S \ T), Cardinality(U) <= 0
               PROVE  g[T \cup U] = g[T] + g[U]
    OBVIOUS
  <2>1. Cardinality(U) = 0
    BY <1>0
  <2>2. U = {}
    BY <1>0, <2>1, FS_EmptySet
  <2>3. g[T] \in Int /\ g[U] = 0
    BY <1>00, <2>2 DEF Sums
  <2>4. g[T \cup U] = g[T]
    BY <2>2
  <2> QED
    BY <2>3, <2>4
<1>2. \A n \in M : n + 1 \in M
  <2> TAKE n \in M
  <2>0. n \in Nat /\ n + 1 \in Nat
    OBVIOUS
  <2>1. \A U \in SUBSET (S \ T) : Cardinality(U) <= n => g[T \cup U] = g[T] + g[U]
    OBVIOUS
  <2> HIDE DEF M
  <2>2. ASSUME NEW U \in SUBSET (S \ T), Cardinality(U) <= n + 1
        PROVE  g[T \cup U] = g[T] + g[U]
    <3>1. CASE U = {}
      <4>1. g[T] \in Int /\ g[U] = 0
        BY <1>00, <3>1 DEF Sums
      <4>2. T \cup U = T
        BY <3>1
      <4> QED
        BY <4>1, <4>2
    <3>2. CASE U # {}
      <4>1. PICK x : x \in U
        BY <3>2
      <4>2. U \ {x} \in SUBSET (S \ T) /\ Cardinality(U \ {x}) <= n
        BY <1>0, <2>0, <2>2, <4>1, SmallerSet
      <4>3. g[U] = f[x] + g[U \ {x}]
        <5>1. U \in SUBSET S
          OBVIOUS
        <5> QED
          BY <4>1, <5>1 DEF Sums
      <4>4. g[T \cup U] = f[x] + g[(T \cup U) \ {x}]
        <5>1. T \cup U \in SUBSET S /\ x \in T \cup U
          BY <4>1
        <5> QED
          BY <5>1 DEF Sums
      <4>5. g[(T \cup U) \ {x}] = g[T \cup (U \ {x})]
        <5>1. (T \cup U) \ {x} = T \cup (U \ {x})
          BY <4>1
        <5> QED
          BY <5>1
      <4>6. g[T \cup (U \ {x})] = g[T] + g[U \ {x}]
        BY <2>1, <4>2
      <4>7. f[x] \in Int /\ g[T] \in Int /\ g[U \ {x}] \in Int
        BY <1>00, <4>1, <4>2
      <4> QED
        BY <4>3, <4>4, <4>5, <4>6, <4>7
    <3> QED
      BY <3>1, <3>2
  <2>3. \A U \in SUBSET (S \ T) : Cardinality(U) <= n + 1 => g[T \cup U] = g[T] + g[U]
    BY <2>2
  <2> QED
    BY <2>0, <2>3 DEF M
<1> HIDE DEF M
<1>3. M = Nat
  <2>1. M \in SUBSET Nat
    BY DEF M
  <2> QED
    BY <1>1, <1>2, <2>1, NatInductionOnSets
<1> TAKE U \in SUBSET (S \ T)
<1>4. Cardinality(U) \in M
  BY <1>0, <1>3, Zenon
<1>5. \A V \in SUBSET (S \ T) : Cardinality(V) <= Cardinality(U) => g[T \cup V] = g[T] + g[V]
  BY <1>4 DEF M
<1>6. Cardinality(U) <= Cardinality(U)
  BY <1>0
<1> QED
  BY <1>5, <1>6

\* The sum of a function is that of its restrictions to a set and to the rest.
LEMMA SumSplit ==
  ASSUME NEW S, IsFiniteSet(S), NEW f \in [S -> Int], NEW T \in SUBSET S,
         NEW h, Part(h, f, T), NEW k, Part(k, f, S \ T)
  PROVE  Sum(f) = Sum(h) + Sum(k) /\ Sum(h) \in Int /\ Sum(k) \in Int
<1>a. h \in [T -> Int] /\ \A x \in T : h[x] = f[x]
  BY DEF Part
<1>b. k \in [S \ T -> Int] /\ \A x \in S \ T : k[x] = f[x]
  BY DEF Part
<1>0. IsFiniteSet(T) /\ IsFiniteSet(S \ T)
  BY FS_Subset
<1>1. PICK g : Sums(f, S, g) /\ Sum(f) = g[S]
  BY SumFacts
<1>2. PICK a : Sums(h, T, a) /\ Sum(h) = a[T]
  BY <1>0, <1>a, SumFacts
<1>3. PICK b : Sums(k, S \ T, b) /\ Sum(k) = b[S \ T]
  BY <1>0, <1>b, SumFacts
<1>4. a[T] = g[T]
  BY <1>0, <1>1, <1>2, SumsAgree
<1>5. b[S \ T] = g[S \ T]
  <2> DEFINE R == S \ T
  <2>1. R \in SUBSET S /\ IsFiniteSet(R) /\ Part(k, f, R) /\ Sums(k, R, b)
    BY <1>0, <1>3
  <2> HIDE DEF R
  <2>2. \A U \in SUBSET R : b[U] = g[U]
    BY <1>1, <2>1, SumsAgree
  <2>3. b[R] = g[R]
    BY <2>2
  <2> QED
    BY <2>3 DEF R
<1>6. g[T \cup (S \ T)] = g[T] + g[S \ T]
  <2>1. \A U \in SUBSET (S \ T) : g[T \cup U] = g[T] + g[U]
    BY <1>1, SumsOfParts
  <2> QED
    BY <2>1
<1>7. g[T \cup (S \ T)] = g[S]
  <2>1. T \cup (S \ T) = S
    OBVIOUS
  <2> QED
    BY <2>1
<1>8. g[T] \in Int /\ g[S \ T] \in Int
  BY <1>1 DEF Sums
<1> QED
  BY <1>1, <1>2, <1>3, <1>4, <1>5, <1>6, <1>7, <1>8

LEMMA SumOfOne ==
  ASSUME NEW x, NEW f \in [{x} -> Int]
  PROVE  Sum(f) = f[x]
<1>1. IsFiniteSet({x})
  BY FS_Singleton
<1>2. PICK g : Sums(f, {x}, g) /\ Sum(f) = g[{x}]
  BY <1>1, SumFacts
<1>3. g[{x}] = f[x] + g[{x} \ {x}] /\ g[{}] = 0
  BY <1>2 DEF Sums
<1>4. {x} \ {x} = {}
  OBVIOUS
<1> QED
  BY <1>2, <1>3, <1>4

\* A sum changes with one of its terms as much as the term does.
Elsewhere(h, f, x) == \A y \in DOMAIN f : y # x => h[y] = f[y]

LEMMA SumOfChanged ==
  ASSUME NEW S, IsFiniteSet(S), NEW f \in [S -> Int], NEW x \in S, NEW h \in [S -> Int],
         Elsewhere(h, f, x)
  PROVE  Sum(h) = Sum(f) - f[x] + h[x] /\ Sum(f) \in Int
<1> DEFINE fx == [y \in {x} |-> f[y]]
           hx == [y \in {x} |-> h[y]]
           rest == [y \in S \ {x} |-> f[y]]
<1>1. fx \in [{x} -> Int] /\ hx \in [{x} -> Int]
  OBVIOUS
<1>2. fx[x] = f[x] /\ hx[x] = h[x]
  OBVIOUS
<1>3. Part(fx, f, {x}) /\ Part(rest, f, S \ {x})
  BY DEF Part
<1>4. Part(hx, h, {x}) /\ Part(rest, h, S \ {x})
  BY DEF Part, Elsewhere
<1>5. {x} \in SUBSET S
  OBVIOUS
<1> HIDE DEF fx, hx, rest
<1>6. Sum(f) = Sum(fx) + Sum(rest) /\ Sum(fx) \in Int /\ Sum(rest) \in Int
  BY <1>3, <1>5, SumSplit
<1>7. Sum(h) = Sum(hx) + Sum(rest)
  BY <1>4, <1>5, SumSplit
<1>8. Sum(fx) = f[x] /\ Sum(hx) = h[x]
  BY <1>1, <1>2, SumOfOne
<1>9. f[x] \in Int /\ h[x] \in Int
  OBVIOUS
<1> QED
  BY <1>6, <1>7, <1>8, <1>9

LEMMA SumOfZeros ==
  ASSUME NEW S, IsFiniteSet(S), NEW f \in [S -> Int], \A x \in S : f[x] = 0
  PROVE  Sum(f) = 0
<1>0. \A U \in SUBSET S : IsFiniteSet(U) /\ Cardinality(U) \in Nat
  BY FS_Subset, FS_CardinalityType
<1>1. PICK g : Sums(f, S, g) /\ Sum(f) = g[S]
  BY SumFacts
<1>2. g[S] = g[S] + g[S]
  <2> DEFINE two == [U \in SUBSET S |-> g[U] + g[U]]
  <2>0. \A U \in SUBSET S : g[U] \in Int
    BY <1>1 DEF Sums
  <2>1. \A U \in SUBSET S : g[U] \in Int /\ two[U] = g[U] + g[U]
    BY <2>0
  <2>2. two \in [SUBSET S -> Int]
    BY <2>0
  <2> HIDE DEF two
  <2>3. two[{}] = 0
    BY <1>1, <2>1 DEF Sums
  <2>4. \A T \in SUBSET S : \A x \in T : two[T] = f[x] + two[T \ {x}]
    <3> TAKE T \in SUBSET S
    <3> TAKE x \in T
    <3>1. g[T] = f[x] + g[T \ {x}] /\ f[x] = 0
      BY <1>1 DEF Sums
    <3>2. T \ {x} \in SUBSET S
      OBVIOUS
    <3> QED
      BY <2>1, <3>1, <3>2
  <2>5. Sums(f, S, two)
    BY <2>2, <2>3, <2>4 DEF Sums
  <2>6. \A U \in SUBSET S : two[U] = g[U]
    <3>1. Part(f, f, S) /\ S \in SUBSET S
      BY DEF Part
    <3> QED
      BY <1>1, <2>5, <3>1, SumsAgree
  <2>7. two[S] = g[S]
    BY <2>6
  <2> QED
    BY <2>1, <2>7
<1>3. g[S] \in Int
  BY <1>1 DEF Sums
<1> DEFINE v == g[S]
<1>4. v \in Int /\ v = v + v
  BY <1>2, <1>3
<1> HIDE DEF v
<1>5. v = 0
  BY <1>4
<1> QED
  BY <1>1, <1>5 DEF v

-----------------------------------------------------------------------------
(* Conditions and what a player wears (module Conditions).                   *)

CondKeys == Cond!Kinds \X (Slots \cup {Default})
CondLists == UNION {[D -> Cond!Condition] : D \in SUBSET CondKeys}

\* What the conditions of the kinds Q add, and what the enabled items do.
Portion(c, Q) == [k \in DOMAIN c |-> IF k[1] \in Q THEN c[k].delta ELSE 0]
Enabled(able, worn, of) == [x \in Slots |-> IF able[x] THEN of[worn[x]] ELSE 0]

LEMMA KeysFinite ==
  ASSUME ConditionsAssumption
  PROVE  IsFiniteSet(CondKeys)
<1>1. IsFiniteSet(Slots \cup {Default})
  BY FS_AddElement DEF ConditionsAssumption
<1>2. IsFiniteSet(Cond!Kinds)
  <2>1. Cond!Kinds = ((({} \cup {"haste"}) \cup {"paralyze"}) \cup {"attributes"}) \cup {"regeneration"}
    BY DEF Cond!Kinds
  <2>2. IsFiniteSet({} \cup {"haste"})
    BY FS_EmptySet, FS_AddElement
  <2>3. IsFiniteSet(({} \cup {"haste"}) \cup {"paralyze"})
    BY <2>2, FS_AddElement
  <2>4. IsFiniteSet((({} \cup {"haste"}) \cup {"paralyze"}) \cup {"attributes"})
    BY <2>3, FS_AddElement
  <2> QED
    BY <2>1, <2>4, FS_AddElement
<1> QED
  BY <1>1, <1>2, FS_Product DEF CondKeys

LEMMA ListFacts ==
  ASSUME ConditionsAssumption, NEW c \in CondLists
  PROVE  /\ IsFiniteSet(DOMAIN c) /\ DOMAIN c \subseteq CondKeys
         /\ c \in [DOMAIN c -> Cond!Condition]
         /\ \A k \in DOMAIN c : c[k] \in Cond!Condition
         /\ \A Q : Portion(c, Q) \in [DOMAIN c -> Int]
<1>1. PICK D \in SUBSET CondKeys : c \in [D -> Cond!Condition]
  BY DEF CondLists
<1>2. DOMAIN c = D
  BY <1>1
<1>3. IsFiniteSet(D)
  BY KeysFinite, FS_Subset
<1>4. \A k \in DOMAIN c : c[k] \in Cond!Condition /\ c[k].delta \in Int
  BY <1>1, <1>2 DEF Cond!Condition
<1>5. \A Q : Portion(c, Q) \in [DOMAIN c -> Int]
  BY <1>4 DEF Portion
<1> QED
  BY <1>1, <1>2, <1>3, <1>4, <1>5

LEMMA IsList ==
  ASSUME NEW D \in SUBSET CondKeys, NEW c \in [D -> Cond!Condition]
  PROVE  c \in CondLists /\ DOMAIN c = D
BY DEF CondLists

LEMMA SumsOfConds ==
  ASSUME NEW c
  PROVE  /\ Cond!SpeedOf(c) = Sum(Portion(c, {"haste", "paralyze"}))
         /\ Cond!SkillOf(c) = Sum(Portion(c, {"attributes"}))
<1>1. Portion(c, {"haste", "paralyze"})
        = [k \in DOMAIN c |-> IF Cond!IsSpeed(k[1]) THEN c[k].delta ELSE 0]
  BY DEF Portion, Cond!IsSpeed
<1>2. Portion(c, {"attributes"})
        = [k \in DOMAIN c |-> IF k[1] = "attributes" THEN c[k].delta ELSE 0]
  BY DEF Portion
<1> QED
  BY <1>1, <1>2, Zenon DEF Cond!SpeedOf, Cond!SkillOf, Sum

\* Conditions that leave a list.
LEMMA PortionSplits ==
  ASSUME ConditionsAssumption, NEW c \in CondLists, NEW D \in SUBSET DOMAIN c, NEW Q
  PROVE  /\ Sum(Portion(c, Q)) = Sum(Portion(Cond!Restrict(c, D), Q))
                                 + Sum(Portion(Cond!Restrict(c, DOMAIN c \ D), Q))
         /\ Sum(Portion(Cond!Restrict(c, D), Q)) \in Int
         /\ Sum(Portion(Cond!Restrict(c, DOMAIN c \ D), Q)) \in Int
<1> DEFINE f == Portion(c, Q)
           a == Portion(Cond!Restrict(c, D), Q)
           b == Portion(Cond!Restrict(c, DOMAIN c \ D), Q)
<1>1. IsFiniteSet(DOMAIN c) /\ f \in [DOMAIN c -> Int]
  BY ListFacts
<1>2. a = [k \in D |-> f[k]] /\ b = [k \in DOMAIN c \ D |-> f[k]]
  BY DEF Portion, Cond!Restrict
<1> HIDE DEF f, a, b
<1>3. Part(a, f, D) /\ Part(b, f, DOMAIN c \ D)
  BY <1>1, <1>2 DEF Part
<1>5. Sum(f) = Sum(a) + Sum(b) /\ Sum(a) \in Int /\ Sum(b) \in Int
  BY <1>1, <1>3, SumSplit
<1> QED
  BY <1>5 DEF f, a, b

LEMMA RestrictedList ==
  ASSUME ConditionsAssumption, NEW c \in CondLists, NEW D \in SUBSET DOMAIN c
  PROVE  /\ Cond!Restrict(c, D) \in CondLists /\ DOMAIN Cond!Restrict(c, D) = D
         /\ \A k \in D : Cond!Restrict(c, D)[k] = c[k]
<1>1. D \in SUBSET CondKeys /\ \A k \in D : c[k] \in Cond!Condition
  BY ListFacts
<1>2. Cond!Restrict(c, D) \in [D -> Cond!Condition] /\ \A k \in D : Cond!Restrict(c, D)[k] = c[k]
  BY <1>1 DEF Cond!Restrict
<1> QED
  BY <1>1, <1>2, IsList

\* A condition that is added to a list, and one that is changed.
LEMMA PortionGrows ==
  ASSUME ConditionsAssumption, NEW c \in CondLists, NEW k \in CondKeys \ DOMAIN c,
         NEW new \in Cond!Condition, NEW d,
         d = [j \in DOMAIN c \cup {k} |-> IF j = k THEN new ELSE c[j]]
  PROVE  /\ d \in CondLists /\ DOMAIN d = DOMAIN c \cup {k}
         /\ \A Q : Sum(Portion(d, Q)) = Sum(Portion(c, Q)) + IF k[1] \in Q THEN new.delta ELSE 0
<1>1. /\ IsFiniteSet(DOMAIN c) /\ DOMAIN c \subseteq CondKeys
      /\ \A j \in DOMAIN c : c[j] \in Cond!Condition
  BY ListFacts
<1>2. DOMAIN c \cup {k} \in SUBSET CondKeys /\ d \in [DOMAIN c \cup {k} -> Cond!Condition]
  BY <1>1
<1>3. d \in CondLists /\ DOMAIN d = DOMAIN c \cup {k}
  BY <1>2, IsList
<1>4. ASSUME NEW Q
      PROVE  Sum(Portion(d, Q)) = Sum(Portion(c, Q)) + IF k[1] \in Q THEN new.delta ELSE 0
  <2> DEFINE f == Portion(d, Q)
             a == Portion(c, Q)
             b == [j \in {k} |-> f[j]]
             S == DOMAIN d
  <2>1. IsFiniteSet(S) /\ f \in [S -> Int] /\ a \in [DOMAIN c -> Int]
    BY <1>3, ListFacts
  <2>2. \A j \in DOMAIN c : a[j] = f[j]
    BY <1>3 DEF Portion
  <2>3. f[k] = IF k[1] \in Q THEN new.delta ELSE 0
    BY <1>3 DEF Portion
  <2>4. b \in [{k} -> Int] /\ b[k] = f[k] /\ \A j \in {k} : b[j] = f[j]
    BY <1>3, <2>1
  <2>5. {k} = S \ DOMAIN c /\ DOMAIN c \in SUBSET S
    BY <1>3
  <2> HIDE DEF f, a, b, S
  <2>6. Part(a, f, DOMAIN c) /\ Part(b, f, S \ DOMAIN c)
    BY <2>1, <2>2, <2>4, <2>5 DEF Part
  <2>7. Sum(f) = Sum(a) + Sum(b)
    BY <2>1, <2>5, <2>6, SumSplit
  <2>8. Sum(b) = f[k]
    BY <2>4, SumOfOne
  <2> QED
    BY <2>3, <2>7, <2>8 DEF f, a
<1> QED
  BY <1>3, <1>4

Changed(d, c, k, new) == d = [c EXCEPT ![k] = new]

LEMMA PortionChanges ==
  ASSUME ConditionsAssumption, NEW c \in CondLists, NEW k \in DOMAIN c,
         NEW new \in Cond!Condition, NEW d, Changed(d, c, k, new)
  PROVE  /\ d \in CondLists /\ DOMAIN d = DOMAIN c /\ d[k] = new
         /\ \A j \in DOMAIN c : j # k => d[j] = c[j]
         /\ \A Q : Sum(Portion(d, Q)) = Sum(Portion(c, Q)) + IF k[1] \in Q THEN new.delta - c[k].delta ELSE 0
<1>1. /\ IsFiniteSet(DOMAIN c) /\ DOMAIN c \in SUBSET CondKeys
      /\ c \in [DOMAIN c -> Cond!Condition]
      /\ \A j \in DOMAIN c : c[j] \in Cond!Condition
  BY ListFacts
<1>2. d \in [DOMAIN c -> Cond!Condition] /\ d[k] = new /\ \A j \in DOMAIN c : j # k => d[j] = c[j]
  BY <1>1 DEF Changed
<1>3. d \in CondLists /\ DOMAIN d = DOMAIN c
  BY <1>1, <1>2, IsList
<1>4. ASSUME NEW Q
      PROVE  Sum(Portion(d, Q)) = Sum(Portion(c, Q)) + IF k[1] \in Q THEN new.delta - c[k].delta ELSE 0
  <2> DEFINE f == Portion(c, Q)
             h == Portion(d, Q)
             S == DOMAIN c
  <2>1. f \in [S -> Int]
    BY ListFacts
  <2>2. h \in [S -> Int]
    BY <1>3, ListFacts
  <2>3. Elsewhere(h, f, k)
    BY <1>2, <1>3, <2>1 DEF Portion, Elsewhere
  <2>4. /\ f[k] = IF k[1] \in Q THEN c[k].delta ELSE 0
        /\ h[k] = IF k[1] \in Q THEN new.delta ELSE 0
    BY <1>2, <1>3 DEF Portion
  <2>5. c[k].delta \in Int /\ new.delta \in Int
    BY <1>1 DEF Cond!Condition
  <2> HIDE DEF f, h
  <2>6. Sum(h) = Sum(f) - f[k] + h[k] /\ Sum(f) \in Int
    BY <1>1, <2>1, <2>2, <2>3, SumOfChanged
  <2>7. CASE k[1] \in Q
    BY <2>4, <2>5, <2>6, <2>7 DEF f, h
  <2>8. CASE k[1] \notin Q
    BY <2>4, <2>5, <2>6, <2>8 DEF f, h
  <2> QED
    BY <2>7, <2>8
<1> QED
  BY <1>2, <1>3, <1>4

-----------------------------------------------------------------------------
(* The operations.  Booked: the speed and the skill are what is listed and   *)
(* what is enabled adds up to.  Lasting: a condition of a slot belongs to    *)
(* what is worn there.                                                       *)
CondType ==
  [level : {1, 2}, conds : CondLists, worn : [Slots -> Types \cup {None}],
   able : [Slots -> BOOLEAN], speed : Int, skill : Int, online : BOOLEAN]

Wearing(s) == \A x \in Slots : s.able[x] => s.worn[x] \in Types
Totals(s) ==
  /\ s.speed = Cond!SpeedOf(s.conds) + Cond!Given(s, Speed)
  /\ s.skill = Cond!SkillOf(s.conds) + Cond!Given(s, Skill)
Booked(s) == s \in CondType /\ Wearing(s) /\ Totals(s)

Lasting(s) ==
  \A x \in Slots : <<"regeneration", x>> \in DOMAIN s.conds =>
    s.able[x] /\ Regenerates[s.worn[x]] /\ s.conds[<<"regeneration", x>>].ticks = -1

Tidy(s) == Booked(s) /\ Lasting(s)

\* The player is the same but for his conditions; or but for a slot, too.
Same(s, t) == t.able = s.able /\ t.worn = s.worn /\ t.level = s.level /\ t.online = s.online
OffSlot(s, t, x) ==
  /\ t.level = s.level /\ t.online = s.online
  /\ \A y \in Slots : y # x => t.able[y] = s.able[y] /\ t.worn[y] = s.worn[y]

LEMMA GivenIsInt ==
  ASSUME ConditionsAssumption, NEW s \in CondType, Wearing(s), NEW of \in [Types -> Int]
  PROVE  /\ Enabled(s.able, s.worn, of) \in [Slots -> Int]
         /\ Cond!Given(s, of) = Sum(Enabled(s.able, s.worn, of)) /\ Cond!Given(s, of) \in Int
<1>1. \A x \in Slots : s.able[x] \in BOOLEAN /\ (s.able[x] => of[s.worn[x]] \in Int)
  BY DEF CondType, Wearing
<1>2. Enabled(s.able, s.worn, of) \in [Slots -> Int]
  BY <1>1 DEF Enabled
<1>3. Cond!Given(s, of) = Sum(Enabled(s.able, s.worn, of))
  BY DEF Cond!Given, Sum, Enabled
<1>4. IsFiniteSet(Slots)
  BY DEF ConditionsAssumption
<1>5. PICK g : Sums(Enabled(s.able, s.worn, of), Slots, g) /\ Sum(Enabled(s.able, s.worn, of)) = g[Slots]
  BY <1>2, <1>4, SumFacts
<1>6. g[Slots] \in Int
  BY <1>5 DEF Sums
<1> QED
  BY <1>2, <1>3, <1>5, <1>6

LEMMA GivenChanges ==
  ASSUME ConditionsAssumption, NEW s \in CondType, Wearing(s), NEW t \in CondType, Wearing(t),
         NEW x \in Slots, OffSlot(s, t, x), NEW of \in [Types -> Int]
  PROVE  Cond!Given(t, of) = Cond!Given(s, of) - (IF s.able[x] THEN of[s.worn[x]] ELSE 0)
                                               + (IF t.able[x] THEN of[t.worn[x]] ELSE 0)
<1> DEFINE f == Enabled(s.able, s.worn, of)
           h == Enabled(t.able, t.worn, of)
<1>1. f \in [Slots -> Int] /\ h \in [Slots -> Int]
  BY GivenIsInt
<1>2. Cond!Given(s, of) = Sum(f) /\ Cond!Given(t, of) = Sum(h)
  BY GivenIsInt
<1>3. /\ f[x] = IF s.able[x] THEN of[s.worn[x]] ELSE 0
      /\ h[x] = IF t.able[x] THEN of[t.worn[x]] ELSE 0
  BY DEF Enabled
<1>4. Elsewhere(h, f, x)
  BY <1>1 DEF Enabled, Elsewhere, OffSlot
<1>5. IsFiniteSet(Slots)
  BY DEF ConditionsAssumption
<1> HIDE DEF f, h
<1>6. Sum(h) = Sum(f) - f[x] + h[x]
  BY <1>1, <1>4, <1>5, SumOfChanged
<1> QED
  BY <1>2, <1>3, <1>6

LEMMA GivenSame ==
  ASSUME NEW s, NEW t, Same(s, t), NEW of
  PROVE  Cond!Given(t, of) = Cond!Given(s, of)
BY DEF Same, Cond!Given

LEMMA ListSums ==
  ASSUME ConditionsAssumption, NEW c \in CondLists
  PROVE  Cond!SpeedOf(c) \in Int /\ Cond!SkillOf(c) \in Int
<1>1. IsFiniteSet(DOMAIN c) /\ \A Q : Portion(c, Q) \in [DOMAIN c -> Int]
  BY ListFacts
<1>2. ASSUME NEW Q
      PROVE  Sum(Portion(c, Q)) \in Int
  <2>1. PICK g : Sums(Portion(c, Q), DOMAIN c, g) /\ Sum(Portion(c, Q)) = g[DOMAIN c]
    BY <1>1, SumFacts
  <2>2. g[DOMAIN c] \in Int
    BY <2>1 DEF Sums
  <2> QED
    BY <2>1, <2>2
<1> QED
  BY <1>2, SumsOfConds

\* endCondition.
LEMMA EndedBooks ==
  ASSUME ConditionsAssumption, NEW s, Booked(s), NEW ks
  PROVE  LET t == Cond!Ended(s, ks) IN
         /\ Booked(t) /\ Same(s, t)
         /\ DOMAIN t.conds = DOMAIN s.conds \ ks
         /\ \A k \in DOMAIN t.conds : t.conds[k] = s.conds[k]
<1> DEFINE c == s.conds
           D == ks \cap DOMAIN c
           over == Cond!Restrict(c, D)
           rest == Cond!Restrict(c, DOMAIN c \ D)
           v == s.speed - Cond!SpeedOf(over)
           u == s.skill - Cond!SkillOf(over)
           t == Cond!Ended(s, ks)
<1>1. s \in CondType /\ Wearing(s) /\ Totals(s)
  BY DEF Booked
<1>2. c \in CondLists /\ s.speed \in Int /\ s.skill \in Int
  BY <1>1 DEF CondType
<1>3. D \in SUBSET DOMAIN c /\ DOMAIN c \ D = DOMAIN c \ ks
  OBVIOUS
<1>4. t = [s EXCEPT !.conds = rest, !.speed = v, !.skill = u]
  BY <1>3 DEF Cond!Ended
<1> HIDE DEF c, D, t
<1>5. /\ rest \in CondLists /\ DOMAIN rest = DOMAIN c \ D /\ \A k \in DOMAIN rest : rest[k] = c[k]
      /\ over \in CondLists
  BY <1>2, <1>3, RestrictedList
<1>6. ASSUME NEW Q
      PROVE  Sum(Portion(c, Q)) = Sum(Portion(over, Q)) + Sum(Portion(rest, Q))
  BY <1>2, <1>3, PortionSplits
<1>7. /\ Cond!SpeedOf(c) = Cond!SpeedOf(over) + Cond!SpeedOf(rest)
      /\ Cond!SkillOf(c) = Cond!SkillOf(over) + Cond!SkillOf(rest)
  BY <1>6, SumsOfConds
<1>8. /\ Cond!SpeedOf(over) \in Int /\ Cond!SpeedOf(rest) \in Int
      /\ Cond!SkillOf(over) \in Int /\ Cond!SkillOf(rest) \in Int
  BY <1>5, ListSums
<1>9. Cond!Given(s, Speed) \in Int /\ Cond!Given(s, Skill) \in Int
  BY <1>1, GivenIsInt DEF ConditionsAssumption
<1>10. /\ v = Cond!SpeedOf(rest) + Cond!Given(s, Speed) /\ v \in Int
       /\ u = Cond!SkillOf(rest) + Cond!Given(s, Skill) /\ u \in Int
  BY <1>1, <1>2, <1>7, <1>8, <1>9 DEF Totals, c
<1> HIDE DEF over, rest, v, u
<1>11. /\ t \in CondType /\ t.conds = rest /\ t.speed = v /\ t.skill = u /\ Same(s, t)
  BY <1>1, <1>4, <1>5, <1>10 DEF CondType, Same
<1>12. Wearing(t)
  BY <1>1, <1>11 DEF Wearing, Same
<1>13. Totals(t)
  BY <1>10, <1>11, GivenSame DEF Totals
<1> QED
  BY <1>3, <1>5, <1>11, <1>12, <1>13 DEF Booked, c, t

LEMMA EndedTidies ==
  ASSUME ConditionsAssumption, NEW s, Tidy(s), NEW ks
  PROVE  LET t == Cond!Ended(s, ks) IN
         Tidy(t) /\ Same(s, t) /\ DOMAIN t.conds = DOMAIN s.conds \ ks
<1> DEFINE t == Cond!Ended(s, ks)
<1>1. Booked(s) /\ Lasting(s)
  BY DEF Tidy
<1>2. /\ Booked(t) /\ Same(s, t)
      /\ DOMAIN t.conds = DOMAIN s.conds \ ks
      /\ \A k \in DOMAIN t.conds : t.conds[k] = s.conds[k]
  BY <1>1, EndedBooks
<1> HIDE DEF t
<1>3. Lasting(t)
  BY <1>1, <1>2 DEF Lasting, Same
<1> QED
  BY <1>2, <1>3 DEF Tidy, t

LEMMA AppliedFacts ==
  ASSUME NEW s \in CondType, NEW kind, NEW d \in Int
  PROVE  LET t == Cond!Applied(s, kind, d) IN
         /\ t \in CondType /\ t.conds = s.conds /\ Same(s, t)
         /\ t.speed = s.speed + IF kind \in {"haste", "paralyze"} THEN d ELSE 0
         /\ t.skill = s.skill + IF kind \in {"attributes"} THEN d ELSE 0
<1>1. s.speed \in Int /\ s.skill \in Int
  BY DEF CondType
<1>2. CASE kind \in {"haste", "paralyze"}
  BY <1>1, <1>2 DEF Cond!Applied, Cond!IsSpeed, CondType, Same
<1>3. CASE kind = "attributes"
  BY <1>1, <1>3 DEF Cond!Applied, Cond!IsSpeed, CondType, Same
<1>4. CASE kind \notin {"haste", "paralyze", "attributes"}
  BY <1>1, <1>4 DEF Cond!Applied, Cond!IsSpeed, CondType, Same
<1> QED
  BY <1>2, <1>3, <1>4

\* What a condition must be to be added: one of a slot is permanent, and
\* belongs to what is worn there.
Fits(s, k, ticks) ==
  \A x \in Slots : k = <<"regeneration", x>> => s.able[x] /\ Regenerates[s.worn[x]] /\ ticks = -1

LEMMA ListedTotals ==
  ASSUME ConditionsAssumption, NEW s, Booked(s), NEW d \in CondLists, NEW kind, NEW more \in Int,
         \A Q : Sum(Portion(d, Q)) = Sum(Portion(s.conds, Q)) + IF kind \in Q THEN more ELSE 0
  PROVE  LET t == Cond!Applied([s EXCEPT !.conds = d], kind, more) IN
         Booked(t) /\ Same(s, t) /\ t.conds = d
<1> DEFINE c == s.conds
           u == [s EXCEPT !.conds = d]
           t == Cond!Applied(u, kind, more)
<1>1. s \in CondType /\ Wearing(s) /\ Totals(s)
  BY DEF Booked
<1>2. c \in CondLists /\ s.speed \in Int /\ s.skill \in Int
  BY <1>1 DEF CondType
<1>3. u \in CondType /\ u.conds = d /\ Same(s, u) /\ u.speed = s.speed /\ u.skill = s.skill
  BY <1>1 DEF CondType, Same
<1> HIDE DEF u
<1>4. /\ t \in CondType /\ t.conds = d /\ Same(u, t)
      /\ t.speed = s.speed + IF kind \in {"haste", "paralyze"} THEN more ELSE 0
      /\ t.skill = s.skill + IF kind \in {"attributes"} THEN more ELSE 0
  BY <1>3, AppliedFacts
<1> HIDE DEF t
<1>5. Same(s, t)
  BY <1>3, <1>4 DEF Same
<1>6. Wearing(t)
  BY <1>1, <1>5 DEF Wearing, Same
<1>7. /\ Cond!SpeedOf(d) = Cond!SpeedOf(c) + IF kind \in {"haste", "paralyze"} THEN more ELSE 0
      /\ Cond!SkillOf(d) = Cond!SkillOf(c) + IF kind \in {"attributes"} THEN more ELSE 0
  BY SumsOfConds
<1>8. Cond!SpeedOf(c) \in Int /\ Cond!SkillOf(c) \in Int
  BY <1>2, ListSums
<1>9. Cond!Given(s, Speed) \in Int /\ Cond!Given(s, Skill) \in Int
  BY <1>1, GivenIsInt DEF ConditionsAssumption
<1>10. Cond!Given(t, Speed) = Cond!Given(s, Speed) /\ Cond!Given(t, Skill) = Cond!Given(s, Skill)
  BY <1>5, GivenSame
<1>11. s.speed = Cond!SpeedOf(c) + Cond!Given(s, Speed) /\ s.skill = Cond!SkillOf(c) + Cond!Given(s, Skill)
  BY <1>1 DEF Totals
<1>12. t.speed = Cond!SpeedOf(d) + Cond!Given(t, Speed)
  <2>1. CASE kind \in {"haste", "paralyze"}
    BY <2>1, <1>2, <1>4, <1>7, <1>8, <1>9, <1>10, <1>11
  <2>2. CASE kind \notin {"haste", "paralyze"}
    BY <2>2, <1>2, <1>4, <1>7, <1>8, <1>9, <1>10, <1>11
  <2> QED
    BY <2>1, <2>2
<1>13. t.skill = Cond!SkillOf(d) + Cond!Given(t, Skill)
  <2>1. CASE kind \in {"attributes"}
    BY <2>1, <1>2, <1>4, <1>7, <1>8, <1>9, <1>10, <1>11
  <2>2. CASE kind \notin {"attributes"}
    BY <2>2, <1>2, <1>4, <1>7, <1>8, <1>9, <1>10, <1>11
  <2> QED
    BY <2>1, <2>2
<1>14. Totals(t)
  BY <1>4, <1>12, <1>13 DEF Totals
<1> QED
  BY <1>4, <1>5, <1>6, <1>14 DEF Booked, t, u

LEMMA StartedTidies ==
  ASSUME ConditionsAssumption, NEW s, Tidy(s), NEW k \in CondKeys, k \notin DOMAIN s.conds,
         NEW ticks \in {-1} \cup Nat, NEW delta \in Int, Fits(s, k, ticks)
  PROVE  LET t == Cond!Started(s, k, ticks, delta) IN
         Tidy(t) /\ Same(s, t) /\ DOMAIN t.conds \subseteq DOMAIN s.conds \cup {k}
<1> DEFINE c == s.conds
           new == [delta |-> delta, ticks |-> ticks, left |-> IF ticks > 0 THEN ticks ELSE 0]
           d == [j \in DOMAIN c \cup {k} |-> IF j = k THEN new ELSE c[j]]
           v == Cond!Applied([s EXCEPT !.conds = d], k[1], delta)
           t == Cond!Started(s, k, ticks, delta)
<1>1. Booked(s) /\ Lasting(s) /\ c \in CondLists /\ s \in CondType
  BY DEF Tidy, Booked, CondType
<1>2. new \in Cond!Condition /\ new.delta = delta /\ new.ticks = ticks
  BY DEF Cond!Condition, Cond!Permanent
<1>3. \/ k[1] = "haste" /\ t = Cond!Ended(v, Cond!OfKind(v, "paralyze"))
      \/ k[1] = "paralyze" /\ t = Cond!Ended(v, Cond!OfKind(v, "haste"))
      \/ t = v
  BY DEF Cond!Started
<1> HIDE DEF new, t
<1>4. /\ \A j \in DOMAIN c : d[j] = c[j]
      /\ d[k] = new
  OBVIOUS
<1>5. k \in CondKeys \ DOMAIN c
  OBVIOUS
<1> HIDE DEF d, c
<1>6. /\ d \in CondLists /\ DOMAIN d = DOMAIN c \cup {k}
      /\ \A Q : Sum(Portion(d, Q)) = Sum(Portion(c, Q)) + IF k[1] \in Q THEN new.delta ELSE 0
  <2>1. d = [j \in DOMAIN c \cup {k} |-> IF j = k THEN new ELSE c[j]]
    BY DEF d
  <2> QED
    BY <2>1, <1>1, <1>2, <1>5, PortionGrows
<1>7. \A Q : Sum(Portion(d, Q)) = Sum(Portion(s.conds, Q)) + IF k[1] \in Q THEN delta ELSE 0
  BY <1>2, <1>6 DEF c
<1>8. Booked(v) /\ Same(s, v) /\ v.conds = d
  BY <1>1, <1>6, <1>7, ListedTotals
<1> HIDE DEF v
<1>9. Lasting(v)
  <2> SUFFICES ASSUME NEW x \in Slots, <<"regeneration", x>> \in DOMAIN d
      PROVE  /\ s.able[x] /\ Regenerates[s.worn[x]] /\ d[<<"regeneration", x>>].ticks = -1
    BY <1>8 DEF Lasting, Same
  <2>1. CASE k = <<"regeneration", x>>
    BY <2>1, <1>2, <1>4 DEF Fits
  <2>2. CASE k # <<"regeneration", x>>
    BY <2>2, <1>1, <1>4, <1>6 DEF Lasting, c
  <2> QED
    BY <2>1, <2>2
<1>10. Tidy(v)
  BY <1>8, <1>9 DEF Tidy
<1>11. \A ks : Tidy(Cond!Ended(v, ks)) /\ Same(v, Cond!Ended(v, ks))
               /\ DOMAIN Cond!Ended(v, ks).conds = DOMAIN v.conds \ ks
  BY <1>10, EndedTidies
<1>12. Tidy(t) /\ Same(s, t) /\ DOMAIN t.conds \subseteq DOMAIN v.conds
  <2>1. ASSUME NEW ks, t = Cond!Ended(v, ks)
        PROVE  Tidy(t) /\ Same(s, t) /\ DOMAIN t.conds \subseteq DOMAIN v.conds
    BY <2>1, <1>8, <1>11 DEF Same
  <2> QED
    BY <2>1, <1>3, <1>8, <1>10
<1> QED
  BY <1>6, <1>8, <1>12 DEF t, c

LEMMA UpdatedTidies ==
  ASSUME ConditionsAssumption, NEW s, Tidy(s), NEW k \in DOMAIN s.conds,
         NEW ticks \in {-1} \cup Nat, NEW delta \in Int, Fits(s, k, ticks)
  PROVE  LET t == Cond!Updated(s, k, ticks, delta) IN
         Tidy(t) /\ Same(s, t) /\ DOMAIN t.conds = DOMAIN s.conds
<1> DEFINE c == s.conds
           old == c[k]
           new == [Cond!SetTicks(old, ticks) EXCEPT !.delta = delta]
           d == [c EXCEPT ![k] = new]
           more == delta - old.delta
           t == Cond!Applied([s EXCEPT !.conds = d], k[1], more)
<1>1. Booked(s) /\ Lasting(s) /\ c \in CondLists /\ s \in CondType
  BY DEF Tidy, Booked, CondType
<1>2. old \in Cond!Condition
  BY <1>1, ListFacts
<1>3. t = Cond!Updated(s, k, ticks, delta)
  <2>1. [s EXCEPT !.conds = d] = [s EXCEPT !.conds[k] = new]
    OBVIOUS
  <2> QED
    BY <2>1 DEF Cond!Updated
<1> HIDE DEF old
<1>4. new \in Cond!Condition /\ new.delta = delta /\ new.ticks = ticks
  <2> DEFINE u == Cond!SetTicks(old, ticks)
  <2>1. u \in Cond!Condition /\ u.ticks = ticks
    <3> DEFINE left == IF ticks > 0 THEN ticks ELSE old.left
    <3>1. left \in Nat
      BY <1>2 DEF Cond!Condition
    <3>2. u = [old EXCEPT !.ticks = ticks, !.left = left]
      BY DEF Cond!SetTicks
    <3> HIDE DEF left, u
    <3> QED
      BY <1>2, <3>1, <3>2 DEF Cond!Condition, Cond!Permanent
  <2> HIDE DEF u
  <2>2. [u EXCEPT !.delta = delta] \in Cond!Condition /\ [u EXCEPT !.delta = delta].delta = delta
        /\ [u EXCEPT !.delta = delta].ticks = ticks
    BY <2>1 DEF Cond!Condition
  <2> QED
    BY <2>2 DEF u
<1>5. more \in Int
  BY <1>2 DEF Cond!Condition
<1> HIDE DEF new
<1>6. /\ d \in CondLists /\ DOMAIN d = DOMAIN c /\ d[k] = new
      /\ \A j \in DOMAIN c : j # k => d[j] = c[j]
      /\ \A Q : Sum(Portion(d, Q)) = Sum(Portion(c, Q)) + IF k[1] \in Q THEN new.delta - old.delta ELSE 0
  <2>1. Changed(d, c, k, new)
    BY DEF Changed
  <2> HIDE DEF d
  <2>2. k \in DOMAIN c /\ c \in CondLists /\ new \in Cond!Condition
    BY <1>1, <1>4
  <2> HIDE DEF c
  <2>3. /\ d \in CondLists /\ DOMAIN d = DOMAIN c /\ d[k] = new
        /\ \A j \in DOMAIN c : j # k => d[j] = c[j]
        /\ \A Q : Sum(Portion(d, Q)) = Sum(Portion(c, Q)) + IF k[1] \in Q THEN new.delta - c[k].delta ELSE 0
    BY <2>1, <2>2, PortionChanges
  <2> QED
    BY <2>3 DEF old
<1>7. \A Q : Sum(Portion(d, Q)) = Sum(Portion(s.conds, Q)) + IF k[1] \in Q THEN more ELSE 0
  BY <1>4, <1>6
<1> HIDE DEF d, more
<1>8. Booked(t) /\ Same(s, t) /\ t.conds = d
  BY <1>1, <1>5, <1>6, <1>7, ListedTotals
<1> HIDE DEF t
<1>9. Lasting(t)
  <2> SUFFICES ASSUME NEW x \in Slots, <<"regeneration", x>> \in DOMAIN d
      PROVE  /\ s.able[x] /\ Regenerates[s.worn[x]] /\ d[<<"regeneration", x>>].ticks = -1
    BY <1>8 DEF Lasting, Same
  <2>1. CASE k = <<"regeneration", x>>
    BY <2>1, <1>4, <1>6 DEF Fits
  <2>2. CASE k # <<"regeneration", x>>
    BY <2>2, <1>1, <1>6 DEF Lasting
  <2> QED
    BY <2>1, <2>2
<1> QED
  BY <1>3, <1>6, <1>8, <1>9 DEF Tidy

LEMMA AddedTidies ==
  ASSUME ConditionsAssumption, NEW s, Tidy(s), NEW k \in CondKeys,
         NEW ticks \in {-1} \cup Nat, NEW delta \in Int, Fits(s, k, ticks)
  PROVE  LET t == Cond!Added(s, k, ticks, delta) IN Tidy(t) /\ Same(s, t)
<1>1. CASE k \notin DOMAIN s.conds
  BY <1>1, StartedTidies DEF Cond!Added
<1>2. CASE k \in DOMAIN s.conds /\ Cond!Updates(k[1], s.conds[k], ticks)
  BY <1>2, UpdatedTidies DEF Cond!Added
<1>3. CASE k \in DOMAIN s.conds /\ ~Cond!Updates(k[1], s.conds[k], ticks)
  BY <1>3 DEF Cond!Added, Same
<1> QED
  BY <1>1, <1>2, <1>3

\* What is worn in a slot that is not enabled does not count.
LEMMA RehungTidies ==
  ASSUME ConditionsAssumption, NEW s, Tidy(s), NEW x \in Slots, ~s.able[x],
         NEW new \in Types \cup {None}
  PROVE  LET t == [s EXCEPT !.worn[x] = new] IN
         /\ Tidy(t) /\ OffSlot(s, t, x) /\ t.worn[x] = new /\ t.able = s.able /\ t.conds = s.conds
<1> DEFINE t == [s EXCEPT !.worn[x] = new]
<1>1. s \in CondType /\ Wearing(s) /\ Totals(s) /\ Lasting(s)
  BY DEF Tidy, Booked
<1>2. /\ t \in CondType /\ t.worn[x] = new /\ t.able = s.able /\ t.conds = s.conds
      /\ t.speed = s.speed /\ t.skill = s.skill /\ OffSlot(s, t, x)
  BY <1>1 DEF CondType, OffSlot
<1> HIDE DEF t
<1>3. Wearing(t)
  BY <1>1, <1>2 DEF Wearing, OffSlot
<1>4. \A y \in Slots : s.able[y] => t.worn[y] = s.worn[y]
  BY <1>2 DEF OffSlot
<1>5. ASSUME NEW of
      PROVE  Cond!Given(t, of) = Cond!Given(s, of)
  <2>1. \A y \in Slots : (IF t.able[y] THEN of[t.worn[y]] ELSE 0) = (IF s.able[y] THEN of[s.worn[y]] ELSE 0)
    BY <1>2, <1>4
  <2>2. [y \in Slots |-> IF t.able[y] THEN of[t.worn[y]] ELSE 0]
          = [y \in Slots |-> IF s.able[y] THEN of[s.worn[y]] ELSE 0]
    BY <2>1
  <2> QED
    BY <2>2 DEF Cond!Given
<1>6. Totals(t)
  BY <1>1, <1>2, <1>5 DEF Totals
<1>7. Lasting(t)
  <2> SUFFICES ASSUME NEW y \in Slots, <<"regeneration", y>> \in DOMAIN t.conds
      PROVE  t.able[y] /\ Regenerates[t.worn[y]] /\ t.conds[<<"regeneration", y>>].ticks = -1
    BY DEF Lasting
  <2>1. s.able[y] /\ Regenerates[s.worn[y]] /\ s.conds[<<"regeneration", y>>].ticks = -1
    BY <1>1, <1>2 DEF Lasting
  <2> QED
    BY <2>1, <1>2, <1>4
<1> QED
  BY <1>2, <1>3, <1>6, <1>7 DEF Tidy, Booked, t

\* A slot is enabled, or disabled, with what its item gives.
LEMMA WorthBooks ==
  ASSUME ConditionsAssumption, NEW s \in CondType, Wearing(s), Totals(s), NEW x \in Slots,
         NEW type \in Types, NEW on \in BOOLEAN, NEW t, OffSlot(s, t, x), t \in CondType,
         t.able[x] = on, s.able[x] = ~on, t.conds = s.conds,
         IF on THEN t.worn[x] = type ELSE s.worn[x] = type,
         t.speed = s.speed + (IF on THEN Speed[type] ELSE -Speed[type]),
         t.skill = s.skill + (IF on THEN Skill[type] ELSE -Skill[type])
  PROVE  Booked(t)
<1>1. Wearing(t)
  BY DEF Wearing, OffSlot
<1>2. Speed \in [Types -> Int] /\ Skill \in [Types -> Int]
  BY DEF ConditionsAssumption
<1>3. ASSUME NEW of \in [Types -> Int]
      PROVE  Cond!Given(t, of) = Cond!Given(s, of) + (IF on THEN of[type] ELSE -of[type])
             /\ Cond!Given(s, of) \in Int
  <2>1. Cond!Given(t, of) = Cond!Given(s, of) - (IF s.able[x] THEN of[s.worn[x]] ELSE 0)
                                               + (IF t.able[x] THEN of[t.worn[x]] ELSE 0)
    BY <1>1, GivenChanges
  <2>2. Cond!Given(s, of) \in Int /\ of[type] \in Int
    BY GivenIsInt
  <2>3. CASE on
    <3>1. t.able[x] /\ ~s.able[x] /\ t.worn[x] = type
      BY <2>3
    <3> QED
      BY <2>1, <2>2, <2>3, <3>1
  <2>4. CASE ~on
    <3>1. ~t.able[x] /\ s.able[x] /\ s.worn[x] = type
      BY <2>4
    <3> QED
      BY <2>1, <2>2, <2>4, <3>1
  <2> QED
    BY <2>2, <2>3, <2>4
<1>4. s.conds \in CondLists
  BY DEF CondType
<1>5. Cond!SpeedOf(s.conds) \in Int /\ Cond!SkillOf(s.conds) \in Int
  BY <1>4, ListSums
<1>6. Speed[type] \in Int /\ Skill[type] \in Int
  BY <1>2
<1>7. Totals(t)
  BY <1>2, <1>3, <1>5, <1>6 DEF Totals
<1> QED
  BY <1>1, <1>7 DEF Booked

\* DeEquipItem, of what was worn before the slot changed.
LEMMA DeEquipTidies ==
  ASSUME ConditionsAssumption, NEW s, Tidy(s), NEW x \in Slots, s.worn[x] \in Types,
         NEW new \in Types \cup {None}
  PROVE  LET t == Cond!DeEquip([s EXCEPT !.worn[x] = new], x, s.worn[x]) IN
         Tidy(t) /\ OffSlot(s, t, x) /\ ~t.able[x] /\ t.worn[x] = new
<1> DEFINE type == s.worn[x]
           h == [s EXCEPT !.worn[x] = new]
           t == Cond!DeEquip(h, x, type)
           v == s.speed + (-1) * Speed[type]
           u == s.skill + (-1) * Skill[type]
           b == [h EXCEPT !.able[x] = FALSE]
           a == [b EXCEPT !.speed = v, !.skill = u]
<1>1. s \in CondType /\ Wearing(s) /\ Totals(s) /\ Lasting(s)
  BY DEF Tidy, Booked
<1>2. CASE ~s.able[x]
  <2>1. t = h
    BY <1>1, <1>2 DEF Cond!DeEquip, CondType
  <2> HIDE DEF t
  <2>2. Tidy(h) /\ OffSlot(s, h, x) /\ h.worn[x] = new /\ h.able = s.able
    BY <1>2, RehungTidies
  <2> QED
    BY <1>2, <2>1, <2>2 DEF t
<1>3. CASE s.able[x]
  <2>1. h.able[x] /\ b.speed = s.speed /\ b.skill = s.skill
    BY <1>1, <1>3 DEF CondType
  <2>2. a = Cond!Worth(b, type, -1)
    BY <2>1 DEF Cond!Worth
  <2>3. t = IF Regenerates[type] THEN Cond!Ended(a, {<<"regeneration", x>>}) ELSE a
    BY <2>1, <2>2 DEF Cond!DeEquip
  <2> HIDE DEF t
  <2>4. Speed[type] \in Int /\ Skill[type] \in Int
    BY DEF ConditionsAssumption
  <2>5. v \in Int /\ v = s.speed + -Speed[type] /\ u \in Int /\ u = s.skill + -Skill[type]
    BY <1>1, <2>4 DEF CondType
  <2> HIDE DEF v, u
  <2>6. b \in CondType /\ OffSlot(s, b, x) /\ b.able[x] = FALSE /\ b.worn[x] = new /\ b.conds = s.conds
    BY <1>1 DEF CondType, OffSlot
  <2> HIDE DEF b
  <2>7. /\ a \in CondType /\ OffSlot(s, a, x) /\ a.able[x] = FALSE /\ a.worn[x] = new /\ a.conds = s.conds
        /\ a.speed = v /\ a.skill = u
    BY <2>5, <2>6 DEF CondType, OffSlot
  <2> HIDE DEF a
  <2>8. Booked(a)
    BY <1>1, <1>3, <2>5, <2>7, WorthBooks
  <2>9. ASSUME NEW y \in Slots, y # x, <<"regeneration", y>> \in DOMAIN a.conds
        PROVE  a.able[y] /\ Regenerates[a.worn[y]] /\ a.conds[<<"regeneration", y>>].ticks = -1
    BY <2>9, <1>1, <2>7 DEF Lasting, OffSlot
  <2>10. CASE Regenerates[type]
    <3>1. /\ Booked(t) /\ Same(a, t)
          /\ DOMAIN t.conds = DOMAIN a.conds \ {<<"regeneration", x>>}
          /\ \A k \in DOMAIN t.conds : t.conds[k] = a.conds[k]
      BY <2>3, <2>8, <2>10, EndedBooks
    <3>2. Lasting(t)
      BY <3>1, <2>9 DEF Lasting, Same
    <3> QED
      BY <3>1, <3>2, <2>7 DEF Tidy, Same, OffSlot, t
  <2>11. CASE ~Regenerates[type]
    <3>1. <<"regeneration", x>> \notin DOMAIN a.conds
      BY <1>1, <2>7, <2>11 DEF Lasting
    <3>2. Lasting(a)
      BY <3>1, <2>9 DEF Lasting
    <3> QED
      BY <3>2, <2>3, <2>7, <2>8, <2>11 DEF Tidy, t
  <2> QED
    BY <2>10, <2>11 DEF t
<1> QED
  BY <1>2, <1>3

\* EquipItem, of an item that does not change.
LEMMA EquipPlainTidies ==
  ASSUME ConditionsAssumption, NEW s, Tidy(s), NEW x \in Slots, NEW type \in Types,
         s.worn[x] = type, ~s.able[x], s.level >= Needs[type]
  PROVE  LET t == Cond!EquipPlain(s, x, type) IN
         Tidy(t) /\ OffSlot(s, t, x) /\ t.able[x] /\ t.worn[x] = type
<1> DEFINE t == Cond!EquipPlain(s, x, type)
           v == s.speed + 1 * Speed[type]
           u == s.skill + 1 * Skill[type]
           b == [s EXCEPT !.able[x] = TRUE]
           a == [b EXCEPT !.speed = v, !.skill = u]
<1>1. s \in CondType /\ Wearing(s) /\ Totals(s) /\ Lasting(s)
  BY DEF Tidy, Booked
<1>2. s.level \in Int /\ Needs[type] \in Int /\ Speed[type] \in Int /\ Skill[type] \in Int
      /\ Regenerates[type] \in BOOLEAN
  BY <1>1 DEF CondType, ConditionsAssumption
<1>3. a = Cond!Worth(b, type, 1)
  BY DEF Cond!Worth
<1>4. ~(s.level < Needs[type])
  BY <1>2
<1>5. t = IF Regenerates[type] THEN Cond!Added(a, <<"regeneration", x>>, -1, 0) ELSE a
  BY <1>3, <1>4 DEF Cond!EquipPlain, Cond!Permanent
<1> HIDE DEF t
<1>6. v \in Int /\ v = s.speed + Speed[type] /\ u \in Int /\ u = s.skill + Skill[type]
  BY <1>1, <1>2 DEF CondType
<1> HIDE DEF v, u
<1>7. b \in CondType /\ OffSlot(s, b, x) /\ b.able[x] = TRUE /\ b.worn[x] = type /\ b.conds = s.conds
      /\ b.worn = s.worn
  BY <1>1 DEF CondType, OffSlot
<1> HIDE DEF b
<1>8. /\ a \in CondType /\ OffSlot(s, a, x) /\ a.able[x] = TRUE /\ a.worn[x] = type /\ a.conds = s.conds
      /\ a.speed = v /\ a.skill = u
  BY <1>6, <1>7 DEF CondType, OffSlot
<1> HIDE DEF a
<1>9. Booked(a)
  <2>1. s.able[x] = FALSE
    BY <1>1 DEF CondType
  <2> QED
    BY <2>1, <1>1, <1>6, <1>8, WorthBooks
<1>10. Lasting(a)
  <2> SUFFICES ASSUME NEW y \in Slots, <<"regeneration", y>> \in DOMAIN a.conds
      PROVE  a.able[y] /\ Regenerates[a.worn[y]] /\ a.conds[<<"regeneration", y>>].ticks = -1
    BY DEF Lasting
  <2>1. s.able[y] /\ Regenerates[s.worn[y]] /\ s.conds[<<"regeneration", y>>].ticks = -1
    BY <1>1, <1>8 DEF Lasting
  <2>2. y # x
    BY <2>1
  <2> QED
    BY <2>1, <2>2, <1>8 DEF OffSlot
<1>11. Tidy(a)
  BY <1>9, <1>10 DEF Tidy
<1>12. CASE Regenerates[type]
  <2> DEFINE k == <<"regeneration", x>>
  <2>1. k \in CondKeys
    BY DEF CondKeys, Cond!Kinds
  <2>2. Fits(a, k, -1)
    BY <1>8, <1>12 DEF Fits
  <2>3. -1 \in {-1} \cup Nat /\ 0 \in Int
    OBVIOUS
  <2>4. t = Cond!Added(a, k, -1, 0)
    BY <1>5, <1>12
  <2> HIDE DEF k
  <2>5. Tidy(t) /\ Same(a, t)
    BY <2>1, <2>2, <2>3, <2>4, <1>11, AddedTidies
  <2> QED
    BY <2>5, <1>8 DEF Same, OffSlot, t
<1>13. CASE ~Regenerates[type]
  BY <1>5, <1>8, <1>11, <1>13 DEF t
<1> QED
  BY <1>12, <1>13

\* EquipItem, of what is worn in a slot that is not enabled.
LEMMA EquipTidies ==
  ASSUME ConditionsAssumption, NEW s, Tidy(s), NEW x \in Slots, s.worn[x] \in Types, ~s.able[x]
  PROVE  LET t == Cond!Equip(s, x, s.worn[x]) IN
         /\ Tidy(t) /\ OffSlot(s, t, x) /\ t.worn[x] \in Types
         /\ s.level < Needs[s.worn[x]] => t = s
         /\ s.level >= Needs[s.worn[x]] => t.able[x]
<1> DEFINE type == s.worn[x]
           t == Cond!Equip(s, x, type)
<1>1. s \in CondType
  BY DEF Tidy, Booked
<1>2. s.level \in Int /\ Needs[type] \in Int /\ EquipTo[type] \in Types
  BY <1>1 DEF CondType, ConditionsAssumption
<1>3. CASE s.level < Needs[type]
  <2>1. t = s /\ ~(s.level >= Needs[type])
    BY <1>2, <1>3 DEF Cond!Equip
  <2> QED
    BY <2>1 DEF OffSlot
<1>4. CASE s.level >= Needs[type] /\ EquipTo[type] = type
  <2>1. t = Cond!EquipPlain(s, x, type) /\ ~(s.level < Needs[type])
    BY <1>2, <1>4 DEF Cond!Equip
  <2> HIDE DEF t
  <2>2. Tidy(t) /\ OffSlot(s, t, x) /\ t.able[x] /\ t.worn[x] = type
    BY <1>4, <2>1, EquipPlainTidies
  <2> QED
    BY <2>1, <2>2 DEF t
<1>5. CASE s.level >= Needs[type] /\ EquipTo[type] # type
  <2> DEFINE E == EquipTo[type]
             a == [s EXCEPT !.worn[x] = E]
             b == Cond!EquipPlain(a, x, E)
  <2>1. /\ Tidy(a) /\ OffSlot(s, a, x) /\ a.worn[x] = E /\ a.able = s.able
    BY <1>2, RehungTidies
  <2>2. Speed[type] = 0 /\ Skill[type] = 0 /\ Needs[E] <= Needs[type] /\ Needs[E] \in Int
    BY <1>2, <1>5 DEF ConditionsAssumption
  <2>3. a.level >= Needs[E] /\ ~a.able[x]
    BY <1>2, <1>5, <2>1, <2>2 DEF OffSlot
  <2>4. t = Cond!Worth([b EXCEPT !.able[x] = TRUE], type, 1) /\ ~(s.level < Needs[type])
    BY <1>2, <1>5 DEF Cond!Equip, Cond!EquipIfNew
  <2> HIDE DEF t, a, E
  <2>5. Tidy(b) /\ OffSlot(a, b, x) /\ b.able[x] /\ b.worn[x] = E
    BY <1>2, <2>1, <2>3, EquipPlainTidies DEF E
  <2> HIDE DEF b
  <2>6. b \in CondType
    BY <2>5 DEF Tidy, Booked
  <2>7. t = b
    <3> DEFINE c == [b EXCEPT !.able[x] = TRUE]
    <3>1. c = b
      BY <2>5, <2>6 DEF CondType
    <3>2. b.speed + 1 * Speed[type] = b.speed /\ b.skill + 1 * Skill[type] = b.skill
      BY <2>2, <2>6 DEF CondType
    <3>3. Cond!Worth(b, type, 1) = [b EXCEPT !.speed = b.speed, !.skill = b.skill]
      BY <3>2, Zenon DEF Cond!Worth
    <3>4. [b EXCEPT !.speed = b.speed, !.skill = b.skill] = b
      BY <2>6 DEF CondType
    <3> QED
      BY <2>4, <3>1, <3>3, <3>4
  <2> QED
    BY <1>2, <2>1, <2>4, <2>5, <2>7 DEF OffSlot, E, t
<1> QED
  BY <1>2, <1>3, <1>4, <1>5

-----------------------------------------------------------------------------
(* The invariant.  Dressed: an item that becomes one of another kind when it *)
(* wears out is never worn without effect, for its going would be counted.   *)
Dressed(s) == \A x \in Slots : s.worn[x] \in Types /\ Replaced(s.worn[x]) => s.able[x]

\* A player who is not in the game adds up to nothing.
Bare(s) ==
  /\ s.speed = 0 /\ s.skill = 0 /\ \A x \in Slots : ~s.able[x]
  /\ \A x \in Slots : <<"regeneration", x>> \notin DOMAIN s.conds

CondSound(s) ==
  s \in CondType /\ IF s.online THEN Tidy(s) /\ Dressed(s) ELSE Bare(s)

LEMMA NothingGiven ==
  ASSUME ConditionsAssumption, NEW s, \A x \in Slots : ~s.able[x], NEW of
  PROVE  Cond!Given(s, of) = 0
<1> DEFINE f == [x \in Slots |-> IF s.able[x] THEN of[s.worn[x]] ELSE 0]
<1>1. f \in [Slots -> Int] /\ \A x \in Slots : f[x] = 0
  OBVIOUS
<1>2. IsFiniteSet(Slots)
  BY DEF ConditionsAssumption
<1>3. Cond!Given(s, of) = Sum(f)
  BY DEF Cond!Given, Sum
<1> HIDE DEF f
<1> QED
  BY <1>1, <1>2, <1>3, SumOfZeros

LEMMA NothingListed ==
  ASSUME ConditionsAssumption
  PROVE  <<>> \in CondLists /\ DOMAIN <<>> = {} /\ Cond!SpeedOf(<<>>) = 0 /\ Cond!SkillOf(<<>>) = 0
<1>1. <<>> \in [{} -> Cond!Condition]
  OBVIOUS
<1>2. {} \in SUBSET CondKeys
  OBVIOUS
<1>3. <<>> \in CondLists /\ DOMAIN <<>> = {}
  BY <1>1, <1>2, IsList
<1> DEFINE c == <<>>
<1>4. c \in CondLists /\ DOMAIN c = {}
  BY <1>3
<1> HIDE DEF c
<1>5. ASSUME NEW Q
      PROVE  Sum(Portion(c, Q)) = 0
  <2> DEFINE f == Portion(c, Q)
  <2>1. f \in [{} -> Int]
    BY <1>4, ListFacts
  <2>2. IsFiniteSet({})
    BY FS_EmptySet
  <2>3. \A x \in {} : f[x] = 0
    OBVIOUS
  <2> HIDE DEF f
  <2>4. Sum(f) = 0
    BY <2>1, <2>2, <2>3, SumOfZeros
  <2> QED
    BY <2>4 DEF f
<1> QED
  BY <1>4, <1>5, SumsOfConds DEF c

\* A player with no conditions listed and nothing enabled.
LEMMA BareIsTidy ==
  ASSUME ConditionsAssumption, NEW s \in CondType, s.conds = <<>>, s.speed = 0, s.skill = 0,
         \A x \in Slots : ~s.able[x]
  PROVE  Tidy(s)
<1>1. Wearing(s)
  BY DEF Wearing
<1>2. Cond!Given(s, Speed) = 0 /\ Cond!Given(s, Skill) = 0
  BY NothingGiven
<1>3. Totals(s)
  BY <1>2, NothingListed DEF Totals
<1>4. Lasting(s)
  BY NothingListed DEF Lasting
<1> QED
  BY <1>1, <1>3, <1>4 DEF Tidy, Booked

LEMMA CondInit ==
  ASSUME ConditionsAssumption, Cond!Init
  PROVE  CondSound(w)
<1>1. w \in CondType
  BY NothingListed DEF Cond!Init, CondType
<1>2. /\ w.conds = <<>> /\ w.speed = 0 /\ w.skill = 0 /\ w.online = TRUE
      /\ \A x \in Slots : ~w.able[x] /\ w.worn[x] = None
  BY DEF Cond!Init
<1>3. Tidy(w)
  BY <1>1, <1>2, BareIsTidy
<1>4. Dressed(w)
  BY <1>2 DEF Dressed, ConditionsAssumption
<1> QED
  BY <1>1, <1>2, <1>3, <1>4 DEF CondSound

\* The state of a player in the game.
LEMMA InGame ==
  ASSUME NEW s, CondSound(s), s.online
  PROVE  Tidy(s) /\ Dressed(s) /\ s \in CondType /\ Wearing(s) /\ Lasting(s)
BY DEF CondSound, Tidy, Booked

LEMMA StillInGame ==
  ASSUME NEW s, CondSound(s), s.online, NEW t, Tidy(t), Same(s, t)
  PROVE  CondSound(t)
BY DEF CondSound, Tidy, Booked, Same, Dressed

\* A step that concerns a slot.
LEMMA SlotInGame ==
  ASSUME NEW s, CondSound(s), s.online, NEW t, Tidy(t), NEW x \in Slots, OffSlot(s, t, x),
         t.worn[x] \in Types /\ Replaced(t.worn[x]) => t.able[x]
  PROVE  CondSound(t)
<1>1. Dressed(s) /\ t \in CondType /\ t.online
  BY DEF CondSound, Tidy, Booked, OffSlot
<1>2. Dressed(t)
  BY <1>1 DEF Dressed, OffSlot
<1> QED
  BY <1>1, <1>2 DEF CondSound

LEMMA AddConditionKeeps ==
  ASSUME ConditionsAssumption, CondSound(w), NEW kind \in Cond!Kinds \ {"regeneration"},
         NEW ticks \in Times, NEW delta \in Deltas, Cond!AddCondition(kind, ticks, delta)
  PROVE  CondSound(w')
<1> DEFINE k == <<kind, Default>>
           more == IF kind = "paralyze" THEN -delta ELSE delta
<1>1. w.online /\ w' = Cond!Added(w, k, ticks, more)
  BY DEF Cond!AddCondition
<1>2. k \in CondKeys /\ \A x : k # <<"regeneration", x>>
  BY DEF CondKeys
<1>3. ticks \in {-1} \cup Nat /\ more \in Int
  BY DEF ConditionsAssumption
<1> HIDE DEF k, more
<1>4. Tidy(w) /\ Fits(w, k, ticks)
  BY <1>1, <1>2, InGame DEF Fits
<1>5. Tidy(w') /\ Same(w, w')
  BY <1>1, <1>2, <1>3, <1>4, AddedTidies
<1> QED
  BY <1>1, <1>5, StillInGame

LEMMA EndedKeeps ==
  ASSUME ConditionsAssumption, CondSound(w), w.online, NEW ks, w' = Cond!Ended(w, ks)
  PROVE  CondSound(w')
<1>1. Tidy(w)
  BY InGame
<1>2. Tidy(w') /\ Same(w, w')
  BY <1>1, EndedTidies
<1> QED
  BY <1>2, StillInGame

LEMMA ThinkKeeps ==
  ASSUME ConditionsAssumption, CondSound(w), NEW elapsed \in 1 .. 2, Cond!Think(elapsed)
  PROVE  CondSound(w')
<1> DEFINE c == w.conds
           Aged(a) == [a EXCEPT !.ticks = IF @ > 0 THEN @ - 1 ELSE @,
                                !.left = IF @ > elapsed THEN @ - elapsed ELSE 0]
           d == [k \in DOMAIN c |-> Aged(c[k])]
           u == [w EXCEPT !.conds = d]
<1>1. w.online /\ \E over : w' = Cond!Ended(u, over)
  BY DEF Cond!Think
<1>2. Tidy(w) /\ Booked(w) /\ w \in CondType /\ Wearing(w) /\ Totals(w) /\ Lasting(w)
  BY <1>1, InGame DEF Tidy, Booked
<1>3. c \in CondLists
  BY <1>2 DEF CondType
<1>4. DOMAIN c \in SUBSET CondKeys /\ \A k \in DOMAIN c : c[k] \in Cond!Condition
  BY <1>3, ListFacts
<1>5. ASSUME NEW a \in Cond!Condition
      PROVE  /\ Aged(a) \in Cond!Condition /\ Aged(a).delta = a.delta
             /\ a.ticks = -1 => Aged(a).ticks = -1
  <2> DEFINE ticks == IF a.ticks > 0 THEN a.ticks - 1 ELSE a.ticks
             left == IF a.left > elapsed THEN a.left - elapsed ELSE 0
  <2>1. Aged(a) = [a EXCEPT !.ticks = ticks, !.left = left]
    OBVIOUS
  <2>2. ticks \in {-1} \cup Nat /\ left \in Nat /\ (a.ticks = -1 => ticks = -1)
    BY DEF Cond!Condition, Cond!Permanent
  <2> HIDE DEF ticks, left, Aged
  <2> QED
    BY <2>1, <2>2 DEF Cond!Condition, Cond!Permanent
<1> HIDE DEF Aged
<1>6. /\ d \in [DOMAIN c -> Cond!Condition] /\ DOMAIN d = DOMAIN c
      /\ \A k \in DOMAIN c : d[k].delta = c[k].delta /\ (c[k].ticks = -1 => d[k].ticks = -1)
  BY <1>4, <1>5
<1> HIDE DEF c, d
<1>7. d \in CondLists
  BY <1>4, <1>6, IsList
<1>8. ASSUME NEW Q
      PROVE  Portion(d, Q) = Portion(c, Q)
  BY <1>6 DEF Portion
<1>9. Cond!SpeedOf(d) = Cond!SpeedOf(c) /\ Cond!SkillOf(d) = Cond!SkillOf(c)
  <2>1. /\ Portion(d, {"haste", "paralyze"}) = Portion(c, {"haste", "paralyze"})
        /\ Portion(d, {"attributes"}) = Portion(c, {"attributes"})
    BY <1>8
  <2> QED
    BY <2>1, SumsOfConds
<1>10. u \in CondType /\ u.conds = d /\ Same(w, u) /\ u.speed = w.speed /\ u.skill = w.skill
  BY <1>2, <1>7 DEF CondType, Same
<1> HIDE DEF u
<1>11. Wearing(u)
  BY <1>2, <1>10 DEF Wearing, Same
<1>12. Totals(u)
  BY <1>2, <1>9, <1>10, GivenSame DEF Totals, c
<1>13. Lasting(u)
  BY <1>2, <1>6, <1>10 DEF Lasting, Same, c
<1>14. Tidy(u)
  BY <1>10, <1>11, <1>12, <1>13 DEF Tidy, Booked
<1>15. PICK over : w' = Cond!Ended(u, over)
  BY <1>1 DEF u, d, c, Aged
<1>16. Tidy(w') /\ Same(u, w')
  BY <1>14, <1>15, EndedTidies
<1>17. Same(w, w')
  BY <1>10, <1>16 DEF Same
<1> QED
  BY <1>1, <1>16, <1>17, StillInGame

LEMMA PutOnKeeps ==
  ASSUME ConditionsAssumption, CondSound(w), NEW x \in Slots, NEW type \in Types,
         Cond!PutOn(x, type)
  PROVE  CondSound(w')
<1> DEFINE a == [w EXCEPT !.worn[x] = type]
<1>1. w.online /\ w.worn[x] = None /\ w.level >= Needs[type] /\ w' = Cond!Equip(a, x, type)
  BY DEF Cond!PutOn
<1>2. Tidy(w) /\ ~w.able[x]
  BY <1>1, InGame DEF Wearing, ConditionsAssumption
<1>3. Tidy(a) /\ OffSlot(w, a, x) /\ a.worn[x] = type /\ a.able = w.able
  BY <1>2, RehungTidies
<1> HIDE DEF a
<1>4. Tidy(w') /\ OffSlot(a, w', x) /\ (a.level >= Needs[type] => w'.able[x])
  BY <1>1, <1>2, <1>3, EquipTidies
<1>5. OffSlot(w, w', x) /\ w'.able[x]
  BY <1>1, <1>3, <1>4 DEF OffSlot
<1> QED
  BY <1>1, <1>4, <1>5, SlotInGame

LEMMA TakeOffKeeps ==
  ASSUME ConditionsAssumption, CondSound(w), NEW x \in Slots, Cond!TakeOff(x)
  PROVE  CondSound(w')
<1>1. w.online /\ w.worn[x] # None /\ w' = Cond!DeEquip([w EXCEPT !.worn[x] = None], x, w.worn[x])
  BY DEF Cond!TakeOff
<1>2. Tidy(w) /\ w.worn[x] \in Types
  BY <1>1, InGame DEF CondType
<1>3. Tidy(w') /\ OffSlot(w, w', x) /\ w'.worn[x] = None
  BY <1>1, <1>2, DeEquipTidies
<1>4. w'.worn[x] \notin Types
  BY <1>3 DEF ConditionsAssumption
<1> QED
  BY <1>1, <1>3, <1>4, SlotInGame

\* An item that is worn wears out.
LEMMA DecayKeeps ==
  ASSUME ConditionsAssumption, CondSound(w), NEW x \in Slots, Cond!Decay(x)
  PROVE  CondSound(w')
<1> DEFINE old == w.worn[x]
           new == DecayTo[old]
<1>1. w.online /\ old # None /\ old # new
  BY DEF Cond!Decay
<1>2. Tidy(w) /\ Dressed(w) /\ w \in CondType /\ old \in Types
  BY <1>1, InGame DEF CondType
<1>3. new \in Types \cup {None} /\ w.level \in {1, 2}
  BY <1>2 DEF ConditionsAssumption, CondType
<1>4. CASE new = None
  <2>1. w' = Cond!DeEquip([w EXCEPT !.worn[x] = None], x, old)
    BY <1>4 DEF Cond!Decay
  <2>2. Tidy(w') /\ OffSlot(w, w', x) /\ w'.worn[x] = None
    BY <1>2, <2>1, DeEquipTidies
  <2>3. w'.worn[x] \notin Types
    BY <2>2 DEF ConditionsAssumption
  <2> QED
    BY <1>1, <2>2, <2>3, SlotInGame
<1>5. CASE new # None /\ {old, new} \in SameKind
  <2> DEFINE a == Cond!DeEquip(w, x, old)
             b == [a EXCEPT !.worn[x] = new]
  <2>1. w' = Cond!Equip(b, x, new)
    BY <1>5 DEF Cond!Decay
  <2>2. Tidy(a) /\ OffSlot(w, a, x) /\ ~a.able[x]
    <3>1. [w EXCEPT !.worn[x] = old] = w
      BY <1>2 DEF CondType
    <3>2. LET t == Cond!DeEquip([w EXCEPT !.worn[x] = old], x, w.worn[x]) IN
          Tidy(t) /\ OffSlot(w, t, x) /\ ~t.able[x]
      BY <1>2, DeEquipTidies
    <3> QED
      BY <3>1, <3>2
  <2> HIDE DEF a
  <2>3. Tidy(b) /\ OffSlot(a, b, x) /\ b.worn[x] = new /\ b.able = a.able
    BY <1>3, <2>2, RehungTidies
  <2> HIDE DEF b
  <2>4. /\ Tidy(w') /\ OffSlot(b, w', x)
        /\ b.level < Needs[new] => w' = b
        /\ b.level >= Needs[new] => w'.able[x]
    <3>1. b.worn[x] \in Types /\ ~b.able[x] /\ w' = Cond!Equip(b, x, b.worn[x])
      BY <1>3, <1>5, <2>1, <2>2, <2>3
    <3> QED
      BY <2>3, <3>1, EquipTidies
  <2>5. OffSlot(w, w', x) /\ b.level = w.level
    BY <2>2, <2>3, <2>4 DEF OffSlot
  <2>6. w'.worn[x] \in Types /\ Replaced(w'.worn[x]) => w'.able[x]
    <3>1. new \in Types /\ Needs[new] \in Int
      BY <1>3, <1>5 DEF ConditionsAssumption
    <3>2. CASE w.level < Needs[new]
      <4>1. ~(Needs[new] <= 1)
        BY <1>3, <3>1, <3>2
      <4>2. ~Replaced(new)
        BY <3>1, <4>1 DEF ConditionsAssumption
      <4>3. w'.worn[x] = new
        BY <2>3, <2>4, <2>5, <3>2
      <4> QED
        BY <4>2, <4>3
    <3>3. CASE w.level >= Needs[new]
      BY <2>4, <2>5, <3>3
    <3> QED
      BY <1>3, <3>1, <3>2, <3>3
  <2> QED
    BY <1>1, <2>4, <2>5, <2>6, SlotInGame
<1>6. CASE new # None /\ {old, new} \notin SameKind
  <2> DEFINE a == [w EXCEPT !.worn[x] = new]
  <2>1. w' = Cond!DeEquip(Cond!Equip(a, x, new), x, old)
    BY <1>6 DEF Cond!Decay
  <2>2. Replaced(old)
    BY <1>1, <1>6 DEF Replaced
  <2>3. w.able[x]
    BY <1>2, <2>2 DEF Dressed
  <2>4. Cond!Equip(a, x, new) = a
    <3>1. a.able = w.able
      BY <1>2 DEF CondType
    <3> QED
      BY <2>3, <3>1 DEF Cond!Equip
  <2>5. Tidy(w') /\ OffSlot(w, w', x) /\ w'.worn[x] = new
    <3>1. w' = Cond!DeEquip([w EXCEPT !.worn[x] = new], x, w.worn[x])
      BY <2>1, <2>4
    <3> HIDE DEF new
    <3> QED
      BY <1>2, <1>3, <3>1, DeEquipTidies
  <2>6. ~Replaced(new)
    BY <1>2, <2>2 DEF ConditionsAssumption
  <2> QED
    BY <1>1, <2>5, <2>6, SlotInGame
<1> QED
  BY <1>4, <1>5, <1>6

\* Who leaves takes everything off.
LEMMA LogoutKeeps ==
  ASSUME ConditionsAssumption, CondSound(w), Cond!Logout
  PROVE  CondSound(w')
<1> DEFINE off == {x \in Slots : w.able[x] /\ w.worn[x] # None}
           permanent == {<<"regeneration", x>> : x \in {y \in off : Regenerates[w.worn[y]]}}
           e == Cond!Ended(w, permanent)
           able == [x \in Slots |-> e.able[x] /\ x \notin off]
           s == [e EXCEPT !.able = able]
           P == Cond!Persistent(s)
           c == Cond!Restrict(e.conds, P)
<1>1. w.online /\ s = Cond!Undressed(w)
  BY DEF Cond!Logout, Cond!Undressed
<1>2. Tidy(w) /\ Wearing(w)
  BY <1>1, InGame
<1>3. Tidy(e) /\ Same(w, e)
  BY <1>2, EndedTidies
<1>4. able = [x \in Slots |-> FALSE]
  <2>1. \A x \in Slots : w.able[x] => x \in off
    BY <1>2 DEF Wearing, ConditionsAssumption
  <2>2. \A x \in Slots : (e.able[x] /\ x \notin off) = FALSE
    BY <1>3, <2>1 DEF Same
  <2> QED
    BY <2>2
<1> HIDE DEF off, e, able
<1>5. e \in CondType /\ Lasting(e) /\ e.conds \in CondLists
  BY <1>3 DEF Tidy, Booked, CondType
<1>6. /\ s.conds = e.conds /\ s.worn = e.worn /\ s.able = able /\ s.level = e.level
      /\ s \in CondType
  BY <1>4, <1>5 DEF CondType
<1>7. w' = [s EXCEPT !.online = FALSE, !.speed = 0, !.skill = 0, !.conds = Cond!Restrict(s.conds, P)]
  <2> HIDE DEF s
  <2> QED
    BY <1>1 DEF Cond!Logout
<1> HIDE DEF s
<1>8. P \in SUBSET DOMAIN e.conds /\ \A k \in P : e.conds[k].ticks > 0
  BY <1>6 DEF Cond!Persistent
<1> HIDE DEF P
<1>9. c \in CondLists /\ DOMAIN c = P
  BY <1>5, <1>8, RestrictedList
<1> HIDE DEF c
<1>10. w' = [s EXCEPT !.online = FALSE, !.speed = 0, !.skill = 0, !.conds = c]
  BY <1>6, <1>7 DEF c
<1>11. /\ w' \in CondType /\ w'.conds = c /\ w'.able = able /\ w'.speed = 0 /\ w'.skill = 0
       /\ w'.online = FALSE
  <2> DEFINE none == 0
             no == FALSE
  <2>1. w' = [s EXCEPT !.online = no, !.speed = none, !.skill = none, !.conds = c]
    BY <1>10
  <2>2. none \in Int /\ no \in BOOLEAN /\ none = 0 /\ no = FALSE
    OBVIOUS
  <2> HIDE DEF none, no
  <2>3. /\ w' \in CondType /\ w'.conds = c /\ w'.able = s.able /\ w'.speed = none /\ w'.skill = none
        /\ w'.online = no
    BY <1>6, <1>9, <2>1, <2>2 DEF CondType
  <2> QED
    BY <1>6, <2>2, <2>3
<1>12. ASSUME NEW x \in Slots
       PROVE  <<"regeneration", x>> \notin P
  BY <1>5, <1>8 DEF Lasting
<1>13. Bare(w')
  BY <1>4, <1>9, <1>11, <1>12 DEF Bare
<1> QED
  BY <1>11, <1>13 DEF CondSound

LEMMA ChangeLevelKeeps ==
  ASSUME ConditionsAssumption, CondSound(w), Cond!ChangeLevel
  PROVE  CondSound(w')
<1>1. w.online /\ w' = [w EXCEPT !.level = 3 - w.level]
  BY DEF Cond!ChangeLevel
<1>2. Tidy(w) /\ Dressed(w) /\ w \in CondType /\ Wearing(w) /\ Totals(w) /\ Lasting(w)
  BY <1>1, InGame DEF Tidy, Booked
<1>3. 3 - w.level \in {1, 2}
  BY <1>2 DEF CondType
<1>4. /\ w' \in CondType /\ w'.able = w.able /\ w'.worn = w.worn /\ w'.conds = w.conds
      /\ w'.speed = w.speed /\ w'.skill = w.skill /\ w'.online
  BY <1>1, <1>2, <1>3 DEF CondType
<1>5. Cond!Given(w', Speed) = Cond!Given(w, Speed) /\ Cond!Given(w', Skill) = Cond!Given(w, Skill)
  BY <1>4 DEF Cond!Given
<1>6. Wearing(w') /\ Totals(w') /\ Lasting(w') /\ Dressed(w')
  BY <1>2, <1>4, <1>5 DEF Wearing, Totals, Lasting, Dressed
<1> QED
  BY <1>4, <1>6 DEF CondSound, Tidy, Booked

\* Who comes back: what may be next after each step of the two loops.
ArriveStep(f, n) ==
  IF n = 0 THEN {Cond!Arriving} ELSE UNION {Cond!Restarted(x) : x \in f[n - 1]}

LEMMA ArrivalsExist ==
  \A n \in Nat : \E f : f = [k \in 0 .. n |-> ArriveStep(f, k)]
<1> DEFINE M == {n \in Nat : \E f : f = [k \in 0 .. n |-> ArriveStep(f, k)]}
<1>1. 0 \in M
  <2> DEFINE f == [k \in 0 .. 0 |-> {Cond!Arriving}]
  <2>1. \A k \in 0 .. 0 : ArriveStep(f, k) = {Cond!Arriving}
    <3>1. \A k \in 0 .. 0 : k = 0
      OBVIOUS
    <3> HIDE DEF f
    <3> QED
      BY <3>1, Zenon DEF ArriveStep
  <2>2. f = [k \in 0 .. 0 |-> ArriveStep(f, k)]
    BY <2>1
  <2> QED
    BY <2>2
<1>2. \A n \in M : n + 1 \in M
  <2> TAKE n \in M
  <2>1. PICK f : f = [k \in 0 .. n |-> ArriveStep(f, k)]
    OBVIOUS
  <2> DEFINE g == [k \in 0 .. n + 1 |-> ArriveStep(f, k)]
  <2>2. \A k \in 0 .. n : g[k] = f[k]
    <3> HIDE DEF g
    <3>1. \A k \in 0 .. n : g[k] = ArriveStep(f, k)
      BY DEF g
    <3>2. \A k \in 0 .. n : f[k] = ArriveStep(f, k)
      BY <2>1
    <3> QED
      BY <3>1, <3>2
  <2>3. \A k \in 0 .. n + 1 : ArriveStep(f, k) = ArriveStep(g, k)
    <3> HIDE DEF g
    <3> TAKE k \in 0 .. n + 1
    <3>1. CASE k = 0
      BY <3>1 DEF ArriveStep
    <3>2. CASE k # 0
      <4>1. k - 1 \in 0 .. n
        BY <3>2
      <4>2. g[k - 1] = f[k - 1]
        BY <2>2, <4>1
      <4> QED
        BY <4>2, <3>2, Zenon DEF ArriveStep
    <3> QED
      BY <3>1, <3>2
  <2>4. g = [k \in 0 .. n + 1 |-> ArriveStep(g, k)]
    <3> HIDE DEF g
    <3>1. g = [k \in 0 .. n + 1 |-> ArriveStep(f, k)]
      BY DEF g
    <3> QED
      BY <3>1, <2>3, Zenon
  <2> HIDE DEF g
  <2>5. n + 1 \in Nat
    OBVIOUS
  <2> QED
    BY <2>4, <2>5
<1> HIDE DEF M
<1>3. M = Nat
  <2>1. M \in SUBSET Nat
    BY DEF M
  <2> QED
    BY <1>1, <1>2, <2>1, NatInductionOnSets
<1> QED
  BY <1>3 DEF M

\* What the loops keep: the conditions first, then what is worn; what has not
\* had its turn is neither listed nor enabled.
Coming(x) ==
  /\ x.conds \in SUBSET DOMAIN w.conds /\ x.slots \in SUBSET Slots
  /\ x.conds # {} => x.slots = Slots
  /\ Tidy(x.s) /\ x.s.online
  /\ x.conds \cap DOMAIN x.s.conds = {}
  /\ \A y \in x.slots : ~x.s.able[y]
  /\ \A y \in Slots \ x.slots : x.s.worn[y] \in Types /\ Replaced(x.s.worn[y]) => x.s.able[y]
Left(x) == Cardinality(x.conds) + Cardinality(x.slots)

LEMMA ArrivingComes ==
  ASSUME ConditionsAssumption, CondSound(w), ~w.online
  PROVE  Coming(Cond!Arriving) /\ Left(Cond!Arriving) = Cardinality(DOMAIN w.conds) + Cardinality(Slots)
<1> DEFINE none == <<>>
           yes == TRUE
           s == [w EXCEPT !.conds = none, !.online = yes]
<1>1. w \in CondType /\ Bare(w)
  BY DEF CondSound
<1>2. none = <<>> /\ none \in CondLists /\ DOMAIN none = {} /\ yes \in BOOLEAN /\ yes = TRUE
  BY NothingListed
<1>3. Cond!Arriving = [s |-> s, conds |-> DOMAIN w.conds, slots |-> Slots]
  BY DEF Cond!Arriving
<1> HIDE DEF none, yes
<1>4. /\ s \in CondType /\ s.conds = none /\ s.online = yes /\ s.able = w.able
      /\ s.speed = w.speed /\ s.skill = w.skill
  BY <1>1, <1>2 DEF CondType
<1> HIDE DEF s
<1>5. Tidy(s)
  BY <1>1, <1>2, <1>4, BareIsTidy DEF Bare
<1> QED
  BY <1>1, <1>2, <1>3, <1>4, <1>5 DEF Coming, Left, Bare

LEMMA RestartedComes ==
  ASSUME ConditionsAssumption, CondSound(w), ~w.online, NEW x, Coming(x), NEW n \in Nat,
         Left(x) = n, NEW z \in Cond!Restarted(x)
  PROVE  Coming(z) /\ Left(z) = n - 1
<1>1. w \in CondType /\ Bare(w) /\ w.conds \in CondLists
  BY DEF CondSound, CondType
<1>2. /\ IsFiniteSet(DOMAIN w.conds) /\ DOMAIN w.conds \subseteq CondKeys
      /\ \A k \in DOMAIN w.conds : w.conds[k] \in Cond!Condition
  BY <1>1, ListFacts
<1>3. /\ IsFiniteSet(x.conds) /\ IsFiniteSet(x.slots)
      /\ Cardinality(x.conds) \in Nat /\ Cardinality(x.slots) \in Nat
  <2>1. IsFiniteSet(x.conds) /\ IsFiniteSet(x.slots)
    BY <1>2, FS_Subset DEF Coming, ConditionsAssumption
  <2> QED
    BY <2>1, FS_CardinalityType
<1>4. CASE x.conds # {}
  <2>1. PICK k \in x.conds :
          z = [x EXCEPT !.conds = x.conds \ {k},
                        !.s = Cond!Started(x.s, k, w.conds[k].ticks, w.conds[k].delta)]
    BY <1>4 DEF Cond!Restarted
  <2> DEFINE ticks == w.conds[k].ticks
             delta == w.conds[k].delta
             t == Cond!Started(x.s, k, ticks, delta)
  <2>2. /\ k \in CondKeys /\ k \notin DOMAIN x.s.conds /\ Tidy(x.s)
        /\ ticks \in {-1} \cup Nat /\ delta \in Int
    BY <1>2 DEF Coming, Cond!Condition, Cond!Permanent
  <2>3. Fits(x.s, k, ticks)
    BY <1>1 DEF Fits, Bare, Coming
  <2> HIDE DEF ticks, delta
  <2>4. Tidy(t) /\ Same(x.s, t) /\ DOMAIN t.conds \subseteq DOMAIN x.s.conds \cup {k}
    BY <2>2, <2>3, StartedTidies
  <2>5. z = [x EXCEPT !.conds = x.conds \ {k}, !.s = t]
    BY <2>1 DEF ticks, delta
  <2> HIDE DEF t
  <2>6. z.conds = x.conds \ {k} /\ z.slots = x.slots /\ z.s = t
    BY <2>5 DEF Coming
  <2>7. Cardinality(z.conds) = Cardinality(x.conds) - 1
    BY <1>3, <2>6, FS_RemoveElement
  <2>8. Left(z) = n - 1
    BY <1>3, <2>6, <2>7 DEF Left
  <2>9. Coming(z)
    BY <1>4, <2>4, <2>6 DEF Coming, Same
  <2> QED
    BY <2>8, <2>9
<1>5. CASE x.conds = {}
  <2>1. PICK y \in x.slots :
          z = [x EXCEPT !.slots = x.slots \ {y},
                        !.s = IF x.s.worn[y] = None THEN x.s ELSE Cond!Equip(x.s, y, x.s.worn[y])]
    BY <1>5 DEF Cond!Restarted
  <2> DEFINE t == IF x.s.worn[y] = None THEN x.s ELSE Cond!Equip(x.s, y, x.s.worn[y])
  <2>2. y \in Slots /\ Tidy(x.s) /\ ~x.s.able[y] /\ x.s \in CondType
    BY DEF Coming, Tidy, Booked
  <2>3. /\ Tidy(t) /\ OffSlot(x.s, t, y)
        /\ t.worn[y] \in Types /\ Replaced(t.worn[y]) => t.able[y]
    <3>1. CASE x.s.worn[y] = None
      <4>1. t = x.s
        BY <3>1
      <4> HIDE DEF t
      <4> QED
        BY <2>2, <3>1, <4>1 DEF OffSlot, ConditionsAssumption
    <3>2. CASE x.s.worn[y] # None
      <4> DEFINE type == x.s.worn[y]
      <4>1. type \in Types /\ x.s.level \in {1, 2}
        BY <2>2, <3>2 DEF CondType
      <4>2. t = Cond!Equip(x.s, y, x.s.worn[y])
        BY <3>2
      <4> HIDE DEF t
      <4>3. /\ Tidy(t) /\ OffSlot(x.s, t, y)
            /\ x.s.level < Needs[type] => t = x.s
            /\ x.s.level >= Needs[type] => t.able[y]
        BY <2>2, <4>1, <4>2, EquipTidies
      <4>4. CASE x.s.level < Needs[type]
        <5>1. Needs[type] \in Nat
          BY <4>1 DEF ConditionsAssumption
        <5>2. ~(Needs[type] <= 1)
          BY <4>1, <4>4, <5>1
        <5>3. ~Replaced(type)
          BY <4>1, <5>2 DEF ConditionsAssumption
        <5> QED
          BY <4>3, <4>4, <5>3
      <4>5. CASE ~(x.s.level < Needs[type])
        <5>1. Needs[type] \in Nat
          BY <4>1 DEF ConditionsAssumption
        <5>2. x.s.level >= Needs[type]
          BY <4>1, <4>5, <5>1
        <5> QED
          BY <4>3, <5>2
      <4> QED
        BY <4>4, <4>5
    <3> QED
      BY <3>1, <3>2
  <2>4. z = [x EXCEPT !.slots = x.slots \ {y}, !.s = t]
    BY <2>1
  <2> HIDE DEF t
  <2>5. z.conds = {} /\ z.slots = x.slots \ {y} /\ z.s = t
    BY <1>5, <2>4 DEF Coming
  <2>6. Cardinality(z.slots) = Cardinality(x.slots) - 1
    BY <1>3, <2>5, FS_RemoveElement
  <2>7. Left(z) = n - 1
    BY <1>3, <1>5, <2>5, <2>6 DEF Left
  <2>8. \A u \in z.slots : ~t.able[u]
    BY <2>3, <2>5 DEF Coming, OffSlot
  <2>9. ASSUME NEW u \in Slots \ z.slots, t.worn[u] \in Types /\ Replaced(t.worn[u])
        PROVE  t.able[u]
    <3>1. CASE u = y
      BY <2>3, <2>9, <3>1
    <3>2. CASE u # y
      BY <2>3, <2>5, <2>9, <3>2 DEF Coming, OffSlot
    <3> QED
      BY <3>1, <3>2
  <2>10. Coming(z)
    BY <2>3, <2>5, <2>8, <2>9 DEF Coming, OffSlot
  <2> QED
    BY <2>7, <2>10
<1> QED
  BY <1>4, <1>5

LEMMA CondLoginKeeps ==
  ASSUME ConditionsAssumption, CondSound(w), Cond!Login
  PROVE  CondSound(w')
<1> DEFINE N == Cardinality(DOMAIN w.conds) + Cardinality(Slots)
<1>1. ~w.online /\ \E x \in Cond!Arrived : w' = x.s
  BY DEF Cond!Login
<1>2. N \in Nat
  <2>1. w.conds \in CondLists
    BY DEF CondSound, CondType
  <2>2. IsFiniteSet(DOMAIN w.conds) /\ IsFiniteSet(Slots)
    BY <2>1, ListFacts DEF ConditionsAssumption
  <2> QED
    BY <2>2, FS_CardinalityType
<1>3. Cond!Cardinality(DOMAIN w.conds) + Cond!Cardinality(Slots) = N
  BY DEF Cond!Cardinality, Cardinality
<1> HIDE DEF N
<1>4. PICK f : f = [k \in 0 .. N |-> ArriveStep(f, k)] /\ Cond!Arrived = f[N]
  <2> DEFINE k == CHOOSE f : f = [n \in 0 .. N |-> ArriveStep(f, n)]
  <2>1. k = [n \in 0 .. N |-> ArriveStep(k, n)]
    BY <1>2, ArrivalsExist, Zenon
  <2>2. Cond!Arrived = k[N]
    BY <1>3 DEF Cond!Arrived, ArriveStep
  <2> HIDE DEF k
  <2> QED
    BY <2>1, <2>2
<1>5. f[0] = {Cond!Arriving} /\ \A n \in Nat : n + 1 <= N => f[n + 1] = UNION {Cond!Restarted(u) : u \in f[n]}
  <2>1. \A k \in 0 .. N : f[k] = ArriveStep(f, k)
    BY <1>4
  <2>2. f[0] = {Cond!Arriving}
    <3>1. 0 \in 0 .. N
      BY <1>2
    <3> QED
      BY <2>1, <3>1, Zenon DEF ArriveStep
  <2>3. ASSUME NEW n \in Nat, n + 1 <= N
        PROVE  f[n + 1] = UNION {Cond!Restarted(u) : u \in f[n]}
    <3>1. n + 1 \in 0 .. N /\ n + 1 # 0 /\ (n + 1) - 1 = n
      BY <1>2, <2>3
    <3>2. f[n + 1] = ArriveStep(f, n + 1)
      BY <2>1, <3>1
    <3>3. f[(n + 1) - 1] = f[n]
      BY <3>1
    <3> QED
      BY <3>1, <3>2, <3>3, Zenon DEF ArriveStep
  <2> QED
    BY <2>2, <2>3
<1> DEFINE Fine(n) == \A u \in f[n] : Coming(u) /\ Left(u) = N - n
           M == {n \in Nat : n <= N => Fine(n)}
<1>6. 0 \in M
  <2>1. Coming(Cond!Arriving) /\ Left(Cond!Arriving) = N
    BY <1>1, ArrivingComes DEF N
  <2> QED
    BY <1>2, <1>5, <2>1
<1>7. \A n \in M : n + 1 \in M
  <2> TAKE n \in M
  <2> SUFFICES ASSUME n + 1 <= N, NEW z \in f[n + 1] PROVE Coming(z) /\ Left(z) = N - (n + 1)
    OBVIOUS
  <2>1. Fine(n)
    BY <1>2
  <2>2. PICK u \in f[n] : z \in Cond!Restarted(u)
    <3>1. z \in UNION {Cond!Restarted(u) : u \in f[n]}
      BY <1>5
    <3> QED
      BY <3>1, Zenon
  <2>3. Coming(u) /\ Left(u) = N - n
    BY <2>1, <2>2
  <2> DEFINE m == N - n
  <2>4. m \in Nat /\ m - 1 = N - (n + 1)
    BY <1>2
  <2>5. Left(u) = m
    BY <2>3
  <2> HIDE DEF m
  <2>6. Coming(z) /\ Left(z) = m - 1
    BY <1>1, <2>2, <2>3, <2>4, <2>5, RestartedComes
  <2> QED
    BY <2>4, <2>6
<1>8. M = Nat
  <2> HIDE DEF M
  <2>1. M \in SUBSET Nat
    BY DEF M
  <2> QED
    BY <1>6, <1>7, <2>1, NatInductionOnSets
<1>9. Fine(N)
  BY <1>2, <1>8
<1>10. PICK x \in f[N] : w' = x.s
  BY <1>1, <1>4
<1>11. Coming(x) /\ Left(x) = 0
  BY <1>2, <1>9, <1>10
<1>12. x.slots = {}
  <2>1. w.conds \in CondLists
    BY DEF CondSound, CondType
  <2>2. IsFiniteSet(DOMAIN w.conds)
    BY <2>1, ListFacts
  <2>3. IsFiniteSet(x.conds) /\ IsFiniteSet(x.slots)
    BY <1>11, <2>2, FS_Subset DEF Coming, ConditionsAssumption
  <2>4. Cardinality(x.conds) \in Nat /\ Cardinality(x.slots) \in Nat
    BY <2>3, FS_CardinalityType
  <2>5. Cardinality(x.slots) = 0
    BY <1>11, <2>4 DEF Left
  <2> QED
    BY <2>3, <2>5, FS_EmptySet
<1>13. Tidy(w') /\ w'.online /\ Dressed(w')
  BY <1>10, <1>11, <1>12 DEF Coming, Dressed
<1> QED
  BY <1>13 DEF CondSound, Tidy, Booked

LEMMA CondNext ==
  ASSUME ConditionsAssumption, CondSound(w), Cond!Next
  PROVE  CondSound(w')
<1>1. ASSUME NEW kind \in Cond!Kinds \ {"regeneration"}, NEW ticks \in Times, NEW delta \in Deltas,
             Cond!AddCondition(kind, ticks, delta)
      PROVE  CondSound(w')
  BY <1>1, AddConditionKeeps
<1>2. ASSUME NEW kind \in Cond!Kinds, Cond!RemoveCondition(kind)
      PROVE  CondSound(w')
  <2>1. w.online /\ w' = Cond!Ended(w, Cond!OfKind(w, kind))
    BY <1>2 DEF Cond!RemoveCondition
  <2> QED
    BY <2>1, EndedKeeps
<1>3. ASSUME NEW all \in BOOLEAN, Cond!RemoveConditions(all)
      PROVE  CondSound(w')
  <2>1. w.online /\ w' = Cond!Ended(w, IF all THEN DOMAIN w.conds ELSE Cond!Persistent(w))
    BY <1>3 DEF Cond!RemoveConditions
  <2> QED
    BY <2>1, EndedKeeps
<1>4. ASSUME NEW elapsed \in 1 .. 2, Cond!Think(elapsed)
      PROVE  CondSound(w')
  BY <1>4, ThinkKeeps
<1>5. ASSUME NEW x \in Slots, (\E type \in Types : Cond!PutOn(x, type)) \/ Cond!TakeOff(x) \/ Cond!Decay(x)
      PROVE  CondSound(w')
  BY <1>5, PutOnKeeps, TakeOffKeeps, DecayKeeps
<1>6. CASE Cond!Logout \/ Cond!Login \/ Cond!ChangeLevel
  BY <1>6, LogoutKeeps, CondLoginKeeps, ChangeLevelKeeps
<1> QED
  BY <1>1, <1>2, <1>3, <1>4, <1>5, <1>6 DEF Cond!Next

LEMMA CondSoundAgrees ==
  ASSUME ConditionsAssumption, CondSound(w)
  PROVE  Cond!BonusesAddUp
<1>1. CASE w.online
  <2>1. Wearing(w) /\ Totals(w) /\ Lasting(w)
    BY <1>1 DEF CondSound, Tidy, Booked
  <2> QED
    BY <1>1, <2>1 DEF Wearing, Totals, Lasting, Cond!BonusesAddUp, ConditionsAssumption
<1>2. CASE ~w.online
  BY <1>2 DEF CondSound, Bare, Cond!BonusesAddUp
<1> QED
  BY <1>1, <1>2

\* The speed and the skill of a player in the game are what his listed
\* conditions and his enabled items add, each once, and a condition of a slot
\* outlives neither its item nor a logout: for any slots, types of items and
\* conditions, in whatever order a login starts them (condition.cpp:352-527,
\* 1459-1493, creature.cpp:1472-1617, game.cpp:939-978, movement.cpp:976-1164,
\* player.cpp:1416-1447, 1637-1710, 3578-3684).
THEOREM BonusesAlwaysAddUp == Spec => []BonusesAddUp
<1> DEFINE Inv == scene = "conditions" => CondSound(w)
<1>0. ConditionsAssumption
  BY WorldAssumption DEF WorldAssumption
<1>1. Init => Inv
  BY <1>0, CondInit DEF Init
<1>2. Inv /\ [Next]_<<scene, w>> => Inv'
  <2> SUFFICES ASSUME Inv, [Next]_<<scene, w>>, scene' = "conditions"
      PROVE  CondSound(w')
    OBVIOUS
  <2>1. scene = "conditions" /\ (Cond!Next \/ w' = w)
    BY DEF Next
  <2>2. CASE Cond!Next
    BY <1>0, <2>1, <2>2, CondNext
  <2>3. CASE w' = w
    BY <2>1, <2>3
  <2> QED
    BY <2>1, <2>2, <2>3
<1>3. Inv => BonusesAddUp
  BY <1>0, CondSoundAgrees DEF BonusesAddUp
<1> QED
  BY <1>1, <1>2, <1>3, PTL DEF Spec

-----------------------------------------------------------------------------
(* A player's growth (module Growth).                                        *)

LEMMA UpFrom ==
  ASSUME NEW a \in Int, NEW M, a \in M, \A n \in Int : n >= a /\ n \in M => n + 1 \in M
  PROVE  \A b \in Int : b >= a => b \in M
<1> DEFINE N == {n \in Nat : a + n \in M}
<1>1. N \in SUBSET Nat
  OBVIOUS
<1>2. 0 \in N
  OBVIOUS
<1>3. \A n \in N : n + 1 \in N
  <2> SUFFICES ASSUME NEW n \in Nat, a + n \in M
               PROVE  n + 1 \in N
    OBVIOUS
  <2>1. a + n \in Int /\ a + n >= a /\ (a + n) + 1 = a + (n + 1) /\ n + 1 \in Nat
    OBVIOUS
  <2>2. (a + n) + 1 \in M
    BY <2>1
  <2> QED
    BY <2>1, <2>2
<1>4. N = Nat
  <2> HIDE DEF N
  <2> QED
    BY <1>1, <1>2, <1>3, NatInductionOnSets
<1>5. SUFFICES ASSUME NEW b \in Int, b >= a
               PROVE  b \in M
  OBVIOUS
<1>6. b - a \in Nat /\ a + (b - a) = b
  BY <1>5
<1> QED
  BY <1>4, <1>6

\* The function that Total is taken from: it exists, and it is determined.
IsTotal(f, a, b, s) == s = [l \in a .. b |-> IF l = a THEN 0 ELSE s[l - 1] + f[l]]

LEMMA TotalExists ==
  ASSUME NEW f, NEW a \in Int, NEW b \in Int, b >= a
  PROVE  \E s : IsTotal(f, a, b, s)
<1> DEFINE M == {c \in Int : \E s : IsTotal(f, a, c, s)}
<1>1. a \in M
  <2> DEFINE s == [l \in a .. a |-> 0]
  <2>1. a .. a = {a}
    OBVIOUS
  <2>2. s = [l \in a .. a |-> IF l = a THEN 0 ELSE s[l - 1] + f[l]]
    BY <2>1
  <2>3. IsTotal(f, a, a, s)
    BY <2>2 DEF IsTotal
  <2> QED
    BY <2>3
<1>2. ASSUME NEW c \in Int, c >= a, c \in M
      PROVE  c + 1 \in M
  <2>1. PICK s : IsTotal(f, a, c, s)
    BY <1>2
  <2> DEFINE t == [l \in a .. c + 1 |-> IF l = c + 1 THEN s[c] + f[l] ELSE s[l]]
             u == [l \in a .. c + 1 |-> IF l = a THEN 0 ELSE t[l - 1] + f[l]]
  <2>2. s = [l \in a .. c |-> IF l = a THEN 0 ELSE s[l - 1] + f[l]]
    BY <2>1 DEF IsTotal
  <2>3. ASSUME NEW l \in a .. c + 1
        PROVE  t[l] = u[l]
    <3>1. CASE l = c + 1
      <4>1. l # a /\ c \in a .. c + 1 /\ c # c + 1 /\ l - 1 = c
        BY <1>2, <3>1
      <4>2. t[l] = s[c] + f[l] /\ t[c] = s[c] /\ u[l] = t[c] + f[l]
        BY <3>1, <4>1
      <4> QED
        BY <4>2
    <3>2. CASE l # c + 1 /\ l = a
      <4>1. l \in a .. c /\ t[l] = s[l] /\ u[l] = 0
        BY <1>2, <3>2
      <4> HIDE DEF t, u
      <4> QED
        BY <2>2, <3>2, <4>1
    <3>3. CASE l # c + 1 /\ l # a
      <4>1. l \in a .. c /\ l - 1 \in a .. c + 1 /\ l - 1 # c + 1
        BY <1>2, <3>3
      <4>2. t[l] = s[l] /\ t[l - 1] = s[l - 1] /\ u[l] = t[l - 1] + f[l]
        BY <3>3, <4>1
      <4> HIDE DEF t, u
      <4> QED
        BY <2>2, <3>3, <4>1, <4>2
    <3> QED
      BY <3>1, <3>2, <3>3
  <2>4. t = u
    BY <2>3
  <2>5. IsTotal(f, a, c + 1, t)
    BY <2>4 DEF IsTotal
  <2> QED
    BY <2>5
<1>3. b \in M
  <2> HIDE DEF M
  <2> QED
    BY <1>1, <1>2, UpFrom
<1> QED
  BY <1>3

SameAbove(f, g, a, b) == \A l \in a + 1 .. b : f[l] = g[l]

LEMMA TotalsAgree ==
  ASSUME NEW f, NEW g, NEW a \in Int, NEW b \in Int, NEW c \in Int, b <= c,
         SameAbove(f, g, a, b),
         NEW s, IsTotal(f, a, b, s), NEW t, IsTotal(g, a, c, t)
  PROVE  \A l \in a .. b : s[l] = t[l]
<1>1. s = [l \in a .. b |-> IF l = a THEN 0 ELSE s[l - 1] + f[l]]
  BY DEF IsTotal
<1>2. t = [l \in a .. c |-> IF l = a THEN 0 ELSE t[l - 1] + g[l]]
  BY DEF IsTotal
<1> DEFINE M == {l \in Int : l <= b => s[l] = t[l]}
<1>3. a \in M
  <2>1. CASE a <= b
    <3>1. a \in a .. b /\ a \in a .. c
      BY <2>1
    <3>2. s[a] = 0 /\ t[a] = 0
      BY <1>1, <1>2, <3>1
    <3> QED
      BY <3>2
  <2> QED
    BY <2>1
<1>4. ASSUME NEW l \in Int, l >= a, l \in M
      PROVE  l + 1 \in M
  <2> SUFFICES ASSUME l + 1 <= b
               PROVE  s[l + 1] = t[l + 1]
    OBVIOUS
  <2>1. l + 1 \in a .. b /\ l + 1 \in a .. c /\ l + 1 \in a + 1 .. b /\ l + 1 # a /\ (l + 1) - 1 = l
    BY <1>4
  <2>2. s[l] = t[l] /\ f[l + 1] = g[l + 1]
    BY <1>4, <2>1 DEF SameAbove
  <2>3. s[l + 1] = s[l] + f[l + 1]
    BY <1>1, <2>1
  <2>4. t[l + 1] = t[l] + g[l + 1]
    BY <1>2, <2>1
  <2> QED
    BY <2>2, <2>3, <2>4
<1>5. \A l \in Int : l >= a => l \in M
  <2> HIDE DEF M
  <2> QED
    BY <1>3, <1>4, UpFrom
<1> QED
  BY <1>5

LEMMA TotalIs ==
  ASSUME NEW K, NEW P, NEW f, NEW a \in Int, NEW b \in Int, b >= a
  PROVE  \E s : IsTotal(f, a, b, s) /\ Grow(K, P)!Total(f, a, b) = s[b]
<1> DEFINE s == CHOOSE sum : sum = [l \in a .. b |-> IF l = a THEN 0 ELSE sum[l - 1] + f[l]]
<1>1. \E sum : sum = [l \in a .. b |-> IF l = a THEN 0 ELSE sum[l - 1] + f[l]]
  BY TotalExists DEF IsTotal
<1>2. s = [l \in a .. b |-> IF l = a THEN 0 ELSE s[l - 1] + f[l]]
  BY <1>1
<1>3. Grow(K, P)!Total(f, a, b) = s[b]
  BY DEF Grow!Total
<1> QED
  <2> HIDE DEF s
  <2> QED
    BY <1>2, <1>3 DEF IsTotal

\* What is added up, one by one; the same, where the functions agree.
LEMMA TotalStep ==
  ASSUME NEW K, NEW P, NEW f, NEW a \in Int, NEW b \in Int, b >= a
  PROVE  /\ Grow(K, P)!Total(f, a, a) = 0
         /\ Grow(K, P)!Total(f, a, b + 1) = Grow(K, P)!Total(f, a, b) + f[b + 1]
<1>1. PICK r : IsTotal(f, a, a, r) /\ Grow(K, P)!Total(f, a, a) = r[a]
  BY TotalIs
<1>2. PICK s : IsTotal(f, a, b, s) /\ Grow(K, P)!Total(f, a, b) = s[b]
  BY TotalIs
<1>3. PICK t : IsTotal(f, a, b + 1, t) /\ Grow(K, P)!Total(f, a, b + 1) = t[b + 1]
  <2>1. b + 1 \in Int /\ b + 1 >= a
    OBVIOUS
  <2> QED
    BY <2>1, TotalIs
<1>4. r[a] = 0
  BY <1>1 DEF IsTotal
<1>5. s[b] = t[b]
  <2>0. b + 1 \in Int /\ b <= b + 1 /\ SameAbove(f, f, a, b)
    BY DEF SameAbove
  <2>1. \A l \in a .. b : s[l] = t[l]
    BY <1>2, <1>3, <2>0, TotalsAgree
  <2> QED
    BY <2>1
<1>6. t[b + 1] = t[b] + f[b + 1]
  <2>1. t = [l \in a .. b + 1 |-> IF l = a THEN 0 ELSE t[l - 1] + f[l]]
    BY <1>3 DEF IsTotal
  <2>2. b + 1 \in a .. b + 1 /\ b + 1 # a /\ (b + 1) - 1 = b
    OBVIOUS
  <2> QED
    BY <2>1, <2>2
<1> QED
  BY <1>1, <1>2, <1>3, <1>4, <1>5, <1>6

LEMMA TotalSame ==
  ASSUME NEW K, NEW P, NEW f, NEW g, NEW a \in Int, NEW b \in Int, b >= a,
         SameAbove(f, g, a, b)
  PROVE  Grow(K, P)!Total(f, a, b) = Grow(K, P)!Total(g, a, b)
<1>1. PICK s : IsTotal(f, a, b, s) /\ Grow(K, P)!Total(f, a, b) = s[b]
  BY TotalIs
<1>2. PICK t : IsTotal(g, a, b, t) /\ Grow(K, P)!Total(g, a, b) = t[b]
  BY TotalIs
<1>3. \A l \in a .. b : s[l] = t[l]
  BY <1>1, <1>2, TotalsAgree
<1> QED
  BY <1>1, <1>2, <1>3

LEMMA TotalType ==
  ASSUME NEW K, NEW P, NEW f, NEW a \in Int, NEW b \in Int, b >= a,
         \A l \in a + 1 .. b : f[l] \in Nat
  PROVE  Grow(K, P)!Total(f, a, b) \in Nat
<1> DEFINE T(c) == Grow(K, P)!Total(f, a, c)
           M == {c \in Int : c <= b => T(c) \in Nat}
<1>1. a \in M
  BY TotalStep
<1>2. ASSUME NEW c \in Int, c >= a, c \in M
      PROVE  c + 1 \in M
  <2> SUFFICES ASSUME c + 1 <= b
               PROVE  T(c + 1) \in Nat
    OBVIOUS
  <2>1. c + 1 \in a + 1 .. b /\ c <= b
    BY <1>2
  <2>2. T(c + 1) = T(c) + f[c + 1]
    BY <1>2, TotalStep
  <2> HIDE DEF T
  <2> QED
    BY <1>2, <2>1, <2>2
<1>3. b \in M
  <2> HIDE DEF M
  <2> QED
    BY <1>1, <1>2, UpFrom
<1> QED
  BY <1>3

LEMMA TotalSplit ==
  ASSUME NEW K, NEW P, NEW f, NEW a \in Int, NEW b \in Int, NEW c \in Int, b >= a, c >= b,
         \A l \in a + 1 .. c : f[l] \in Nat
  PROVE  Grow(K, P)!Total(f, a, c) = Grow(K, P)!Total(f, a, b) + Grow(K, P)!Total(f, b, c)
<1> DEFINE T(x, y) == Grow(K, P)!Total(f, x, y)
           M == {d \in Int : d <= c => T(a, d) = T(a, b) + T(b, d)}
<1>1. b \in M
  <2>1. T(b, b) = 0
    BY TotalStep
  <2>2. T(a, b) \in Nat
    BY TotalType
  <2> HIDE DEF T
  <2> QED
    BY <2>1, <2>2
<1>2. ASSUME NEW d \in Int, d >= b, d \in M
      PROVE  d + 1 \in M
  <2> SUFFICES ASSUME d + 1 <= c
               PROVE  T(a, d + 1) = T(a, b) + T(b, d + 1)
    OBVIOUS
  <2>0. d >= a /\ d + 1 \in a + 1 .. c
    BY <1>2
  <2>1. T(a, d + 1) = T(a, d) + f[d + 1]
    BY <2>0, TotalStep
  <2>2. T(b, d + 1) = T(b, d) + f[d + 1]
    BY <1>2, TotalStep
  <2>3. T(a, b) \in Nat
    BY TotalType
  <2>4. T(b, d) \in Nat
    <3>1. \A l \in b + 1 .. d : f[l] \in Nat
      BY <2>0
    <3> QED
      BY <1>2, <3>1, TotalType
  <2>5. T(a, d) = T(a, b) + T(b, d) /\ f[d + 1] \in Nat
    BY <1>2, <2>0
  <2> HIDE DEF T
  <2> QED
    BY <2>1, <2>2, <2>3, <2>4, <2>5
<1>3. c \in M
  <2> HIDE DEF M
  <2> QED
    BY <1>1, <1>2, UpFrom
<1> QED
  BY <1>3

-----------------------------------------------------------------------------
(* Levels.                                                                   *)

LEMMA HighestOf ==
  ASSUME NEW K, NEW P, NEW a \in Int, NEW b \in Int, NEW S, S \subseteq a .. b, S # {}
  PROVE  /\ Grow(K, P)!Max(S) \in S
         /\ \A x \in S : Grow(K, P)!Max(S) >= x
<1> DEFINE Highest(x) == x \in S /\ \A y \in S : x >= y
           M == {c \in Int : \A x \in S : x <= c => \E y \in S : y <= c /\ \A z \in S : z <= c => y >= z}
<1>1. a \in M
  OBVIOUS
<1>2. ASSUME NEW c \in Int, c >= a, c \in M
      PROVE  c + 1 \in M
  <2> SUFFICES ASSUME NEW x \in S, x <= c + 1
               PROVE  \E y \in S : y <= c + 1 /\ \A z \in S : z <= c + 1 => y >= z
    OBVIOUS
  <2>1. CASE c + 1 \in S
    BY <2>1
  <2>2. CASE c + 1 \notin S
    <3>1. \A z \in S : z <= c + 1 => z <= c
      BY <2>2
    <3>2. PICK y \in S : y <= c /\ \A z \in S : z <= c => y >= z
      BY <1>2, <3>1
    <3> QED
      BY <3>1, <3>2
  <2> QED
    BY <2>1, <2>2
<1>0. PICK x \in S : TRUE
  OBVIOUS
<1>3. a <= b
  BY <1>0
<1>4. b \in M
  <2> HIDE DEF M
  <2> QED
    BY <1>1, <1>2, <1>3, UpFrom
<1>5. \E y \in S : \A z \in S : y >= z
  <2>1. \A y \in S : y <= b
    OBVIOUS
  <2>2. \E y \in S : y <= b /\ \A z \in S : z <= b => y >= z
    BY <1>0, <1>4, <2>1
  <2> QED
    BY <2>1, <2>2
<1> QED
  BY <1>5 DEF Grow!Max

LEMMA HigherOfTwo ==
  ASSUME NEW K, NEW P, NEW a \in Int, NEW b \in Int
  PROVE  Grow(K, P)!Max({a, b}) = IF a >= b THEN a ELSE b
<1>1. a >= b \/ b >= a
  OBVIOUS
<1>2. \E x \in {a, b} : \A y \in {a, b} : x >= y
  BY <1>1
<1>3. /\ Grow(K, P)!Max({a, b}) \in {a, b}
      /\ \A y \in {a, b} : Grow(K, P)!Max({a, b}) >= y
  BY <1>2 DEF Grow!Max
<1> QED
  BY <1>3

\* A player's column of experience; the health that a level makes.
HealthOf(K, P, s, l) == Grow(K, P)!Start + Grow(K, P)!Total(Grow(K, P)!Gains(s), 1, l)

LevelsSound(K, P, s) ==
  /\ s.voc \in Vocations /\ s.level \in 1 .. MaxLevel /\ s.exp \in Nat
  /\ s.exp >= ExpFor[s.level] /\ (s.level = MaxLevel \/ s.exp < ExpFor[s.level + 1])
  /\ s.healthMax = HealthOf(K, P, s, s.level)

LEMMA GainsType ==
  ASSUME NEW K, NEW P, GrowthAssumption, NEW s, s.voc \in Vocations
  PROVE  \A l \in 2 .. MaxLevel :
           /\ Grow(K, P)!Gains(s)[l] \in Nat
           /\ Grow(K, P)!LossesOf(s)[l] = Grow(K, P)!Gains(s)[l]
<1> SUFFICES ASSUME NEW l \in 2 .. MaxLevel
             PROVE  /\ Grow(K, P)!Gains(s)[l] \in Nat
                    /\ Grow(K, P)!LossesOf(s)[l] = Grow(K, P)!Gains(s)[l]
  OBVIOUS
<1>1. RookTo \in Int /\ Vocations \subseteq Nat /\ 0 \in Vocations /\ Gain \in [Vocations -> Nat]
  BY DEF GrowthAssumption
<1>2. Grow(K, P)!Gains(s)[l] = Gain[IF s.voc > 0 /\ l <= RookTo THEN 0 ELSE s.voc]
  BY DEF Grow!Gains
<1>3. Grow(K, P)!LossesOf(s)[l] = Gain[IF s.voc > 0 /\ l - 1 < RookTo THEN 0 ELSE s.voc]
  BY DEF Grow!LossesOf
<1>4. l <= RookTo <=> l - 1 < RookTo
  BY <1>1
<1>5. Gain[IF s.voc > 0 /\ l <= RookTo THEN 0 ELSE s.voc] \in Nat
  BY <1>1
<1> QED
  BY <1>2, <1>3, <1>4, <1>5

LEMMA HealthSplit ==
  ASSUME NEW K, NEW P, GrowthAssumption, NEW s, s.voc \in Vocations,
         NEW l \in 1 .. MaxLevel, NEW m \in 1 .. MaxLevel, l <= m
  PROVE  /\ HealthOf(K, P, s, m) = HealthOf(K, P, s, l) + Grow(K, P)!Total(Grow(K, P)!Gains(s), l, m)
         /\ Grow(K, P)!Total(Grow(K, P)!LossesOf(s), l, m) = Grow(K, P)!Total(Grow(K, P)!Gains(s), l, m)
         /\ Grow(K, P)!Total(Grow(K, P)!Gains(s), l, m) \in Nat
         /\ HealthOf(K, P, s, l) \in Nat
<1> DEFINE g == Grow(K, P)!Gains(s)
           h == Grow(K, P)!LossesOf(s)
           T(f, x, y) == Grow(K, P)!Total(f, x, y)
<1>1. MaxLevel \in Nat
  BY DEF GrowthAssumption
<1>2. \A i \in 2 .. MaxLevel : g[i] \in Nat /\ h[i] = g[i]
  BY GainsType
<1> HIDE DEF g, h
<1>3. /\ \A i \in 1 + 1 .. m : g[i] \in Nat
      /\ \A i \in l + 1 .. m : g[i] \in Nat
      /\ \A i \in 1 + 1 .. l : g[i] \in Nat
      /\ SameAbove(h, g, l, m)
  BY <1>1, <1>2 DEF SameAbove
<1>0. 1 \in Int /\ l \in Int /\ m \in Int /\ l >= 1 /\ m >= l /\ m >= 1
  OBVIOUS
<1>4. T(g, 1, m) = T(g, 1, l) + T(g, l, m)
  BY <1>0, <1>3, TotalSplit
<1>5. T(h, l, m) = T(g, l, m)
  BY <1>0, <1>3, TotalSame
<1>6. T(g, l, m) \in Nat /\ T(g, 1, l) \in Nat
  BY <1>0, <1>3, TotalType
<1>7. /\ HealthOf(K, P, s, m) = 150 + T(g, 1, m) /\ HealthOf(K, P, s, l) = 150 + T(g, 1, l)
  BY DEF HealthOf, g, Grow!Start
<1> HIDE DEF T
<1>8. /\ HealthOf(K, P, s, m) = HealthOf(K, P, s, l) + T(g, l, m)
      /\ HealthOf(K, P, s, l) \in Nat
  BY <1>4, <1>6, <1>7
<1> QED
  BY <1>5, <1>6, <1>8 DEF T, g, h

LEMMA HealthOfSame ==
  ASSUME NEW K, NEW P, NEW s, NEW t, s.voc = t.voc, NEW l
  PROVE  HealthOf(K, P, s, l) = HealthOf(K, P, t, l)
BY DEF HealthOf, Grow!Gains

LEMMA CappedIs ==
  ASSUME NEW K, NEW P, GrowthAssumption, NEW l \in 1 .. MaxLevel
  PROVE  Grow(K, P)!Capped(l) <=> l = MaxLevel
<1>1. /\ MaxLevel \in Nat /\ ExpFor \in [1 .. MaxLevel + 1 -> Nat]
      /\ \A i \in 2 .. MaxLevel : ExpFor[i - 1] < ExpFor[i]
      /\ ExpFor[MaxLevel] > ExpFor[MaxLevel + 1]
  BY DEF GrowthAssumption
<1>2. CASE l = MaxLevel
  BY <1>1, <1>2 DEF Grow!Capped
<1>3. CASE l # MaxLevel
  <2>1. l + 1 \in 2 .. MaxLevel /\ (l + 1) - 1 = l
    BY <1>1, <1>3
  <2>2. ExpFor[l] <= ExpFor[l + 1]
    BY <1>1, <2>1
  <2>3. ExpFor[l] \in Nat /\ ExpFor[l + 1] \in Nat
    BY <1>1, <2>1
  <2> QED
    BY <1>3, <2>2, <2>3 DEF Grow!Capped
<1> QED
  BY <1>2, <1>3

LEMMA LevelsSoundAgrees ==
  ASSUME NEW K, NEW P, GrowthAssumption, LevelsSound(K, P, w)
  PROVE  Grow(K, P)!LevelsAgree
BY CappedIs DEF LevelsSound, HealthOf, Grow!LevelsAgree

LEMMA AddExperienceKeeps ==
  ASSUME NEW K, NEW P, GrowthAssumption, LevelsSound(K, P, w), NEW n \in Nat,
         NEW t, t.voc = w.voc, t.exp = w.exp + n,
         t.level = Grow(K, P)!Reached(w, w.exp + n), w.level # MaxLevel,
         t.healthMax = w.healthMax + Grow(K, P)!Total(Grow(K, P)!Gains(w), w.level, t.level)
  PROVE  LevelsSound(K, P, t)
<1>1. /\ MaxLevel \in Nat /\ ExpFor \in [1 .. MaxLevel + 1 -> Nat]
  BY DEF GrowthAssumption
<1>2. /\ w.voc \in Vocations /\ w.level \in 1 .. MaxLevel /\ w.exp \in Nat
      /\ w.exp >= ExpFor[w.level] /\ w.healthMax = HealthOf(K, P, w, w.level)
  BY DEF LevelsSound
<1> DEFINE S == {w.level} \cup {l \in w.level + 1 .. MaxLevel : w.exp + n >= ExpFor[l]}
<1>3. S \subseteq 1 .. MaxLevel /\ S # {}
  BY <1>1, <1>2
<1>4. t.level = Grow(K, P)!Max(S)
  BY DEF Grow!Reached
<1>5. t.level \in S /\ \A x \in S : t.level >= x
  <2> HIDE DEF S
  <2>1. 1 \in Int /\ MaxLevel \in Int
    BY <1>1
  <2>2. Grow(K, P)!Max(S) \in S /\ \A x \in S : Grow(K, P)!Max(S) >= x
    BY <1>3, <2>1, HighestOf
  <2> QED
    BY <1>4, <2>2
<1>6. t.level \in 1 .. MaxLevel /\ t.level >= w.level
  BY <1>2, <1>3, <1>5
<1>7. ExpFor[t.level] \in Nat /\ ExpFor[w.level] \in Nat
  BY <1>1, <1>2, <1>6
<1>8. t.exp \in Nat /\ t.exp >= ExpFor[t.level]
  BY <1>2, <1>5, <1>7
<1>9. t.level = MaxLevel \/ t.exp < ExpFor[t.level + 1]
  <2> SUFFICES ASSUME t.level # MaxLevel, ~(t.exp < ExpFor[t.level + 1])
               PROVE  FALSE
    OBVIOUS
  <2>1. t.level + 1 \in w.level + 1 .. MaxLevel /\ t.level + 1 \in 1 .. MaxLevel + 1
    BY <1>1, <1>2, <1>6
  <2>2. ExpFor[t.level + 1] \in Nat
    BY <1>1, <2>1
  <2>3. t.level + 1 \in S
    BY <1>2, <2>1, <2>2
  <2> QED
    BY <1>5, <1>6, <2>3
<1>10. t.healthMax = HealthOf(K, P, t, t.level)
  <2>1. HealthOf(K, P, w, t.level) =
          HealthOf(K, P, w, w.level) + Grow(K, P)!Total(Grow(K, P)!Gains(w), w.level, t.level)
    BY <1>2, <1>6, HealthSplit
  <2>2. HealthOf(K, P, t, t.level) = HealthOf(K, P, w, t.level)
    BY HealthOfSame
  <2> QED
    BY <1>2, <2>1, <2>2
<1> QED
  BY <1>2, <1>6, <1>8, <1>9, <1>10 DEF LevelsSound

LEMMA RemovedKeeps ==
  ASSUME NEW K, NEW P, GrowthAssumption, NEW p, LevelsSound(K, P, p), NEW n \in Nat,
         NEW t, t.voc = p.voc, t.exp = Grow(K, P)!Max({0, p.exp - n}),
         t.level = Grow(K, P)!Max({1} \cup {l \in 1 .. p.level : t.exp >= ExpFor[l]}),
         t.healthMax = Grow(K, P)!Max({0, p.healthMax -
                         Grow(K, P)!Total(Grow(K, P)!LossesOf(p), t.level, p.level)})
  PROVE  LevelsSound(K, P, t)
<1>1. /\ MaxLevel \in Nat /\ ExpFor \in [1 .. MaxLevel + 1 -> Nat] /\ ExpFor[1] = 0
  BY DEF GrowthAssumption
<1>2. /\ p.voc \in Vocations /\ p.level \in 1 .. MaxLevel /\ p.exp \in Nat
      /\ (p.level = MaxLevel \/ p.exp < ExpFor[p.level + 1])
      /\ p.healthMax = HealthOf(K, P, p, p.level)
  BY DEF LevelsSound
<1>3. t.exp \in Nat /\ t.exp <= p.exp
  <2>1. t.exp = IF 0 >= p.exp - n THEN 0 ELSE p.exp - n
    BY <1>2, HigherOfTwo
  <2> QED
    BY <1>2, <2>1
<1> DEFINE S == {1} \cup {l \in 1 .. p.level : t.exp >= ExpFor[l]}
<1>4. S \subseteq 1 .. p.level /\ S # {}
  BY <1>2
<1>5. t.level \in S /\ \A x \in S : t.level >= x
  <2>1. t.level = Grow(K, P)!Max(S)
    OBVIOUS
  <2>2. 1 \in Int /\ p.level \in Int
    BY <1>2
  <2> HIDE DEF S
  <2>3. Grow(K, P)!Max(S) \in S /\ \A x \in S : Grow(K, P)!Max(S) >= x
    BY <1>4, <2>2, HighestOf
  <2> QED
    BY <2>1, <2>3
<1>6. t.level \in 1 .. MaxLevel /\ t.level <= p.level
  BY <1>1, <1>2, <1>4, <1>5
<1>7. t.exp >= ExpFor[t.level]
  BY <1>1, <1>3, <1>5
<1>8. t.level = MaxLevel \/ t.exp < ExpFor[t.level + 1]
  <2> SUFFICES ASSUME t.level # MaxLevel
               PROVE  t.exp < ExpFor[t.level + 1]
    OBVIOUS
  <2>1. t.level + 1 \in 1 .. MaxLevel + 1
    BY <1>1, <1>6
  <2>2. ExpFor[t.level + 1] \in Nat
    BY <1>1, <2>1
  <2>3. CASE t.level = p.level
    BY <1>2, <1>3, <2>2, <2>3
  <2>4. CASE t.level # p.level
    <3>1. t.level + 1 \in 1 .. p.level /\ t.level + 1 \notin S
      <4> HIDE DEF S
      <4>1. t.level \in Int /\ p.level \in Int /\ 1 <= t.level
        BY <1>1, <1>2, <1>6
      <4>2. t.level + 1 \in 1 .. p.level
        BY <1>6, <2>4, <4>1
      <4>3. ~(t.level >= t.level + 1)
        BY <4>1
      <4> QED
        BY <1>5, <4>2, <4>3
    <3>2. ~(t.exp >= ExpFor[t.level + 1])
      BY <3>1
    <3> QED
      BY <1>3, <2>2, <3>2
  <2> QED
    BY <2>3, <2>4
<1>9. t.healthMax = HealthOf(K, P, t, t.level)
  <2>1. /\ HealthOf(K, P, p, p.level) =
             HealthOf(K, P, p, t.level) + Grow(K, P)!Total(Grow(K, P)!Gains(p), t.level, p.level)
        /\ Grow(K, P)!Total(Grow(K, P)!LossesOf(p), t.level, p.level) =
             Grow(K, P)!Total(Grow(K, P)!Gains(p), t.level, p.level)
        /\ Grow(K, P)!Total(Grow(K, P)!Gains(p), t.level, p.level) \in Nat
        /\ HealthOf(K, P, p, t.level) \in Nat
    BY <1>2, <1>6, HealthSplit
  <2>2. HealthOf(K, P, t, t.level) = HealthOf(K, P, p, t.level)
    BY HealthOfSame
  <2> DEFINE h == p.healthMax - Grow(K, P)!Total(Grow(K, P)!LossesOf(p), t.level, p.level)
  <2>3. h \in Nat /\ h = HealthOf(K, P, p, t.level)
    BY <1>2, <2>1
  <2>4. t.healthMax = Grow(K, P)!Max({0, h})
    OBVIOUS
  <2> HIDE DEF h
  <2>5. t.healthMax = IF 0 >= h THEN 0 ELSE h
    <3>1. 0 \in Int /\ h \in Int
      BY <2>3
    <3>2. Grow(K, P)!Max({0, h}) = IF 0 >= h THEN 0 ELSE h
      BY <3>1, HigherOfTwo
    <3> QED
      BY <2>4, <3>2
  <2> QED
    BY <2>2, <2>3, <2>5
<1> QED
  BY <1>2, <1>3, <1>6, <1>7, <1>8, <1>9 DEF LevelsSound
-----------------------------------------------------------------------------
(* Magic and skills.                                                         *)

\* What a kind's levels take of a vocation: from its first level to its last,
\* after which it is less than any level takes of anybody.
Table(v, k, last) ==
  /\ last \in Nat /\ last > Least[k] /\ Req[v][k] \in [Least[k] .. last + 1 -> Nat]
  /\ \A l \in Least[k] + 1 .. last : Req[v][k][l - 1] <= Req[v][k][l] /\ Req[v][k][l] > Req[v][k][last + 1]
Above(v, k, last) ==
  \A u \in Vocations : \A l \in DOMAIN Req[u][k] :
     l > Least[k] /\ l + 1 \in DOMAIN Req[u][k] => Req[u][k][l] > Req[v][k][last + 1]

LastOf(v, k) == CHOOSE last : Table(v, k, last) /\ Above(v, k, last)

LEMMA LastOfIs ==
  ASSUME GrowthAssumption, NEW v \in Vocations, NEW k \in Talents
  PROVE  Table(v, k, LastOf(v, k)) /\ Above(v, k, LastOf(v, k)) /\ Least[k] \in Nat
<1>1. PICK last \in DOMAIN Req[v][k] :
        /\ last \in Nat /\ last > Least[k] /\ Req[v][k] \in [Least[k] .. last + 1 -> Nat]
        /\ \A l \in Least[k] + 1 .. last : Req[v][k][l - 1] <= Req[v][k][l]
        /\ \A u \in Vocations : \A l \in DOMAIN Req[u][k] :
              l > Least[k] /\ l + 1 \in DOMAIN Req[u][k] => Req[u][k][l] > Req[v][k][last + 1]
  BY DEF GrowthAssumption
<1>2. Least[k] \in Nat
  BY DEF GrowthAssumption
<1>3. Above(v, k, last)
  BY <1>1 DEF Above
<1>4. ASSUME NEW l \in Least[k] + 1 .. last
      PROVE  Req[v][k][l] > Req[v][k][last + 1]
  <2>1. DOMAIN Req[v][k] = Least[k] .. last + 1
    BY <1>1
  <2>2. l \in DOMAIN Req[v][k] /\ l > Least[k] /\ l + 1 \in DOMAIN Req[v][k]
    BY <1>1, <1>2, <2>1
  <2> QED
    BY <1>3, <2>2 DEF Above
<1>5. Table(v, k, last)
  BY <1>1, <1>4 DEF Table
<1>6. Table(v, k, LastOf(v, k)) /\ Above(v, k, LastOf(v, k))
  BY <1>3, <1>5 DEF LastOf
<1> QED
  BY <1>2, <1>6

LEMMA AboveAll ==
  ASSUME GrowthAssumption, NEW u \in Vocations, NEW v \in Vocations, NEW k \in Talents,
         NEW l \in Least[k] + 1 .. LastOf(v, k)
  PROVE  Req[v][k][l] > Req[u][k][LastOf(u, k) + 1]
<1>1. Table(v, k, LastOf(v, k)) /\ Least[k] \in Nat
  BY LastOfIs
<1>2. Above(u, k, LastOf(u, k))
  BY LastOfIs
<1>3. DOMAIN Req[v][k] = Least[k] .. LastOf(v, k) + 1 /\ LastOf(v, k) \in Nat
  BY <1>1 DEF Table
<1>4. l \in DOMAIN Req[v][k] /\ l > Least[k] /\ l + 1 \in DOMAIN Req[v][k]
  BY <1>1, <1>3
<1> QED
  BY <1>2, <1>4 DEF Above

LEMMA TableRises ==
  ASSUME NEW v, NEW k, Least[k] \in Nat, NEW last, Table(v, k, last),
         NEW a \in Least[k] .. last, NEW b \in Least[k] .. last, a <= b
  PROVE  Req[v][k][a] <= Req[v][k][b]
<1>0. /\ last \in Nat /\ Req[v][k] \in [Least[k] .. last + 1 -> Nat]
      /\ \A l \in Least[k] + 1 .. last : Req[v][k][l - 1] <= Req[v][k][l]
  BY DEF Table
<1>5. \A l \in Least[k] .. last : Req[v][k][l] \in Nat
  BY <1>0
<1> DEFINE M == {c \in Int : c <= last => Req[v][k][a] <= Req[v][k][c]}
<1>1. a \in M
  BY <1>5
<1>2. ASSUME NEW c \in Int, c >= a, c \in M
      PROVE  c + 1 \in M
  <2> SUFFICES ASSUME c + 1 <= last
               PROVE  Req[v][k][a] <= Req[v][k][c + 1]
    OBVIOUS
  <2>1. c + 1 \in Least[k] + 1 .. last /\ c \in Least[k] .. last /\ (c + 1) - 1 = c /\ c <= last
        /\ c + 1 \in Least[k] .. last
    BY <1>0, <1>2
  <2>2. Req[v][k][c] <= Req[v][k][c + 1]
    BY <1>0, <2>1
  <2>3. Req[v][k][a] <= Req[v][k][c]
    BY <1>2, <2>1
  <2>4. Req[v][k][a] \in Nat /\ Req[v][k][c] \in Nat /\ Req[v][k][c + 1] \in Nat
    BY <1>5, <2>1
  <2> QED
    BY <2>2, <2>3, <2>4
<1>3. b \in M
  <2>1. a \in Int /\ b \in Int /\ b >= a
    OBVIOUS
  <2> HIDE DEF M
  <2> QED
    BY <1>1, <1>2, <2>1, UpFrom
<1> QED
  BY <1>0, <1>3

LEMMA FullIs ==
  ASSUME NEW K, NEW P, NEW v, NEW k, Least[k] \in Nat, NEW last, Table(v, k, last),
         NEW l \in Least[k] .. last
  PROVE  Grow(K, P)!Full(v, k, l) <=> l = last
<1>0. /\ last \in Nat /\ last > Least[k] /\ Req[v][k] \in [Least[k] .. last + 1 -> Nat]
      /\ \A i \in Least[k] + 1 .. last : Req[v][k][i - 1] <= Req[v][k][i] /\ Req[v][k][i] > Req[v][k][last + 1]
  BY DEF Table
<1>1. CASE l = last
  <2>1. last \in Least[k] + 1 .. last
    BY <1>0
  <2>2. Req[v][k][last] > Req[v][k][last + 1]
    BY <1>0, <2>1
  <2> QED
    BY <1>1, <2>2 DEF Grow!Full
<1>2. CASE l # last
  <2>1. l + 1 \in Least[k] + 1 .. last /\ (l + 1) - 1 = l
    BY <1>0, <1>2
  <2>2. Req[v][k][l] <= Req[v][k][l + 1]
    BY <1>0, <2>1
  <2>3. Req[v][k][l] \in Nat /\ Req[v][k][l + 1] \in Nat
    <3>1. \A i \in Least[k] .. last + 1 : Req[v][k][i] \in Nat
      BY <1>0
    <3>2. l \in Least[k] .. last + 1 /\ l + 1 \in Least[k] .. last + 1
      BY <1>0
    <3> QED
      BY <3>1, <3>2
  <2> QED
    BY <1>2, <2>2, <2>3 DEF Grow!Full
<1> QED
  BY <1>1, <1>2

TallyRecord == [level : Nat, tries : Nat]

LEMMA SpentUp ==
  ASSUME NEW K, NEW P, NEW v, NEW k, Least[k] \in Nat, NEW last, Table(v, k, last),
         NEW t, t \in TallyRecord, t.level \in Least[k] .. last, t.level # last,
         NEW u, u \in TallyRecord, u.level = t.level + 1, u.tries = 0
  PROVE  Grow(K, P)!Spent(v, k, u) = Grow(K, P)!Spent(v, k, t) - t.tries + Req[v][k][t.level + 1]
<1>0. last \in Nat /\ Req[v][k] \in [Least[k] .. last + 1 -> Nat]
  BY DEF Table
<1> DEFINE T(l) == Grow(K, P)!Total(Req[v][k], Least[k], l)
<1>1. T(t.level + 1) = T(t.level) + Req[v][k][t.level + 1]
  BY TotalStep
<1>2. T(t.level) \in Nat
  <2>1. \A l \in Least[k] + 1 .. t.level : Req[v][k][l] \in Nat
    BY <1>0
  <2>2. t.level \in Int /\ Least[k] \in Int /\ t.level >= Least[k]
    OBVIOUS
  <2> QED
    BY <2>1, <2>2, TotalType
<1>3. Req[v][k][t.level + 1] \in Nat
  BY <1>0
<1>4. t.tries \in Nat
  BY DEF TallyRecord
<1>5. Grow(K, P)!Spent(v, k, u) = u.tries + T(u.level) /\ Grow(K, P)!Spent(v, k, t) = t.tries + T(t.level)
  BY DEF Grow!Spent, Grow!Worth
<1> HIDE DEF T
<1> QED
  BY <1>1, <1>2, <1>3, <1>4, <1>5

LEMMA SpentType ==
  ASSUME NEW K, NEW P, NEW v, NEW k, Least[k] \in Nat, NEW last, Table(v, k, last),
         NEW t, t \in TallyRecord, t.level \in Least[k] .. last
  PROVE  Grow(K, P)!Spent(v, k, t) \in Nat
<1>0. last \in Nat /\ Req[v][k] \in [Least[k] .. last + 1 -> Nat] /\ t.tries \in Nat
  BY DEF Table, TallyRecord
<1>1. \A l \in Least[k] + 1 .. t.level : Req[v][k][l] \in Nat
  BY <1>0
<1>2. t.level \in Int /\ Least[k] \in Int /\ t.level >= Least[k]
  OBVIOUS
<1>3. Grow(K, P)!Total(Req[v][k], Least[k], t.level) \in Nat
  BY <1>1, <1>2, TotalType
<1> QED
  BY <1>0, <1>3 DEF Grow!Spent, Grow!Worth

\* A tally that no level is owed to, and a loss that one can pay: it takes what
\* it takes, and leaves no level that was paid for.
Done(v, k, t) == t.tries = 0 \/ t.tries < Req[v][k][t.level + 1]
TallySound(v, k, t) == t \in TallyRecord /\ t.level \in Least[k] .. LastOf(v, k)
Payable(K, P, v, k, t, n) == n \in Nat /\ n <= Grow(K, P)!Spent(v, k, t)

LEMMA LoweredIs ==
  ASSUME GrowthAssumption, NEW K, NEW P, NEW v \in Vocations, NEW k \in Talents,
         NEW t, TallySound(v, k, t), NEW n, Payable(K, P, v, k, t, n),
         NEW r, r = Grow(K, P)!Lowered(v, k, t, n)
  PROVE  /\ TallySound(v, k, r) /\ (Done(v, k, t) => Done(v, k, r))
         /\ Grow(K, P)!Spent(v, k, r) = Grow(K, P)!Spent(v, k, t) - n
<1> DEFINE last == LastOf(v, k)
<1> SUFFICES ASSUME Least[k] \in Nat, Table(v, k, last), t \in TallyRecord, t.level \in Least[k] .. last,
                    n \in Nat, n <= Grow(K, P)!Spent(v, k, t)
             PROVE  /\ r \in TallyRecord /\ r.level \in Least[k] .. last
                    /\ Grow(K, P)!Spent(v, k, r) = Grow(K, P)!Spent(v, k, t) - n
                    /\ Done(v, k, t) => Done(v, k, r)
  BY LastOfIs DEF TallySound, Payable
<1> HIDE DEF last
<1>0. last \in Nat /\ Req[v][k] \in [Least[k] .. last + 1 -> Nat] /\ t.tries \in Nat
  BY DEF Table, TallyRecord
<1> DEFINE T(a, b) == Grow(K, P)!Total(Req[v][k], a, b)
           S == {l \in Least[k] .. t.level : n <= Grow(K, P)!Worth(v, k, t, l)}
           to == Grow(K, P)!Max(S)
<1>a. \A l : Grow(K, P)!Worth(v, k, t, l) = t.tries + T(l, t.level)
  BY DEF Grow!Worth
<1>b. r = [level |-> to, tries |-> Grow(K, P)!Worth(v, k, t, to) - n]
  BY DEF Grow!Lowered
<1>1. Grow(K, P)!Worth(v, k, t, to) = t.tries + T(to, t.level)
  <2> HIDE DEF to, T
  <2> QED
    BY <1>a, Zenon
<1>2. Grow(K, P)!Spent(v, k, r) = r.tries + T(Least[k], r.level)
      /\ Grow(K, P)!Spent(v, k, t) = t.tries + T(Least[k], t.level)
  BY DEF Grow!Spent, Grow!Worth
<1>3. \A a \in Least[k] .. t.level : \A b \in a .. t.level :
        /\ T(a, b) \in Nat
        /\ T(a, t.level) = T(a, b) + T(b, t.level)
  <2> TAKE a \in Least[k] .. t.level
  <2> TAKE b \in a .. t.level
  <2>1. a \in Int /\ b \in Int /\ t.level \in Int /\ b >= a /\ t.level >= b
    OBVIOUS
  <2>0. \A l \in Least[k] .. last : Req[v][k][l] \in Nat
    BY <1>0
  <2>3. a \in Least[k] .. last /\ b \in Least[k] .. last
    BY <1>0
  <2>2. (\A l \in a + 1 .. b : Req[v][k][l] \in Nat) /\ (\A l \in a + 1 .. t.level : Req[v][k][l] \in Nat)
    BY <1>0, <2>0, <2>3
  <2> QED
    BY <2>1, <2>2, TotalType, TotalSplit
<1>4. \A a \in Least[k] .. t.level : T(a, a) = 0 /\ (a < t.level => T(a, a + 1) = Req[v][k][a + 1])
  <2> TAKE a \in Least[k] .. t.level
  <2>1. a \in Int /\ a >= a
    OBVIOUS
  <2>2. T(a, a) = 0 /\ T(a, a + 1) = T(a, a) + Req[v][k][a + 1]
    BY <2>1, TotalStep
  <2>3. a < t.level => Req[v][k][a + 1] \in Nat
    BY <1>0
  <2> HIDE DEF T
  <2> QED
    BY <2>2, <2>3
<1> HIDE DEF T
<1>5. t.level \in Least[k] .. t.level /\ Least[k] \in Least[k] .. t.level
  OBVIOUS
<1>6. S \subseteq Least[k] .. t.level /\ Least[k] \in S
  BY <1>2, <1>5, <1>a
<1>7. to \in S /\ \A x \in S : to >= x
  <2> HIDE DEF S
  <2>1. Least[k] \in Int /\ t.level \in Int /\ S # {}
    BY <1>6
  <2> QED
    BY <1>6, <2>1, HighestOf
<1> HIDE DEF to
<1>8. to \in Least[k] .. t.level /\ n <= t.tries + T(to, t.level)
  BY <1>7, <1>a
<1>9. T(to, t.level) \in Nat /\ T(Least[k], to) \in Nat
      /\ T(Least[k], t.level) = T(Least[k], to) + T(to, t.level)
  <2>1. to \in Least[k] .. t.level /\ t.level \in to .. t.level
    BY <1>8
  <2> QED
    BY <1>3, <1>5, <2>1
<1>10. r \in TallyRecord
  <2>1. to \in Nat
    BY <1>8
  <2>2. Grow(K, P)!Worth(v, k, t, to) - n \in Nat
    BY <1>0, <1>1, <1>8, <1>9
  <2> QED
    BY <1>b, <2>1, <2>2 DEF TallyRecord
<1>11. r.level = to /\ r.tries = t.tries + T(to, t.level) - n
  <2>1. r.level = to /\ r.tries = Grow(K, P)!Worth(v, k, t, to) - n
    BY <1>b
  <2> QED
    BY <1>0, <1>1, <1>9, <2>1
<1>12. Grow(K, P)!Spent(v, k, r) = Grow(K, P)!Spent(v, k, t) - n
  BY <1>0, <1>2, <1>9, <1>11
<1>13. Done(v, k, t) => Done(v, k, r)
  <2>1. CASE to = t.level
    <3>1. T(to, t.level) = 0
      BY <1>4, <1>5, <2>1
    <3>2. Req[v][k][t.level + 1] \in Nat
      <4>1. t.level + 1 \in Least[k] .. last + 1
        BY <1>0
      <4> QED
        BY <1>0, <4>1
    <3>3. r.level = t.level /\ r.tries = t.tries - n /\ r.tries \in Nat
      BY <1>0, <1>10, <1>11, <2>1, <3>1 DEF TallyRecord
    <3> QED
      BY <1>0, <3>2, <3>3 DEF Done
  <2>2. CASE to # t.level
    <3>1. to + 1 \in Least[k] .. t.level /\ to + 1 \in to .. t.level /\ to < t.level
      BY <1>8, <2>2
    <3>2. to + 1 \notin S
      <4>1. ~(to >= to + 1)
        BY <1>8
      <4> HIDE DEF S
      <4> QED
        BY <1>7, <4>1
    <3>3. ~(n <= t.tries + T(to + 1, t.level))
      BY <3>1, <3>2, <1>a
    <3>4. T(to, t.level) = Req[v][k][to + 1] + T(to + 1, t.level)
      BY <1>3, <1>4, <1>8, <3>1
    <3>5. T(to + 1, t.level) \in Nat
      BY <1>3, <3>1
    <3>6. Req[v][k][to + 1] \in Nat
      BY <1>0, <3>1
    <3> QED
      BY <1>0, <1>11, <3>3, <3>4, <3>5, <3>6 DEF Done
  <2> QED
    BY <2>1, <2>2
<1>14. r.level \in Least[k] .. last
  BY <1>0, <1>8, <1>11
<1> QED
  BY <1>10, <1>12, <1>13, <1>14

\* The amounts still to be added below the scripts.
AdvanceRecord(K) == [kind : K, rest : Nat, from : Nat, voc : Vocations]

RestOf(F, k) == [i \in DOMAIN F |-> IF F[i].kind = k THEN F[i].rest ELSE 0]
PendingOf(K, P, F, k) == Grow(K, P)!Total(RestOf(F, k), 0, Len(F))

Longer(F, G, n) ==
  n \in Nat /\ Len(F) = n /\ Len(G) = n + 1 /\ \A i \in 1 .. n : G[i] = F[i]

LEMMA PendingUp ==
  ASSUME NEW K, NEW P, NEW k, NEW F \in Seq(AdvanceRecord(K)), NEW G \in Seq(AdvanceRecord(K)),
         NEW n, Longer(F, G, n)
  PROVE  /\ PendingOf(K, P, F, k) \in Nat
         /\ PendingOf(K, P, G, k) =
              PendingOf(K, P, F, k) + (IF G[n + 1].kind = k THEN G[n + 1].rest ELSE 0)
<1> DEFINE f == RestOf(F, k)
           g == RestOf(G, k)
<1>0. /\ DOMAIN F = 1 .. n /\ DOMAIN G = 1 .. n + 1 /\ Len(F) = n /\ Len(G) = n + 1
      /\ n \in Nat /\ \A i \in 1 .. n : G[i] = F[i]
  BY DEF Longer
<1>1. \A i \in 1 .. n : f[i] \in Nat /\ f[i] = g[i]
  <2> TAKE i \in 1 .. n
  <2>1. F[i] \in AdvanceRecord(K) /\ G[i] = F[i] /\ i \in 1 .. n + 1
    BY <1>0
  <2>2. F[i].rest \in Nat
    BY <2>1 DEF AdvanceRecord
  <2> QED
    BY <1>0, <2>1, <2>2 DEF RestOf
<1>2. g[n + 1] = IF G[n + 1].kind = k THEN G[n + 1].rest ELSE 0
  BY <1>0 DEF RestOf
<1> HIDE DEF f, g
<1>3. SameAbove(g, f, 0, n) /\ 0 \in Int /\ n \in Int /\ n >= 0 /\ \A i \in 0 + 1 .. n : f[i] \in Nat
  BY <1>0, <1>1 DEF SameAbove
<1>4. Grow(K, P)!Total(f, 0, n) \in Nat
  BY <1>3, TotalType
<1>5. Grow(K, P)!Total(g, 0, n) = Grow(K, P)!Total(f, 0, n)
  BY <1>3, TotalSame
<1>6. Grow(K, P)!Total(g, 0, n + 1) = Grow(K, P)!Total(g, 0, n) + g[n + 1]
  BY <1>3, TotalStep
<1> QED
  BY <1>0, <1>2, <1>4, <1>5, <1>6 DEF PendingOf, f, g

LEMMA PendingType ==
  ASSUME NEW K, NEW P, NEW k, NEW F \in Seq(AdvanceRecord(K))
  PROVE  PendingOf(K, P, F, k) \in Nat
<1> DEFINE f == RestOf(F, k)
           n == Len(F)
<1>1. \A i \in 1 .. n : f[i] \in Nat
  <2> TAKE i \in 1 .. n
  <2>1. F[i] \in AdvanceRecord(K)
    OBVIOUS
  <2>2. F[i].rest \in Nat
    BY <2>1 DEF AdvanceRecord
  <2>3. DOMAIN F = 1 .. n
    OBVIOUS
  <2> QED
    BY <2>2, <2>3 DEF RestOf
<1>2. 0 \in Int /\ n \in Int /\ n >= 0 /\ \A i \in 0 + 1 .. n : f[i] \in Nat
  <2> HIDE DEF f
  <2> QED
    BY <1>1
<1> HIDE DEF f, n
<1>3. Grow(K, P)!Total(f, 0, n) \in Nat
  BY <1>2, TotalType
<1> QED
  BY <1>3 DEF PendingOf, f, n

LEMMA PendingNone ==
  ASSUME NEW K, NEW P, NEW k
  PROVE  PendingOf(K, P, <<>>, k) = 0
<1>1. Len(<<>>) = 0 /\ 0 \in Int /\ 0 >= 0
  OBVIOUS
<1> QED
  BY <1>1, TotalStep DEF PendingOf
\* The whole record, and its parts that a step may leave alone.
GrowthType(K) ==
  [voc : Vocations, level : Nat, exp : Nat, healthMax : Int, tally : [K -> TallyRecord],
   given : [K -> Int], overpaid : SUBSET K, frames : Seq(AdvanceRecord(K)), dead : BOOLEAN, place : {"world", "away"},
   loot : {"full", "prevent", "none"}, loss : BOOLEAN, worn : SUBSET {"loss", "drop"},
   zone : {"open", "hardcore"}, red : BOOLEAN, blessings : SUBSET {"pvp", "other"},
   corpses : 0 .. 2, pardoned : BOOLEAN, killed : BOOLEAN]

SameLevels(s, t) ==
  t.voc = s.voc /\ t.level = s.level /\ t.exp = s.exp /\ t.healthMax = s.healthMax
SameTallies(s, t) ==
  t.tally = s.tally /\ t.given = s.given /\ t.frames = s.frames /\ t.overpaid = s.overpaid
SameTries(s, t) == t.voc = s.voc /\ SameTallies(s, t)
SameDeath(s, t) ==
  /\ t.voc = s.voc /\ t.dead = s.dead /\ t.place = s.place /\ t.loot = s.loot /\ t.loss = s.loss
  /\ t.zone = s.zone /\ t.corpses = s.corpses /\ t.pardoned = s.pardoned /\ t.killed = s.killed

LEMMA LevelsCarry ==
  ASSUME NEW K, NEW P, NEW s, NEW t, LevelsSound(K, P, s), SameLevels(s, t)
  PROVE  LevelsSound(K, P, t)
<1>1. HealthOf(K, P, t, s.level) = HealthOf(K, P, s, s.level)
  BY HealthOfSame DEF SameLevels
<1> QED
  BY <1>1 DEF LevelsSound, SameLevels

\* Of each kind: the balance, and no level that was paid for.
KindSound(K, P, s, k) ==
  /\ s.tally[k].level \in Least[k] .. LastOf(s.voc, k)
  /\ Grow(K, P)!Spent(s.voc, k, s.tally[k]) + PendingOf(K, P, s.frames, k) = s.given[k]
  /\ k \in s.overpaid \/ Done(s.voc, k, s.tally[k])

FrameFits(s, f) ==
  /\ f.voc \in {0, s.voc}
  /\ f.voc = s.voc => f.from <= Req[s.voc][f.kind][s.tally[f.kind].level]
  /\ \A u \in Vocations : f.from > Req[u][f.kind][LastOf(u, f.kind) + 1]
FramesSound(s) == \A i \in 1 .. Len(s.frames) : FrameFits(s, s.frames[i])

TriesSound(K, P, s) == FramesSound(s) /\ \A k \in K : KindSound(K, P, s, k)

LEMMA TriesCarry ==
  ASSUME NEW K, NEW P, NEW s, NEW t, TriesSound(K, P, s), SameTries(s, t)
  PROVE  TriesSound(K, P, t)
BY DEF TriesSound, FramesSound, FrameFits, KindSound, SameTries, SameTallies

\* A level that is not the last takes something.
LEMMA NextIs ==
  ASSUME NEW v, NEW k, Least[k] \in Nat, NEW last, Table(v, k, last),
         NEW l \in Least[k] .. last
  PROVE  Req[v][k][l + 1] \in Nat /\ (l # last => Req[v][k][l + 1] > 0)
<1>1. last \in Nat /\ last > Least[k] /\ Req[v][k] \in [Least[k] .. last + 1 -> Nat]
  BY DEF Table
<1>2. Req[v][k][l + 1] \in Nat /\ Req[v][k][last + 1] \in Nat
  <2>1. l + 1 \in Least[k] .. last + 1 /\ last + 1 \in Least[k] .. last + 1
    BY <1>1
  <2> QED
    BY <1>1, <2>1
<1>3. l # last => Req[v][k][l + 1] > Req[v][k][last + 1]
  <2>1. l # last => l + 1 \in Least[k] + 1 .. last
    BY <1>1
  <2> QED
    BY <2>1 DEF Table
<1> QED
  BY <1>2, <1>3

LEMMA TriesSoundAgrees ==
  ASSUME NEW K, K \subseteq Talents, NEW P, GrowthAssumption, w \in GrowthType(K), TriesSound(K, P, w)
  PROVE  Grow(K, P)!TriesAgree
<1> SUFFICES ASSUME NEW k \in K
             PROVE  LET t == w.tally[k] IN
                    /\ Grow(K, P)!Spent(w.voc, k, t) + Grow(K, P)!Pending(k) = w.given[k]
                    /\ k \notin w.overpaid =>
                         Grow(K, P)!Full(w.voc, k, t.level) \/ ~Grow(K, P)!Reaches(w.voc, k, t)
  BY DEF Grow!TriesAgree
<1>1. KindSound(K, P, w, k)
  BY DEF TriesSound
<1>2. Grow(K, P)!Pending(k) = PendingOf(K, P, w.frames, k)
  BY DEF Grow!Pending, PendingOf, RestOf
<1>3. PICK v \in Vocations : v = w.voc
  BY DEF GrowthType
<1>4. PICK t : t = w.tally[k]
  OBVIOUS
<1>5. t \in TallyRecord /\ t.tries \in Nat
  BY <1>4 DEF GrowthType, TallyRecord
<1>6. Table(v, k, LastOf(v, k)) /\ Least[k] \in Nat /\ t.level \in Least[k] .. LastOf(v, k)
  BY <1>1, <1>3, <1>4, LastOfIs DEF KindSound
<1>7. /\ Req[v][k][t.level + 1] \in Nat
      /\ t.level # LastOf(v, k) => Req[v][k][t.level + 1] > 0
  BY <1>6, NextIs
<1>8. Grow(K, P)!Full(v, k, t.level) <=> t.level = LastOf(v, k)
  BY <1>6, FullIs
<1>9. k \notin w.overpaid => Grow(K, P)!Full(v, k, t.level) \/ ~Grow(K, P)!Reaches(v, k, t)
  <2> SUFFICES ASSUME k \notin w.overpaid, t.level # LastOf(v, k)
               PROVE  ~Grow(K, P)!Reaches(v, k, t)
    BY <1>8
  <2>1. Done(v, k, t)
    BY <1>1, <1>3, <1>4 DEF KindSound
  <2>2. t.tries < Req[v][k][t.level + 1]
    BY <1>5, <1>7, <2>1 DEF Done
  <2> QED
    BY <1>5, <1>7, <2>2 DEF Grow!Reaches
<1> QED
  BY <1>1, <1>2, <1>3, <1>4, <1>9 DEF KindSound

\* An amount that is still to be added to a kind that is not full.
Owed(K, P, s, k, n) ==
  /\ FramesSound(s) /\ \A j \in K \ {k} : KindSound(K, P, s, j)
  /\ s.tally[k].level \in Least[k] .. LastOf(s.voc, k) /\ s.tally[k].level # LastOf(s.voc, k)
  /\ Grow(K, P)!Spent(s.voc, k, s.tally[k]) + PendingOf(K, P, s.frames, k) + n = s.given[k]

LEMMA SpentMore ==
  ASSUME NEW K, NEW P, NEW v, NEW k, Least[k] \in Nat, NEW last, Table(v, k, last),
         NEW t, t \in TallyRecord, t.level \in Least[k] .. last, NEW n \in Nat,
         NEW u, u.level = t.level, u.tries = t.tries + n
  PROVE  Grow(K, P)!Spent(v, k, u) = Grow(K, P)!Spent(v, k, t) + n
<1>0. last \in Nat /\ Req[v][k] \in [Least[k] .. last + 1 -> Nat] /\ t.tries \in Nat
  BY DEF Table, TallyRecord
<1>1. \A l \in Least[k] + 1 .. t.level : Req[v][k][l] \in Nat
  BY <1>0
<1>2. t.level \in Int /\ Least[k] \in Int /\ t.level >= Least[k]
  OBVIOUS
<1>3. Grow(K, P)!Total(Req[v][k], Least[k], t.level) \in Nat
  BY <1>1, <1>2, TotalType
<1> QED
  BY <1>0, <1>3 DEF Grow!Spent, Grow!Worth

LEMMA AdvancedKeeps ==
  ASSUME NEW K, K \subseteq Talents, NEW P, GrowthAssumption, NEW s, s \in GrowthType(K),
         NEW k \in K, NEW n \in Nat, Owed(K, P, s, k, n),
         NEW t, t = Grow(K, P)!Advanced(s, k, n)
  PROVE  t \in GrowthType(K) /\ TriesSound(K, P, t) /\ SameLevels(s, t) /\ SameDeath(s, t)
<1>v. PICK v \in Vocations : v = s.voc
  BY DEF GrowthType
<1> DEFINE a == s.tally[k]
           next == Req[v][k][a.level + 1]
           last == LastOf(v, k)
<1>0. Table(v, k, last) /\ Least[k] \in Nat
  BY LastOfIs
<1>1. /\ s.tally \in [K -> TallyRecord] /\ s.frames \in Seq(AdvanceRecord(K)) /\ s.given \in [K -> Int]
      /\ a \in TallyRecord /\ a.level \in Nat /\ a.tries \in Nat
  BY DEF GrowthType, TallyRecord
<1>2. /\ a.level \in Least[k] .. last /\ a.level # last
      /\ Grow(K, P)!Spent(v, k, a) + PendingOf(K, P, s.frames, k) + n = s.given[k]
      /\ FramesSound(s)
  BY <1>v DEF Owed
<1>3. \A j \in K \ {k} : KindSound(K, P, s, j)
  BY DEF Owed
<1>4. next \in Nat
  <2>1. \A i \in Least[k] .. last + 1 : Req[v][k][i] \in Nat
    BY <1>0 DEF Table
  <2>2. a.level + 1 \in Least[k] .. last + 1
    BY <1>0, <1>2 DEF Table
  <2> QED
    BY <2>1, <2>2
<1> HIDE DEF last
<1>5. CASE a.tries + n < next
  <2>1. t = [s EXCEPT !.tally[k].tries = @ + n, !.overpaid = @ \ {k}]
    BY <1>5, <1>v DEF Grow!Advanced
  <2> DEFINE b == t.tally[k]
  <2>2. /\ t.frames = s.frames /\ t.given = s.given /\ SameLevels(s, t) /\ SameDeath(s, t)
        /\ t.tally = [s.tally EXCEPT ![k].tries = @ + n]
        /\ t.overpaid = s.overpaid \ {k} /\ t.voc = v
    BY <1>v, <2>1 DEF GrowthType, SameLevels, SameDeath
  <2>a. b = [a EXCEPT !.tries = @ + n] /\ \A j \in K \ {k} : t.tally[j] = s.tally[j]
    BY <1>1, <2>2
  <2>c. b.level = a.level /\ b.tries = a.tries + n /\ b \in TallyRecord
    <3>1. a.tries + n \in Nat
      BY <1>1
    <3> QED
      BY <1>1, <2>a, <3>1 DEF TallyRecord
  <2>3. /\ b.level = a.level /\ b.tries = a.tries + n /\ b \in TallyRecord
        /\ t.tally \in [K -> TallyRecord]
        /\ \A j \in K \ {k} : t.tally[j] = s.tally[j]
        /\ \A j \in K : t.tally[j].level = s.tally[j].level
    <3>1. \A j \in K : t.tally[j] \in TallyRecord
      BY <1>1, <2>a, <2>c
    <3>2. DOMAIN t.tally = K /\ t.tally = [j \in K |-> t.tally[j]]
      BY <1>1, <2>2
    <3>3. t.tally \in [K -> TallyRecord]
      BY <3>1, <3>2
    <3> QED
      BY <2>a, <2>c, <3>3
  <2>4. t \in GrowthType(K)
    <3> DEFINE tally == [s.tally EXCEPT ![k].tries = @ + n]
               overpaid == s.overpaid \ {k}
    <3>1. tally \in [K -> TallyRecord] /\ overpaid \in SUBSET K
      BY <2>2, <2>3 DEF GrowthType
    <3>2. t = [s EXCEPT !.tally = tally, !.overpaid = overpaid]
      BY <2>1 DEF GrowthType
    <3> HIDE DEF tally, overpaid
    <3> QED
      BY <3>1, <3>2 DEF GrowthType
  <2>5. Grow(K, P)!Spent(v, k, b) = Grow(K, P)!Spent(v, k, a) + n
    BY <1>0, <1>1, <1>2, <2>3, SpentMore
  <2>6. KindSound(K, P, t, k)
    <3>1. Done(v, k, b)
      BY <1>5, <2>3 DEF Done
    <3>2. Grow(K, P)!Spent(v, k, a) \in Nat
      BY <1>0, <1>1, <1>2, SpentType
    <3>3. PendingOf(K, P, s.frames, k) \in Nat
      BY <1>1, PendingType
    <3>4. Grow(K, P)!Spent(v, k, b) + PendingOf(K, P, t.frames, k) = t.given[k]
      BY <1>2, <2>2, <2>5, <3>2, <3>3
    <3>5. b.level \in Least[k] .. last
      BY <1>2, <2>3
    <3> QED
      BY <2>2, <3>1, <3>4, <3>5 DEF KindSound, last
  <2>7. \A j \in K \ {k} : KindSound(K, P, t, j)
    <3> TAKE j \in K \ {k}
    <3>1. KindSound(K, P, s, j)
      BY <1>3
    <3>2. t.tally[j] = s.tally[j] /\ (j \in s.overpaid => j \in t.overpaid)
      BY <2>2, <2>3
    <3> QED
      BY <1>v, <2>2, <3>1, <3>2 DEF KindSound
  <2>8. FramesSound(t)
    <3>1. \A i \in 1 .. Len(s.frames) : s.frames[i].kind \in K
      <4> TAKE i \in 1 .. Len(s.frames)
      <4>1. s.frames[i] \in AdvanceRecord(K)
        BY <1>1
      <4> QED
        BY <4>1 DEF AdvanceRecord
    <3>2. ASSUME NEW i \in 1 .. Len(s.frames)
          PROVE  FrameFits(t, s.frames[i])
      <4>1. FrameFits(s, s.frames[i])
        BY <1>2 DEF FramesSound
      <4>2. t.tally[s.frames[i].kind].level = s.tally[s.frames[i].kind].level
        BY <2>3, <3>1
      <4> QED
        BY <1>v, <2>2, <4>1, <4>2 DEF FrameFits
    <3> QED
      BY <2>2, <3>2 DEF FramesSound
  <2> QED
    BY <2>2, <2>4, <2>6, <2>7, <2>8 DEF TriesSound
<1>6. CASE ~(a.tries + n < next)
  <2> DEFINE up == [level |-> a.level + 1, tries |-> 0]
             f == [kind |-> k, rest |-> n - (next - a.tries), from |-> next, voc |-> v]
             m == Len(s.frames)
  <2>1. t = [s EXCEPT !.tally[k] = up, !.overpaid = @ \ {k}, !.frames = Append(@, f)]
    BY <1>6, <1>v DEF Grow!Advanced
  <2>a. up \in TallyRecord /\ up.level = a.level + 1 /\ up.tries = 0
    BY <1>1 DEF TallyRecord
  <2>b. f \in AdvanceRecord(K) /\ f.kind = k /\ f.rest = n - (next - a.tries) /\ f.from = next
      /\ f.voc = v
    BY <1>1, <1>4, <1>6 DEF AdvanceRecord
  <2> HIDE DEF up, f
  <2>2. /\ t.frames = Append(s.frames, f) /\ t.given = s.given /\ SameLevels(s, t) /\ SameDeath(s, t)
        /\ t.tally = [s.tally EXCEPT ![k] = up]
        /\ t.overpaid = s.overpaid \ {k} /\ t.voc = v
    BY <1>v, <2>1 DEF GrowthType, SameLevels, SameDeath
  <2>3. /\ t.tally[k] = up /\ t.tally \in [K -> TallyRecord]
        /\ \A j \in K \ {k} : t.tally[j] = s.tally[j]
    BY <1>1, <2>2, <2>a
  <2>c. /\ m \in Nat /\ Len(t.frames) = m + 1 /\ t.frames[m + 1] = f
        /\ t.frames \in Seq(AdvanceRecord(K))
        /\ \A i \in 1 .. m : t.frames[i] = s.frames[i]
    BY <1>1, <2>2, <2>b
  <2>d. /\ Longer(s.frames, t.frames, m) /\ m = Len(s.frames)
        /\ s.frames \in Seq(AdvanceRecord(K)) /\ t.frames \in Seq(AdvanceRecord(K))
    BY <1>1, <2>c DEF Longer
  <2> HIDE DEF m
  <2>4. t \in GrowthType(K)
    <3> DEFINE tally == [s.tally EXCEPT ![k] = up]
               overpaid == s.overpaid \ {k}
               frames == Append(s.frames, f)
    <3>1. /\ tally \in [K -> TallyRecord] /\ overpaid \in SUBSET K
          /\ frames \in Seq(AdvanceRecord(K))
      BY <2>2, <2>3, <2>c DEF GrowthType
    <3>2. t = [s EXCEPT !.tally = tally, !.overpaid = overpaid, !.frames = frames]
      BY <2>1 DEF GrowthType
    <3> HIDE DEF tally, overpaid, frames
    <3> QED
      BY <3>1, <3>2 DEF GrowthType
  <2>5. Grow(K, P)!Spent(v, k, up) = Grow(K, P)!Spent(v, k, a) - a.tries + next
    BY <1>0, <1>1, <1>2, <2>a, SpentUp
  <2>6. KindSound(K, P, t, k)
    <3>1. Done(v, k, up)
      BY <2>a DEF Done
    <3>2. Grow(K, P)!Spent(v, k, a) \in Nat
      BY <1>0, <1>1, <1>2, SpentType
    <3>3. /\ PendingOf(K, P, s.frames, k) \in Nat
          /\ PendingOf(K, P, t.frames, k) =
               PendingOf(K, P, s.frames, k) + (IF t.frames[m + 1].kind = k THEN t.frames[m + 1].rest ELSE 0)
      BY <2>d, PendingUp
    <3>4. Grow(K, P)!Spent(v, k, up) + PendingOf(K, P, t.frames, k) = t.given[k]
      <4>1. PendingOf(K, P, t.frames, k) = PendingOf(K, P, s.frames, k) + (n - (next - a.tries))
        BY <2>b, <2>c, <3>3
      <4> HIDE DEF next, a
      <4>2. /\ Grow(K, P)!Spent(v, k, a) + PendingOf(K, P, s.frames, k) + n = s.given[k]
            /\ a.tries \in Nat /\ PendingOf(K, P, s.frames, k) \in Nat
        BY <1>1, <1>2, <3>3
      <4>3. t.given[k] = s.given[k]
        BY <2>2
      <4> QED
        BY <1>4, <2>5, <3>2, <4>1, <4>2, <4>3
    <3>5. up.level \in Least[k] .. last
      BY <1>0, <1>2, <2>a DEF Table
    <3> QED
      BY <2>2, <2>3, <3>1, <3>4, <3>5 DEF KindSound, last
  <2>7. \A j \in K \ {k} : KindSound(K, P, t, j)
    <3> TAKE j \in K \ {k}
    <3>1. PendingOf(K, P, t.frames, j) = PendingOf(K, P, s.frames, j)
      <4>1. /\ PendingOf(K, P, s.frames, j) \in Nat
            /\ PendingOf(K, P, t.frames, j) =
               PendingOf(K, P, s.frames, j) + (IF t.frames[m + 1].kind = j THEN t.frames[m + 1].rest ELSE 0)
        BY <2>d, PendingUp
      <4> QED
        BY <2>b, <2>c, <4>1
    <3>2. j \in s.overpaid => j \in t.overpaid
      BY <2>2
    <3>3. KindSound(K, P, s, j) /\ t.tally[j] = s.tally[j]
      BY <1>3, <2>3
    <3> QED
      BY <1>v, <2>2, <3>1, <3>2, <3>3 DEF KindSound
  <2>8. FramesSound(t)
    <3> SUFFICES ASSUME NEW i \in 1 .. m + 1
                 PROVE  FrameFits(t, t.frames[i])
      BY <2>c DEF FramesSound
    <3>1. CASE i = m + 1
      <4>1. Req[v][k][t.tally[k].level] = next
        BY <2>3, <2>a
      <4>2. t.frames[i].from = next /\ t.frames[i].kind = k /\ t.frames[i].voc = v
        BY <2>b, <2>c, <3>1
      <4>3. ASSUME NEW u \in Vocations
            PROVE  next > Req[u][k][LastOf(u, k) + 1]
        <5>1. a.level + 1 \in Least[k] + 1 .. LastOf(v, k)
          BY <1>0, <1>2 DEF Table, last
        <5>2. k \in Talents
          OBVIOUS
        <5>3. \A l \in Least[k] + 1 .. LastOf(v, k) : Req[v][k][l] > Req[u][k][LastOf(u, k) + 1]
          BY <5>2, AboveAll
        <5> QED
          BY <5>1, <5>3
      <4> HIDE DEF next
      <4> QED
        BY <1>4, <2>2, <4>1, <4>2, <4>3 DEF FrameFits
    <3>2. CASE i # m + 1
      <4>1. i \in 1 .. m /\ t.frames[i] = s.frames[i] /\ s.frames[i] \in AdvanceRecord(K)
        BY <1>1, <2>c, <2>d, <3>2
      <4>2. FrameFits(s, s.frames[i])
        BY <1>2, <2>d, <4>1 DEF FramesSound
      <4>3. s.frames[i].from \in Nat /\ s.frames[i].kind \in K
        BY <4>1 DEF AdvanceRecord
      <4>4. CASE s.frames[i].kind # k
        <5>1. t.tally[s.frames[i].kind] = s.tally[s.frames[i].kind]
          BY <2>3, <4>3, <4>4
        <5>2. t.frames[i] = s.frames[i] /\ t.voc = s.voc
          BY <1>v, <2>2, <4>1
        <5> QED
          BY <4>2, <5>1, <5>2 DEF FrameFits
      <4>5. CASE s.frames[i].kind = k
        <5>1. Req[v][k][a.level] <= Req[v][k][up.level]
          <6>1. a.level \in Least[k] .. last /\ up.level \in Least[k] .. last /\ a.level <= up.level
            BY <1>0, <1>2, <2>a DEF Table
          <6> QED
            BY <1>0, <6>1, TableRises
        <5>2. Req[v][k][a.level] \in Nat /\ Req[v][k][up.level] \in Nat
          <6>1. a.level \in Least[k] .. last + 1
            BY <1>0, <1>2 DEF Table
          <6>2. Req[v][k][a.level] \in Nat
            BY <1>0, <6>1 DEF Table
          <6>3. Req[v][k][up.level] = next
            BY <2>a
          <6> HIDE DEF next, a
          <6> QED
            BY <1>4, <6>2, <6>3
        <5>3. /\ s.frames[i].voc \in {0, v}
              /\ s.frames[i].voc = v => s.frames[i].from <= Req[v][k][a.level]
              /\ \A u \in Vocations : s.frames[i].from > Req[u][k][LastOf(u, k) + 1]
          BY <1>v, <4>2, <4>5 DEF FrameFits
        <5>4. s.frames[i].voc = v => s.frames[i].from <= Req[v][k][up.level]
          <6> HIDE DEF a
          <6> QED
            BY <4>3, <5>1, <5>2, <5>3
        <5> QED
          BY <2>2, <2>3, <4>1, <4>5, <5>3, <5>4 DEF FrameFits
      <4> QED
        BY <4>4, <4>5
    <3> QED
      BY <3>1, <3>2
  <2> QED
    BY <2>2, <2>4, <2>6, <2>7, <2>8 DEF TriesSound
<1> QED
  BY <1>5, <1>6
\* The start, and the start anew in rookgaard.
Blank(K, s) ==
  /\ s.tally = [k \in K |-> [level |-> Least[k], tries |-> 0]]
  /\ s.given = [k \in K |-> 0] /\ s.frames = <<>> /\ s.overpaid = {}

LEMMA BlankSound ==
  ASSUME NEW K, K \subseteq Talents, NEW P, GrowthAssumption, NEW s, Blank(K, s), s.voc \in Vocations
  PROVE  TriesSound(K, P, s) /\ s.tally \in [K -> TallyRecord] /\ s.given \in [K -> Int]
<1>v. PICK v \in Vocations : v = s.voc
  OBVIOUS
<1>1. FramesSound(s)
  <2>1. Len(s.frames) = 0
    BY DEF Blank
  <2> QED
    BY <2>1 DEF FramesSound
<1>2. ASSUME NEW k \in K
      PROVE  KindSound(K, P, s, k) /\ s.tally[k] \in TallyRecord
  <2> DEFINE t == [level |-> Least[k], tries |-> 0]
             last == LastOf(v, k)
  <2>1. Table(v, k, last) /\ Least[k] \in Nat
    BY LastOfIs
  <2>2. s.tally[k] = t /\ s.given[k] = 0 /\ s.frames = <<>>
    BY DEF Blank
  <2>3. t.level = Least[k] /\ t.tries = 0 /\ t \in TallyRecord
    BY <2>1 DEF TallyRecord
  <2> HIDE DEF t, last
  <2>4. Grow(K, P)!Spent(v, k, t) = 0
    <3>1. Least[k] \in Int /\ Least[k] >= Least[k]
      BY <2>1
    <3>2. Grow(K, P)!Total(Req[v][k], Least[k], Least[k]) = 0
      BY <3>1, TotalStep
    <3> QED
      BY <2>3, <3>2 DEF Grow!Spent, Grow!Worth
  <2>5. PendingOf(K, P, s.frames, k) = 0
    BY <2>2, PendingNone
  <2>6. Least[k] \in Least[k] .. last
    BY <2>1 DEF Table
  <2>7. Done(v, k, t)
    BY <2>3 DEF Done
  <2> QED
    BY <1>v, <2>2, <2>3, <2>4, <2>5, <2>6, <2>7 DEF KindSound, last
<1>3. s.tally \in [K -> TallyRecord]
  <2>1. DOMAIN s.tally = K /\ s.tally = [k \in K |-> s.tally[k]]
    BY DEF Blank
  <2> QED
    BY <1>2, <2>1
<1> QED
  BY <1>1, <1>2, <1>3 DEF TriesSound, Blank

\* Tries are added, and the scripts that were told of an advance return.
LEMMA AddTriesKeeps ==
  ASSUME NEW K, K \subseteq Talents, NEW P, GrowthAssumption, w \in GrowthType(K), TriesSound(K, P, w),
         NEW k \in K, NEW n \in Nat, Grow(K, P)!AddTries(k, n)
  PROVE  w' \in GrowthType(K) /\ TriesSound(K, P, w') /\ SameLevels(w, w') /\ SameDeath(w, w')
<1>v. PICK v \in Vocations : v = w.voc
  BY DEF GrowthType
<1> DEFINE p == [w EXCEPT !.given[k] = @ + n]
<1>0. Table(v, k, LastOf(v, k)) /\ Least[k] \in Nat
  BY LastOfIs
<1>1. KindSound(K, P, w, k) /\ FramesSound(w) /\ \A j \in K : KindSound(K, P, w, j)
  BY DEF TriesSound
<1>2. w.tally[k].level \in Least[k] .. LastOf(v, k) /\ w.tally[k].level # LastOf(v, k)
  <2>1. w.tally[k].level \in Least[k] .. LastOf(v, k)
    BY <1>1, <1>v DEF KindSound
  <2>2. ~Grow(K, P)!Full(v, k, w.tally[k].level)
    BY <1>v DEF Grow!AddTries
  <2> QED
    BY <1>0, <2>1, <2>2, FullIs
<1>3. w.given \in [K -> Int] /\ w.tally \in [K -> TallyRecord] /\ w.frames \in Seq(AdvanceRecord(K))
  BY DEF GrowthType
<1>4. /\ p.tally = w.tally /\ p.frames = w.frames /\ SameLevels(w, p) /\ SameDeath(w, p)
      /\ p.given = [w.given EXCEPT ![k] = @ + n]
      /\ p.overpaid = w.overpaid /\ p.voc = w.voc
  BY DEF GrowthType, SameLevels, SameDeath
<1>5. /\ p.given[k] = w.given[k] + n /\ p.given \in [K -> Int]
      /\ \A j \in K \ {k} : p.given[j] = w.given[j]
  <2> HIDE DEF p
  <2>1. w.given[k] + n \in Int
    BY <1>3
  <2> QED
    BY <1>3, <1>4, <2>1
<1>6. p \in GrowthType(K)
  <2> DEFINE given == [w.given EXCEPT ![k] = @ + n]
  <2>1. given \in [K -> Int]
    BY <1>4, <1>5
  <2>2. p = [w EXCEPT !.given = given]
    BY DEF GrowthType
  <2> HIDE DEF p, given
  <2> QED
    BY <2>1, <2>2 DEF GrowthType
<1>7. w' = Grow(K, P)!Advanced(p, k, n)
  BY DEF Grow!AddTries
<1> HIDE DEF p
<1>8. Owed(K, P, p, k, n)
  <2>1. \A j \in K \ {k} : KindSound(K, P, p, j)
    BY <1>1, <1>4, <1>5 DEF KindSound
  <2>2. FramesSound(p)
    BY <1>1, <1>4 DEF FramesSound, FrameFits
  <2>3. Grow(K, P)!Spent(v, k, p.tally[k]) + PendingOf(K, P, p.frames, k) + n = p.given[k]
    BY <1>1, <1>4, <1>5, <1>v DEF KindSound
  <2> QED
    BY <1>2, <1>v, <1>4, <2>1, <2>2, <2>3 DEF Owed
<1>9. w' \in GrowthType(K) /\ TriesSound(K, P, w') /\ SameLevels(p, w') /\ SameDeath(p, w')
  BY <1>6, <1>7, <1>8, AdvancedKeeps
<1> QED
  BY <1>4, <1>9 DEF SameLevels, SameDeath

LEMMA AnnouncedKeeps ==
  ASSUME NEW K, K \subseteq Talents, NEW P, GrowthAssumption, w \in GrowthType(K), TriesSound(K, P, w),
         Grow(K, P)!Announced
  PROVE  w' \in GrowthType(K) /\ TriesSound(K, P, w') /\ SameLevels(w, w') /\ SameDeath(w, w')
<1>v. PICK v \in Vocations : v = w.voc
  BY DEF GrowthType
<1> DEFINE m == Len(w.frames) - 1
           f == w.frames[Len(w.frames)]
           p == [w EXCEPT !.frames = SubSeq(@, 1, Len(@) - 1)]
           k == f.kind
<1>1. w.given \in [K -> Int] /\ w.tally \in [K -> TallyRecord] /\ w.frames \in Seq(AdvanceRecord(K))
  BY DEF GrowthType
<1>2. w.frames # <<>>
  BY DEF Grow!Announced, Grow!Idle
<1>3. m \in Nat /\ Len(w.frames) = m + 1 /\ f = w.frames[m + 1] /\ f \in AdvanceRecord(K)
  BY <1>1, <1>2
<1>4. k \in K /\ f.rest \in Nat /\ f.from \in Nat
  BY <1>3 DEF AdvanceRecord
<1>5. /\ p.tally = w.tally /\ p.given = w.given /\ SameLevels(w, p) /\ SameDeath(w, p)
      /\ p.frames = SubSeq(w.frames, 1, Len(w.frames) - 1)
      /\ p.overpaid = w.overpaid /\ p.voc = v
  BY <1>v DEF GrowthType, SameLevels, SameDeath
<1>6. /\ p.frames \in Seq(AdvanceRecord(K)) /\ Len(p.frames) = m
      /\ \A i \in 1 .. m : w.frames[i] = p.frames[i]
  <2> HIDE DEF p
  <2> QED
    BY <1>1, <1>2, <1>5
<1>7. p \in GrowthType(K)
  <2> DEFINE G == SubSeq(w.frames, 1, Len(w.frames) - 1)
  <2>1. G \in Seq(AdvanceRecord(K))
    BY <1>5, <1>6
  <2>2. p = [w EXCEPT !.frames = G]
    BY DEF GrowthType
  <2> HIDE DEF p, G
  <2> QED
    BY <2>1, <2>2 DEF GrowthType
<1>8. w' = IF f.from > Req[p.voc][f.kind][p.tally[f.kind].level + 1]
             THEN [p EXCEPT !.given[f.kind] =
                     IF Grow(K, P)!Full(p.voc, f.kind, p.tally[f.kind].level) \/ f.voc # p.voc
                       THEN @ - f.rest ELSE @]
             ELSE Grow(K, P)!Advanced(p, f.kind, f.rest)
  BY DEF Grow!Announced
<1> HIDE DEF p, f
<1>9. Longer(p.frames, w.frames, m)
  BY <1>3, <1>6 DEF Longer
<1>10. FramesSound(w) /\ \A j \in K : KindSound(K, P, w, j)
  BY DEF TriesSound
<1>11. FrameFits(w, f) /\ FramesSound(p)
  <2>1. m + 1 \in 1 .. Len(w.frames) /\ \A i \in 1 .. m : i \in 1 .. Len(w.frames)
    BY <1>3
  <2> QED
    BY <1>3, <1>5, <1>6, <1>10, <1>v, <2>1 DEF FramesSound, FrameFits
<1>12. /\ PendingOf(K, P, p.frames, k) \in Nat
       /\ PendingOf(K, P, w.frames, k) = PendingOf(K, P, p.frames, k) + f.rest
  <2>1. /\ PendingOf(K, P, p.frames, k) \in Nat
        /\ PendingOf(K, P, w.frames, k) =
             PendingOf(K, P, p.frames, k) + (IF w.frames[m + 1].kind = k THEN w.frames[m + 1].rest ELSE 0)
    BY <1>1, <1>6, <1>9, PendingUp
  <2> QED
    BY <1>3, <2>1
<1>13. \A j \in K \ {k} : KindSound(K, P, p, j)
  <2> TAKE j \in K \ {k}
  <2>1. /\ PendingOf(K, P, p.frames, j) \in Nat
        /\ PendingOf(K, P, w.frames, j) =
             PendingOf(K, P, p.frames, j) + (IF w.frames[m + 1].kind = j THEN w.frames[m + 1].rest ELSE 0)
    BY <1>1, <1>6, <1>9, PendingUp
  <2>2. PendingOf(K, P, w.frames, j) = PendingOf(K, P, p.frames, j)
    BY <1>3, <2>1
  <2>4. KindSound(K, P, w, j)
    BY <1>10
  <2> QED
    BY <1>5, <1>v, <2>2, <2>4 DEF KindSound
<1> DEFINE last == LastOf(v, k)
           a == w.tally[k]
<1>14. Table(v, k, last) /\ Least[k] \in Nat
  BY <1>4, LastOfIs
<1>15. /\ a.level \in Least[k] .. last /\ a \in TallyRecord
       /\ Grow(K, P)!Spent(v, k, a) + PendingOf(K, P, w.frames, k) = w.given[k]
  BY <1>1, <1>4, <1>10, <1>v DEF KindSound
<1>16. Grow(K, P)!Spent(v, k, a) \in Nat
  BY <1>14, <1>15, SpentType
<1>17. (f.voc = v => f.from <= Req[v][k][a.level]) /\ f.from > Req[v][k][last + 1]
  BY <1>11, <1>v DEF FrameFits
<1>18. Req[v][k][a.level] \in Nat /\ Req[v][k][a.level + 1] \in Nat
  <2>1. \A i \in Least[k] .. last + 1 : Req[v][k][i] \in Nat
    BY <1>14 DEF Table
  <2>2. a.level \in Least[k] .. last + 1 /\ a.level + 1 \in Least[k] .. last + 1
    BY <1>14, <1>15 DEF Table
  <2> QED
    BY <2>1, <2>2
<1>19. /\ a.level = last => f.from > Req[v][k][a.level + 1]
       /\ f.from > Req[v][k][a.level + 1] /\ f.voc = v => a.level = last
  <2>1. CASE a.level = last
    BY <1>17, <2>1
  <2>2. CASE a.level # last
    <3>1. a.level + 1 \in Least[k] .. last /\ a.level <= a.level + 1
      BY <1>14, <1>15, <2>2 DEF Table
    <3>2. Req[v][k][a.level] <= Req[v][k][a.level + 1]
      BY <1>14, <1>15, <3>1, TableRises
    <3> QED
      BY <1>4, <1>17, <1>18, <2>2, <3>2
  <2> QED
    BY <2>1, <2>2
<1>22. Grow(K, P)!Full(v, k, a.level) <=> a.level = last
  BY <1>14, <1>15, FullIs
<1> HIDE DEF last, a, k, m
<1>20. CASE f.from > Req[v][k][a.level + 1]
  <2>0. Grow(K, P)!Full(v, k, a.level) \/ f.voc # v
    BY <1>19, <1>20, <1>22
  <2>1. w' = [p EXCEPT !.given[k] = @ - f.rest]
    BY <1>5, <1>8, <1>20, <2>0 DEF k, a
  <2>2. /\ w'.tally = p.tally /\ w'.frames = p.frames /\ SameLevels(p, w') /\ SameDeath(p, w')
        /\ w'.given = [p.given EXCEPT ![k] = @ - f.rest]
        /\ w'.overpaid = p.overpaid /\ w'.voc = p.voc
    BY <1>7, <2>1 DEF GrowthType, SameLevels, SameDeath
  <2>3. /\ w'.given[k] = w.given[k] - f.rest /\ w'.given \in [K -> Int]
        /\ \A j \in K \ {k} : w'.given[j] = p.given[j]
    <3>1. w.given[k] - f.rest \in Int
      BY <1>1, <1>4
    <3> QED
      BY <1>1, <1>4, <1>5, <2>2, <3>1
  <2>4. w' \in GrowthType(K)
    <3> DEFINE given == [p.given EXCEPT ![k] = @ - f.rest]
    <3>1. given \in [K -> Int]
      BY <2>2, <2>3
    <3>2. w' = [p EXCEPT !.given = given]
      BY <1>7, <2>1 DEF GrowthType
    <3> HIDE DEF given
    <3> QED
      BY <1>7, <3>1, <3>2 DEF GrowthType
  <2>5. KindSound(K, P, w', k)
    <3>1. w'.tally[k] = a /\ w'.frames = p.frames
      BY <1>5, <2>2 DEF a
    <3>2. Grow(K, P)!Spent(v, k, a) + PendingOf(K, P, p.frames, k) = w'.given[k]
      BY <1>4, <1>12, <1>15, <1>16, <2>3
    <3>3. k \in w.overpaid \/ Done(v, k, a)
      BY <1>4, <1>10, <1>v DEF KindSound, k, a
    <3> QED
      BY <1>5, <1>15, <2>2, <3>1, <3>2, <3>3 DEF KindSound, last
  <2>6. \A j \in K \ {k} : KindSound(K, P, w', j)
    BY <1>13, <2>2, <2>3 DEF KindSound
  <2>7. FramesSound(w')
    BY <1>11, <2>2 DEF FramesSound, FrameFits
  <2> QED
    BY <1>5, <2>2, <2>4, <2>5, <2>6, <2>7 DEF TriesSound, SameLevels, SameDeath
<1>21. CASE ~(f.from > Req[v][k][a.level + 1])
  <2>0. a.level # last
    BY <1>19, <1>21
  <2>1. w' = Grow(K, P)!Advanced(p, k, f.rest)
    BY <1>5, <1>8, <1>21 DEF k, a
  <2>2. Owed(K, P, p, k, f.rest)
    <3>1. Grow(K, P)!Spent(v, k, a) + PendingOf(K, P, p.frames, k) + f.rest = p.given[k]
      BY <1>4, <1>5, <1>12, <1>15, <1>16
    <3> QED
      BY <1>5, <1>11, <1>13, <1>15, <2>0, <3>1 DEF Owed, a, last
  <2>3. w' \in GrowthType(K) /\ TriesSound(K, P, w') /\ SameLevels(p, w') /\ SameDeath(p, w')
    BY <1>4, <1>7, <2>1, <2>2, AdvancedKeeps
  <2> QED
    BY <1>5, <2>3 DEF SameLevels, SameDeath
<1> QED
  BY <1>20, <1>21
-----------------------------------------------------------------------------
(* Deaths.                                                                   *)

\* Of a vocation that loses skills and things.
Alive(s) ==
  /\ s.corpses = 0
  /\ ~s.pardoned /\ ~s.killed => s.loot = "full" /\ s.loss
  /\ ~s.loss => s.loot = "none"
DeathsSound(s) ==
  s.voc \notin Keeps \cup Wears => s.corpses <= 1 /\ (s.place = "world" => Alive(s))

LEMMA DeathsSoundAgrees ==
  ASSUME NEW K, NEW P, DeathsSound(w)
  PROVE  Grow(K, P)!DeathsSettle
BY DEF DeathsSound, Alive, Grow!DeathsSettle

LEMMA DeathsCarry ==
  ASSUME NEW s, NEW t, DeathsSound(s), SameDeath(s, t)
  PROVE  DeathsSound(t)
BY DEF DeathsSound, SameDeath, Alive

GrowthSound(K, P, s) ==
  s \in GrowthType(K) /\ LevelsSound(K, P, s) /\ TriesSound(K, P, s) /\ DeathsSound(s)

LEMMA GrowthSoundAgrees ==
  ASSUME NEW K, K \subseteq Talents, NEW P, GrowthAssumption, GrowthSound(K, P, w)
  PROVE  Grow(K, P)!GrowthAgrees
BY LevelsSoundAgrees, TriesSoundAgrees, DeathsSoundAgrees DEF GrowthSound, Grow!GrowthAgrees

LEMMA LootIs ==
  ASSUME NEW K, NEW P, NEW v, NEW l \in {"full", "prevent", "none"}, NEW b \in BOOLEAN
  PROVE  /\ Grow(K, P)!Loot(v, l) \in {"full", "prevent", "none"}
         /\ v \notin Keeps \cup Wears => Grow(K, P)!Loot(v, l) = l
         /\ Grow(K, P)!Loss(v, b) \in BOOLEAN
         /\ v \notin Keeps \cup Wears => Grow(K, P)!Loss(v, b) = b
BY DEF Grow!Loot, Grow!Loss

LEMMA FirstLevel ==
  ASSUME NEW K, NEW P, GrowthAssumption, NEW s, s.voc \in Vocations,
         s.level = 1, s.exp = 0, s.healthMax = Grow(K, P)!Start
  PROVE  LevelsSound(K, P, s)
<1>1. /\ MaxLevel \in Nat \ {0} /\ ExpFor[1] = 0
      /\ \A i \in 2 .. MaxLevel : ExpFor[i - 1] < ExpFor[i]
  BY DEF GrowthAssumption
<1>4. 1 = MaxLevel \/ ExpFor[1] < ExpFor[1 + 1]
  <2> SUFFICES ASSUME 1 # MaxLevel
               PROVE  ExpFor[1] < ExpFor[1 + 1]
    OBVIOUS
  <2>1. 2 \in 2 .. MaxLevel /\ 2 - 1 = 1 /\ 1 + 1 = 2
    BY <1>1
  <2> QED
    BY <1>1, <2>1
<1>2. Grow(K, P)!Total(Grow(K, P)!Gains(s), 1, 1) = 0
  <2>1. 1 \in Int /\ 1 >= 1
    OBVIOUS
  <2> QED
    BY <2>1, TotalStep
<1>3. s.healthMax = HealthOf(K, P, s, 1)
  BY <1>2 DEF HealthOf, Grow!Start
<1> QED
  BY <1>1, <1>3, <1>4 DEF LevelsSound
\* What changes the column of experience alone.
LEMMA LevelsMoveKeeps ==
  ASSUME NEW K, NEW P, GrowthAssumption, NEW s, s \in GrowthType(K),
         NEW l, NEW e, NEW h, NEW t, t = [s EXCEPT !.exp = e, !.level = l, !.healthMax = h],
         LevelsSound(K, P, t)
  PROVE  t \in GrowthType(K) /\ SameTries(s, t) /\ SameDeath(s, t)
<1>2. t.exp = e /\ t.level = l /\ t.healthMax = h /\ SameTries(s, t) /\ SameDeath(s, t)
  BY DEF GrowthType, SameTries, SameTallies, SameDeath
<1>3. l \in Nat /\ e \in Nat /\ h \in Int
  <2>1. MaxLevel \in Nat
    BY DEF GrowthAssumption
  <2>2. t.level \in 1 .. MaxLevel /\ t.voc \in Vocations /\ t.healthMax = HealthOf(K, P, t, t.level)
    BY DEF LevelsSound
  <2>3. HealthOf(K, P, t, t.level) \in Nat
    <3>1. t.level <= t.level
      BY <2>1, <2>2
    <3> QED
      BY <2>2, <3>1, HealthSplit
  <2> QED
    BY <1>2, <2>1, <2>2, <2>3 DEF LevelsSound
<1>4. t \in GrowthType(K)
  BY <1>3 DEF GrowthType
<1> QED
  BY <1>2, <1>4

LEMMA AddExperienceSound ==
  ASSUME NEW K, NEW P, GrowthAssumption, GrowthSound(K, P, w), NEW n \in Nat,
         Grow(K, P)!AddExperience(n)
  PROVE  GrowthSound(K, P, w')
<1>1. LevelsSound(K, P, w) /\ w \in GrowthType(K)
  BY DEF GrowthSound
<1> DEFINE to == Grow(K, P)!Reached(w, w.exp + n)
           h == w.healthMax + Grow(K, P)!Total(Grow(K, P)!Gains(w), w.level, to)
           e == w.exp + n
<1>2. w' = [w EXCEPT !.exp = e, !.level = to, !.healthMax = h]
  BY DEF Grow!AddExperience
<1>3. w.level # MaxLevel
  <2>1. w.level \in 1 .. MaxLevel
    BY <1>1 DEF LevelsSound
  <2>2. ~Grow(K, P)!Capped(w.level)
    BY DEF Grow!AddExperience
  <2> QED
    BY <2>1, <2>2, CappedIs
<1>4. w'.voc = w.voc /\ w'.exp = w.exp + n /\ w'.level = to /\ w'.healthMax = h
  <2> HIDE DEF to, h
  <2> QED
    BY <1>1, <1>2 DEF GrowthType
<1>5. LevelsSound(K, P, w')
  <2>1. w'.healthMax = w.healthMax + Grow(K, P)!Total(Grow(K, P)!Gains(w), w.level, w'.level)
    BY <1>4
  <2> HIDE DEF h
  <2>2. w'.level = Grow(K, P)!Reached(w, w.exp + n)
    BY <1>4
  <2> HIDE DEF to
  <2> QED
    BY <1>1, <1>3, <1>4, <2>1, <2>2, AddExperienceKeeps
<1> HIDE DEF to, h, e
<1>6. w' \in GrowthType(K) /\ SameTries(w, w') /\ SameDeath(w, w')
  BY <1>1, <1>2, <1>5, LevelsMoveKeeps
<1> QED
  BY <1>5, <1>6, TriesCarry, DeathsCarry DEF GrowthSound

LEMMA RemovedIs ==
  ASSUME NEW K, NEW P, GrowthAssumption, NEW s, s \in GrowthType(K), LevelsSound(K, P, s),
         NEW n \in Nat, NEW t, t = Grow(K, P)!Removed(s, n)
  PROVE  t \in GrowthType(K) /\ LevelsSound(K, P, t) /\ SameTries(s, t) /\ SameDeath(s, t)
<1>1. LevelsSound(K, P, s) /\ s \in GrowthType(K)
  OBVIOUS
<1> DEFINE e == Grow(K, P)!Max({0, s.exp - n})
           to == Grow(K, P)!Max({1} \cup {l \in 1 .. s.level : e >= ExpFor[l]})
           h == Grow(K, P)!Max({0, s.healthMax - Grow(K, P)!Total(Grow(K, P)!LossesOf(s), to, s.level)})
<1>2. t = [s EXCEPT !.exp = e, !.level = to, !.healthMax = h]
  BY DEF Grow!Removed
<1>3. t.voc = s.voc /\ t.exp = e /\ t.level = to /\ t.healthMax = h
  <2> HIDE DEF e, to, h
  <2> QED
    BY <1>1, <1>2 DEF GrowthType
<1>4. LevelsSound(K, P, t)
  <2>1. t.healthMax = Grow(K, P)!Max({0, s.healthMax -
                         Grow(K, P)!Total(Grow(K, P)!LossesOf(s), t.level, s.level)})
    <3> HIDE DEF to
    <3> QED
      BY <1>3
  <2> HIDE DEF h
  <2>2. t.level = Grow(K, P)!Max({1} \cup {l \in 1 .. s.level : t.exp >= ExpFor[l]})
    <3> HIDE DEF e
    <3> QED
      BY <1>3
  <2> HIDE DEF to
  <2>3. t.exp = Grow(K, P)!Max({0, s.exp - n})
    BY <1>3
  <2> HIDE DEF e
  <2> QED
    BY <1>1, <1>3, <2>1, <2>2, <2>3, RemovedKeeps
<1> HIDE DEF e, to, h
<1>5. t \in GrowthType(K) /\ SameTries(s, t) /\ SameDeath(s, t)
  BY <1>1, <1>2, <1>4, LevelsMoveKeeps
<1> QED
  BY <1>4, <1>5

LEMMA RemoveExperienceSound ==
  ASSUME NEW K, NEW P, GrowthAssumption, GrowthSound(K, P, w), NEW n \in Nat,
         Grow(K, P)!RemoveExperience(n)
  PROVE  GrowthSound(K, P, w')
<1>1. w' = Grow(K, P)!Removed(w, n)
  BY DEF Grow!RemoveExperience
<1>2. /\ w' \in GrowthType(K) /\ LevelsSound(K, P, w') /\ SameTries(w, w') /\ SameDeath(w, w')
  BY <1>1, RemovedIs DEF GrowthSound
<1> QED
  BY <1>2, TriesCarry, DeathsCarry DEF GrowthSound

\* What he is taught: his loot and his losses are those of the vocation.
LEMMA TaughtIs ==
  ASSUME NEW K, NEW P, NEW s, s \in GrowthType(K), NEW v \in Vocations,
         NEW t, t = Grow(K, P)!Taught(s, v)
  PROVE  /\ t \in GrowthType(K) /\ SameTallies(s, t)
         /\ t.voc = v /\ t.level = s.level /\ t.exp = s.exp /\ t.healthMax = s.healthMax
         /\ t.dead = s.dead /\ t.place = s.place /\ t.zone = s.zone /\ t.corpses = s.corpses
         /\ t.pardoned = s.pardoned /\ t.killed = s.killed
         /\ v \notin Keeps \cup Wears => t.loot = "full" /\ t.loss
<1> DEFINE l == Grow(K, P)!Loot(v, "full")
           b == Grow(K, P)!Loss(v, TRUE)
<1>1. /\ l \in {"full", "prevent", "none"} /\ b \in BOOLEAN
      /\ v \notin Keeps \cup Wears => l = "full" /\ b = TRUE
  BY LootIs
<1>2. t = [s EXCEPT !.voc = v, !.loot = l, !.loss = b]
  BY DEF Grow!Taught
<1> HIDE DEF l, b
<1>3. t \in GrowthType(K)
  BY <1>1, <1>2 DEF GrowthType
<1> QED
  BY <1>1, <1>2, <1>3 DEF GrowthType, SameTallies

LEMMA SetVocationSound ==
  ASSUME NEW K, K \subseteq Talents, NEW P, GrowthAssumption, GrowthSound(K, P, w), NEW v \in Vocations,
         Grow(K, P)!SetVocation(v)
  PROVE  GrowthSound(K, P, w')
<1> DEFINE x == Grow(K, P)!Taught(w, v)
           given == [k \in K |-> Grow(K, P)!Spent(v, k, w.tally[k]) + Grow(K, P)!Pending(k)]
           over == {k \in K : Grow(K, P)!Reaches(v, k, w.tally[k])}
<1>0. /\ w.place = "world" /\ w.voc = 0 /\ v # 0 /\ w.level <= RookTo
      /\ \A k \in K : w.tally[k].level + 1 \in DOMAIN Req[v][k]
      /\ w' = [x EXCEPT !.given = given, !.overpaid = over]
  BY DEF Grow!SetVocation
<1>1. LevelsSound(K, P, w) /\ w \in GrowthType(K) /\ TriesSound(K, P, w)
  BY DEF GrowthSound
<1>a. /\ x \in GrowthType(K) /\ SameTallies(w, x)
      /\ x.voc = v /\ x.level = w.level /\ x.exp = w.exp /\ x.healthMax = w.healthMax
      /\ x.dead = w.dead /\ x.place = w.place /\ x.zone = w.zone /\ x.corpses = w.corpses
      /\ x.pardoned = w.pardoned /\ x.killed = w.killed
      /\ v \notin Keeps \cup Wears => x.loot = "full" /\ x.loss
  BY <1>1, TaughtIs
<1> HIDE DEF x
<1>b. ASSUME NEW k \in K
      PROVE  /\ Table(v, k, LastOf(v, k)) /\ Least[k] \in Nat /\ w.tally[k] \in TallyRecord
             /\ w.tally[k].level \in Least[k] .. LastOf(v, k)
  <2>1. Table(v, k, LastOf(v, k)) /\ Least[k] \in Nat
    BY LastOfIs
  <2>2. KindSound(K, P, w, k) /\ w.tally[k] \in TallyRecord
    BY <1>1 DEF TriesSound, GrowthType
  <2>3. w.tally[k].level \in Least[k] .. LastOf(w.voc, k) /\ w.tally[k].level \in Nat
    BY <2>2 DEF KindSound, TallyRecord
  <2>4. w.tally[k].level + 1 \in Least[k] .. LastOf(v, k) + 1 /\ LastOf(v, k) \in Nat
    BY <1>0, <2>1 DEF Table
  <2>5. w.tally[k].level >= Least[k]
    BY <2>3
  <2> QED
    BY <2>1, <2>2, <2>3, <2>4, <2>5
<1>c. ASSUME NEW k \in K
      PROVE  /\ given[k] \in Int
             /\ Grow(K, P)!Spent(v, k, w.tally[k]) + PendingOf(K, P, w.frames, k) = given[k]
             /\ k \in over \/ Done(v, k, w.tally[k])
  <2>1. Grow(K, P)!Spent(v, k, w.tally[k]) \in Nat
    BY <1>b, SpentType
  <2>2. PendingOf(K, P, w.frames, k) \in Nat
    BY <1>1, PendingType DEF GrowthType
  <2>3. Grow(K, P)!Pending(k) = PendingOf(K, P, w.frames, k)
    BY DEF Grow!Pending, PendingOf, RestOf
  <2>4. given[k] = Grow(K, P)!Spent(v, k, w.tally[k]) + PendingOf(K, P, w.frames, k)
    BY <2>3
  <2>5. k \in over \/ ~Grow(K, P)!Reaches(v, k, w.tally[k])
    OBVIOUS
  <2> HIDE DEF given, over
  <2>6. Req[v][k][w.tally[k].level + 1] \in Nat /\ w.tally[k].tries \in Nat
    BY <1>b, NextIs DEF TallyRecord
  <2>7. ~Grow(K, P)!Reaches(v, k, w.tally[k]) => Done(v, k, w.tally[k])
    BY <2>6 DEF Grow!Reaches, Done
  <2> QED
    BY <2>1, <2>2, <2>4, <2>5, <2>7
<1>d. given \in [K -> Int] /\ over \in SUBSET K
  BY <1>c
<1> HIDE DEF given, over
<1>e. /\ w'.tally = w.tally /\ w'.frames = w.frames /\ w'.given = given /\ w'.overpaid = over
      /\ w'.voc = v
  BY <1>0, <1>a DEF GrowthType, SameTallies
<1>f. TriesSound(K, P, w')
  <2>1. FramesSound(w')
    <3> SUFFICES ASSUME NEW i \in 1 .. Len(w.frames)
                 PROVE  FrameFits(w', w.frames[i])
      BY <1>e DEF FramesSound
    <3>1. FrameFits(w, w.frames[i])
      BY <1>1 DEF TriesSound, FramesSound
    <3>2. w.frames[i].voc = 0 /\ v # 0
      BY <1>0, <3>1 DEF FrameFits
    <3> QED
      BY <1>e, <3>1, <3>2 DEF FrameFits
  <2>2. ASSUME NEW k \in K
        PROVE  KindSound(K, P, w', k)
    BY <1>b, <1>c, <1>e DEF KindSound
  <2> QED
    BY <2>1, <2>2 DEF TriesSound
<1>2. /\ w' \in GrowthType(K)
      /\ w'.voc = v /\ w'.level = w.level /\ w'.exp = w.exp /\ w'.healthMax = w.healthMax
      /\ w'.dead = w.dead /\ w'.place = w.place /\ w'.zone = w.zone /\ w'.corpses = w.corpses
      /\ w'.pardoned = w.pardoned /\ w'.killed = w.killed
      /\ v \notin Keeps \cup Wears => w'.loot = "full" /\ w'.loss
  BY <1>0, <1>a, <1>d DEF GrowthType
<1>3. HealthOf(K, P, w', w.level) = HealthOf(K, P, w, w.level)
  <2> DEFINE f == Grow(K, P)!Gains(w')
             g == Grow(K, P)!Gains(w)
  <2>1. /\ MaxLevel \in Nat /\ RookTo \in Int /\ Vocations \subseteq Nat /\ w.level \in 1 .. MaxLevel
    BY <1>1 DEF GrowthAssumption, LevelsSound
  <2>2. ASSUME NEW l \in 1 + 1 .. w.level
        PROVE  f[l] = g[l]
    <3>1. l \in 2 .. MaxLevel /\ l <= RookTo
      BY <1>0, <2>1
    <3>2. f[l] = Gain[IF w'.voc > 0 /\ l <= RookTo THEN 0 ELSE w'.voc]
      BY <3>1 DEF Grow!Gains
    <3>3. g[l] = Gain[IF w.voc > 0 /\ l <= RookTo THEN 0 ELSE w.voc]
      BY <3>1 DEF Grow!Gains
    <3>4. w'.voc > 0
      BY <1>0, <1>2, <2>1
    <3> HIDE DEF f, g
    <3> QED
      BY <1>0, <3>1, <3>2, <3>3, <3>4
  <2>3. SameAbove(f, g, 1, w.level)
    BY <2>2 DEF SameAbove
  <2> HIDE DEF f, g
  <2>4. 1 \in Int /\ w.level \in Int /\ w.level >= 1
    BY <2>1
  <2>5. Grow(K, P)!Total(f, 1, w.level) = Grow(K, P)!Total(g, 1, w.level)
    BY <2>3, <2>4, TotalSame
  <2> QED
    BY <2>5 DEF HealthOf, f, g
<1>4. LevelsSound(K, P, w')
  BY <1>1, <1>2, <1>3 DEF LevelsSound
<1>5. DeathsSound(w')
  <2>1. w.voc \notin Keeps \cup Wears
    BY <1>0 DEF GrowthAssumption
  <2>2. Alive(w)
    BY <1>0, <2>1 DEF GrowthSound, DeathsSound
  <2>3. w'.corpses = 0
    BY <1>2, <2>2 DEF Alive
  <2> QED
    BY <1>2, <2>3 DEF DeathsSound, Alive
<1> QED
  BY <1>2, <1>4, <1>5, <1>f DEF GrowthSound

\* What is worn, where he is, what blesses him.
LEMMA PerilsSound ==
  ASSUME NEW K, NEW P, GrowthAssumption, GrowthSound(K, P, w), NEW t \in GrowthType(K),
         SameLevels(w, t), SameTries(w, t), DeathsSound(t)
  PROVE  GrowthSound(K, P, t)
BY LevelsCarry, TriesCarry DEF GrowthSound

LEMMA OutingSound ==
  ASSUME NEW K, NEW P, GrowthAssumption, GrowthSound(K, P, w),
         \/ \E c \in {"loss", "drop"} : Grow(K, P)!Wear(c)
         \/ \E z \in {"open", "hardcore"}, red \in BOOLEAN : Grow(K, P)!Enter(z, red)
         \/ \E b \in {"pvp", "other"} : Grow(K, P)!Bless(b)
  PROVE  GrowthSound(K, P, w')
<1>1. w \in GrowthType(K) /\ DeathsSound(w)
  BY DEF GrowthSound
<1>2. ASSUME NEW c \in {"loss", "drop"}, Grow(K, P)!Wear(c)
      PROVE  GrowthSound(K, P, w')
  <2>1. w' = [w EXCEPT !.worn = @ \cup {c}]
    BY <1>2 DEF Grow!Wear
  <2>2. w' \in GrowthType(K) /\ SameLevels(w, w') /\ SameTries(w, w') /\ SameDeath(w, w')
    BY <1>1, <2>1 DEF GrowthType, SameLevels, SameTries, SameTallies, SameDeath
  <2>3. DeathsSound(w')
    BY <1>1, <2>2, DeathsCarry
  <2> QED
    BY <2>2, <2>3, PerilsSound
<1>3. ASSUME NEW z \in {"open", "hardcore"}, NEW red \in BOOLEAN, Grow(K, P)!Enter(z, red)
      PROVE  GrowthSound(K, P, w')
  <2>1. w' = [w EXCEPT !.zone = z, !.red = red]
    BY <1>3 DEF Grow!Enter
  <2>2. w' \in GrowthType(K)
    BY <1>1, <2>1 DEF GrowthType
  <2>3. SameLevels(w, w') /\ SameTries(w, w')
    BY <1>1, <2>1 DEF GrowthType, SameLevels, SameTries, SameTallies
  <2>4. /\ w'.voc = w.voc /\ w'.place = w.place /\ w'.corpses = w.corpses /\ w'.loot = w.loot
        /\ w'.loss = w.loss /\ w'.pardoned = w.pardoned /\ w'.killed = w.killed
    BY <1>1, <2>1 DEF GrowthType
  <2>5. DeathsSound(w')
    BY <1>1, <2>4 DEF DeathsSound, Alive
  <2> QED
    BY <2>2, <2>3, <2>5, PerilsSound
<1>4. ASSUME NEW b \in {"pvp", "other"}, Grow(K, P)!Bless(b)
      PROVE  GrowthSound(K, P, w')
  <2>1. w' = [w EXCEPT !.blessings = @ \cup {b}]
    BY <1>4 DEF Grow!Bless
  <2>2. w' \in GrowthType(K) /\ SameLevels(w, w') /\ SameTries(w, w') /\ SameDeath(w, w')
    BY <1>1, <2>1 DEF GrowthType, SameLevels, SameTries, SameTallies, SameDeath
  <2>3. DeathsSound(w')
    BY <1>1, <2>2, DeathsCarry
  <2> QED
    BY <2>2, <2>3, PerilsSound
<1> QED
  BY <1>2, <1>3, <1>4

LEMMA HealthSound ==
  ASSUME NEW K, NEW P, GrowthAssumption, GrowthSound(K, P, w),
         Grow(K, P)!Slain \/ Grow(K, P)!Heal
  PROVE  GrowthSound(K, P, w')
<1>1. w \in GrowthType(K) /\ DeathsSound(w)
  BY DEF GrowthSound
<1>2. w' = [w EXCEPT !.dead = TRUE] \/ w' = [w EXCEPT !.dead = FALSE, !.corpses = 0]
  BY DEF Grow!Slain, Grow!Heal
<1>3. /\ w' \in GrowthType(K)
      /\ w'.voc = w.voc /\ w'.place = w.place /\ w'.corpses \in {w.corpses, 0} /\ w'.loot = w.loot
      /\ w'.loss = w.loss /\ w'.pardoned = w.pardoned /\ w'.killed = w.killed
  <2>1. CASE w' = [w EXCEPT !.dead = TRUE]
    BY <1>1, <2>1 DEF GrowthType
  <2>2. CASE w' = [w EXCEPT !.dead = FALSE, !.corpses = 0]
    <3>1. 0 \in 0 .. 2
      OBVIOUS
    <3> QED
      BY <1>1, <2>2, <3>1 DEF GrowthType
  <2> QED
    BY <1>2, <2>1, <2>2
<1>4. SameLevels(w, w') /\ SameTries(w, w')
  BY <1>1, <1>2 DEF GrowthType, SameLevels, SameTries, SameTallies
<1>5. DeathsSound(w')
  BY <1>1, <1>3 DEF DeathsSound, Alive
<1> QED
  BY <1>3, <1>4, <1>5, PerilsSound

-----------------------------------------------------------------------------
(* What a death does.                                                        *)

LEMMA LowerOfTwo ==
  ASSUME NEW K, NEW P, NEW a \in Int, NEW b \in Int
  PROVE  Grow(K, P)!Min({a, b}) = IF a <= b THEN a ELSE b
<1>1. CASE a <= b
  <2>1. \A m \in {a, b} : (\A x \in {a, b} : m <= x) <=> m = a
    BY <1>1
  <2> QED
    BY <1>1, <2>1 DEF Grow!Min
<1>2. CASE ~(a <= b)
  <2>1. \A m \in {a, b} : (\A x \in {a, b} : m <= x) <=> m = b
    BY <1>2
  <2> QED
    BY <1>2, <2>1 DEF Grow!Min
<1> QED
  BY <1>1, <1>2

\* What is left alone when his loot is decided.
SameCorpse(s, t) ==
  /\ SameLevels(s, t) /\ SameTries(s, t) /\ t.dead = s.dead /\ t.place = s.place
  /\ t.zone = s.zone /\ t.corpses = s.corpses /\ t.pardoned = s.pardoned /\ t.killed = s.killed

LEMMA LootMoves ==
  ASSUME NEW K, NEW s, s \in GrowthType(K), NEW l, l \in {"full", "prevent", "none"},
         NEW t, t = [s EXCEPT !.loot = l, !.loss = FALSE]
  PROVE  t \in GrowthType(K) /\ SameCorpse(s, t) /\ t.loot = l /\ ~t.loss
BY DEF GrowthType, SameCorpse, SameLevels, SameTries, SameTallies

LEMMA LootAlone ==
  ASSUME NEW K, NEW s, s \in GrowthType(K), NEW l, l \in {"full", "prevent", "none"},
         NEW t, t = [s EXCEPT !.loot = l]
  PROVE  t \in GrowthType(K) /\ SameCorpse(s, t) /\ t.loot = l /\ t.loss = s.loss
BY DEF GrowthType, SameCorpse, SameLevels, SameTries, SameTallies

LEMMA PreparedIs ==
  ASSUME NEW K, NEW P, NEW s, s \in GrowthType(K), NEW t, t = Grow(K, P)!Prepared(s)
  PROVE  /\ t \in GrowthType(K) /\ SameCorpse(s, t)
         /\ s.zone = "hardcore" => ~t.loss
         /\ s.zone # "hardcore" => t.loss = s.loss
         /\ s.zone # "hardcore" /\ ~Grow(K, P)!PreventDrop(s) => t.loot = s.loot
         /\ s.voc \notin Keeps \cup Wears /\ s.zone = "hardcore" => t.loot = "none"
<1>1. CASE s.zone = "hardcore"
  <2> DEFINE l == Grow(K, P)!Loot(s.voc, "none")
  <2>1. l \in {"full", "prevent", "none"} /\ (s.voc \notin Keeps \cup Wears => l = "none")
    BY LootIs
  <2>2. t = [s EXCEPT !.loot = l, !.loss = FALSE]
    BY <1>1 DEF Grow!Prepared
  <2> HIDE DEF l
  <2>3. t \in GrowthType(K) /\ SameCorpse(s, t) /\ t.loot = l /\ ~t.loss
    BY <2>1, <2>2, LootMoves
  <2> QED
    BY <1>1, <2>1, <2>3
<1>2. CASE s.zone # "hardcore" /\ Grow(K, P)!PreventDrop(s)
  <2> DEFINE l == Grow(K, P)!Loot(s.voc, "prevent")
  <2>1. l \in {"full", "prevent", "none"}
    BY LootIs
  <2>2. t = [s EXCEPT !.loot = l]
    BY <1>2 DEF Grow!Prepared
  <2> HIDE DEF l
  <2>3. t \in GrowthType(K) /\ SameCorpse(s, t) /\ t.loot = l /\ t.loss = s.loss
    BY <2>1, <2>2, LootAlone
  <2> QED
    BY <1>2, <2>3
<1>3. CASE s.zone # "hardcore" /\ ~Grow(K, P)!PreventDrop(s)
  <2>1. t = s
    BY <1>3 DEF Grow!Prepared
  <2> QED
    BY <1>3, <2>1 DEF SameCorpse, SameLevels, SameTries, SameTallies
<1> QED
  BY <1>1, <1>2, <1>3

LEMMA KilledByIs ==
  ASSUME NEW K, NEW P, NEW s, s \in GrowthType(K), NEW noLoot \in BOOLEAN,
         NEW t, t = Grow(K, P)!KilledBy(s, noLoot)
  PROVE  /\ t \in GrowthType(K) /\ SameCorpse(s, t) /\ t.loss = s.loss
         /\ ~noLoot => t.loot = s.loot
         /\ s.voc \notin Keeps \cup Wears => t.loot \in {s.loot, "none"}
<1>1. CASE noLoot
  <2> DEFINE l == Grow(K, P)!Loot(s.voc, "none")
  <2>1. l \in {"full", "prevent", "none"} /\ (s.voc \notin Keeps \cup Wears => l = "none")
    BY LootIs
  <2>2. t = [s EXCEPT !.loot = l]
    BY <1>1 DEF Grow!KilledBy
  <2> HIDE DEF l
  <2>3. t \in GrowthType(K) /\ SameCorpse(s, t) /\ t.loot = l /\ t.loss = s.loss
    BY <2>1, <2>2, LootAlone
  <2> QED
    BY <1>1, <2>1, <2>3
<1>2. CASE ~noLoot
  <2>1. t = s
    BY <1>2 DEF Grow!KilledBy
  <2> QED
    BY <2>1 DEF SameCorpse, SameLevels, SameTries, SameTallies
<1> QED
  BY <1>1, <1>2

\* Who keeps his experience has nothing to fear for his things either.
Spared(s) == s.voc \notin Keeps \cup Wears => (~s.loss => s.loot = "none")

LEMMA SparedFirst ==
  ASSUME NEW K, NEW P, NEW s, s \in GrowthType(K), Spared(s), NEW noLoot \in BOOLEAN,
         NEW t, t = Grow(K, P)!KilledBy(Grow(K, P)!Prepared(s), noLoot)
  PROVE  t \in GrowthType(K) /\ SameCorpse(s, t) /\ Spared(t)
<1> DEFINE p == Grow(K, P)!Prepared(s)
<1>1. /\ p \in GrowthType(K) /\ SameCorpse(s, p)
      /\ s.zone = "hardcore" => ~p.loss
      /\ s.zone # "hardcore" => p.loss = s.loss
      /\ s.zone # "hardcore" /\ ~Grow(K, P)!PreventDrop(s) => p.loot = s.loot
      /\ s.voc \notin Keeps \cup Wears /\ s.zone = "hardcore" => p.loot = "none"
  BY PreparedIs
<1> HIDE DEF p
<1>2. /\ t \in GrowthType(K) /\ SameCorpse(p, t) /\ t.loss = p.loss
      /\ p.voc \notin Keeps \cup Wears => t.loot \in {p.loot, "none"}
  BY <1>1, KilledByIs DEF p
<1>3. SameCorpse(s, t)
  BY <1>1, <1>2 DEF SameCorpse, SameLevels, SameTries, SameTallies
<1>4. s.loot = "none" => ~Grow(K, P)!PreventDrop(s)
  BY DEF Grow!PreventDrop
<1>5. Spared(p)
  BY <1>1, <1>4 DEF Spared, SameCorpse, SameLevels
<1> QED
  BY <1>1, <1>2, <1>3, <1>5 DEF Spared, SameCorpse, SameLevels

LEMMA DroppedIs ==
  ASSUME NEW K, NEW P, NEW s, s \in GrowthType(K), Spared(s), NEW amulet \in BOOLEAN,
         NEW t, t = Grow(K, P)!Dropped(s, amulet)
  PROVE  /\ t \in GrowthType(K) /\ SameLevels(s, t) /\ SameTries(s, t) /\ t.place = s.place
         /\ s.voc \notin Keeps \cup Wears /\ s.corpses = 0 =>
              /\ t.corpses <= 1
              /\ ~t.loss => t.loot = "full" /\ t.corpses = 0
<1>1. CASE s.loot = "none"
  <2> DEFINE l == Grow(K, P)!Loot(s.voc, "full")
  <2>1. l \in {"full", "prevent", "none"} /\ (s.voc \notin Keeps \cup Wears => l = "full")
    BY LootIs
  <2>2. t = [s EXCEPT !.dead = FALSE, !.corpses = 0, !.zone = "open", !.loot = l]
    BY <1>1 DEF Grow!Dropped
  <2> HIDE DEF l
  <2>3. 0 \in 0 .. 2 /\ 0 <= 1
    OBVIOUS
  <2>4. t \in GrowthType(K)
    BY <2>1, <2>2, <2>3 DEF GrowthType
  <2>5. SameLevels(s, t) /\ SameTries(s, t) /\ t.place = s.place /\ t.corpses = 0 /\ t.loot = l
    BY <2>2 DEF GrowthType, SameLevels, SameTries, SameTallies
  <2> QED
    BY <2>1, <2>3, <2>4, <2>5
<1>2. CASE s.loot # "none"
  <2> DEFINE c == Grow(K, P)!Min({2, s.corpses + 1})
             l == IF amulet THEN Grow(K, P)!Loot(s.voc, "none") ELSE s.loot
  <2>1. l \in {"full", "prevent", "none"}
    BY LootIs DEF GrowthType
  <2>2. t = [s EXCEPT !.corpses = c, !.loot = l]
    BY <1>2 DEF Grow!Dropped
  <2>3. c \in 0 .. 2 /\ (s.corpses = 0 => c <= 1)
    <3>1. s.corpses \in 0 .. 2
      BY DEF GrowthType
    <3>2. 2 \in Int /\ s.corpses + 1 \in Int
      BY <3>1
    <3>3. c = IF 2 <= s.corpses + 1 THEN 2 ELSE s.corpses + 1
      BY <3>2, LowerOfTwo
    <3> HIDE DEF c
    <3> QED
      BY <3>1, <3>3
  <2> HIDE DEF c, l
  <2>4. t \in GrowthType(K)
    BY <2>1, <2>2, <2>3 DEF GrowthType
  <2>5. /\ SameLevels(s, t) /\ SameTries(s, t) /\ t.place = s.place /\ t.corpses = c
        /\ t.loss = s.loss
    BY <2>2 DEF GrowthType, SameLevels, SameTries, SameTallies
  <2> QED
    BY <1>2, <2>3, <2>4, <2>5 DEF Spared
<1> QED
  BY <1>1, <1>2

LEMMA LostIs ==
  ASSUME NEW K, K \subseteq Talents, NEW P, GrowthAssumption, NEW s, s \in GrowthType(K),
         LevelsSound(K, P, s), TriesSound(K, P, s), s.frames = <<>>,
         NEW exp \in Nat, NEW share \in Nat, NEW t, t = Grow(K, P)!Lost(s, exp, share)
  PROVE  /\ t \in GrowthType(K) /\ LevelsSound(K, P, t) /\ TriesSound(K, P, t)
         /\ t.frames = <<>> /\ SameDeath(s, t)
<1>v. PICK v \in Vocations : v = s.voc
  BY DEF GrowthType
<1> DEFINE r == Grow(K, P)!Removed(s, exp)
           n(k) == Grow(K, P)!Min({share, Grow(K, P)!Spent(v, k, s.tally[k])})
           tally == [k \in K |-> Grow(K, P)!Lowered(v, k, s.tally[k], n(k))]
           given == [k \in K |-> s.given[k] - n(k)]
           over == {k \in s.overpaid : Grow(K, P)!Reaches(v, k, tally[k])}
<1>1. r \in GrowthType(K) /\ LevelsSound(K, P, r) /\ SameTries(s, r) /\ SameDeath(s, r)
  BY RemovedIs
<1>2. t = [r EXCEPT !.tally = tally, !.given = given, !.overpaid = over]
  <2>1. r.tally = s.tally /\ r.given = s.given /\ r.overpaid = s.overpaid
    BY <1>1 DEF SameTries, SameTallies
  <2>2. t = [r EXCEPT !.tally = tally, !.given = [k \in K |-> r.given[k] - n(k)],
                      !.overpaid = {k \in r.overpaid : Grow(K, P)!Reaches(v, k, tally[k])}]
    BY <1>v DEF Grow!Lost
  <2> HIDE DEF r, tally, n
  <2> QED
    BY <2>1, <2>2
<1>3. ASSUME NEW k \in K
      PROVE  /\ tally[k] \in TallyRecord /\ given[k] \in Int
             /\ tally[k].level \in Least[k] .. LastOf(v, k) /\ (k \in over \/ Done(v, k, tally[k]))
             /\ Grow(K, P)!Spent(v, k, tally[k]) = given[k]
  <2> DEFINE last == LastOf(v, k)
             a == s.tally[k]
             m == n(k)
             b == tally[k]
  <2>1. Table(v, k, last) /\ Least[k] \in Nat
    BY LastOfIs
  <2>2. KindSound(K, P, s, k)
    BY DEF TriesSound
  <2>4. a \in TallyRecord /\ a.level \in Least[k] .. last
    BY <1>v, <2>2 DEF KindSound, GrowthType
  <2>5. k \in s.overpaid \/ Done(v, k, a)
    BY <1>v, <2>2 DEF KindSound
  <2>6. PendingOf(K, P, s.frames, k) = 0
    BY PendingNone
  <2>7. s.given[k] = Grow(K, P)!Spent(v, k, a) + 0
    BY <1>v, <2>2, <2>6 DEF KindSound
  <2> HIDE DEF a, last
  <2>8. Grow(K, P)!Spent(v, k, a) \in Nat
    BY <2>1, <2>4, SpentType
  <2>9. m \in Nat /\ m <= Grow(K, P)!Spent(v, k, a)
    <3>1. m = IF share <= Grow(K, P)!Spent(v, k, a) THEN share ELSE Grow(K, P)!Spent(v, k, a)
      <4>1. share \in Int /\ Grow(K, P)!Spent(v, k, a) \in Int
        BY <2>8
      <4>2. m = Grow(K, P)!Min({share, Grow(K, P)!Spent(v, k, a)})
        BY DEF a
      <4> HIDE DEF m
      <4> QED
        BY <4>1, <4>2, LowerOfTwo
    <3> HIDE DEF m
    <3> QED
      BY <2>8, <3>1
  <2>10. b = Grow(K, P)!Lowered(v, k, a, m)
    BY DEF a
  <2>11. given[k] = Grow(K, P)!Spent(v, k, a) - m
    <3>1. given[k] = s.given[k] - m
      OBVIOUS
    <3> HIDE DEF m, given
    <3> QED
      BY <2>7, <2>8, <3>1
  <2>14. k \in s.overpaid => k \in over \/ ~Grow(K, P)!Reaches(v, k, b)
    OBVIOUS
  <2> HIDE DEF m, b
  <2>12. /\ TallySound(v, k, b) /\ (Done(v, k, a) => Done(v, k, b))
         /\ Grow(K, P)!Spent(v, k, b) = Grow(K, P)!Spent(v, k, a) - m
    <3>1. TallySound(v, k, a)
      BY <2>4 DEF TallySound, last
    <3>2. Payable(K, P, v, k, a, m)
      BY <2>9 DEF Payable
    <3>3. k \in Talents
      OBVIOUS
    <3> QED
      BY <2>10, <3>1, <3>2, <3>3, LoweredIs
  <2>13. given[k] \in Int
    BY <2>8, <2>9, <2>11
  <2>15. k \in over \/ Done(v, k, b)
    <3>1. CASE Done(v, k, a)
      BY <2>12, <3>1
    <3>2. CASE ~Done(v, k, a)
      <4>1. Req[v][k][b.level + 1] \in Nat /\ b.tries \in Nat
        BY <2>1, <2>12, NextIs DEF TallySound, TallyRecord, last
      <4>2. k \in over \/ ~Grow(K, P)!Reaches(v, k, b)
        BY <2>5, <2>14, <3>2
      <4> HIDE DEF over
      <4> QED
        BY <4>1, <4>2 DEF Grow!Reaches, Done
    <3> QED
      BY <3>1, <3>2
  <2> HIDE DEF over, given
  <2> QED
    BY <2>11, <2>12, <2>13, <2>15 DEF b, TallySound
<1>4. tally \in [K -> TallyRecord] /\ given \in [K -> Int] /\ over \in SUBSET K
  <2>1. tally \in [K -> TallyRecord]
    BY <1>3
  <2>2. given \in [K -> Int]
    BY <1>3
  <2>3. over \in SUBSET K
    BY DEF GrowthType
  <2> QED
    BY <2>1, <2>2, <2>3
<1>5. /\ t.tally = tally /\ t.given = given /\ t.frames = <<>> /\ t.overpaid = over /\ t.voc = v
      /\ SameLevels(r, t) /\ SameDeath(r, t)
  <2>1. r.frames = <<>>
    BY <1>1 DEF SameTries, SameTallies
  <2>2. r.voc = v
    BY <1>1, <1>v DEF SameDeath
  <2> HIDE DEF r, tally, given, over
  <2> QED
    BY <1>1, <1>2, <2>1, <2>2 DEF GrowthType, SameLevels, SameDeath
<1> HIDE DEF r, n, tally, given, over
<1>6. t \in GrowthType(K)
  BY <1>1, <1>2, <1>4 DEF GrowthType
<1>7. LevelsSound(K, P, t)
  BY <1>1, <1>5, LevelsCarry
<1>8. TriesSound(K, P, t)
  <2>1. FramesSound(t)
    <3>1. Len(t.frames) = 0
      BY <1>5
    <3> QED
      BY <3>1 DEF FramesSound
  <2>2. ASSUME NEW k \in K
        PROVE  KindSound(K, P, t, k)
    <3>1. PendingOf(K, P, t.frames, k) = 0
      BY <1>5, PendingNone
    <3>2. /\ given[k] \in Int /\ tally[k].level \in Least[k] .. LastOf(v, k) /\ (k \in over \/ Done(v, k, tally[k]))
          /\ Grow(K, P)!Spent(v, k, tally[k]) = given[k]
      BY <1>3
    <3>3. Grow(K, P)!Spent(v, k, tally[k]) + 0 = given[k]
      BY <3>2
    <3> QED
      BY <1>5, <3>1, <3>2, <3>3 DEF KindSound
  <2> QED
    BY <2>1, <2>2 DEF TriesSound
<1> QED
  BY <1>1, <1>5, <1>6, <1>7, <1>8 DEF SameDeath

\* Of who cannot die again before he is loaded anew.
OneCorpse(s) == s.voc \notin Keeps \cup Wears => s.corpses <= 1

LEMMA RookedIs ==
  ASSUME NEW K, K \subseteq Talents, NEW P, GrowthAssumption, NEW s, s \in GrowthType(K),
         LevelsSound(K, P, s), TriesSound(K, P, s), s.frames = <<>>, OneCorpse(s),
         NEW t, t = Grow(K, P)!Rooked(s)
  PROVE  t \in GrowthType(K) /\ LevelsSound(K, P, t) /\ TriesSound(K, P, t) /\ OneCorpse(t)
<1>1. CASE s.voc > 0 /\ s.level <= RookAgain
  <2> DEFINE x == Grow(K, P)!Taught(s, 0)
             tally == [k \in K |-> [level |-> Least[k], tries |-> 0]]
             given == [k \in K |-> 0]
             c == IF s.voc \in Keeps \cup Wears THEN 0 ELSE s.corpses
  <2>1. 0 \in Vocations
    BY DEF GrowthAssumption
  <2>2. x \in GrowthType(K) /\ SameTallies(s, x) /\ x.voc = 0 /\ x.corpses = s.corpses
    BY <2>1, TaughtIs
  <2>3. t = [x EXCEPT !.level = 1, !.exp = 0, !.healthMax = Grow(K, P)!Start, !.tally = tally,
                      !.given = given, !.overpaid = {}, !.worn = {}, !.corpses = c]
    <3>1. t = [x EXCEPT !.level = 1, !.exp = 0, !.healthMax = Grow(K, P)!Start, !.tally = tally,
                        !.given = given, !.overpaid = {}, !.worn = {},
                        !.corpses = IF s.voc \in Keeps \cup Wears THEN 0 ELSE x.corpses]
      BY <1>1 DEF Grow!Rooked
    <3> HIDE DEF x, tally, given
    <3> QED
      BY <2>2, <3>1
  <2>4. c \in 0 .. 2 /\ c <= 1
    <3>1. s.corpses \in 0 .. 2
      BY DEF GrowthType
    <3> QED
      BY <3>1 DEF OneCorpse
  <2> HIDE DEF x, c
  <2>5. /\ t.voc = 0 /\ t.level = 1 /\ t.exp = 0 /\ t.healthMax = Grow(K, P)!Start
        /\ t.tally = tally /\ t.given = given /\ t.corpses = c /\ t.frames = <<>>
        /\ t.overpaid = {}
    <3>1. x.frames = <<>>
      BY <2>2 DEF SameTallies
    <3> HIDE DEF tally, given
    <3> QED
      BY <2>2, <2>3, <3>1 DEF GrowthType
  <2>6. Blank(K, t)
    BY <2>5 DEF Blank
  <2>8. t.voc \in Vocations
    BY <2>1, <2>5
  <2>7. TriesSound(K, P, t) /\ t.tally \in [K -> TallyRecord] /\ t.given \in [K -> Int]
    BY <2>6, <2>8, BlankSound
  <2>9. LevelsSound(K, P, t)
    BY <2>5, <2>8, FirstLevel
  <2>10. t \in GrowthType(K)
    <3> DEFINE y == [x EXCEPT !.level = 1, !.exp = 0, !.healthMax = Grow(K, P)!Start]
               z == [y EXCEPT !.tally = tally, !.given = given, !.overpaid = {}]
    <3>1. y \in GrowthType(K)
      <4>1. 1 \in Nat /\ 0 \in Nat /\ Grow(K, P)!Start \in Int
        BY DEF Grow!Start
      <4> QED
        BY <2>2, <4>1 DEF GrowthType
    <3>2. tally \in [K -> TallyRecord] /\ given \in [K -> Int]
      BY <2>5, <2>7
    <3>3. t = [z EXCEPT !.worn = {}, !.corpses = c]
      <4> HIDE DEF tally, given
      <4> QED
        BY <2>2, <2>3 DEF GrowthType
    <3> HIDE DEF tally, given, y
    <3>4. z \in GrowthType(K)
      BY <3>1, <3>2 DEF GrowthType
    <3> HIDE DEF z
    <3> QED
      BY <2>4, <3>3, <3>4 DEF GrowthType
  <2> QED
    BY <2>4, <2>5, <2>7, <2>9, <2>10 DEF OneCorpse
<1>2. CASE ~(s.voc > 0 /\ s.level <= RookAgain)
  <2>1. t = s
    BY <1>2 DEF Grow!Rooked
  <2> QED
    BY <2>1
<1> QED
  BY <1>1, <1>2

LEMMA GoneIs ==
  ASSUME NEW K, NEW P, NEW s, s \in GrowthType(K), LevelsSound(K, P, s), TriesSound(K, P, s),
         OneCorpse(s), NEW t, t = Grow(K, P)!Gone(s)
  PROVE  GrowthSound(K, P, t)
<1>1. t = [s EXCEPT !.place = "away"]
  BY DEF Grow!Gone
<1>2. /\ t \in GrowthType(K) /\ SameLevels(s, t) /\ SameTries(s, t)
      /\ t.place = "away" /\ t.corpses = s.corpses
  BY <1>1 DEF GrowthType, SameLevels, SameTries, SameTallies
<1>3. DeathsSound(t)
  BY <1>2 DEF DeathsSound, OneCorpse, SameLevels
<1>4. LevelsSound(K, P, t)
  BY <1>2, LevelsCarry
<1>5. TriesSound(K, P, t)
  BY <1>2, TriesCarry
<1> QED
  BY <1>2, <1>3, <1>4, <1>5 DEF GrowthSound

\* What a death has done before what he loses is decided.
Settled(s) ==
  s.voc \notin Keeps \cup Wears =>
     s.corpses <= 1 /\ (~s.loss => s.loot = "full" /\ s.corpses = 0)

LEMMA DeadSound ==
  ASSUME NEW K, K \subseteq Talents, NEW P, GrowthAssumption, GrowthSound(K, P, w), w.frames = <<>>,
         NEW p, p \in GrowthType(K), SameLevels(w, p), SameTries(w, p), Settled(p),
         NEW pvp \in BOOLEAN, NEW exp \in Nat, NEW share \in Nat,
         NEW t, t = Grow(K, P)!Dead(p, pvp, exp, share)
  PROVE  GrowthSound(K, P, t)
<1> DEFINE C == Grow(K, P)!PreventLoss(w)
           B == pvp /\ "pvp" \in w.blessings /\ ~C
           U == (IF C THEN {"loss"} ELSE {})
                  \cup (IF Grow(K, P)!PreventDrop(w) /\ ~B THEN {"drop"} ELSE {})
           worn == p.worn \ U
           loss == p.loss /\ ~C
           q == [p EXCEPT !.worn = worn, !.loss = loss]
           x == Grow(K, P)!Lost(q, exp, share)
           blessings == IF B THEN x.blessings \ {"pvp"} ELSE x.blessings \cap {"pvp"}
           y == [x EXCEPT !.blessings = blessings]
           kept == Grow(K, P)!Loss(q.voc, TRUE)
           r == [q EXCEPT !.loss = kept, !.pardoned = FALSE, !.killed = FALSE]
<1>1. t = IF q.loss THEN Grow(K, P)!Gone(Grow(K, P)!Rooked(y))
                    ELSE IF C THEN Grow(K, P)!Gone(r) ELSE r
  BY DEF Grow!Dead
<1>2. worn \in SUBSET {"loss", "drop"} /\ loss \in BOOLEAN
  BY DEF GrowthType
<1>3. loss => p.loss
  OBVIOUS
<1>4. ~loss => C \/ ~p.loss
  OBVIOUS
<1> HIDE DEF worn, loss
<1>5. q \in GrowthType(K)
  BY <1>2 DEF GrowthType
<1>6. /\ SameLevels(p, q) /\ SameTries(p, q) /\ q.corpses = p.corpses /\ q.loot = p.loot
      /\ q.place = p.place /\ q.loss = loss
  BY DEF GrowthType, SameLevels, SameTries, SameTallies
<1>7. LevelsSound(K, P, q) /\ TriesSound(K, P, q) /\ q.frames = <<>>
  <2>1. LevelsSound(K, P, p) /\ TriesSound(K, P, p)
    BY LevelsCarry, TriesCarry DEF GrowthSound
  <2> HIDE DEF q
  <2>2. q.frames = <<>>
    BY <1>6 DEF SameTries, SameTallies
  <2> QED
    BY <1>6, <2>1, <2>2, LevelsCarry, TriesCarry
<1>8. OneCorpse(q)
  BY <1>6 DEF Settled, OneCorpse, SameLevels
<1> HIDE DEF q
<1>9. CASE q.loss
  <2>1. /\ x \in GrowthType(K) /\ LevelsSound(K, P, x) /\ TriesSound(K, P, x)
        /\ x.frames = <<>> /\ SameDeath(q, x)
    BY <1>5, <1>7, LostIs
  <2> HIDE DEF x
  <2>2. blessings \in SUBSET {"pvp", "other"}
    BY <2>1 DEF GrowthType
  <2> HIDE DEF blessings
  <2>3. y \in GrowthType(K)
    BY <2>1, <2>2 DEF GrowthType
  <2>4. SameLevels(x, y) /\ SameTries(x, y) /\ SameDeath(x, y)
    BY <2>1 DEF GrowthType, SameLevels, SameTries, SameTallies, SameDeath
  <2> HIDE DEF y
  <2>5. LevelsSound(K, P, y)
    BY <2>1, <2>4, LevelsCarry
  <2>6. TriesSound(K, P, y)
    BY <2>1, <2>4, TriesCarry
  <2>7. y.frames = <<>>
    BY <2>1, <2>4 DEF SameTries, SameTallies
  <2>8. OneCorpse(y)
    BY <1>8, <2>1, <2>4 DEF OneCorpse, SameDeath
  <2> DEFINE z == Grow(K, P)!Rooked(y)
  <2>9. z \in GrowthType(K) /\ LevelsSound(K, P, z) /\ TriesSound(K, P, z) /\ OneCorpse(z)
    BY <2>3, <2>5, <2>6, <2>7, <2>8, RookedIs
  <2>10. t = Grow(K, P)!Gone(z)
    BY <1>1, <1>9
  <2> HIDE DEF z
  <2> QED
    BY <2>9, <2>10, GoneIs
<1>10. CASE ~q.loss
  <2>0. q.voc \notin Keeps \cup Wears => kept = TRUE
    BY LootIs
  <2>1. kept \in BOOLEAN
    BY LootIs
  <2> HIDE DEF kept
  <2>2. r \in GrowthType(K)
    BY <1>5, <2>1 DEF GrowthType
  <2>3. /\ SameLevels(q, r) /\ SameTries(q, r) /\ r.corpses = q.corpses /\ r.loot = q.loot
        /\ r.place = q.place /\ r.loss = kept /\ ~r.pardoned /\ ~r.killed
    BY <1>5 DEF GrowthType, SameLevels, SameTries, SameTallies
  <2> HIDE DEF r
  <2>4. LevelsSound(K, P, r)
    BY <1>7, <2>3, LevelsCarry
  <2>5. TriesSound(K, P, r)
    BY <1>7, <2>3, TriesCarry
  <2>6. CASE C
    <3>1. OneCorpse(r)
      BY <1>8, <2>3 DEF OneCorpse, SameLevels
    <3>2. t = Grow(K, P)!Gone(r)
      BY <1>1, <1>10, <2>6
    <3> QED
      BY <2>2, <2>4, <2>5, <3>1, <3>2, GoneIs
  <2>7. CASE ~C
    <3>1. t = r
      BY <1>1, <1>10, <2>7
    <3>2. ~p.loss
      BY <1>4, <1>6, <1>10, <2>7
    <3>3. r.voc = p.voc /\ r.voc = q.voc
      BY <1>6, <2>3 DEF SameLevels
    <3>4. r.voc \notin Keeps \cup Wears => r.loot = "full" /\ r.corpses = 0 /\ r.loss
      BY <1>6, <2>0, <2>3, <3>2, <3>3 DEF Settled
    <3>5. DeathsSound(r)
      BY <3>4 DEF DeathsSound, Alive
    <3> QED
      BY <2>2, <2>4, <2>5, <3>1, <3>5 DEF GrowthSound
  <2> QED
    BY <2>6, <2>7
<1> QED
  BY <1>9, <1>10

LEMMA OnDeathSound ==
  ASSUME NEW K, K \subseteq Talents, NEW P, GrowthAssumption, GrowthSound(K, P, w),
         NEW noLoot \in BOOLEAN, NEW amulet \in BOOLEAN, NEW pvp \in BOOLEAN,
         NEW exp \in Nat, NEW share \in Nat, Grow(K, P)!OnDeath(noLoot, amulet, pvp, exp, share)
  PROVE  GrowthSound(K, P, w')
<1> DEFINE s == Grow(K, P)!KilledBy(Grow(K, P)!Prepared(w), noLoot)
           p == Grow(K, P)!Dropped(s, amulet)
<1>1. w.place = "world" /\ w.frames = <<>> /\ w' = Grow(K, P)!Dead(p, pvp, exp, share)
  BY DEF Grow!OnDeath, Grow!Dies, Grow!Idle
<1>2. w \in GrowthType(K) /\ DeathsSound(w)
  BY DEF GrowthSound
<1>3. Spared(w)
  BY <1>1, <1>2 DEF DeathsSound, Alive, Spared
<1>4. s \in GrowthType(K) /\ SameCorpse(w, s) /\ Spared(s)
  BY <1>2, <1>3, SparedFirst
<1> HIDE DEF s
<1>5. /\ p \in GrowthType(K) /\ SameLevels(s, p) /\ SameTries(s, p) /\ p.place = s.place
      /\ s.voc \notin Keeps \cup Wears /\ s.corpses = 0 =>
           /\ p.corpses <= 1
           /\ ~p.loss => p.loot = "full" /\ p.corpses = 0
  BY <1>4, DroppedIs
<1> HIDE DEF p
<1>6. SameLevels(w, p) /\ SameTries(w, p)
  BY <1>4, <1>5 DEF SameCorpse, SameLevels, SameTries, SameTallies
<1>7. Settled(p)
  <2>1. p.voc = w.voc /\ s.voc = w.voc /\ s.corpses = w.corpses
    BY <1>4, <1>6 DEF SameCorpse, SameLevels
  <2>2. w.voc \notin Keeps \cup Wears => w.corpses = 0
    BY <1>1, <1>2 DEF DeathsSound, Alive
  <2> QED
    BY <1>5, <2>1, <2>2 DEF Settled
<1> QED
  BY <1>1, <1>5, <1>6, <1>7, DeadSound

LEMMA RefusedSound ==
  ASSUME NEW K, NEW P, GrowthAssumption, GrowthSound(K, P, w), NEW noLoot \in BOOLEAN,
         Grow(K, P)!Dies, w' = Grow(K, P)!Denied(Grow(K, P)!Prepared(w), noLoot)
  PROVE  GrowthSound(K, P, w')
<1> DEFINE p == Grow(K, P)!Prepared(w)
           s == Grow(K, P)!KilledBy(p, noLoot)
           D == Grow(K, P)!PreventDrop(w)
           full == Grow(K, P)!Loot(w.voc, "full")
           loot == IF D THEN full ELSE s.loot
           pardoned == s.pardoned \/ w.zone = "hardcore"
           killed == s.killed \/ noLoot
<1>1. w \in GrowthType(K) /\ DeathsSound(w) /\ w.place = "world"
  BY DEF GrowthSound, Grow!Dies
<1>2. /\ p \in GrowthType(K) /\ SameCorpse(w, p)
      /\ w.zone = "hardcore" => ~p.loss
      /\ w.zone # "hardcore" => p.loss = w.loss
      /\ w.zone # "hardcore" /\ ~D => p.loot = w.loot
      /\ w.voc \notin Keeps \cup Wears /\ w.zone = "hardcore" => p.loot = "none"
  BY <1>1, PreparedIs
<1>3. D => w.loot = "full" /\ w.zone # "hardcore"
  BY DEF Grow!PreventDrop
<1>4. full \in {"full", "prevent", "none"} /\ (w.voc \notin Keeps \cup Wears => full = "full")
  BY LootIs
<1>5. w' = [s EXCEPT !.loot = loot, !.pardoned = pardoned, !.killed = killed]
  BY DEF Grow!Denied
<1> HIDE DEF p, D, full
<1>6. /\ s \in GrowthType(K) /\ SameCorpse(p, s) /\ s.loss = p.loss
      /\ ~noLoot => s.loot = p.loot
      /\ p.voc \notin Keeps \cup Wears => s.loot \in {p.loot, "none"}
  BY <1>2, KilledByIs
<1> HIDE DEF s
<1>7. loot \in {"full", "prevent", "none"} /\ pardoned \in BOOLEAN /\ killed \in BOOLEAN
  BY <1>4, <1>6 DEF GrowthType
<1>8. /\ D => loot = full
      /\ ~D => loot = s.loot
      /\ ~pardoned => ~s.pardoned /\ w.zone # "hardcore"
      /\ ~killed => ~s.killed /\ ~noLoot
  OBVIOUS
<1> HIDE DEF loot, pardoned, killed
<1>9. w' \in GrowthType(K)
  BY <1>5, <1>6, <1>7 DEF GrowthType
<1>10. /\ SameLevels(s, w') /\ SameTries(s, w') /\ w'.corpses = s.corpses /\ w'.loss = s.loss
       /\ w'.place = s.place /\ w'.loot = loot /\ w'.pardoned = pardoned /\ w'.killed = killed
  BY <1>5, <1>6 DEF GrowthType, SameLevels, SameTries, SameTallies
<1>11. SameCorpse(w, s)
  BY <1>2, <1>6 DEF SameCorpse, SameLevels, SameTries, SameTallies
<1>12. SameLevels(w, w') /\ SameTries(w, w') /\ w'.corpses = w.corpses
  BY <1>10, <1>11 DEF SameCorpse, SameLevels, SameTries, SameTallies
<1>13. DeathsSound(w')
  <2> SUFFICES ASSUME w'.voc \notin Keeps \cup Wears
               PROVE  w'.corpses = 0 /\ Alive(w')
    BY DEF DeathsSound, Alive
  <2>1. w.voc \notin Keeps \cup Wears /\ p.voc = w.voc
    BY <1>2, <1>12 DEF SameLevels, SameCorpse
  <2>2. Alive(w)
    BY <1>1, <2>1 DEF DeathsSound
  <2>3. w'.corpses = 0
    BY <1>12, <2>2 DEF Alive
  <2>4. ~w'.loss => w'.loot = "none"
    <3>1. CASE w.zone = "hardcore"
      BY <1>2, <1>3, <1>6, <1>8, <1>10, <2>1, <3>1
    <3>2. CASE w.zone # "hardcore"
      BY <1>2, <1>3, <1>6, <1>8, <1>10, <2>1, <2>2, <3>2 DEF Alive
    <3> QED
      BY <3>1, <3>2
  <2>5. ASSUME ~w'.pardoned, ~w'.killed
        PROVE  w'.loot = "full" /\ w'.loss
    <3>1. ~s.pardoned /\ ~s.killed /\ w.zone # "hardcore" /\ ~noLoot
      BY <1>8, <1>10, <2>5
    <3>2. ~w.pardoned /\ ~w.killed
      BY <1>11, <3>1 DEF SameCorpse
    <3>3. w.loot = "full" /\ w.loss
      BY <2>2, <3>2 DEF Alive
    <3> QED
      BY <1>2, <1>4, <1>6, <1>8, <1>10, <2>1, <3>1, <3>3
  <2> QED
    BY <2>3, <2>4, <2>5 DEF Alive
<1> QED
  BY <1>9, <1>12, <1>13, PerilsSound

LEMMA LoginSound ==
  ASSUME NEW K, K \subseteq Talents, NEW P, GrowthAssumption, GrowthSound(K, P, w), Grow(K, P)!Login
  PROVE  GrowthSound(K, P, w')
<1>v. PICK v \in Vocations : v = w.voc
  BY DEF GrowthSound, GrowthType
<1> DEFINE x == Grow(K, P)!Taught(w, v)
           tally == [k \in K |-> Grow(K, P)!Loaded(v, k, w.tally[k])]
           dropped(k) == IF k \in w.overpaid THEN w.tally[k].tries - tally[k].tries ELSE 0
           given == [k \in K |-> w.given[k] - dropped(k)]
           over == {k \in w.overpaid : Grow(K, P)!Reaches(v, k, tally[k])}
           y == [x EXCEPT !.tally = tally, !.given = given, !.overpaid = over]
<1>1. w \in GrowthType(K) /\ LevelsSound(K, P, w) /\ TriesSound(K, P, w)
  BY DEF GrowthSound
<1>2. /\ x \in GrowthType(K) /\ SameTallies(w, x)
      /\ x.voc = w.voc /\ x.level = w.level /\ x.exp = w.exp /\ x.healthMax = w.healthMax
      /\ v \notin Keeps \cup Wears => x.loot = "full" /\ x.loss
  BY <1>1, <1>v, TaughtIs
<1>3. w' = [y EXCEPT !.place = "world", !.dead = FALSE, !.corpses = 0, !.zone = "open",
                     !.pardoned = FALSE, !.killed = FALSE]
  <2>1. /\ x.given = w.given /\ x.overpaid = w.overpaid
    BY <1>2 DEF SameTallies
  <2>2. w' = [x EXCEPT !.place = "world", !.dead = FALSE, !.corpses = 0, !.zone = "open",
                       !.pardoned = FALSE, !.killed = FALSE, !.tally = tally,
                       !.given = [k \in K |-> x.given[k] - dropped(k)],
                       !.overpaid = {k \in x.overpaid : Grow(K, P)!Reaches(v, k, tally[k])}]
    BY <1>v DEF Grow!Login
  <2> HIDE DEF x, tally, dropped
  <2>3. w' = [x EXCEPT !.place = "world", !.dead = FALSE, !.corpses = 0, !.zone = "open",
                       !.pardoned = FALSE, !.killed = FALSE, !.tally = tally,
                       !.given = given, !.overpaid = over]
    BY <2>1, <2>2
  <2> HIDE DEF given, over
  <2> QED
    BY <1>2, <2>3 DEF GrowthType
<1> HIDE DEF x
<1>4. ASSUME NEW k \in K
      PROVE  /\ tally[k] \in TallyRecord /\ given[k] \in Int
             /\ tally[k].level = w.tally[k].level /\ tally[k].level \in Least[k] .. LastOf(v, k)
             /\ Grow(K, P)!Spent(v, k, tally[k]) + PendingOf(K, P, w.frames, k) = given[k]
             /\ k \in over \/ Done(v, k, tally[k])
  <2>0. PICK a : a = w.tally[k]
    OBVIOUS
  <2>1. KindSound(K, P, w, k) /\ a \in TallyRecord
    BY <1>1, <2>0 DEF TriesSound, GrowthType
  <2>2. /\ a.level \in Least[k] .. LastOf(v, k) /\ (k \in w.overpaid \/ Done(v, k, a))
        /\ Grow(K, P)!Spent(v, k, a) + PendingOf(K, P, w.frames, k) = w.given[k]
    BY <1>v, <2>0, <2>1 DEF KindSound
  <2>3. Table(v, k, LastOf(v, k)) /\ Least[k] \in Nat
    BY LastOfIs
  <2>4. Req[v][k][a.level + 1] \in Nat /\ a.tries \in Nat /\ w.given[k] \in Int
    BY <1>1, <2>1, <2>2, <2>3, NextIs DEF TallyRecord, GrowthType
  <2>5. PICK b : b = tally[k]
    OBVIOUS
  <2>6. b = IF a.tries > Req[v][k][a.level + 1] THEN [a EXCEPT !.tries = 0] ELSE a
    BY <2>0, <2>5 DEF Grow!Loaded
  <2>7. /\ given[k] = w.given[k] - (IF k \in w.overpaid THEN a.tries - b.tries ELSE 0)
        /\ k \in w.overpaid => k \in over \/ ~Grow(K, P)!Reaches(v, k, b)
    BY <2>0, <2>5
  <2> HIDE DEF tally, given, over
  <2>8. b \in TallyRecord /\ b.level = a.level /\ b.tries \in {0, a.tries}
    BY <2>1, <2>6 DEF TallyRecord
  <2>9. ~(k \in w.overpaid) => b = a
    BY <2>2, <2>4, <2>6 DEF Done
  <2>10. Grow(K, P)!Spent(v, k, a) \in Nat /\ PendingOf(K, P, w.frames, k) \in Nat
    BY <1>1, <2>1, <2>2, <2>3, SpentType, PendingType DEF GrowthType
  <2>11. Grow(K, P)!Spent(v, k, b) = Grow(K, P)!Spent(v, k, a) - (a.tries - b.tries)
    <3>1. PICK n \in Nat : n = a.tries - b.tries
      BY <2>4, <2>8
    <3>2. a.level = b.level /\ a.tries = b.tries + n /\ b.level \in Least[k] .. LastOf(v, k)
          /\ b.tries \in Nat
      BY <2>2, <2>4, <2>8, <3>1
    <3>3. Grow(K, P)!Spent(v, k, a) = Grow(K, P)!Spent(v, k, b) + n
      BY <2>3, <2>8, <3>2, SpentMore
    <3>4. Grow(K, P)!Spent(v, k, b) \in Nat
      BY <2>3, <2>8, <3>2, SpentType
    <3> QED
      BY <3>1, <3>3, <3>4
  <2>12. given[k] \in Int /\ Grow(K, P)!Spent(v, k, b) + PendingOf(K, P, w.frames, k) = given[k]
    <3>1. CASE k \in w.overpaid
      BY <2>2, <2>4, <2>7, <2>8, <2>10, <2>11, <3>1
    <3>2. CASE k \notin w.overpaid
      BY <2>2, <2>4, <2>7, <2>9, <3>2
    <3> QED
      BY <3>1, <3>2
  <2>13. k \in over \/ Done(v, k, b)
    <3>1. CASE k \in w.overpaid
      BY <2>4, <2>7, <2>8, <3>1 DEF Grow!Reaches, Done
    <3>2. CASE k \notin w.overpaid
      BY <2>2, <2>9, <3>2
    <3> QED
      BY <3>1, <3>2
  <2> QED
    BY <2>0, <2>2, <2>5, <2>8, <2>12, <2>13
<1>5. tally \in [K -> TallyRecord] /\ given \in [K -> Int] /\ over \in SUBSET K
  <2>1. tally \in [K -> TallyRecord]
    BY <1>4
  <2>2. given \in [K -> Int]
    BY <1>4
  <2>3. over \in SUBSET K
    BY <1>1 DEF GrowthType
  <2> QED
    BY <2>1, <2>2, <2>3
<1> HIDE DEF tally, dropped, given, over
<1>6. y \in GrowthType(K)
  BY <1>2, <1>5 DEF GrowthType
<1>7. /\ y.tally = tally /\ y.given = given /\ y.overpaid = over /\ y.frames = w.frames
      /\ y.voc = v /\ y.loot = x.loot /\ y.loss = x.loss /\ SameLevels(w, y)
  BY <1>2, <1>v DEF GrowthType, SameLevels, SameTallies
<1> HIDE DEF y
<1>8. w' \in GrowthType(K)
  <2> DEFINE z == [y EXCEPT !.place = "world", !.dead = FALSE, !.corpses = 0]
  <2>1. z \in GrowthType(K)
    <3>1. 0 \in 0 .. 2
      OBVIOUS
    <3> QED
      BY <1>6, <3>1 DEF GrowthType
  <2>2. w' = [z EXCEPT !.zone = "open", !.pardoned = FALSE, !.killed = FALSE]
    BY <1>3, <1>6 DEF GrowthType
  <2> HIDE DEF z
  <2> QED
    BY <2>1, <2>2 DEF GrowthType
<1>9. /\ SameLevels(y, w') /\ SameTries(y, w') /\ w'.corpses = 0 /\ w'.loot = y.loot /\ w'.loss = y.loss
  BY <1>3, <1>6 DEF GrowthType, SameLevels, SameTries, SameTallies
<1>10. TriesSound(K, P, y)
  <2>1. FramesSound(y)
    <3> SUFFICES ASSUME NEW i \in 1 .. Len(w.frames)
                 PROVE  FrameFits(y, w.frames[i])
      BY <1>7 DEF FramesSound
    <3>1. FrameFits(w, w.frames[i])
      BY <1>1 DEF TriesSound, FramesSound
    <3>2. w.frames[i].kind \in K
      <4>1. w.frames[i] \in AdvanceRecord(K)
        BY <1>1 DEF GrowthType
      <4> QED
        BY <4>1 DEF AdvanceRecord
    <3>3. y.tally[w.frames[i].kind].level = w.tally[w.frames[i].kind].level
      BY <1>4, <1>7, <3>2
    <3> QED
      BY <1>7, <1>v, <3>1, <3>3 DEF FrameFits
  <2>2. ASSUME NEW k \in K
        PROVE  KindSound(K, P, y, k)
    BY <1>4, <1>7 DEF KindSound
  <2> QED
    BY <2>1, <2>2 DEF TriesSound
<1>11. LevelsSound(K, P, w')
  <2>1. SameLevels(w, w')
    BY <1>7, <1>9 DEF SameLevels
  <2> QED
    BY <1>1, <2>1, LevelsCarry
<1>12. TriesSound(K, P, w')
  BY <1>9, <1>10, TriesCarry
<1>13. DeathsSound(w')
  <2>1. w'.voc = v
    BY <1>7, <1>9 DEF SameLevels
  <2>2. 0 <= 1
    OBVIOUS
  <2> QED
    BY <1>2, <1>7, <1>9, <2>1, <2>2 DEF DeathsSound, Alive
<1> QED
  BY <1>8, <1>11, <1>12, <1>13 DEF GrowthSound

LEMMA CreatedSound ==
  ASSUME NEW K, K \subseteq Talents, NEW P, GrowthAssumption, Grow(K, P)!Init
  PROVE  GrowthSound(K, P, w)
<1> DEFINE tally == [k \in K |-> [level |-> Least[k], tries |-> 0]]
           given == [k \in K |-> 0]
           loot == Grow(K, P)!Loot(0, "full")
           loss == Grow(K, P)!Loss(0, TRUE)
<1>1. 0 \in Vocations /\ 0 \notin Keeps \cup Wears /\ ExpFor[1] = 0
  BY DEF GrowthAssumption
<1>2. loot = "full" /\ loss
  BY <1>1, LootIs
<1>3. loss \in BOOLEAN
  BY LootIs
<1>4. w = [voc |-> 0, overpaid |-> {}, level |-> 1, exp |-> ExpFor[1], healthMax |-> Grow(K, P)!Start,
           tally |-> tally, given |-> given, frames |-> <<>>, dead |-> FALSE, place |-> "world",
           loot |-> loot, loss |-> loss, worn |-> {}, zone |-> "open", red |-> FALSE,
           blessings |-> {}, corpses |-> 0, pardoned |-> FALSE, killed |-> FALSE]
  BY DEF Grow!Init, Grow!Created
<1> HIDE DEF loot, loss
<1>5. Blank(K, w)
  BY <1>4 DEF Blank
<1>6. TriesSound(K, P, w) /\ w.tally \in [K -> TallyRecord] /\ w.given \in [K -> Int]
  BY <1>1, <1>4, <1>5, BlankSound
<1>7. tally \in [K -> TallyRecord] /\ given \in [K -> Int]
  <2>1. w.tally = tally /\ w.given = given
    BY <1>4
  <2> HIDE DEF tally, given
  <2> QED
    BY <1>6, <2>1
<1> HIDE DEF tally, given
<1>8. w \in GrowthType(K)
  <2>1. 0 \in Nat /\ 1 \in Nat /\ 0 \in 0 .. 2 /\ Grow(K, P)!Start \in Int /\ <<>> \in Seq(AdvanceRecord(K))
        /\ {} \in SUBSET K
    BY DEF Grow!Start
  <2> QED
    BY <1>1, <1>2, <1>3, <1>4, <1>7, <2>1 DEF GrowthType
<1>9. LevelsSound(K, P, w)
  <2>1. w.voc = 0 /\ w.level = 1 /\ w.exp = 0 /\ w.healthMax = Grow(K, P)!Start
    BY <1>1, <1>4
  <2>2. w.voc \in Vocations
    BY <1>1, <2>1
  <2> QED
    BY <2>1, <2>2, FirstLevel
<1>10. DeathsSound(w)
  <2>1. w.corpses = 0 /\ w.loot = "full" /\ w.loss
    BY <1>2, <1>4
  <2>2. 0 <= 1
    OBVIOUS
  <2> QED
    BY <2>1, <2>2 DEF DeathsSound, Alive
<1> QED
  BY <1>6, <1>8, <1>9, <1>10 DEF GrowthSound

LEMMA GrowthStep ==
  ASSUME NEW K, K \subseteq Talents, NEW P, GrowthAssumption, GrowthSound(K, P, w), Grow(K, P)!Next
  PROVE  GrowthSound(K, P, w')
<1>1. Points \subseteq Nat /\ Losses \subseteq Nat
  BY DEF GrowthAssumption
<1>2. ASSUME NEW n \in Points, Grow(K, P)!AddExperience(n)
      PROVE  GrowthSound(K, P, w')
  BY <1>1, <1>2, AddExperienceSound
<1>3. ASSUME NEW n \in Points, Grow(K, P)!RemoveExperience(n)
      PROVE  GrowthSound(K, P, w')
  BY <1>1, <1>3, RemoveExperienceSound
<1>4. ASSUME NEW n \in Points, NEW k \in K, Grow(K, P)!AddTries(k, n)
      PROVE  GrowthSound(K, P, w')
  <2>1. n \in Nat /\ w \in GrowthType(K) /\ TriesSound(K, P, w)
    BY <1>1 DEF GrowthSound
  <2>2. w' \in GrowthType(K) /\ TriesSound(K, P, w') /\ SameLevels(w, w') /\ SameDeath(w, w')
    BY <1>4, <2>1, AddTriesKeeps
  <2> QED
    BY <2>2, LevelsCarry, DeathsCarry DEF GrowthSound
<1>5. ASSUME Grow(K, P)!Announced
      PROVE  GrowthSound(K, P, w')
  <2>1. w \in GrowthType(K) /\ TriesSound(K, P, w)
    BY DEF GrowthSound
  <2>2. w' \in GrowthType(K) /\ TriesSound(K, P, w') /\ SameLevels(w, w') /\ SameDeath(w, w')
    BY <1>5, <2>1, AnnouncedKeeps
  <2> QED
    BY <2>2, LevelsCarry, DeathsCarry DEF GrowthSound
<1>6. ASSUME NEW v \in Vocations, Grow(K, P)!SetVocation(v)
      PROVE  GrowthSound(K, P, w')
  BY <1>6, SetVocationSound
<1>7. ASSUME \/ \E c \in {"loss", "drop"} : Grow(K, P)!Wear(c)
             \/ \E z \in {"open", "hardcore"}, red \in BOOLEAN : Grow(K, P)!Enter(z, red)
             \/ \E b \in {"pvp", "other"} : Grow(K, P)!Bless(b)
      PROVE  GrowthSound(K, P, w')
  BY <1>7, OutingSound
<1>8. ASSUME Grow(K, P)!Slain \/ Grow(K, P)!Heal
      PROVE  GrowthSound(K, P, w')
  BY <1>8, HealthSound
<1>9. ASSUME NEW exp \in Losses, NEW share \in Losses, NEW noLoot \in BOOLEAN,
             NEW amulet \in BOOLEAN, NEW pvp \in BOOLEAN,
             Grow(K, P)!OnDeath(noLoot, amulet, pvp, exp, share)
      PROVE  GrowthSound(K, P, w')
  <2>1. exp \in Nat /\ share \in Nat
    BY <1>1
  <2> QED
    BY <1>9, <2>1, OnDeathSound
<1>10. ASSUME Grow(K, P)!DeathRefused \/ \E noLoot \in BOOLEAN : Grow(K, P)!KillRefused(noLoot)
       PROVE  GrowthSound(K, P, w')
  <2>1. PICK noLoot \in BOOLEAN :
          Grow(K, P)!Dies /\ w' = Grow(K, P)!Denied(Grow(K, P)!Prepared(w), noLoot)
    BY <1>10 DEF Grow!DeathRefused, Grow!KillRefused
  <2> QED
    BY <2>1, RefusedSound
<1>11. ASSUME Grow(K, P)!Login
       PROVE  GrowthSound(K, P, w')
  BY <1>11, LoginSound
<1> QED
  BY <1>2, <1>3, <1>4, <1>5, <1>6, <1>7, <1>8, <1>9, <1>10, <1>11 DEF Grow!Next

\* A player's level is that of his experience and his health that of his
\* levels; what he was given of magic and of a skill he has or is still to be
\* given, whatever scripts add meanwhile, by the tables of the vocation he has
\* and since he chose it; and a death settles before he can die again, but for
\* the exceptions of the code that the model names: for any vocations, each with
\* tables of its own that rise to their last levels and fall after them below
\* what any level takes, any gains and losses (player.cpp:161-178, 2040-2245, 2393-2556,
\* 4216-4256; vocation.cpp:518-543).
THEOREM GrowthAlwaysAgrees == Spec => []GrowthAgrees
<1> DEFINE Inv == /\ scene = "growth" => GrowthSound(Talents, {}, w)
                  /\ scene = "deaths" => GrowthSound({}, Perils, w)
<1>0. GrowthAssumption /\ {} \subseteq Talents /\ Talents \subseteq Talents
  BY WorldAssumption DEF WorldAssumption
<1>1. Init => Inv
  BY <1>0, CreatedSound DEF Init
<1>2. Inv /\ [Next]_<<scene, w>> => Inv'
  <2>1. ASSUME Inv, [Next]_<<scene, w>>, scene' = "growth"
        PROVE  GrowthSound(Talents, {}, w')
    <3>1. scene = "growth" /\ (Grow(Talents, {})!Next \/ w' = w)
      BY <2>1 DEF Next
    <3>2. CASE Grow(Talents, {})!Next
      BY <1>0, <2>1, <3>1, <3>2, GrowthStep
    <3>3. CASE w' = w
      BY <2>1, <3>1, <3>3
    <3> QED
      BY <3>1, <3>2, <3>3
  <2>2. ASSUME Inv, [Next]_<<scene, w>>, scene' = "deaths"
        PROVE  GrowthSound({}, Perils, w')
    <3>1. scene = "deaths" /\ (Grow({}, Perils)!Next \/ w' = w)
      BY <2>2 DEF Next
    <3>2. CASE Grow({}, Perils)!Next
      BY <1>0, <2>2, <3>1, <3>2, GrowthStep
    <3>3. CASE w' = w
      BY <2>2, <3>1, <3>3
    <3> QED
      BY <3>1, <3>2, <3>3
  <2> QED
    BY <2>1, <2>2
<1>3. Inv => GrowthAgrees
  <2>1. GrowthSound(Talents, {}, w) => Grow(Talents, {})!GrowthAgrees
    BY <1>0, GrowthSoundAgrees
  <2>2. GrowthSound({}, Perils, w) => Grow({}, Perils)!GrowthAgrees
    BY <1>0, GrowthSoundAgrees
  <2> QED
    BY <2>1, <2>2 DEF GrowthAgrees
<1> QED
  BY <1>1, <1>2, <1>3, PTL DEF Spec
=============================================================================
