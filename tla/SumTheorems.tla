----------------------------- MODULE SumTheorems -----------------------------
(***************************************************************************)
(* Sums of functions with a finite domain, as SumFunction of the community *)
(* module Functions takes them: that the recursion has a value at all,     *)
(* what type it has, and how it changes with one summand.  The inductions  *)
(* are over sets of naturals and of subsets: no operator is a parameter.   *)
(***************************************************************************)
EXTENDS Functions, FiniteSets, FiniteSetTheorems, WellFoundedInduction,
        NaturalsInduction, TLAPS

(* A set of naturals that holds 0, and with a number the next one, holds   *)
(* all of them.                                                            *)
LEMMA NaturalsFromZero ==
  ASSUME NEW A \in SUBSET Nat, 0 \in A, \A n \in A : n + 1 \in A
  PROVE  A = Nat
<1> SUFFICES ASSUME Nat \ A # {} PROVE FALSE
  OBVIOUS
<1>1. PICK n \in Nat \ A : \A m \in Nat \ A : ~(<<m, n>> \in OpToRel(<, Nat))
  BY NatLessThanWellFounded, WFMin
<1>2. n # 0
  OBVIOUS
<1>3. n - 1 \in Nat /\ n - 1 < n
  BY <1>2
<1>4. <<n - 1, n>> \in OpToRel(<, Nat)
  BY <1>3 DEF OpToRel
<1>5. n - 1 \in A
  BY <1>1, <1>3, <1>4
<1>6. QED
  BY <1>3, <1>5

(* A set of subsets that holds the empty one, and a subset when it holds   *)
(* what is left without the element CHOOSE takes, holds all of them.       *)
LEMMA SubsetsFromEmpty ==
  ASSUME NEW S, IsFiniteSet(S), NEW A \in SUBSET SUBSET S, {} \in A,
         \A s \in SUBSET S :
           s # {} /\ s \ {CHOOSE x \in s : TRUE} \in A => s \in A
  PROVE  A = SUBSET S
<1> DEFINE B == {n \in Nat : \A s \in SUBSET S : Cardinality(s) = n => s \in A}
<1>0. \A s \in SUBSET S : IsFiniteSet(s) /\ Cardinality(s) \in Nat
  BY FS_Subset, FS_CardinalityType
<1>1. 0 \in B
  <2>1. \A s \in SUBSET S : Cardinality(s) = 0 => s = {}
    BY <1>0, FS_EmptySet
  <2>2. QED
    BY <2>1
<1>2. ASSUME NEW n \in B PROVE n + 1 \in B
  <2> SUFFICES ASSUME NEW s \in SUBSET S, Cardinality(s) = n + 1 PROVE s \in A
    OBVIOUS
  <2>1. s # {}
    BY FS_EmptySet
  <2>2. PICK x \in s : x = CHOOSE y \in s : TRUE
    BY <2>1
  <2>3. Cardinality(s \ {x}) = n
    <3>1. IsFiniteSet(s) /\ n \in Nat
      BY <1>0
    <3>2. Cardinality(s \ {x}) = Cardinality(s) - 1
      BY <2>2, <3>1, FS_RemoveElement
    <3>3. QED
      BY <3>1, <3>2
  <2>4. QED
    BY <2>1, <2>2, <2>3
<1>3. B = Nat
  <2> HIDE DEF B
  <2> QED BY <1>1, <1>2, NaturalsFromZero DEF B
<1>4. QED
  BY <1>0, <1>3

(* The partial sums over the subsets of S, as SumFunction takes them.      *)
IsPartialSums(f, S, g) ==
  g = [s \in SUBSET S |->
         IF s = {} THEN 0
         ELSE f[CHOOSE x \in s : TRUE] + g[s \ {CHOOSE x \in s : TRUE}]]

(* The recursion has a solution: one for the subsets of at most n elements *)
(* gives one for those of at most n + 1.                                   *)
LEMMA PartialSumsExist ==
  ASSUME NEW S, IsFiniteSet(S), NEW f
  PROVE  \E g : IsPartialSums(f, S, g)
<1> DEFINE upto(n) == {s \in SUBSET S : Cardinality(s) <= n}
           step(s, g) ==
             IF s = {} THEN 0
             ELSE f[CHOOSE x \in s : TRUE] + g[s \ {CHOOSE x \in s : TRUE}]
           A == {n \in Nat : \E g : g = [s \in upto(n) |-> step(s, g)]}
<1>0. \A s \in SUBSET S : IsFiniteSet(s) /\ Cardinality(s) \in Nat
  BY FS_Subset, FS_CardinalityType
<1>1. 0 \in A
  <2>1. upto(0) = {{}}
    BY <1>0, FS_EmptySet
  <2> DEFINE g == [s \in {{}} |-> 0]
  <2>2. g = [s \in upto(0) |-> step(s, g)]
    BY <2>1
  <2>3. QED
    BY <2>2
<1>2. ASSUME NEW n \in A PROVE n + 1 \in A
  <2>1. PICK g : g = [s \in upto(n) |-> step(s, g)]
    OBVIOUS
  <2>7. PICK h : h = [s \in upto(n + 1) |-> step(s, g)]
    OBVIOUS
  <2>2. ASSUME NEW s \in upto(n + 1) PROVE step(s, g) = step(s, h)
    <3>1. CASE s = {}
      BY <3>1
    <3>2. CASE s # {}
      <4>1. PICK x \in s : x = CHOOSE y \in s : TRUE
        BY <3>2
      <4>2. Cardinality(s \ {x}) = Cardinality(s) - 1
        BY <1>0, <4>1, FS_RemoveElement
      <4>3. s \ {x} \in upto(n) /\ s \ {x} \in upto(n + 1)
        BY <1>0, <4>2
      <4>4. g[s \ {x}] = h[s \ {x}]
        <5>1. g[s \ {x}] = step(s \ {x}, g) /\ h[s \ {x}] = step(s \ {x}, g)
          <6> HIDE DEF step, upto
          <6> QED BY <2>1, <2>7, <4>3
        <5>2. QED
          BY <5>1
      <4>5. QED
        BY <4>1, <4>4
    <3>3. QED
      BY <3>1, <3>2
  <2>3. h = [s \in upto(n + 1) |-> step(s, h)]
    <3> HIDE DEF step, upto
    <3> QED BY <2>2, <2>7
  <2>4. n + 1 \in Nat
    OBVIOUS
  <2>5. QED
    <3> HIDE DEF step, upto
    <3> QED BY <2>3, <2>4
<1>3. A = Nat
  <2> HIDE DEF A
  <2> QED BY <1>1, <1>2, NaturalsFromZero DEF A
<1>4. Cardinality(S) \in A
  BY <1>0, <1>3
<1>5. upto(Cardinality(S)) = SUBSET S
  BY FS_Subset, <1>0
<1>6. QED
  BY <1>4, <1>5 DEF IsPartialSums

(* The sum of a function is the last of its partial sums.                  *)
LEMMA SumIsPartialSum ==
  ASSUME NEW S, IsFiniteSet(S), NEW f, DOMAIN f = S
  PROVE  \E g : IsPartialSums(f, S, g) /\ SumFunction(f) = g[S]
<1> DEFINE chosen == CHOOSE g : IsPartialSums(f, S, g)
<1>1. IsPartialSums(f, S, chosen)
  BY PartialSumsExist
<1>2. SumFunction(f) = SumFunctionOnSet(f, S)
  BY DEF SumFunction
<1>3. SumFunctionOnSet(f, S) = chosen[S]
  BY DEF SumFunctionOnSet, FoldFunctionOnSet, MapThenFoldSet, IsPartialSums
<1>4. QED
  BY <1>1, <1>2, <1>3

(* A sum is in every set that has 0, the summands and the sums of two.     *)
LEMMA SumTyped ==
  ASSUME NEW S, IsFiniteSet(S), NEW T, NEW f \in [S -> T],
         0 \in T, \A a, b \in T : a + b \in T
  PROVE  SumFunction(f) \in T
<1>1. PICK g : IsPartialSums(f, S, g) /\ SumFunction(f) = g[S]
  BY SumIsPartialSum
<1> DEFINE A == {s \in SUBSET S : g[s] \in T}
<1>2. {} \in A
  BY <1>1 DEF IsPartialSums
<1>3. ASSUME NEW s \in SUBSET S, s # {}, s \ {CHOOSE x \in s : TRUE} \in A
      PROVE  s \in A
  <2>1. PICK z \in s : z = CHOOSE x \in s : TRUE
    BY <1>3
  <2>2. g[s] = f[z] + g[s \ {z}] /\ g[s \ {z}] \in T /\ f[z] \in T
    BY <1>1, <1>3, <2>1 DEF IsPartialSums
  <2>3. QED
    BY <2>2
<1>4. A = SUBSET S
  <2>1. A \in SUBSET SUBSET S
    OBVIOUS
  <2> HIDE DEF A
  <2> QED BY <1>2, <1>3, <2>1, SubsetsFromEmpty
<1>5. QED
  BY <1>1, <1>4

LEMMA SumOfIntegers ==
  ASSUME NEW S, IsFiniteSet(S), NEW f \in [S -> Int]
  PROVE  SumFunction(f) \in Int
BY SumTyped, 0 \in Int, \A a, b \in Int : a + b \in Int

LEMMA SumOfNaturals ==
  ASSUME NEW S, IsFiniteSet(S), NEW f \in [S -> Nat]
  PROVE  SumFunction(f) \in Nat
BY SumTyped, 0 \in Nat, \A a, b \in Nat : a + b \in Nat

LEMMA SumOfZeros ==
  ASSUME NEW S, IsFiniteSet(S)
  PROVE  SumFunction([x \in S |-> 0]) = 0
BY SumTyped, [x \in S |-> 0] \in [S -> {0}], 0 \in {0},
   \A a, b \in {0} : a + b \in {0}

(* When one summand changes, the sum changes by as much.                   *)
LEMMA SumChanges ==
  ASSUME NEW S, IsFiniteSet(S), NEW f \in [S -> Int], NEW g \in [S -> Int],
         NEW y \in S, \A x \in S \ {y} : f[x] = g[x]
  PROVE  SumFunction(g) = SumFunction(f) - f[y] + g[y]
<1>1. PICK fs : IsPartialSums(f, S, fs) /\ SumFunction(f) = fs[S]
  BY SumIsPartialSum
<1>2. PICK gs : IsPartialSums(g, S, gs) /\ SumFunction(g) = gs[S]
  BY SumIsPartialSum
<1> DEFINE A == {s \in SUBSET S :
                   /\ fs[s] \in Int
                   /\ gs[s] = fs[s] + (IF y \in s THEN g[y] - f[y] ELSE 0)}
<1>3. {} \in A
  BY <1>1, <1>2 DEF IsPartialSums
<1>4. ASSUME NEW s \in SUBSET S, s # {}, s \ {CHOOSE x \in s : TRUE} \in A
      PROVE  s \in A
  <2>1. PICK z \in s : z = CHOOSE x \in s : TRUE
    BY <1>4
  <2> DEFINE rest == s \ {z}
  <2>2. fs[s] = f[z] + fs[rest] /\ gs[s] = g[z] + gs[rest]
    <3>1. fs[s] = f[z] + fs[rest]
      BY <1>1, <1>4, <2>1 DEF IsPartialSums
    <3>2. gs[s] = g[z] + gs[rest]
      BY <1>2, <1>4, <2>1 DEF IsPartialSums
    <3>3. QED
      BY <3>1, <3>2
  <2>3. /\ fs[rest] \in Int
        /\ gs[rest] = fs[rest] + (IF y \in rest THEN g[y] - f[y] ELSE 0)
    BY <1>4, <2>1
  <2>4. f[z] \in Int /\ g[z] \in Int /\ f[y] \in Int /\ g[y] \in Int
    OBVIOUS
  <2>5. CASE z = y
    BY <2>2, <2>3, <2>4, <2>5
  <2>6. CASE z # y
    <3>1. f[z] = g[z] /\ (y \in s <=> y \in rest)
      BY <2>6
    <3>2. QED
      BY <2>2, <2>3, <2>4, <3>1
  <2>7. QED
    BY <2>5, <2>6
<1>5. A = SUBSET S
  <2>1. A \in SUBSET SUBSET S
    OBVIOUS
  <2> HIDE DEF A
  <2> QED BY <1>3, <1>4, <2>1, SubsetsFromEmpty
<1>6. QED
  BY <1>1, <1>2, <1>5
=============================================================================
