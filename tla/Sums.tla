---------------------------------- MODULE Sums ----------------------------------
(***************************************************************************)
(* The sum of a function over a finite set (SumFunctionOnSet of the        *)
(* community modules), which the invariants of the counters speak of, and  *)
(* the induction on the size of the set that its facts need.               *)
(***************************************************************************)
EXTENDS Integers, FiniteSets, Functions, FiniteSetTheorems, WellFoundedInduction, TLAPS

LEMMA LeastNatural ==
    ASSUME NEW T \in SUBSET Nat, T # {}
    PROVE  \E x \in T : \A y \in T : x <= y
<1>1. IsWellFoundedOn(OpToRel(<, Nat), Nat)
  BY NatLessThanWellFounded
<1>2. PICK x \in T : \A y \in T : ~ (<<y, x>> \in OpToRel(<, Nat))
  BY <1>1, WFMin
<1>3. ASSUME NEW y \in T PROVE x <= y
  <2>1. ~ (y < x)
    BY <1>2, <1>3 DEF OpToRel
  <2> QED
    BY <2>1, SMT
<1> QED
  BY <1>3

LEMMA SetInduction ==
    ASSUME NEW S \in SUBSET Nat, 0 \in S, \A k \in S : k + 1 \in S
    PROVE  S = Nat
<1> SUFFICES ASSUME S # Nat PROVE FALSE
  OBVIOUS
<1>1. Nat \ S \in SUBSET Nat /\ Nat \ S # {}
  OBVIOUS
<1>2. PICK x \in Nat \ S : \A y \in Nat \ S : x <= y
  BY <1>1, LeastNatural
<1>3. x # 0 /\ x - 1 \in Nat
  BY SMT
<1>4. x - 1 \in S
  BY <1>2, <1>3, SMT
<1>5. (x - 1) + 1 = x
  BY <1>3, SMT
<1> QED
  BY <1>4, <1>5

-------------------------------------------------------------------------------
\* What the fold does of a set, given what it did of the smaller ones.
Some(s) == CHOOSE x \in s : TRUE
SumValue(fun, f, s) == IF s = {} THEN 0 ELSE fun[Some(s)] + f[s \ {Some(s)}]

LEMMA SomeIn == ASSUME NEW s, s # {} PROVE Some(s) \in s
BY DEF Some

LEMMA SmallerSet ==
    ASSUME NEW s, IsFiniteSet(s), NEW x \in s
    PROVE  /\ IsFiniteSet(s \ {x})
           /\ Cardinality(s) \in Nat \ {0} /\ Cardinality(s \ {x}) = Cardinality(s) - 1
<1>1. IsFiniteSet(s \ {x}) /\ Cardinality(s \ {x}) = Cardinality(s) - 1
  BY FS_RemoveElement
<1>2. Cardinality(s) \in Nat /\ Cardinality(s \ {x}) \in Nat
  BY <1>1, FS_CardinalityType
<1> QED
  BY <1>1, <1>2, SMT

\* The function the fold is defined by exists: one that is right of the sets of n
\* elements can be made right of those of one more.
LEMMA SumDefined ==
    ASSUME NEW fun, NEW S, IsFiniteSet(S)
    PROVE  \E f : f = [s \in SUBSET S |-> SumValue(fun, f, s)]
<1> DEFINE Right(f, n) ==
              /\ f = [s \in SUBSET S |-> f[s]]
              /\ \A s \in SUBSET S : Cardinality(s) <= n => f[s] = SumValue(fun, f, s)
           Defined == {n \in Nat : \E f : Right(f, n)}
<1>1. \A s \in SUBSET S : IsFiniteSet(s) /\ Cardinality(s) \in Nat
  BY FS_Subset, FS_CardinalityType
<1>2. 0 \in Defined
  <2> DEFINE f == [s \in SUBSET S |-> 0]
  <2>1. ASSUME NEW s \in SUBSET S, Cardinality(s) <= 0 PROVE f[s] = SumValue(fun, f, s)
    <3>1. s = {}
      BY <1>1, <2>1, FS_EmptySet, SMT
    <3> QED
      BY <3>1 DEF SumValue
  <2>2. Right(f, 0)
    BY <2>1
  <2> HIDE DEF Right
  <2> QED
    BY <2>2
<1>3. ASSUME NEW n \in Defined PROVE n + 1 \in Defined
  <2>1. PICK f : Right(f, n)
    BY <1>3
  <2> DEFINE g == [s \in SUBSET S |-> SumValue(fun, f, s)]
  <2>2. ASSUME NEW s \in SUBSET S, Cardinality(s) <= n + 1 PROVE g[s] = SumValue(fun, g, s)
    <3>1. CASE s = {}
      BY <3>1 DEF SumValue
    <3>2. CASE s # {}
      <4> DEFINE x == Some(s)
                 r == s \ {x}
      <4>1. x \in s
        BY <3>2, SomeIn
      <4> HIDE DEF x
      <4>2. r \in SUBSET S /\ Cardinality(r) \in Nat /\ Cardinality(r) <= n
        <5>1. Cardinality(s) \in Nat /\ Cardinality(r) = Cardinality(s) - 1
          BY <1>1, <4>1, SmallerSet
        <5>2. n \in Nat /\ r \in SUBSET S
          BY <1>3
        <5> HIDE DEF r
        <5> QED
          BY <1>1, <2>2, <5>1, <5>2, SMT
      <4>3. f[r] = SumValue(fun, f, r)
        BY <2>1, <4>2
      <4>4. g[r] = f[r]
        BY <4>2, <4>3
      <4> HIDE DEF g
      <4>5. g[s] = fun[x] + f[r]
        BY <3>2 DEF SumValue, g, x
      <4> QED
        BY <3>2, <4>4, <4>5 DEF SumValue, x
    <3> QED
      BY <3>1, <3>2
  <2>3. g = [s \in SUBSET S |-> g[s]]
    OBVIOUS
  <2> HIDE DEF g
  <2>4. Right(g, n + 1)
    BY <2>2, <2>3
  <2> HIDE DEF Right
  <2> QED
    BY <1>3, <2>4, SMT
<1>4. Defined = Nat
  <2> HIDE DEF Defined
  <2>1. Defined \in SUBSET Nat
    BY DEF Defined
  <2> QED
    BY <1>2, <1>3, <2>1, SetInduction
<1>5. Cardinality(S) \in Nat
  BY FS_CardinalityType
<1>6. PICK f : Right(f, Cardinality(S))
  BY <1>4, <1>5
<1>7. ASSUME NEW s \in SUBSET S PROVE f[s] = SumValue(fun, f, s)
  <2>1. Cardinality(s) <= Cardinality(S)
    BY FS_Subset
  <2> QED
    BY <1>6, <2>1
<1>8. f = [s \in SUBSET S |-> SumValue(fun, f, s)]
  BY <1>6, <1>7
<1> QED
  BY <1>8

SumOf(fun, S) == CHOOSE f : f = [s \in SUBSET S |-> SumValue(fun, f, s)]

LEMMA SumIsFold ==
    ASSUME NEW fun, NEW S
    PROVE  SumFunctionOnSet(fun, S) = SumOf(fun, S)[S]
BY DEF SumFunctionOnSet, FoldFunctionOnSet, MapThenFoldSet, SumOf, SumValue, Some

LEMMA SumOfValue ==
    ASSUME NEW fun, NEW S, IsFiniteSet(S), NEW s \in SUBSET S
    PROVE  SumOf(fun, S)[s] = SumValue(fun, SumOf(fun, S), s)
<1> DEFINE f == SumOf(fun, S)
<1>1. f = [t \in SUBSET S |-> SumValue(fun, f, t)]
  BY SumDefined DEF SumOf
<1> HIDE DEF f
<1>2. f[s] = SumValue(fun, f, s)
  BY <1>1
<1> QED
  BY <1>2 DEF f

\* An induction on the number of elements of the subsets of S.
LEMMA SizeInduction ==
    ASSUME NEW S, IsFiniteSet(S), NEW Good \in SUBSET SUBSET S,
           \A s \in SUBSET S : (\A x \in s : s \ {x} \in Good) => s \in Good
    PROVE  Good = SUBSET S
<1> DEFINE Sizes == {n \in Nat : \A s \in SUBSET S : Cardinality(s) = n => s \in Good}
<1>1. \A s \in SUBSET S : IsFiniteSet(s) /\ Cardinality(s) \in Nat
  BY FS_Subset, FS_CardinalityType
<1>2. 0 \in Sizes
  <2>1. ASSUME NEW s \in SUBSET S, Cardinality(s) = 0 PROVE s \in Good
    <3>1. s = {}
      BY <1>1, <2>1, FS_EmptySet
    <3> QED
      BY <3>1
  <2> QED
    BY <2>1
<1>3. ASSUME NEW n \in Sizes PROVE n + 1 \in Sizes
  <2>1. ASSUME NEW s \in SUBSET S, Cardinality(s) = n + 1 PROVE s \in Good
    <3>1. ASSUME NEW x \in s PROVE s \ {x} \in Good
      <4>1. Cardinality(s \ {x}) = Cardinality(s) - 1
        BY <1>1, SmallerSet
      <4>2. Cardinality(s \ {x}) = n
        BY <1>3, <2>1, <4>1, SMT
      <4> QED
        BY <1>3, <4>2
    <3> QED
      BY <3>1
  <2>2. n + 1 \in Nat
    BY <1>3, SMT
  <2> QED
    BY <2>1, <2>2
<1>4. Sizes = Nat
  <2> HIDE DEF Sizes
  <2>1. Sizes \in SUBSET Nat
    BY DEF Sizes
  <2> QED
    BY <1>2, <1>3, <2>1, SetInduction
<1> QED
  BY <1>1, <1>4

\* The folds of a set and of a larger one agree on what they have in common.
LEMMA SumOfSubset ==
    ASSUME NEW fun, NEW S, IsFiniteSet(S), NEW T \in SUBSET S, NEW s \in SUBSET T
    PROVE  SumOf(fun, T)[s] = SumOf(fun, S)[s]
<1> DEFINE f == SumOf(fun, T)
           g == SumOf(fun, S)
           Good == {r \in SUBSET T : f[r] = g[r]}
<1>1. IsFiniteSet(T)
  BY FS_Subset
<1>2. ASSUME NEW r \in SUBSET T, \A x \in r : r \ {x} \in Good PROVE r \in Good
  <2>1. f[r] = SumValue(fun, f, r) /\ g[r] = SumValue(fun, g, r)
    BY <1>1, SumOfValue
  <2> HIDE DEF f, g
  <2>2. r # {} => f[r \ {Some(r)}] = g[r \ {Some(r)}]
    BY <1>2, SomeIn
  <2> QED
    BY <2>1, <2>2 DEF SumValue
<1>3. Good \in SUBSET SUBSET T
  OBVIOUS
<1> HIDE DEF Good
<1>4. Good = SUBSET T
  BY <1>1, <1>2, <1>3, SizeInduction
<1> QED
  BY <1>4 DEF Good

LEMMA SumUnfolds ==
    ASSUME NEW fun, NEW S, IsFiniteSet(S)
    PROVE  /\ SumFunctionOnSet(fun, {}) = 0
           /\ S # {} => SumFunctionOnSet(fun, S)
                           = fun[Some(S)] + SumFunctionOnSet(fun, S \ {Some(S)})
<1>1. SumFunctionOnSet(fun, {}) = 0
  <2>1. SumOf(fun, {})[{}] = SumValue(fun, SumOf(fun, {}), {})
    BY SumOfValue, FS_EmptySet
  <2> QED
    BY <2>1, SumIsFold DEF SumValue
<1>2. ASSUME S # {}
      PROVE  SumFunctionOnSet(fun, S) = fun[Some(S)] + SumFunctionOnSet(fun, S \ {Some(S)})
  <2> DEFINE r == S \ {Some(S)}
  <2>1. SumOf(fun, S)[S] = fun[Some(S)] + SumOf(fun, S)[r]
    BY <1>2, SumOfValue DEF SumValue
  <2>2. SumOf(fun, r)[r] = SumOf(fun, S)[r]
    BY SumOfSubset
  <2> QED
    BY <2>1, <2>2, SumIsFold
<1> QED
  BY <1>1, <1>2

-------------------------------------------------------------------------------
\* What is used of sums.

LEMMA SumOfNothing == ASSUME NEW fun PROVE SumFunctionOnSet(fun, {}) = 0
BY SumUnfolds, FS_EmptySet

LEMMA SumIsNatural ==
    ASSUME NEW S, IsFiniteSet(S), NEW fun, \A x \in S : fun[x] \in Nat
    PROVE  SumFunctionOnSet(fun, S) \in Nat
<1> DEFINE Good == {s \in SUBSET S : SumFunctionOnSet(fun, s) \in Nat}
<1>1. ASSUME NEW s \in SUBSET S, \A x \in s : s \ {x} \in Good PROVE s \in Good
  <2>1. IsFiniteSet(s)
    BY FS_Subset
  <2>2. CASE s = {}
    BY <2>2, SumOfNothing
  <2>3. CASE s # {}
    <3>1. SumFunctionOnSet(fun, s) = fun[Some(s)] + SumFunctionOnSet(fun, s \ {Some(s)})
      BY <2>1, <2>3, SumUnfolds
    <3>2. fun[Some(s)] \in Nat /\ SumFunctionOnSet(fun, s \ {Some(s)}) \in Nat
      BY <1>1, <2>3, SomeIn
    <3> QED
      BY <3>1, <3>2
  <2> QED
    BY <2>2, <2>3
<1>2. Good \in SUBSET SUBSET S
  OBVIOUS
<1> HIDE DEF Good
<1>3. Good = SUBSET S
  BY <1>1, <1>2, SizeInduction
<1> QED
  BY <1>3 DEF Good

\* Any element may be taken out first.
LEMMA SumWithout ==
    ASSUME NEW S, IsFiniteSet(S), NEW fun, \A x \in S : fun[x] \in Nat, NEW e \in S
    PROVE  SumFunctionOnSet(fun, S) = fun[e] + SumFunctionOnSet(fun, S \ {e})
<1> DEFINE Sum(s) == SumFunctionOnSet(fun, s)
           Good == {s \in SUBSET S : \A x \in s : Sum(s) = fun[x] + Sum(s \ {x})}
<1>1. \A s \in SUBSET S : IsFiniteSet(s) /\ Sum(s) \in Nat
  <2> SUFFICES ASSUME NEW s \in SUBSET S PROVE IsFiniteSet(s) /\ Sum(s) \in Nat
    OBVIOUS
  <2>1. IsFiniteSet(s)
    BY FS_Subset
  <2> QED
    BY <2>1, SumIsNatural
<1>2. ASSUME NEW s \in SUBSET S, \A x \in s : s \ {x} \in Good PROVE s \in Good
  <2> SUFFICES ASSUME NEW x \in s PROVE Sum(s) = fun[x] + Sum(s \ {x})
    OBVIOUS
  <2> DEFINE c == Some(s)
  <2>1. c \in s /\ Sum(s) = fun[c] + Sum(s \ {c})
    BY <1>1, SomeIn, SumUnfolds
  <2> HIDE DEF c
  <2>2. CASE c # x
    <3> DEFINE r == s \ {c, x}
    <3>1. Sum(s \ {c}) = fun[x] + Sum((s \ {c}) \ {x})
      BY <1>2, <2>1, <2>2
    <3>2. Sum(s \ {x}) = fun[c] + Sum((s \ {x}) \ {c})
      BY <1>2, <2>1, <2>2
    <3>3. (s \ {c}) \ {x} = r /\ (s \ {x}) \ {c} = r /\ r \in SUBSET S
      OBVIOUS
    <3>4. Sum(r) \in Nat /\ fun[x] \in Nat /\ fun[c] \in Nat
      BY <1>1, <2>1, <3>3
    <3> HIDE DEF r, Sum
    <3> QED
      BY <2>1, <3>1, <3>2, <3>3, <3>4
  <2> QED
    BY <2>1, <2>2
<1>3. Good \in SUBSET SUBSET S
  OBVIOUS
<1> HIDE DEF Good
<1>4. Good = SUBSET S
  BY <1>2, <1>3, SizeInduction
<1> QED
  BY <1>4 DEF Good

\* Functions that are alike on the set have the same sum.
LEMMA SumOfAlike ==
    ASSUME NEW S, IsFiniteSet(S), NEW f, NEW g, \A x \in S : f[x] = g[x]
    PROVE  SumFunctionOnSet(f, S) = SumFunctionOnSet(g, S)
<1> DEFINE Good == {s \in SUBSET S : SumFunctionOnSet(f, s) = SumFunctionOnSet(g, s)}
<1>1. ASSUME NEW s \in SUBSET S, \A x \in s : s \ {x} \in Good PROVE s \in Good
  <2>1. IsFiniteSet(s)
    BY FS_Subset
  <2>2. CASE s = {}
    BY <2>2, SumOfNothing
  <2>3. CASE s # {}
    <3>1. /\ SumFunctionOnSet(f, s) = f[Some(s)] + SumFunctionOnSet(f, s \ {Some(s)})
          /\ SumFunctionOnSet(g, s) = g[Some(s)] + SumFunctionOnSet(g, s \ {Some(s)})
      BY <2>1, <2>3, SumUnfolds
    <3> QED
      BY <1>1, <2>3, <3>1, SomeIn
  <2> QED
    BY <2>2, <2>3
<1>2. Good \in SUBSET SUBSET S
  OBVIOUS
<1> HIDE DEF Good
<1>3. Good = SUBSET S
  BY <1>1, <1>2, SizeInduction
<1> QED
  BY <1>3 DEF Good

\* The sum once the value of one element has changed.
LEMMA SumOfChanged ==
    ASSUME NEW S, IsFiniteSet(S), NEW f, NEW g, NEW e \in S,
           \A x \in S : f[x] \in Nat /\ g[x] \in Nat, \A x \in S \ {e} : f[x] = g[x]
    PROVE  SumFunctionOnSet(g, S) = SumFunctionOnSet(f, S) - f[e] + g[e]
<1>1. /\ SumFunctionOnSet(f, S) = f[e] + SumFunctionOnSet(f, S \ {e})
      /\ SumFunctionOnSet(g, S) = g[e] + SumFunctionOnSet(g, S \ {e})
  BY SumWithout
<1>2. IsFiniteSet(S \ {e})
  BY FS_Subset
<1>3. /\ SumFunctionOnSet(f, S \ {e}) = SumFunctionOnSet(g, S \ {e})
      /\ SumFunctionOnSet(f, S \ {e}) \in Nat
  BY <1>2, SumOfAlike, SumIsNatural
<1> QED
  BY <1>1, <1>3

LEMMA SumOfZeros ==
    ASSUME NEW S, IsFiniteSet(S), NEW fun, \A x \in S : fun[x] = 0
    PROVE  SumFunctionOnSet(fun, S) = 0
<1> DEFINE Good == {s \in SUBSET S : SumFunctionOnSet(fun, s) = 0}
<1>1. ASSUME NEW s \in SUBSET S, \A x \in s : s \ {x} \in Good PROVE s \in Good
  <2>1. IsFiniteSet(s)
    BY FS_Subset
  <2>2. CASE s = {}
    BY <2>2, SumOfNothing
  <2>3. CASE s # {}
    <3>1. SumFunctionOnSet(fun, s) = fun[Some(s)] + SumFunctionOnSet(fun, s \ {Some(s)})
      BY <2>1, <2>3, SumUnfolds
    <3> QED
      BY <1>1, <2>3, <3>1, SomeIn
  <2> QED
    BY <2>2, <2>3
<1>2. Good \in SUBSET SUBSET S
  OBVIOUS
<1> HIDE DEF Good
<1>3. Good = SUBSET S
  BY <1>1, <1>2, SizeInduction
<1> QED
  BY <1>3 DEF Good
===============================================================================
