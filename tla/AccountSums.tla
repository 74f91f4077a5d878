---------------------------- MODULE AccountSums ----------------------------
(***************************************************************************)
(* Sums over finite sets, for the ledgers: what an account shows is the sum *)
(* of what the reservations on it hold, and posting one reservation moves   *)
(* the sum by its amount.  SumFunctionOnSet is the operator of Functions.   *)
(* OrderHasPlaces counts what comes before each element of an ordered set.  *)
(* The induction principles of the library take a predicate; the ones here  *)
(* take a set instead, which is what the provers can instantiate.           *)
(***************************************************************************)
EXTENDS Integers, FiniteSets, Functions, FiniteSetTheorems, WellFoundedInduction, TLAPS

\* Every set of natural numbers that is not empty has a least element.
LEMMA LeastNatural ==
    ASSUME NEW T \in SUBSET Nat, T # {}
    PROVE  \E n \in T : \A m \in T : n <= m
<1> DEFINE less == OpToRel(<, Nat)
<1>1. \E n \in T : \A m \in T : ~ (<<m, n>> \in less)
  <2> HIDE DEF less
  <2>1. IsWellFoundedOn(less, Nat)
    BY NatLessThanWellFounded DEF less
  <2> QED BY <2>1, WFMin
<1>2. \A m, n \in Nat : <<m, n>> \in less <=> m < n
  BY DEF OpToRel
<1>3. \A n \in T : n \in Nat
  OBVIOUS
<1>4. PICK n \in T : \A m \in T : ~ (<<m, n>> \in less)
  BY <1>1
<1> HIDE DEF less
<1>5. \A m \in T : n <= m
  <2> TAKE m \in T
  <2>1. m \in Nat /\ n \in Nat /\ ~ (m < n)
    BY <1>2, <1>3, <1>4
  <2> QED BY <2>1
<1> QED BY <1>5

\* Induction over the subsets of a finite set: a set of them that holds a set whenever
\* it holds all that are smaller by one element holds every one.
LEMMA SubsetInduction ==
    ASSUME NEW U, IsFiniteSet(U), NEW Good,
           \A S \in SUBSET U : (\A x \in S : S \ {x} \in Good) => S \in Good
    PROVE  \A S \in SUBSET U : S \in Good
<1> SUFFICES ASSUME NEW B \in SUBSET U, B \notin Good
             PROVE  FALSE
  OBVIOUS
<1> DEFINE bad == {Cardinality(S) : S \in {V \in SUBSET U : V \notin Good}}
<1>1. \A S \in SUBSET U : IsFiniteSet(S) /\ Cardinality(S) \in Nat
  BY FS_Subset, FS_CardinalityType
<1>2. bad \in SUBSET Nat /\ bad # {}
  BY <1>1
<1>3. PICK n \in bad : \A m \in bad : n <= m
  <2> HIDE DEF bad
  <2> QED BY <1>2, LeastNatural
<1>4. PICK S \in SUBSET U : S \notin Good /\ n = Cardinality(S)
  OBVIOUS
<1>5. PICK x \in S : S \ {x} \notin Good
  BY <1>4
<1>6. Cardinality(S \ {x}) = n - 1
  BY <1>1, <1>4, FS_RemoveElement
<1>7. Cardinality(S \ {x}) \in bad
  BY <1>5
<1>8. n \in Nat /\ n <= n - 1
  <2> HIDE DEF bad
  <2> QED BY <1>1, <1>3, <1>4, <1>6, <1>7
<1> QED BY <1>8

-----------------------------------------------------------------------------
(* The recursion that defines a sum.                                       *)

Chosen(T) == CHOOSE x \in T : TRUE

\* What the sum over T is, if g has the sums over the smaller sets.
SumOver(f, g, T) == IF T = {} THEN 0 ELSE f[Chosen(T)] + g[T \ {Chosen(T)}]

IsSum(f, g, S) == g = [T \in SUBSET S |-> SumOver(f, g, T)]

LEMMA SumIsChosen ==
    ASSUME NEW f, NEW S
    PROVE  SumFunctionOnSet(f, S) = (CHOOSE g : IsSum(f, g, S))[S]
  BY DEF SumFunctionOnSet, FoldFunctionOnSet, MapThenFoldSet, IsSum, SumOver, Chosen

\* The recursion has a solution: extend one for the sets of up to n elements to those
\* of n + 1.
LEMMA SumExists ==
    ASSUME NEW f, NEW S, IsFiniteSet(S)
    PROVE  \E g : IsSum(f, g, S)
<1> DEFINE level(n) == {T \in SUBSET S : Cardinality(T) <= n}
           Solves(g, n) == g = [T \in level(n) |-> SumOver(f, g, T)]
           bad == {n \in Nat : ~ \E g : Solves(g, n)}
<1>1. \A T \in SUBSET S : IsFiniteSet(T) /\ Cardinality(T) \in Nat
  BY FS_Subset, FS_CardinalityType
<1>2. \A T \in SUBSET S : T # {} =>
        /\ Chosen(T) \in T
        /\ T \ {Chosen(T)} \in SUBSET S
        /\ Cardinality(T \ {Chosen(T)}) = Cardinality(T) - 1
  <2> TAKE T \in SUBSET S
  <2> HAVE T # {}
  <2>1. Chosen(T) \in T
    BY DEF Chosen
  <2> QED BY <1>1, <2>1, FS_RemoveElement
<1>3. \A n \in Nat : \E g : Solves(g, n)
  <2> SUFFICES ASSUME bad # {} PROVE FALSE
    OBVIOUS
  <2>1. PICK n \in bad : \A m \in bad : n <= m
    <3> HIDE DEF bad
    <3>1. bad \in SUBSET Nat
      BY DEF bad
    <3> QED BY <3>1, LeastNatural
  <2>2. CASE n = 0
    <3> DEFINE g == [T \in level(0) |-> 0]
    <3>1. \A T \in level(0) : T = {}
      BY <1>1, FS_EmptySet
    <3>2. g = [T \in level(0) |-> SumOver(f, g, T)]
      BY <3>1 DEF SumOver
    <3> QED BY <2>2, <3>2
  <2>3. CASE n # 0
    <3>1. n - 1 \in Nat /\ n \in Nat
      BY <2>3
    <3>2. n - 1 \notin bad
      <4> HIDE DEF bad
      <4> QED BY <2>1, <3>1
    <3>3. PICK g : Solves(g, n - 1)
      BY <3>1, <3>2
    <3> DEFINE h == [T \in level(n) |-> SumOver(f, g, T)]
    <3>4. ASSUME NEW T \in level(n)
          PROVE  SumOver(f, g, T) = SumOver(f, h, T)
      <4>1. CASE T = {}
        BY <4>1 DEF SumOver
      <4>2. CASE T # {}
        <5> DEFINE R == T \ {Chosen(T)}
        <5>1. R \in level(n) /\ R \in level(n - 1)
          BY <1>1, <1>2, <3>1, <4>2
        <5>2. h[R] = g[R]
          <6>1. h[R] = SumOver(f, g, R)
            BY <5>1
          <6>2. g[R] = SumOver(f, g, R)
            BY <3>3, <5>1
          <6> QED BY <6>1, <6>2
        <5> HIDE DEF h
        <5> QED BY <4>2, <5>2 DEF SumOver
      <4> QED BY <4>1, <4>2
    <3>5. Solves(h, n)
      <4>1. h = [T \in level(n) |-> SumOver(f, h, T)]
        BY <3>4
      <4> QED BY <4>1
    <3>6. n \notin bad
      <4> HIDE DEF Solves
      <4> QED BY <3>5
    <3> QED BY <3>6
  <2> QED BY <2>2, <2>3
<1>4. PICK g : Solves(g, Cardinality(S))
  BY <1>1, <1>3
<1>5. level(Cardinality(S)) = SUBSET S
  BY FS_Subset
<1> QED BY <1>4, <1>5 DEF IsSum

\* The solutions for a set and for a subset agree.
LEMMA SumIsUnique ==
    ASSUME NEW f, NEW S, IsFiniteSet(S), NEW R \in SUBSET S,
           NEW g, IsSum(f, g, S), NEW h, IsSum(f, h, R)
    PROVE  \A T \in SUBSET R : g[T] = h[T]
<1> DEFINE Good == {T \in SUBSET R : g[T] = h[T]}
<1>1. ASSUME NEW T \in SUBSET R, \A x \in T : T \ {x} \in Good
      PROVE  T \in Good
  <2>1. g[T] = SumOver(f, g, T) /\ h[T] = SumOver(f, h, T)
    BY DEF IsSum
  <2>2. T # {} => g[T \ {Chosen(T)}] = h[T \ {Chosen(T)}]
    BY <1>1 DEF Chosen
  <2> QED BY <2>1, <2>2 DEF SumOver
<1>2. IsFiniteSet(R)
  BY FS_Subset
<1>3. \A T \in SUBSET R : T \in Good
  <2> HIDE DEF Good
  <2> QED BY <1>1, <1>2, SubsetInduction
<1> QED BY <1>3

\* The equation a sum is defined by.
LEMMA SumRecursion ==
    ASSUME NEW f, NEW S, IsFiniteSet(S)
    PROVE  SumFunctionOnSet(f, S) =
             IF S = {} THEN 0 ELSE f[Chosen(S)] + SumFunctionOnSet(f, S \ {Chosen(S)})
<1> DEFINE g == CHOOSE k : IsSum(f, k, S)
           R == S \ {Chosen(S)}
           h == CHOOSE k : IsSum(f, k, R)
<1>1. IsFiniteSet(R)
  BY FS_Subset
<1>2. IsSum(f, g, S)
  BY SumExists
<1>3. IsSum(f, h, R)
  <2> HIDE DEF R
  <2> QED BY <1>1, SumExists
<1>4. g[R] = h[R]
  <2>1. R \in SUBSET S
    OBVIOUS
  <2> HIDE DEF g, h, R
  <2> QED BY <1>2, <1>3, <2>1, SumIsUnique
<1>5. g[S] = SumFunctionOnSet(f, S) /\ h[R] = SumFunctionOnSet(f, R)
  BY SumIsChosen
<1>6. g[S] = SumOver(f, g, S)
  <2> HIDE DEF g
  <2> QED BY <1>2 DEF IsSum
<1> HIDE DEF g, h
<1> QED BY <1>4, <1>5, <1>6 DEF SumOver

-----------------------------------------------------------------------------
(* What the ledgers need.                                                  *)

LEMMA SumOfNothing ==
    ASSUME NEW f
    PROVE  SumFunctionOnSet(f, {}) = 0
  BY FS_EmptySet, SumRecursion

LEMMA SumType ==
    ASSUME NEW f, NEW S, IsFiniteSet(S), \A x \in S : f[x] \in Int
    PROVE  SumFunctionOnSet(f, S) \in Int
<1> DEFINE Good == {T \in SUBSET S : SumFunctionOnSet(f, T) \in Int}
<1>1. ASSUME NEW T \in SUBSET S, \A x \in T : T \ {x} \in Good
      PROVE  T \in Good
  <2>1. IsFiniteSet(T)
    BY FS_Subset
  <2>2. CASE T = {}
    BY <2>2, SumOfNothing
  <2>3. CASE T # {}
    <3>1. Chosen(T) \in T
      BY <2>3 DEF Chosen
    <3>2. f[Chosen(T)] \in Int /\ SumFunctionOnSet(f, T \ {Chosen(T)}) \in Int
      BY <1>1, <3>1
    <3> QED BY <2>1, <2>3, <3>2, SumRecursion
  <2> QED BY <2>2, <2>3
<1>2. \A T \in SUBSET S : T \in Good
  <2> HIDE DEF Good
  <2> QED BY <1>1, SubsetInduction
<1> QED BY <1>2

\* Any element may be taken out first.
LEMMA SumRemove ==
    ASSUME NEW f, NEW S, IsFiniteSet(S), \A x \in S : f[x] \in Int, NEW x \in S
    PROVE  SumFunctionOnSet(f, S) = f[x] + SumFunctionOnSet(f, S \ {x})
<1> DEFINE Sum(T) == SumFunctionOnSet(f, T)
           Good == {T \in SUBSET S : \A y \in T : Sum(T) = f[y] + Sum(T \ {y})}
<1>1. \A T \in SUBSET S : IsFiniteSet(T) /\ Sum(T) \in Int
  BY FS_Subset, SumType
<1>2. ASSUME NEW T \in SUBSET S, \A y \in T : T \ {y} \in Good
      PROVE  T \in Good
  <2> SUFFICES ASSUME NEW y \in T PROVE Sum(T) = f[y] + Sum(T \ {y})
    OBVIOUS
  <2> DEFINE c == Chosen(T)
  <2>1. c \in T
    BY DEF Chosen
  <2>2. Sum(T) = f[c] + Sum(T \ {c})
    BY <1>1, <2>1, SumRecursion
  <2>3. CASE y = c
    BY <2>2, <2>3
  <2>4. CASE y # c
    <3>1. Sum(T \ {c}) = f[y] + Sum((T \ {c}) \ {y})
      BY <1>2, <2>1, <2>4
    <3>2. Sum(T \ {y}) = f[c] + Sum((T \ {y}) \ {c})
      BY <1>2, <2>1, <2>4
    <3>3. (T \ {y}) \ {c} = (T \ {c}) \ {y}
      OBVIOUS
    <3> DEFINE rest == Sum((T \ {c}) \ {y})
    <3>4. f[c] \in Int /\ f[y] \in Int /\ rest \in Int
      BY <1>1, <2>1
    <3>5. Sum(T) = f[c] + (f[y] + rest) /\ Sum(T \ {y}) = f[c] + rest
      BY <2>2, <3>1, <3>2, <3>3
    <3> HIDE DEF rest, Sum, c
    <3> QED BY <3>4, <3>5
  <2> QED BY <2>3, <2>4
<1>3. \A T \in SUBSET S : T \in Good
  <2> HIDE DEF Good
  <2> QED BY <1>2, SubsetInduction
<1> QED BY <1>3

LEMMA SumSame ==
    ASSUME NEW f, NEW g, NEW S, IsFiniteSet(S), \A x \in S : f[x] = g[x]
    PROVE  SumFunctionOnSet(f, S) = SumFunctionOnSet(g, S)
<1> DEFINE Good == {T \in SUBSET S : SumFunctionOnSet(f, T) = SumFunctionOnSet(g, T)}
<1>1. ASSUME NEW T \in SUBSET S, \A x \in T : T \ {x} \in Good
      PROVE  T \in Good
  <2>1. IsFiniteSet(T)
    BY FS_Subset
  <2>2. CASE T = {}
    BY <2>2, SumOfNothing
  <2>3. CASE T # {}
    <3>1. Chosen(T) \in T
      BY <2>3 DEF Chosen
    <3>2. /\ f[Chosen(T)] = g[Chosen(T)]
          /\ SumFunctionOnSet(f, T \ {Chosen(T)}) = SumFunctionOnSet(g, T \ {Chosen(T)})
      BY <1>1, <3>1
    <3>3. SumFunctionOnSet(f, T) = SumFunctionOnSet(g, T)
      BY <2>1, <2>3, <3>2, SumRecursion
    <3> QED BY <3>3
  <2> QED BY <2>2, <2>3
<1>2. \A T \in SUBSET S : T \in Good
  <2> HIDE DEF Good
  <2> QED BY <1>1, SubsetInduction
<1> QED BY <1>2

\* One entry r is changed, or put into the set, or taken out of it: the sum moves by the
\* difference.
LEMMA SumPosted ==
    ASSUME NEW U, IsFiniteSet(U), NEW r \in U,
           NEW A \in SUBSET U, NEW f, \A x \in A : f[x] \in Int,
           NEW B \in SUBSET U, NEW g, \A x \in B : g[x] \in Int,
           A \ {r} = B \ {r}, \A x \in A \ {r} : f[x] = g[x]
    PROVE  SumFunctionOnSet(g, B) =
             SumFunctionOnSet(f, A) + (IF r \in B THEN g[r] ELSE 0)
                                    - (IF r \in A THEN f[r] ELSE 0)
<1> DEFINE R == A \ {r}
<1>1. IsFiniteSet(A) /\ IsFiniteSet(B) /\ IsFiniteSet(R)
  BY FS_Subset
<1>2. SumFunctionOnSet(f, R) = SumFunctionOnSet(g, R)
  BY <1>1, SumSame
<1>3. SumFunctionOnSet(f, A) = SumFunctionOnSet(f, R) + IF r \in A THEN f[r] ELSE 0
  <2>1. SumFunctionOnSet(f, R) \in Int
    BY <1>1, SumType
  <2>2. CASE r \in A
    BY <1>1, <2>1, <2>2, SumRemove
  <2>3. CASE r \notin A
    <3>1. R = A
      BY <2>3
    <3> QED BY <2>1, <2>3, <3>1
  <2> QED BY <2>2, <2>3
<1>4. SumFunctionOnSet(g, B) = SumFunctionOnSet(g, R) + IF r \in B THEN g[r] ELSE 0
  <2>1. SumFunctionOnSet(g, R) \in Int
    BY <1>1, SumType
  <2>2. CASE r \in B
    BY <1>1, <2>1, <2>2, SumRemove
  <2>3. CASE r \notin B
    <3>1. R = B
      BY <2>3
    <3> QED BY <2>1, <2>3, <3>1
  <2> QED BY <2>2, <2>3
<1>5. SumFunctionOnSet(g, R) \in Int
  BY <1>1, SumType
<1>6. /\ r \in A => f[r] \in Int
      /\ r \in B => g[r] \in Int
  OBVIOUS
<1> HIDE DEF R
<1> QED BY <1>2, <1>3, <1>4, <1>5, <1>6

\* Amounts that are not negative have a sum that is none of their parts falls short of.
LEMMA SumBounds ==
    ASSUME NEW f, NEW S, IsFiniteSet(S), \A x \in S : f[x] \in Nat
    PROVE  /\ SumFunctionOnSet(f, S) \in Nat
           /\ \A x \in S : f[x] <= SumFunctionOnSet(f, S)
<1> DEFINE Good == {T \in SUBSET S : SumFunctionOnSet(f, T) \in Nat}
<1>1. ASSUME NEW T \in SUBSET S, \A x \in T : T \ {x} \in Good
      PROVE  T \in Good
  <2>1. IsFiniteSet(T)
    BY FS_Subset
  <2>2. CASE T = {}
    BY <2>2, SumOfNothing
  <2>3. CASE T # {}
    <3>1. Chosen(T) \in T
      BY <2>3 DEF Chosen
    <3>2. f[Chosen(T)] \in Nat /\ SumFunctionOnSet(f, T \ {Chosen(T)}) \in Nat
      BY <1>1, <3>1
    <3> QED BY <2>1, <2>3, <3>2, SumRecursion
  <2> QED BY <2>2, <2>3
<1>2. \A T \in SUBSET S : T \in Good
  <2> HIDE DEF Good
  <2> QED BY <1>1, SubsetInduction
<1>3. \A x \in S : f[x] <= SumFunctionOnSet(f, S)
  <2> TAKE x \in S
  <2>1. SumFunctionOnSet(f, S \ {x}) \in Nat
    BY <1>2
  <2>2. SumFunctionOnSet(f, S) = f[x] + SumFunctionOnSet(f, S \ {x})
    BY SumRemove
  <2> QED BY <2>1, <2>2
<1> QED BY <1>2, <1>3

\* Those that come before each element of a finite set, when an order sorts it
\* completely: each place is taken once, and who comes before another has the smaller one.
LEMMA OrderHasPlaces ==
    ASSUME NEW S, IsFiniteSet(S), NEW below,
           \A x \in S : below[x] \subseteq S /\ x \notin below[x],
           \A x, y, z \in S : x \in below[y] /\ y \in below[z] => x \in below[z],
           \A x, y \in S : x # y => x \in below[y] \/ y \in below[x],
           NEW place, \A x \in S : place[x] = Cardinality(below[x])
    PROVE  /\ \A x, y \in S : x \in below[y] => place[x] < place[y]
           /\ \A x, y \in S : place[x] = place[y] => x = y
           /\ \A x \in S : place[x] \in 0..(Cardinality(S) - 1)
           /\ \A k \in 0..(Cardinality(S) - 1) : \E x \in S : place[x] = k
<1>1. Cardinality(S) \in Nat
  BY FS_CardinalityType
<1>2. \A x \in S : IsFiniteSet(below[x]) /\ place[x] \in Nat
  BY FS_Subset, FS_CardinalityType
<1>3. ASSUME NEW x \in S, NEW y \in S, x \in below[y]
      PROVE  place[x] < place[y]
  <2>1. below[x] \subseteq below[y] /\ x \notin below[x]
    BY <1>3
  <2>2. Cardinality(below[x]) <= Cardinality(below[y]) /\ Cardinality(below[x]) # Cardinality(below[y])
    BY <1>2, <1>3, <2>1, FS_Subset
  <2> QED BY <1>2, <2>2
<1>4. ASSUME NEW x \in S
      PROVE  place[x] \in 0..(Cardinality(S) - 1)
  <2>1. Cardinality(below[x]) <= Cardinality(S) /\ Cardinality(below[x]) # Cardinality(S)
    BY FS_Subset
  <2> QED BY <1>1, <1>2, <2>1
<1>5. ASSUME NEW x \in S, NEW y \in S, x # y
      PROVE  place[x] # place[y]
  <2>1. place[x] < place[y] \/ place[y] < place[x]
    BY <1>3, <1>5
  <2> QED BY <1>2, <2>1
<1>6. \A k \in 0..(Cardinality(S) - 1) : \E x \in S : place[x] = k
  <2> DEFINE T == 0..(Cardinality(S) - 1)
             taken == [x \in S |-> place[x]]
  <2>1. taken \in Injection(S, T)
    <3>1. taken \in [S -> T]
      BY <1>4
    <3>2. \A x, y \in DOMAIN taken : taken[x] = taken[y] => x = y
      BY <1>5
    <3> HIDE DEF T, taken
    <3> QED BY <3>1, <3>2 DEF Injection, IsInjective
  <2>2. IsFiniteSet(T) /\ Cardinality(T) = Cardinality(S)
    <3>1. 0 \in Int /\ Cardinality(S) - 1 \in Int
      BY <1>1
    <3>2. Cardinality(T) = IF 0 > Cardinality(S) - 1 THEN 0 ELSE (Cardinality(S) - 1) - 0 + 1
      BY <3>1, FS_Interval
    <3>3. IsFiniteSet(T)
      BY <3>1, FS_Interval
    <3> HIDE DEF T
    <3> QED BY <1>1, <3>2, <3>3
  <2>3. taken \in Surjection(S, T)
    <3> HIDE DEF T, taken
    <3> QED BY <2>1, <2>2, FS_Injection
  <2> QED BY <2>3 DEF Surjection
<1> QED BY <1>3, <1>4, <1>5, <1>6
=============================================================================
