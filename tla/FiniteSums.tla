----------------------------- MODULE FiniteSums -----------------------------
(***************************************************************************)
(* Facts about numbers that several proofs need: induction on the natural  *)
(* numbers, in terms of a set, and sums over finite sets.  MapThenSumSet   *)
(* takes the elements one by one, in an order that CHOOSE determines; here *)
(* it is shown that the order does not matter.                             *)
(***************************************************************************)
EXTENDS Integers, FiniteSetsExt, FiniteSetTheorems, TLAPS

-----------------------------------------------------------------------------
(* Induction *)

\* Induction on a set of numbers.  If k were missing, the successor would map
\* the elements up to k into those that are not 0, which are fewer.
LEMMA SetInduction ==
    ASSUME NEW D, 0 \in D, \A n \in D \cap Nat : n + 1 \in D
    PROVE  Nat \subseteq D
<1> SUFFICES ASSUME NEW k \in Nat, k \notin D PROVE FALSE
    OBVIOUS
<1> DEFINE A == D \cap (0..k)
           B == A \ {0}
           f == [n \in A |-> n + 1]
<1>1. IsFiniteSet(0..k)
    BY FS_Interval
<1>2. IsFiniteSet(A) /\ 0 \in A
    BY <1>1, FS_Subset, A \in SUBSET (0..k)
<1>3. IsFiniteSet(B) /\ Cardinality(B) = Cardinality(A) - 1
    BY <1>2, FS_RemoveElement
<1>4. Cardinality(A) \in Nat
    BY <1>2, FS_CardinalityType
<1>5. f \in [A -> B]
    <2> SUFFICES ASSUME NEW n \in A PROVE n + 1 \in B
        OBVIOUS
    <2>1. n # k /\ n \in 0..k /\ n \in D
        OBVIOUS
    <2>2. n + 1 \in 0..k /\ n + 1 \in D /\ n + 1 # 0
        BY <2>1
    <2> QED BY <2>2
<1>6. Cardinality(B) < Cardinality(A)
    BY <1>3, <1>4
<1>7. \A x, y \in A : f[x] = f[y] => x = y
    OBVIOUS
<1> HIDE DEF A, B, f
<1>8. \E x, y \in A : x # y /\ f[x] = f[y]
    BY <1>2, <1>3, <1>5, <1>6, FS_PigeonHole
<1> QED BY <1>7, <1>8

\* Every set of natural numbers that is not empty has a smallest.
LEMMA Smallest ==
    ASSUME NEW S, S \subseteq Nat, S # {}
    PROVE  \E m \in S : \A n \in S : m <= n
<1> SUFFICES ASSUME \A m \in S : \E n \in S : ~(m <= n) PROVE FALSE
    OBVIOUS
<1> DEFINE D == {k \in Nat : \A n \in S : k <= n}
<1>1. 0 \in D
    OBVIOUS
<1>2. \A k \in D \cap Nat : k + 1 \in D
    <2> SUFFICES ASSUME NEW k \in D PROVE \A n \in S : k + 1 <= n
        OBVIOUS
    <2>1. k \in Nat /\ \A n \in S : k <= n /\ n \in Nat
        OBVIOUS
    <2>2. k \notin S
        BY <2>1
    <2> QED BY <2>1, <2>2
<1>3. Nat \subseteq D
    <2> HIDE DEF D
    <2> QED BY <1>1, <1>2, SetInduction
<1>4. PICK n \in S : n \in Nat
    BY Zenon
<1>5. n + 1 \in D
    BY <1>3, <1>4
<1> QED BY <1>4, <1>5

-----------------------------------------------------------------------------
(* Sums *)

Chosen(s) == CHOOSE x \in s : TRUE

\* g is the function that MapThenSumSet computes the sum of f over S with.
IsSum(f, S, g) ==
    g = [s \in SUBSET S |->
            IF s = {} THEN 0 ELSE f[Chosen(s)] + g[s \ {Chosen(s)}]]

\* The sum of f over S, of a function where MapThenSumSet takes an operator.
SumOf(f, S) == (CHOOSE g : IsSum(f, S, g))[S]

\* f gives an integer to each of the finitely many elements of S.
Summable(f, S) == IsFiniteSet(S) /\ \A x \in S : f[x] \in Int

\* It is what MapThenSumSet sums.
LEMMA SumOfFunction ==
    ASSUME NEW f, NEW S
    PROVE  MapThenSumSet(LAMBDA x : f[x], S) = SumOf(f, S)
BY Zenon DEF MapThenSumSet, MapThenFoldSet, SumOf, IsSum, Chosen

\* The element that is taken out of a set is one of it.
LEMMA ChosenIn == ASSUME NEW s, s # {} PROVE Chosen(s) \in s
BY DEF Chosen

\* A set has more elements than it has without one of them.
LEMMA Smaller ==
    ASSUME NEW S, IsFiniteSet(S), NEW s \in SUBSET S, NEW x \in s
    PROVE  /\ IsFiniteSet(s) /\ IsFiniteSet(s \ {x})
           /\ Cardinality(s) \in Nat /\ Cardinality(s \ {x}) \in Nat
           /\ Cardinality(s \ {x}) = Cardinality(s) - 1
BY FS_Subset, FS_RemoveElement, FS_CardinalityType

\* The function exists: it is made for the sets of at most n elements, for one
\* n after the other.
LEMMA SumExists ==
    ASSUME NEW f, NEW S, Summable(f, S)
    PROVE  \E g \in [SUBSET S -> Int] : IsSum(f, S, g)
<1> DEFINE Level(n) == {s \in SUBSET S : Cardinality(s) <= n}
           Good(n, g) == \A s \in Level(n) :
                g[s] = IF s = {} THEN 0 ELSE f[Chosen(s)] + g[s \ {Chosen(s)}]
           D == {n \in Nat : \E g \in [Level(n) -> Int] : Good(n, g)}
<1>1. \A s \in SUBSET S : IsFiniteSet(s) /\ Cardinality(s) \in Nat
    BY FS_Subset, FS_CardinalityType DEF Summable
<1>2. 0 \in D
    <2> DEFINE g == [s \in Level(0) |-> 0]
    <2>1. \A s \in Level(0) : s = {}
        BY <1>1, FS_EmptySet
    <2>2. g \in [Level(0) -> Int] /\ Good(0, g)
        BY <2>1
    <2> QED BY <2>2, Zenon
<1>3. ASSUME NEW n \in D \cap Nat PROVE n + 1 \in D
    <2>1. PICK g \in [Level(n) -> Int] : Good(n, g)
        BY Zenon
    <2> DEFINE h == [s \in Level(n + 1) |->
                        IF s \in Level(n) THEN g[s]
                        ELSE f[Chosen(s)] + g[s \ {Chosen(s)}]]
    <2>2. ASSUME NEW s \in Level(n + 1), s # {}
          PROVE  /\ s \ {Chosen(s)} \in Level(n) /\ f[Chosen(s)] \in Int
        <3>1. Chosen(s) \in s
            BY <2>2, ChosenIn
        <3>2. Cardinality(s \ {Chosen(s)}) = Cardinality(s) - 1 /\ Cardinality(s) \in Nat
            BY <3>1, Smaller, Zenon DEF Summable
        <3> QED BY <3>1, <3>2 DEF Summable
    <2>3. Level(n) \subseteq Level(n + 1)
        BY <1>1
    <2>4. {} \in Level(n)
        BY FS_EmptySet
    <2>5. h \in [Level(n + 1) -> Int]
        <3> SUFFICES ASSUME NEW s \in Level(n + 1)
                     PROVE  (IF s \in Level(n) THEN g[s]
                             ELSE f[Chosen(s)] + g[s \ {Chosen(s)}]) \in Int
            OBVIOUS
        <3> HIDE DEF Level
        <3>1. CASE s \in Level(n)
            BY <2>1, <3>1
        <3>2. CASE s \notin Level(n)
            <4>1. s # {}
                BY <2>4, <3>2, Zenon
            <4>2. s \ {Chosen(s)} \in Level(n) /\ f[Chosen(s)] \in Int
                BY <2>2, <4>1
            <4>3. g[s \ {Chosen(s)}] \in Int
                BY <4>2
            <4>4. f[Chosen(s)] + g[s \ {Chosen(s)}] \in Int
                BY <4>2, <4>3
            <4> QED BY <3>2, <4>4
        <3> QED BY <3>1, <3>2
    <2>6. Good(n + 1, h)
        <3> SUFFICES ASSUME NEW s \in Level(n + 1)
                     PROVE  h[s] = IF s = {} THEN 0 ELSE f[Chosen(s)] + h[s \ {Chosen(s)}]
            BY Zenon
        <3> HIDE DEF Level
        <3>1. CASE s = {}
            BY <2>1, <2>3, <2>4, <3>1, Zenon
        <3>2. CASE s # {}
            <4>1. h[s \ {Chosen(s)}] = g[s \ {Chosen(s)}]
                BY <2>2, <2>3, <3>2
            <4>2. h[s] = f[Chosen(s)] + g[s \ {Chosen(s)}]
                BY <2>1, <2>2, <3>2
            <4> QED BY <3>2, <4>1, <4>2
        <3> QED BY <3>1, <3>2
    <2> HIDE DEF Level, Good, h
    <2> QED BY <2>5, <2>6
<1>4. Nat \subseteq D
    <2> HIDE DEF D
    <2> QED BY <1>2, <1>3, SetInduction
<1>5. PICK n \in Nat : n = Cardinality(S)
    BY <1>1
<1>6. PICK g \in [Level(n) -> Int] : Good(n, g)
    BY <1>4, Zenon
<1>7. Level(n) = SUBSET S
    <2>1. \A s \in SUBSET S : Cardinality(s) <= Cardinality(S)
        BY FS_Subset DEF Summable
    <2> QED BY <1>5, <2>1
<1>8. IsSum(f, S, g)
    BY <1>6, <1>7, Zenon DEF IsSum
<1> QED BY <1>6, <1>7, <1>8, Zenon

\* There is no other: two that agree on a set without an element agree on it.
LEMMA SumUnique ==
    ASSUME NEW f, NEW S, Summable(f, S), NEW g, NEW h, IsSum(f, S, g), IsSum(f, S, h)
    PROVE  g = h
<1> DEFINE D == {n \in Nat : \A s \in SUBSET S : Cardinality(s) = n => g[s] = h[s]}
<1>1. \A s \in SUBSET S : IsFiniteSet(s) /\ Cardinality(s) \in Nat
    BY FS_Subset, FS_CardinalityType DEF Summable
<1>2. ASSUME NEW s \in SUBSET S
      PROVE  /\ g[s] = IF s = {} THEN 0 ELSE f[Chosen(s)] + g[s \ {Chosen(s)}]
             /\ h[s] = IF s = {} THEN 0 ELSE f[Chosen(s)] + h[s \ {Chosen(s)}]
    BY Zenon DEF IsSum
<1>3. 0 \in D
    BY <1>1, <1>2, FS_EmptySet
<1>4. ASSUME NEW n \in D \cap Nat PROVE n + 1 \in D
    <2> SUFFICES ASSUME NEW s \in SUBSET S, Cardinality(s) = n + 1 PROVE g[s] = h[s]
        OBVIOUS
    <2>1. CASE s = {}
        BY <1>2, <2>1, Zenon
    <2>2. CASE s # {}
        <3>1. Chosen(s) \in s
            BY <2>2, ChosenIn
        <3>2. Cardinality(s \ {Chosen(s)}) = n
            <4>1. IsFiniteSet(S) /\ n \in Nat
                BY DEF Summable
            <4>2. Cardinality(s \ {Chosen(s)}) = Cardinality(s) - 1
                BY <3>1, <4>1, Smaller, Zenon
            <4> QED BY <4>1, <4>2
        <3>3. g[s \ {Chosen(s)}] = h[s \ {Chosen(s)}]
            BY <3>2
        <3> QED BY <1>2, <2>2, <3>3
    <2> QED BY <2>1, <2>2
<1>5. Nat \subseteq D
    <2> HIDE DEF D
    <2> QED BY <1>3, <1>4, SetInduction
<1>6. \A s \in SUBSET S : g[s] = h[s]
    BY <1>1, <1>5
<1>7. g = [s \in SUBSET S |-> g[s]] /\ h = [s \in SUBSET S |-> h[s]]
    BY DEF IsSum
<1> QED BY <1>6, <1>7, Zenon

\* The sum over a subset is the value that the function of the whole set has.
LEMMA SumOfSubset ==
    ASSUME NEW f, NEW S, Summable(f, S), NEW g, IsSum(f, S, g), NEW T \in SUBSET S
    PROVE  SumOf(f, T) = g[T]
<1> DEFINE h == [s \in SUBSET T |-> g[s]]
<1>1. ASSUME NEW s \in SUBSET T
      PROVE  g[s] = IF s = {} THEN 0 ELSE f[Chosen(s)] + g[s \ {Chosen(s)}]
    <2>1. s \in SUBSET S
        OBVIOUS
    <2> QED BY <2>1, Zenon DEF IsSum
<1>2. \A s \in SUBSET T : h[s \ {Chosen(s)}] = g[s \ {Chosen(s)}]
    OBVIOUS
<1>3. IsSum(f, T, h)
    BY <1>1, <1>2, Zenon DEF IsSum
<1>4. Summable(f, T)
    BY FS_Subset DEF Summable
<1>5. IsSum(f, T, CHOOSE k : IsSum(f, T, k))
    BY <1>3
<1>6. h = CHOOSE k : IsSum(f, T, k)
    <2> HIDE DEF h
    <2> QED BY <1>3, <1>4, <1>5, SumUnique
<1>7. h[T] = g[T]
    OBVIOUS
<1> QED BY <1>6, <1>7, Zenon DEF SumOf

\* The element that is taken out first does not matter.
LEMMA SumAnyOrder ==
    ASSUME NEW f, NEW S, Summable(f, S), NEW g \in [SUBSET S -> Int], IsSum(f, S, g),
           NEW T \in SUBSET S, NEW e \in T
    PROVE  g[T] = f[e] + g[T \ {e}]
<1> DEFINE D == {n \in Nat : \A s \in SUBSET S : Cardinality(s) = n =>
                                \A x \in s : g[s] = f[x] + g[s \ {x}]}
<1>1. \A s \in SUBSET S : IsFiniteSet(s) /\ Cardinality(s) \in Nat
    BY FS_Subset, FS_CardinalityType DEF Summable
<1>2. ASSUME NEW s \in SUBSET S, s # {}
      PROVE  g[s] = f[Chosen(s)] + g[s \ {Chosen(s)}]
    BY <1>2, Zenon DEF IsSum
<1>3. 0 \in D
    BY <1>1, FS_EmptySet
<1>4. ASSUME NEW n \in D \cap Nat PROVE n + 1 \in D
    <2> SUFFICES ASSUME NEW s \in SUBSET S, Cardinality(s) = n + 1, NEW x \in s
                 PROVE  g[s] = f[x] + g[s \ {x}]
        OBVIOUS
    <2>1. PICK y \in s : y = Chosen(s) /\ g[s] = f[y] + g[s \ {y}]
        BY <1>2, ChosenIn
    <2>2. CASE y = x
        BY <2>1, <2>2
    <2>3. CASE y # x
        <3>1. Cardinality(s \ {y}) = n /\ Cardinality(s \ {x}) = n
            <4>1. IsFiniteSet(S) /\ n \in Nat
                BY DEF Summable
            <4>2. Cardinality(s \ {y}) = Cardinality(s) - 1
                BY <4>1, Smaller, Zenon
            <4>3. Cardinality(s \ {x}) = Cardinality(s) - 1
                BY <4>1, Smaller, SMTT(30)
            <4> QED BY <4>1, <4>2, <4>3
        <3>2. /\ s \ {y} \in SUBSET S /\ x \in s \ {y}
              /\ s \ {x} \in SUBSET S /\ y \in s \ {x}
            BY <2>3
        <3>3. PICK t \in SUBSET S : t = (s \ {y}) \ {x} /\ t = (s \ {x}) \ {y}
            BY Zenon
        <3>4. g[s \ {y}] = f[x] + g[t]
            BY <3>1, <3>2, <3>3
        <3>5. g[s \ {x}] = f[y] + g[t]
            BY <3>1, <3>2, <3>3
        <3>6. f[x] \in Int /\ f[y] \in Int /\ g[t] \in Int
            BY DEF Summable
        <3>7. f[y] + (f[x] + g[t]) = f[x] + (f[y] + g[t])
            BY <3>6
        <3> QED BY <2>1, <3>4, <3>5, <3>7
    <2> QED BY <2>2, <2>3
<1>5. Nat \subseteq D
    <2> HIDE DEF D
    <2> QED BY <1>3, <1>4, SetInduction
<1> QED BY <1>1, <1>5

\* The sum over no elements.
LEMMA SumOfNone == ASSUME NEW f PROVE SumOf(f, {}) = 0
<1>1. Summable(f, {}) /\ {} \in SUBSET {}
    BY FS_EmptySet DEF Summable
<1>2. PICK g \in [SUBSET {} -> Int] : IsSum(f, {}, g)
    BY <1>1, SumExists, Zenon
<1>3. SumOf(f, {}) = g[{}]
    BY <1>1, <1>2, SumOfSubset
<1> QED BY <1>1, <1>2, <1>3 DEF IsSum

\* The sum of integers is one.
LEMMA SumIsInt == ASSUME NEW f, NEW S, Summable(f, S) PROVE SumOf(f, S) \in Int
<1>1. PICK g \in [SUBSET S -> Int] : IsSum(f, S, g)
    BY SumExists, Zenon
<1>2. SumOf(f, S) = g[S]
    BY <1>1, SumOfSubset
<1> QED BY <1>1, <1>2

\* An element adds its value to the sum over the others.
LEMMA SumRemove ==
    ASSUME NEW f, NEW S, Summable(f, S), NEW x \in S
    PROVE  SumOf(f, S) = f[x] + SumOf(f, S \ {x})
<1>1. PICK g \in [SUBSET S -> Int] : IsSum(f, S, g)
    BY SumExists, Zenon
<1>2. SumOf(f, S) = g[S] /\ SumOf(f, S \ {x}) = g[S \ {x}]
    BY <1>1, SumOfSubset
<1>3. g[S] = f[x] + g[S \ {x}]
    <2>1. PICK T \in SUBSET S : T = S
        OBVIOUS
    <2>2. g[T] = f[x] + g[T \ {x}]
        BY <1>1, <2>1, SumAnyOrder
    <2> QED BY <2>1, <2>2
<1> QED BY <1>2, <1>3

\* The same for an element that is added.
LEMMA SumAdd ==
    ASSUME NEW f, NEW S, NEW x, x \notin S, Summable(f, S), f[x] \in Int
    PROVE  /\ Summable(f, S \cup {x})
           /\ SumOf(f, S \cup {x}) = f[x] + SumOf(f, S)
<1>1. Summable(f, S \cup {x})
    BY FS_AddElement DEF Summable
<1>2. (S \cup {x}) \ {x} = S
    OBVIOUS
<1> QED BY <1>1, <1>2, SumRemove

\* Only the values on the set matter.
LEMMA SumSame ==
    ASSUME NEW f, NEW h, NEW S, Summable(f, S), \A x \in S : f[x] = h[x]
    PROVE  SumOf(f, S) = SumOf(h, S)
<1>1. PICK g \in [SUBSET S -> Int] : IsSum(f, S, g)
    BY SumExists, Zenon
<1>2. \A s \in SUBSET S : s # {} => f[Chosen(s)] = h[Chosen(s)]
    BY ChosenIn
<1>3. IsSum(h, S, g)
    BY <1>1, <1>2, Zenon DEF IsSum
<1>4. Summable(h, S)
    BY DEF Summable
<1>5. SumOf(f, S) = g[S] /\ SumOf(h, S) = g[S]
    BY <1>1, <1>3, <1>4, SumOfSubset
<1> QED BY <1>5

\* A part of a set sums to no more than the set, if no element counts negative.
LEMMA SumOfPart ==
    ASSUME NEW f, NEW S, IsFiniteSet(S), \A x \in S : f[x] \in Nat, NEW T \in SUBSET S
    PROVE  SumOf(f, T) <= SumOf(f, S)
<1> DEFINE D == {n \in Nat : \A s \in SUBSET S :
                    T \subseteq s /\ Cardinality(s) = n => SumOf(f, T) <= SumOf(f, s)}
<1>1. \A s \in SUBSET S : IsFiniteSet(s) /\ Cardinality(s) \in Nat
    BY FS_Subset, FS_CardinalityType
<1>2. \A s \in SUBSET S : Summable(f, s) /\ SumOf(f, s) \in Int
    BY <1>1, SumIsInt DEF Summable
<1>3. 0 \in D
    <2> SUFFICES ASSUME NEW s \in SUBSET S, T \subseteq s, Cardinality(s) = 0
                 PROVE  SumOf(f, T) <= SumOf(f, s)
        OBVIOUS
    <2>1. s = {} /\ T = s
        BY <1>1, FS_EmptySet
    <2> QED BY <1>2, <2>1
<1>4. ASSUME NEW n \in D \cap Nat PROVE n + 1 \in D
    <2> SUFFICES ASSUME NEW s \in SUBSET S, T \subseteq s, Cardinality(s) = n + 1
                 PROVE  SumOf(f, T) <= SumOf(f, s)
        OBVIOUS
    <2>1. CASE T = s
        BY <1>2, <2>1
    <2>2. CASE T # s
        <3>1. PICK x \in s : x \notin T
            BY <2>2
        <3>2. Cardinality(s \ {x}) = n
            <4>1. Cardinality(s \ {x}) = Cardinality(s) - 1
                BY Smaller, SMTT(30)
            <4> QED BY <4>1
        <3>3. PICK t \in SUBSET S : t = s \ {x}
            BY Zenon
        <3>4. SumOf(f, T) <= SumOf(f, t)
            BY <3>1, <3>2, <3>3
        <3>5. SumOf(f, s) = f[x] + SumOf(f, t)
            BY <1>2, <3>3, SumRemove
        <3>6. f[x] \in Nat /\ SumOf(f, T) \in Int /\ SumOf(f, t) \in Int
            BY <1>2
        <3> QED BY <3>4, <3>5, <3>6
    <2> QED BY <2>1, <2>2
<1>5. Nat \subseteq D
    <2> HIDE DEF D
    <2> QED BY <1>3, <1>4, SetInduction
<1>6. PICK U \in SUBSET S : U = S
    OBVIOUS
<1>7. SumOf(f, T) <= SumOf(f, U)
    BY <1>1, <1>5, <1>6
<1> QED BY <1>6, <1>7

\* Zeros sum to zero.
LEMMA SumOfZeros ==
    ASSUME NEW f, NEW S, IsFiniteSet(S), \A x \in S : f[x] = 0
    PROVE  SumOf(f, S) = 0
<1> DEFINE g == [s \in SUBSET S |-> 0]
<1>1. Summable(f, S)
    BY DEF Summable
<1>2. ASSUME NEW s \in SUBSET S
      PROVE  g[s] = IF s = {} THEN 0 ELSE f[Chosen(s)] + g[s \ {Chosen(s)}]
    <2>1. CASE s = {}
        BY <2>1
    <2>2. CASE s # {}
        <3>1. f[Chosen(s)] = 0 /\ s \ {Chosen(s)} \in SUBSET S
            BY <2>2, ChosenIn
        <3> QED BY <2>2, <3>1
    <2> QED BY <2>1, <2>2
<1>3. IsSum(f, S, g)
    BY <1>2, SMTT(30) DEF IsSum
<1>4. PICK T \in SUBSET S : T = S
    OBVIOUS
<1>5. g[S] = 0
    OBVIOUS
<1> HIDE DEF g
<1>6. SumOf(f, T) = g[T]
    BY <1>1, <1>3, SumOfSubset
<1> QED BY <1>4, <1>5, <1>6

\* If all but one are zeros the sum is that one.
LEMMA SumOfOne ==
    ASSUME NEW f, NEW S, IsFiniteSet(S), NEW x \in S, f[x] \in Int,
           \A y \in S \ {x} : f[y] = 0
    PROVE  SumOf(f, S) = f[x]
<1>1. Summable(f, S)
    BY DEF Summable
<1>2. IsFiniteSet(S \ {x})
    BY FS_RemoveElement
<1>3. SumOf(f, S \ {x}) = 0
    BY <1>2, SumOfZeros
<1> QED BY <1>1, <1>3, SumRemove
=============================================================================
