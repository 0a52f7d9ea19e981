---------------------------- MODULE ShamirProofs ----------------------------
(***************************************************************************)
(* What the secret sharing of shamir.rs, dkg.rs and threshold.rs rests on, *)
(* for every prime order of the field and any number of shares: Lagrange   *)
(* interpolation at 0 gives the constant of a polynomial back from as many *)
(* of its values as it has coefficients, and it is linear, so that what is *)
(* computed share by share is computed of the secret.                      *)
(*                                                                         *)
(* The powers are what is interpolated first.  Of x^0, x^1, ... up to one  *)
(* less than the number of points, interpolation gives 1, 0, 0, ...: from  *)
(* a set of points and the one with a point less, the next power follows.  *)
(***************************************************************************)
EXTENDS Shamir, FiniteSums

-----------------------------------------------------------------------------
(* Scalars *)

\* Arithmetic that proofs use for terms that are not variables.
LEMMA TimesInt == \A a, b \in Int : a * b \in Int /\ a + b \in Int /\ a - b \in Int /\ -a \in Int
OBVIOUS

\* Integers that are the same scalar.
Same(a, b) == a % P = b % P

\* What is left of an integer is a scalar.
LEMMA ModType == ASSUME NEW a \in Int PROVE a % P \in Field /\ a % P \in Int /\ a % P >= 0 /\ a % P < P
BY PrimeOrder DEF Field

\* An integer is what is left of it and a multiple of P.
LEMMA DivMod == ASSUME NEW a \in Int PROVE \E q \in Int : a = q * P + (a % P)
<1>1. P \in Int /\ P > 0
  BY PrimeOrder
<1>2. a \div P \in Int
  BY <1>1
<1>3. a = (a \div P) * P + (a % P)
  BY <1>1, <1>2
<1> QED BY <1>2, <1>3

\* A larger quotient makes the multiple larger by p at least.
LEMMA Quotient == ASSUME NEW p \in Nat, NEW x \in Int, NEW y \in Int, y > x
   PROVE y * p >= x * p + p
<1>1. PICK z \in Int : z = y - x - 1
   OBVIOUS
<1>2. z >= 0 /\ y = x + 1 + z
   BY <1>1
<1>3. z * p >= 0
   BY <1>2
<1>4. y * p = x * p + p + z * p
   BY <1>2
<1>5. x * p \in Int /\ z * p \in Int
   OBVIOUS
<1> QED BY <1>3, <1>4, <1>5

\* Two integers are the same scalar when they differ by a multiple of P.
LEMMA SameIff == ASSUME NEW a \in Int, NEW b \in Int
  PROVE Same(a, b) <=> \E q \in Int : a = b + q * P
<1>0. P \in Nat /\ P > 0
  BY PrimeOrder
<1>1. PICK x \in Int : a = x * P + (a % P)
  BY DivMod
<1>2. PICK y \in Int : b = y * P + (b % P)
  BY DivMod
<1>3. /\ a % P \in Int /\ a % P >= 0 /\ a % P < P
      /\ b % P \in Int /\ b % P >= 0 /\ b % P < P
  BY ModType
<1>4. ASSUME Same(a, b) PROVE \E q \in Int : a = b + q * P
  <2>1. a = b + (x - y) * P
    BY <1>0, <1>1, <1>2, <1>3, <1>4 DEF Same
  <2>2. x - y \in Int
    OBVIOUS
  <2> QED BY <2>1, <2>2
<1>5. ASSUME NEW q \in Int, a = b + q * P PROVE Same(a, b)
  <2>1. PICK z \in Int : z = y + q
    OBVIOUS
  <2>2. x * P + (a % P) = z * P + (b % P)
    BY <1>0, <1>1, <1>2, <1>3, <1>5, <2>1
  <2>3. x * P \in Int /\ z * P \in Int
    BY <1>0
  <2>4. ~(x > z)
    <3>1. x > z => x * P >= z * P + P
      BY <1>0, Quotient
    <3> QED BY <1>0, <1>3, <2>2, <2>3, <3>1
  <2>5. ~(z > x)
    <3>1. z > x => z * P >= x * P + P
      BY <1>0, Quotient
    <3> QED BY <1>0, <1>3, <2>2, <2>3, <3>1
  <2>6. x = z
    BY <2>4, <2>5
  <2> QED BY <1>3, <2>2, <2>3, <2>6 DEF Same
<1> QED BY <1>4, <1>5

\* Sums of the same scalars are the same scalar.
LEMMA SameAdd ==
    ASSUME NEW a \in Int, NEW b \in Int, NEW c \in Int, NEW d \in Int, Same(a, b), Same(c, d)
    PROVE  Same(a + c, b + d)
<1>1. P \in Int
    BY PrimeOrder
<1>2. PICK x \in Int : a = b + x * P
    BY SameIff
<1>3. PICK y \in Int : c = d + y * P
    BY SameIff
<1>4. a + c = (b + d) + (x + y) * P /\ x + y \in Int
    BY <1>1, <1>2, <1>3
<1>5. a + c \in Int /\ b + d \in Int
    OBVIOUS
<1> QED BY <1>4, <1>5, SameIff

\* Products of the same scalars are the same scalar.
LEMMA SameTimes ==
    ASSUME NEW a \in Int, NEW b \in Int, NEW c \in Int, NEW d \in Int, Same(a, b), Same(c, d)
    PROVE  Same(a * c, b * d)
<1>1. P \in Int
    BY PrimeOrder
<1>2. PICK x \in Int : a = b + x * P
    BY SameIff
<1>3. PICK y \in Int : c = d + y * P
    BY SameIff
<1>4. PICK z \in Int : z = b * y + x * d + x * y * P
    BY <1>1
<1>5. a * c = b * d + z * P
    BY <1>1, <1>2, <1>3, <1>4
<1>6. a * c \in Int /\ b * d \in Int
    OBVIOUS
<1> QED BY <1>5, <1>6, SameIff

\* An integer is the same scalar as what is left of it.
LEMMA SameMod == ASSUME NEW a \in Int PROVE Same(a % P, a) /\ Same(a, a % P)
<1>1. P \in Nat /\ P > 0 /\ a % P \in Int
    BY PrimeOrder, ModType
<1>2. PICK q \in Int : a = q * P + (a % P)
    BY DivMod
<1>3. a = (a % P) + q * P
    BY <1>1, <1>2
<1>4. Same(a, a % P)
    BY <1>1, <1>3, SameIff, SMTT(30)
<1> QED BY <1>4 DEF Same

\* Nothing is taken off a scalar.
LEMMA ModOfField == ASSUME NEW a \in Field PROVE a % P = a /\ a \in Int
<1>1. P \in Nat /\ P > 0 /\ a \in Int /\ a >= 0 /\ a < P
    BY PrimeOrder DEF Field
<1> QED BY <1>1

\* Scalars that are the same are equal.
LEMMA SameField == ASSUME NEW a \in Field, NEW b \in Field, Same(a, b) PROVE a = b
BY ModOfField DEF Same

\* The order is prime: a factor of 0 that is not 0 has 0 beside it.
LEMMA NoZeroDivisors ==
    ASSUME NEW a \in Int, NEW b \in Int, Same(a * b, 0), ~Same(a, 0)
    PROVE  Same(b, 0)
<1>1. P \in Nat /\ P > 1 /\ 0 \in Field /\ 0 \in Int
    BY PrimeOrder DEF Field
<1>2. PICK x \in Field : x = a % P /\ Same(a, x) /\ x \in Int
    BY ModType, SameMod
<1>3. PICK y \in Field : y = b % P /\ Same(b, y) /\ y \in Int
    BY ModType, SameMod
<1>4. Same(x * y, a * b)
    BY <1>2, <1>3, SameTimes DEF Same
<1>5. (x * y) % P = 0
    BY <1>1, <1>4, ModOfField DEF Same
<1>6. x # 0
    BY <1>1, <1>2, ModOfField DEF Same
<1>7. y = 0
    BY <1>1, <1>2, <1>3, <1>5, <1>6, PrimeOrder DEF Field
<1> QED BY <1>3, <1>7

\* Scalar::invert gives the inverse of every scalar but 0.
LEMMA InverseTimes ==
    ASSUME NEW a \in Int, ~Same(a, 0)
    PROVE  invert(a) \in Field /\ invert(a) \in Int /\ Same(a * invert(a), 1)
<1>1. P \in Nat /\ P > 1 /\ 0 \in Field /\ 0 \in Int /\ 1 \in Field
    BY PrimeOrder DEF Field
<1>2. PICK x \in Field : x = a % P /\ Same(a, x) /\ x \in Int
    BY ModType, SameMod
<1> DEFINE f == [b \in Field |-> (x * b) % P]
           Rest == Field \ {1}
<1>3. \E b \in Field : (x * b) % P = 1
    <2> SUFFICES ASSUME \A b \in Field : (x * b) % P # 1 PROVE FALSE
        OBVIOUS
    <2>1. f \in [Field -> Rest]
        <3> SUFFICES ASSUME NEW b \in Field PROVE (x * b) % P \in Field
            OBVIOUS
        <3>1. x * b \in Int
            BY <1>2, ModOfField
        <3> QED BY <3>1, ModType
    <2>2. IsFiniteSet(Field) /\ Cardinality(Field) \in Nat
        <3>1. PICK n \in Int : n = P - 1
            BY <1>1
        <3>2. IsFiniteSet(0..n)
            BY <3>1, FS_Interval
        <3> QED BY <3>1, <3>2, FS_CardinalityType DEF Field
    <2>3. IsFiniteSet(Rest) /\ Cardinality(Rest) = Cardinality(Field) - 1
        BY <1>1, <2>2, FS_RemoveElement
    <2>4. Cardinality(Rest) < Cardinality(Field)
        BY <2>2, <2>3
    <2>5. ASSUME NEW b \in Field, NEW c \in Field, f[b] = f[c] PROVE b = c
        <3>1. b \in Int /\ c \in Int /\ x * b \in Int /\ x * c \in Int
            BY <1>2, ModOfField
        <3>2. Same(x * b, x * c)
            BY <2>5 DEF Same
        <3>3. Same(x * b + x * (-c), x * c + x * (-c))
            <4>1. x * (-c) \in Int /\ Same(x * (-c), x * (-c))
                BY <1>2, <3>1 DEF Same
            <4> QED BY <3>1, <3>2, <4>1, SameAdd
        <3>4. x * b + x * (-c) = x * (b - c) /\ x * c + x * (-c) = 0
            BY <1>2, <3>1
        <3>5. Same(b - c, 0)
            <4>1. b - c \in Int /\ ~Same(x, 0)
                BY <1>2, <3>1 DEF Same
            <4> QED BY <1>2, <3>3, <3>4, <4>1, NoZeroDivisors
        <3>6. PICK d \in Int : d = b - c
            BY <3>1
        <3>7. Same(c, c) /\ Same(d, 0)
            BY <3>5, <3>6 DEF Same
        <3>8. Same(d + c, 0 + c)
            BY <1>1, <3>1, <3>6, <3>7, SameAdd
        <3>9. d + c = b /\ 0 + c = c
            BY <3>1, <3>6
        <3> QED BY <3>8, <3>9, SameField
    <2> HIDE DEF f, Rest
    <2>6. \E b, c \in Field : b # c /\ f[b] = f[c]
        BY <2>1, <2>2, <2>3, <2>4, FS_PigeonHole
    <2> QED BY <2>5, <2>6
<1>4. a % P # 0
    BY <1>1, ModOfField DEF Same
<1>5. invert(a) \in Field /\ (x * invert(a)) % P = 1
    BY <1>2, <1>3, <1>4 DEF invert
<1>6. invert(a) \in Int
    BY <1>5, ModOfField
<1>7. Same(a * invert(a), x * invert(a))
    BY <1>2, <1>6, SameTimes DEF Same
<1>8. Same(x * invert(a), 1)
    BY <1>1, <1>5, ModOfField DEF Same
<1> QED BY <1>5, <1>6, <1>7, <1>8 DEF Same

-----------------------------------------------------------------------------
(* Products *)

\* g is the function that the product of f over S is computed with.
IsProduct(f, S, g) ==
    g = [s \in SUBSET S |->
            IF s = {} THEN 1 ELSE f[Chosen(s)] * g[s \ {Chosen(s)}]]

ProductOf(f, S) == (CHOOSE g : IsProduct(f, S, g))[S]

\* The product that Shamir takes of a function.
LEMMA ProductOfFunction == ASSUME NEW f PROVE ProductOver(f) = ProductOf(f, DOMAIN f) % P
BY Zenon DEF ProductOver, FoldFunction, FoldFunctionOnSet, MapThenFoldSet, ProductOf,
             IsProduct, Chosen

\* The sum that Shamir takes of a function.
LEMMA SumOverFunction == ASSUME NEW f PROVE SumOver(f) = SumOf(f, DOMAIN f) % P
BY Zenon DEF SumOver, SumFunction, SumFunctionOnSet, FoldFunctionOnSet, MapThenFoldSet,
             SumOf, IsSum, Chosen

\* The function exists: it is made for the sets of at most n elements, for one
\* n after the other.
LEMMA ProductExists ==
    ASSUME NEW f, NEW S, Summable(f, S)
    PROVE  \E g \in [SUBSET S -> Int] : IsProduct(f, S, g)
<1> DEFINE Level(n) == {s \in SUBSET S : Cardinality(s) <= n}
           Good(n, g) == \A s \in Level(n) :
                g[s] = IF s = {} THEN 1 ELSE f[Chosen(s)] * g[s \ {Chosen(s)}]
           D == {n \in Nat : \E g \in [Level(n) -> Int] : Good(n, g)}
<1>1. \A s \in SUBSET S : IsFiniteSet(s) /\ Cardinality(s) \in Nat
    BY FS_Subset, FS_CardinalityType DEF Summable
<1>2. 0 \in D
    <2> DEFINE g == [s \in Level(0) |-> 1]
    <2>1. \A s \in Level(0) : s = {}
        BY <1>1, FS_EmptySet
    <2>2. g \in [Level(0) -> Int] /\ Good(0, g)
        BY <2>1
    <2> QED BY <2>2, Zenon
<1>3. ASSUME NEW n \in D \cap Nat PROVE n + 1 \in D
    <2>1. PICK g \in [Level(n) -> Int] : Good(n, g)
        BY Zenon
    <2> DEFINE h == [s \in Level(n + 1) |->
                        IF s \in Level(n) THEN g[s]
                        ELSE f[Chosen(s)] * g[s \ {Chosen(s)}]]
    <2>2. ASSUME NEW s \in Level(n + 1), s # {}
          PROVE  /\ s \ {Chosen(s)} \in Level(n) /\ f[Chosen(s)] \in Int
        <3>1. Chosen(s) \in s
            BY <2>2, ChosenIn
        <3>2. Cardinality(s \ {Chosen(s)}) = Cardinality(s) - 1 /\ Cardinality(s) \in Nat
            BY <3>1, Smaller, Zenon DEF Summable
        <3> QED BY <3>1, <3>2 DEF Summable
    <2>3. Level(n) \subseteq Level(n + 1)
        BY <1>1
    <2>4. {} \in Level(n)
        BY FS_EmptySet
    <2>5. h \in [Level(n + 1) -> Int]
        <3> SUFFICES ASSUME NEW s \in Level(n + 1)
                     PROVE  (IF s \in Level(n) THEN g[s]
                             ELSE f[Chosen(s)] * g[s \ {Chosen(s)}]) \in Int
            OBVIOUS
        <3> HIDE DEF Level
        <3>1. CASE s \in Level(n)
            BY <2>1, <3>1
        <3>2. CASE s \notin Level(n)
            <4>1. s # {}
                BY <2>4, <3>2, Zenon
            <4>2. s \ {Chosen(s)} \in Level(n) /\ f[Chosen(s)] \in Int
                BY <2>2, <4>1, Zenon
            <4>3. g[s \ {Chosen(s)}] \in Int
                BY <4>2
            <4>4. f[Chosen(s)] * g[s \ {Chosen(s)}] \in Int
                BY <4>2, <4>3
            <4> QED BY <3>2, <4>4
        <3> QED BY <3>1, <3>2
    <2>6. Good(n + 1, h)
        <3> SUFFICES ASSUME NEW s \in Level(n + 1)
                     PROVE  h[s] = IF s = {} THEN 1 ELSE f[Chosen(s)] * h[s \ {Chosen(s)}]
            BY Zenon
        <3> HIDE DEF Level
        <3>1. CASE s = {}
            BY <2>1, <2>3, <2>4, <3>1, Zenon
        <3>2. CASE s # {}
            <4>1. h[s \ {Chosen(s)}] = g[s \ {Chosen(s)}]
                BY <2>2, <2>3, <3>2
            <4>2. h[s] = f[Chosen(s)] * g[s \ {Chosen(s)}]
                BY <2>1, <2>2, <3>2
            <4> QED BY <3>2, <4>1, <4>2
        <3> QED BY <3>1, <3>2
    <2> HIDE DEF Level, Good, h
    <2> QED BY <2>5, <2>6
<1>4. Nat \subseteq D
    <2> HIDE DEF D
    <2> QED BY <1>2, <1>3, SetInduction
<1>5. PICK n \in Nat : n = Cardinality(S)
    BY <1>1
<1>6. PICK g \in [Level(n) -> Int] : Good(n, g)
    BY <1>4, Zenon
<1>7. Level(n) = SUBSET S
    <2>1. \A s \in SUBSET S : Cardinality(s) <= Cardinality(S)
        BY FS_Subset DEF Summable
    <2> QED BY <1>5, <2>1
<1>8. IsProduct(f, S, g)
    BY <1>6, <1>7, Zenon DEF IsProduct
<1> QED BY <1>6, <1>7, <1>8, Zenon

\* There is no other: two that agree on a set without an element agree on it.
LEMMA ProductUnique ==
    ASSUME NEW f, NEW S, Summable(f, S), NEW g, NEW h, IsProduct(f, S, g), IsProduct(f, S, h)
    PROVE  g = h
<1> DEFINE D == {n \in Nat : \A s \in SUBSET S : Cardinality(s) = n => g[s] = h[s]}
<1>1. \A s \in SUBSET S : IsFiniteSet(s) /\ Cardinality(s) \in Nat
    BY FS_Subset, FS_CardinalityType DEF Summable
<1>2. ASSUME NEW s \in SUBSET S
      PROVE  /\ g[s] = IF s = {} THEN 1 ELSE f[Chosen(s)] * g[s \ {Chosen(s)}]
             /\ h[s] = IF s = {} THEN 1 ELSE f[Chosen(s)] * h[s \ {Chosen(s)}]
    BY Zenon DEF IsProduct
<1>3. 0 \in D
    BY <1>1, <1>2, FS_EmptySet, SMTT(30)
<1>4. ASSUME NEW n \in D \cap Nat PROVE n + 1 \in D
    <2> SUFFICES ASSUME NEW s \in SUBSET S, Cardinality(s) = n + 1 PROVE g[s] = h[s]
        OBVIOUS
    <2>1. CASE s = {}
        BY <1>2, <2>1, Zenon
    <2>2. CASE s # {}
        <3>1. Chosen(s) \in s
            BY <2>2, ChosenIn
        <3>2. Cardinality(s \ {Chosen(s)}) = n
            <4>1. IsFiniteSet(S) /\ n \in Nat
                BY DEF Summable
            <4>2. Cardinality(s \ {Chosen(s)}) = Cardinality(s) - 1
                BY <3>1, <4>1, Smaller, Zenon
            <4> QED BY <4>1, <4>2
        <3>3. g[s \ {Chosen(s)}] = h[s \ {Chosen(s)}]
            BY <3>2
        <3> QED BY <1>2, <2>2, <3>3, Zenon
    <2> QED BY <2>1, <2>2
<1>5. Nat \subseteq D
    <2> HIDE DEF D
    <2> QED BY <1>3, <1>4, SetInduction
<1>6. \A s \in SUBSET S : g[s] = h[s]
    BY <1>1, <1>5
<1>7. g = [s \in SUBSET S |-> g[s]] /\ h = [s \in SUBSET S |-> h[s]]
    BY DEF IsProduct
<1> QED BY <1>6, <1>7, Zenon

\* The product over a subset is the value that the function of the whole set has.
LEMMA ProductOfSubset ==
    ASSUME NEW f, NEW S, Summable(f, S), NEW g, IsProduct(f, S, g), NEW T \in SUBSET S
    PROVE  ProductOf(f, T) = g[T]
<1> DEFINE h == [s \in SUBSET T |-> g[s]]
<1>1. ASSUME NEW s \in SUBSET T
      PROVE  g[s] = IF s = {} THEN 1 ELSE f[Chosen(s)] * g[s \ {Chosen(s)}]
    <2>1. s \in SUBSET S
        OBVIOUS
    <2> QED BY <2>1, Zenon DEF IsProduct
<1>2. \A s \in SUBSET T : h[s \ {Chosen(s)}] = g[s \ {Chosen(s)}]
    OBVIOUS
<1>3. IsProduct(f, T, h)
    BY <1>1, <1>2, Zenon DEF IsProduct
<1>4. Summable(f, T)
    BY FS_Subset DEF Summable
<1>5. IsProduct(f, T, CHOOSE k : IsProduct(f, T, k))
    BY <1>3
<1>6. h = CHOOSE k : IsProduct(f, T, k)
    <2> HIDE DEF h
    <2> QED BY <1>3, <1>4, <1>5, ProductUnique
<1>7. h[T] = g[T]
    OBVIOUS
<1> QED BY <1>6, <1>7, Zenon DEF ProductOf

\* Any element may be taken out first.
AnyFirst(f, S, g) == \A T \in SUBSET S : \A e \in T : g[T] = f[e] * g[T \ {e}]

\* The element that is taken out first does not matter.
LEMMA ProductAnyOrder ==
    ASSUME NEW f, NEW S, Summable(f, S), NEW g \in [SUBSET S -> Int], IsProduct(f, S, g)
    PROVE  AnyFirst(f, S, g)
<1> DEFINE D == {n \in Nat : \A s \in SUBSET S : Cardinality(s) = n =>
                                \A x \in s : g[s] = f[x] * g[s \ {x}]}
<1>1. \A s \in SUBSET S : IsFiniteSet(s) /\ Cardinality(s) \in Nat
    BY FS_Subset, FS_CardinalityType DEF Summable
<1>2. ASSUME NEW s \in SUBSET S, s # {}
      PROVE  g[s] = f[Chosen(s)] * g[s \ {Chosen(s)}]
    BY <1>2, Zenon DEF IsProduct
<1>3. 0 \in D
    BY <1>1, FS_EmptySet
<1>4. ASSUME NEW n \in D \cap Nat PROVE n + 1 \in D
    <2> SUFFICES ASSUME NEW s \in SUBSET S, Cardinality(s) = n + 1, NEW x \in s
                 PROVE  g[s] = f[x] * g[s \ {x}]
        OBVIOUS
    <2>0. ASSUME NEW u \in SUBSET S, Cardinality(u) = n, NEW z \in u
          PROVE  g[u] = f[z] * g[u \ {z}]
        BY <2>0, Zenon
    <2>1. PICK y \in s : y = Chosen(s) /\ g[s] = f[y] * g[s \ {y}]
        BY <1>2, ChosenIn
    <2>2. CASE y = x
        BY <2>1, <2>2
    <2>3. CASE y # x
        <3>1. Cardinality(s \ {y}) = n /\ Cardinality(s \ {x}) = n
            <4>1. IsFiniteSet(S) /\ n \in Nat
                BY DEF Summable
            <4>2. Cardinality(s \ {y}) = Cardinality(s) - 1
                BY <4>1, Smaller, Zenon
            <4>3. Cardinality(s \ {x}) = Cardinality(s) - 1
                BY <4>1, Smaller, Zenon
            <4> QED BY <4>1, <4>2, <4>3
        <3>2. /\ s \ {y} \in SUBSET S /\ x \in s \ {y}
              /\ s \ {x} \in SUBSET S /\ y \in s \ {x}
            BY <2>3
        <3>3. PICK t \in SUBSET S : t = (s \ {y}) \ {x} /\ t = (s \ {x}) \ {y}
            BY Zenon
        <3>4. g[s \ {y}] = f[x] * g[t]
            <4>1. g[s \ {y}] = f[x] * g[(s \ {y}) \ {x}]
                BY <2>0, <3>1, <3>2, Zenon
            <4> QED BY <3>3, <4>1, Zenon
        <3>5. g[s \ {x}] = f[y] * g[t]
            <4>1. g[s \ {x}] = f[y] * g[(s \ {x}) \ {y}]
                BY <2>0, <3>1, <3>2, Zenon
            <4> QED BY <3>3, <4>1, Zenon
        <3>6. f[x] \in Int /\ f[y] \in Int /\ g[t] \in Int
            BY DEF Summable
        <3>7. f[y] * (f[x] * g[t]) = f[x] * (f[y] * g[t])
            BY <3>6
        <3> QED BY <2>1, <3>4, <3>5, <3>7
    <2> QED BY <2>2, <2>3
<1>5. Nat \subseteq D
    <2> HIDE DEF D
    <2> QED BY <1>3, <1>4, SetInduction
<1> QED BY <1>1, <1>5, Zenon DEF AnyFirst

\* The product over no elements.
LEMMA ProductOfNone == ASSUME NEW f PROVE ProductOf(f, {}) = 1
<1>1. Summable(f, {}) /\ {} \in SUBSET {}
    BY FS_EmptySet DEF Summable
<1>2. PICK g \in [SUBSET {} -> Int] : IsProduct(f, {}, g)
    BY <1>1, ProductExists, Zenon
<1>3. ProductOf(f, {}) = g[{}]
    BY <1>1, <1>2, ProductOfSubset
<1> QED BY <1>1, <1>2, <1>3 DEF IsProduct

\* The product of integers is one.
LEMMA ProductIsInt == ASSUME NEW f, NEW S, Summable(f, S) PROVE ProductOf(f, S) \in Int
<1>1. PICK g \in [SUBSET S -> Int] : IsProduct(f, S, g)
    BY ProductExists, Zenon
<1>2. ProductOf(f, S) = g[S]
    BY <1>1, ProductOfSubset
<1> QED BY <1>1, <1>2

\* An element multiplies the product over the others by its value.
LEMMA ProductRemove ==
    ASSUME NEW f, NEW S, Summable(f, S), NEW x \in S
    PROVE  ProductOf(f, S) = f[x] * ProductOf(f, S \ {x})
<1>1. PICK g \in [SUBSET S -> Int] : IsProduct(f, S, g)
    BY ProductExists, Zenon
<1>2. ProductOf(f, S) = g[S] /\ ProductOf(f, S \ {x}) = g[S \ {x}]
    BY <1>1, ProductOfSubset
<1>3. g[S] = f[x] * g[S \ {x}]
    <2>1. PICK T \in SUBSET S : T = S
        OBVIOUS
    <2>2. AnyFirst(f, S, g)
        BY <1>1, ProductAnyOrder, Zenon
    <2>3. g[T] = f[x] * g[T \ {x}]
        BY <2>1, <2>2, Zenon DEF AnyFirst
    <2> QED BY <2>1, <2>3, Zenon
<1> QED BY <1>2, <1>3, Zenon

\* Only the values on the set matter.
LEMMA ProductSame ==
    ASSUME NEW f, NEW h, NEW S, Summable(f, S), \A x \in S : f[x] = h[x]
    PROVE  ProductOf(f, S) = ProductOf(h, S)
<1>1. PICK g \in [SUBSET S -> Int] : IsProduct(f, S, g)
    BY ProductExists, Zenon
<1>2. \A s \in SUBSET S : s # {} => f[Chosen(s)] = h[Chosen(s)]
    BY ChosenIn
<1>3. IsProduct(h, S, g)
    BY <1>1, <1>2, Zenon DEF IsProduct
<1>4. Summable(h, S)
    BY DEF Summable
<1>5. ProductOf(f, S) = g[S] /\ ProductOf(h, S) = g[S]
    BY <1>1, <1>3, <1>4, ProductOfSubset
<1> QED BY <1>5

-----------------------------------------------------------------------------
(* Sums *)

\* Induction on the subsets of a finite set, which are in D.
LEMMA SubsetInduction ==
    ASSUME NEW S, IsFiniteSet(S), NEW D, {} \in D,
           \A s \in SUBSET S : \A x \in s : s \ {x} \in D => s \in D
    PROVE  S \in D
<1> DEFINE N == {n \in Nat : \A s \in SUBSET S : Cardinality(s) = n => s \in D}
<1>1. \A s \in SUBSET S : IsFiniteSet(s) /\ Cardinality(s) \in Nat
    BY FS_Subset, FS_CardinalityType
<1>2. 0 \in N
    BY <1>1, FS_EmptySet, Zenon
<1>3. ASSUME NEW n \in N \cap Nat PROVE n + 1 \in N
    <2> SUFFICES ASSUME NEW s \in SUBSET S, Cardinality(s) = n + 1 PROVE s \in D
        OBVIOUS
    <2>1. PICK x \in s : TRUE
        BY FS_EmptySet
    <2>2. Cardinality(s \ {x}) = Cardinality(s) - 1
        BY Smaller, Zenon
    <2>3. Cardinality(s \ {x}) = n
        BY <2>2
    <2>4. s \ {x} \in D
        BY <2>3
    <2> QED BY <2>4
<1>4. Nat \subseteq N
    <2> HIDE DEF N
    <2> QED BY <1>2, <1>3, SetInduction
<1> QED BY <1>1, <1>4

\* An element adds its value to the sum over the others.
Adds(f, s, x) ==
    /\ f[x] \in Int /\ SumOf(f, s \ {x}) \in Int
    /\ SumOf(f, s) = f[x] + SumOf(f, s \ {x})

\* What is summable over a set is over its subsets.
LEMMA SummablePart ==
    ASSUME NEW f, NEW S, Summable(f, S), NEW s \in SUBSET S
    PROVE  /\ Summable(f, s) /\ SumOf(f, s) \in Int
           /\ \A x \in s : Adds(f, s, x)
<1>1. ASSUME NEW t \in SUBSET S PROVE Summable(f, t) /\ SumOf(f, t) \in Int
    <2>1. Summable(f, t)
        BY FS_Subset DEF Summable
    <2> QED BY <2>1, SumIsInt
<1>2. ASSUME NEW x \in s PROVE SumOf(f, s) = f[x] + SumOf(f, s \ {x})
    BY <1>1, SumRemove
<1>3. ASSUME NEW x \in s PROVE f[x] \in Int /\ s \ {x} \in SUBSET S
    BY DEF Summable
<1> QED BY <1>1, <1>2, <1>3 DEF Adds

\* The sum of f and of c times h.
Combined(g, f, c, h, S) == \A x \in S : g[x] = f[x] + c * h[x]
CombinedSum(g, f, c, h, S) ==
    Summable(g, S) /\ SumOf(g, S) = SumOf(f, S) + c * SumOf(h, S)

\* Sums are linear.
LEMMA SumLinear ==
    ASSUME NEW f, NEW h, NEW g, NEW S, Summable(f, S), Summable(h, S), NEW c \in Int,
           Combined(g, f, c, h, S)
    PROVE  CombinedSum(g, f, c, h, S)
<1> DEFINE D == {s \in SUBSET S : SumOf(g, s) = SumOf(f, s) + c * SumOf(h, s)}
<1>1. Summable(g, S)
    BY DEF Summable, Combined
<1>2. {} \in D
    BY SumOfNone
<1>3. ASSUME NEW s \in SUBSET S, NEW x \in s, s \ {x} \in D PROVE s \in D
    <2>1. PICK t \in SUBSET S : t = s \ {x}
        BY Zenon
    <2>2. /\ f[x] \in Int /\ SumOf(f, t) \in Int /\ SumOf(f, s) = f[x] + SumOf(f, t)
          /\ h[x] \in Int /\ SumOf(h, t) \in Int /\ SumOf(h, s) = h[x] + SumOf(h, t)
          /\ g[x] \in Int /\ SumOf(g, t) \in Int /\ SumOf(g, s) = g[x] + SumOf(g, t)
        <3> HIDE DEF D
        <3>1. Adds(f, s, x) /\ Adds(h, s, x)
            BY SummablePart
        <3>2. Adds(g, s, x)
            BY <1>1, SummablePart
        <3> QED BY <2>1, <3>1, <3>2 DEF Adds
    <2>3. SumOf(g, t) = SumOf(f, t) + c * SumOf(h, t) /\ g[x] = f[x] + c * h[x]
        BY <1>3, <2>1 DEF Combined
    <2>4. SumOf(g, s) = SumOf(f, s) + c * SumOf(h, s)
        BY <2>2, <2>3
    <2> QED BY <2>4
<1>4. IsFiniteSet(S)
    BY DEF Summable
<1>5. S \in D
    <2> HIDE DEF D
    <2> QED BY <1>2, <1>3, <1>4, SubsetInduction, Zenon
<1> QED BY <1>1, <1>5 DEF CombinedSum

\* Sums of the same scalars are the same scalar.
LEMMA SumOfSame ==
    ASSUME NEW f, NEW h, NEW S, Summable(f, S), Summable(h, S),
           \A x \in S : Same(f[x], h[x])
    PROVE  Same(SumOf(f, S), SumOf(h, S))
<1> DEFINE D == {s \in SUBSET S : Same(SumOf(f, s), SumOf(h, s))}
<1>1. {} \in D
    BY SumOfNone DEF Same
<1>2. ASSUME NEW s \in SUBSET S, NEW x \in s, s \ {x} \in D PROVE s \in D
    <2>1. PICK t \in SUBSET S : t = s \ {x}
        BY Zenon
    <2>2. /\ f[x] \in Int /\ SumOf(f, t) \in Int /\ SumOf(f, s) = f[x] + SumOf(f, t)
          /\ h[x] \in Int /\ SumOf(h, t) \in Int /\ SumOf(h, s) = h[x] + SumOf(h, t)
        <3> HIDE DEF D
        <3>1. Adds(f, s, x) /\ Adds(h, s, x)
            BY SummablePart
        <3> QED BY <2>1, <3>1 DEF Adds
    <2>3. Same(f[x], h[x]) /\ Same(SumOf(f, t), SumOf(h, t))
        BY <1>2, <2>1
    <2>4. Same(f[x] + SumOf(f, t), h[x] + SumOf(h, t))
        BY <2>2, <2>3, SameAdd, SMTT(30)
    <2> QED BY <2>2, <2>4
<1>3. IsFiniteSet(S)
    BY DEF Summable
<1>4. S \in D
    <2> HIDE DEF D
    <2> QED BY <1>1, <1>2, <1>3, SubsetInduction, Zenon
<1> QED BY <1>4

\* The rows of a matrix h, added up, give what its columns give.
Rows(h, A, B) == [i \in A |-> SumOf(h[i], B)]
Columns(h, A, B) == [j \in B |-> SumOf([i \in A |-> h[i][j]], A)]

\* A matrix may be summed up by rows or by columns.
LEMMA SumSwap ==
    ASSUME NEW A, NEW B, IsFiniteSet(A), IsFiniteSet(B), NEW h \in [A -> [B -> Int]]
    PROVE  /\ Summable(Rows(h, A, B), A) /\ Summable(Columns(h, A, B), B)
           /\ SumOf(Rows(h, A, B), A) = SumOf(Columns(h, A, B), B)
<1> DEFINE rows(s) == [i \in A |-> SumOf(h[i], s)]
           col == Columns(h, A, B)
           D == {s \in SUBSET B : SumOf(rows(s), A) = SumOf(col, s)}
<1>1. ASSUME NEW i \in A PROVE Summable(h[i], B)
    BY DEF Summable
<1>2. ASSUME NEW j \in B PROVE Summable([i \in A |-> h[i][j]], A)
    BY DEF Summable
<1>3. Summable(col, B)
    <2> SUFFICES ASSUME NEW j \in B PROVE col[j] \in Int
        BY DEF Summable
    <2>1. SumOf([i \in A |-> h[i][j]], A) \in Int
        BY <1>2, SumIsInt
    <2> QED BY <2>1 DEF Columns
<1>4. ASSUME NEW s \in SUBSET B PROVE Summable(rows(s), A)
    <2> SUFFICES ASSUME NEW i \in A PROVE SumOf(h[i], s) \in Int
        BY DEF Summable
    <2> QED BY <1>1, SummablePart
<1>5. {} \in D
    <2>1. \A i \in A : rows({})[i] = 0
        BY SumOfNone
    <2>2. SumOf(rows({}), A) = 0
        <3> HIDE DEF rows
        <3> QED BY <2>1, SumOfZeros
    <2> QED BY <2>2, SumOfNone
<1>6. ASSUME NEW s \in SUBSET B, NEW x \in s, s \ {x} \in D PROVE s \in D
    <2>1. PICK t \in SUBSET B : t = s \ {x}
        BY Zenon
    <2> DEFINE c == [i \in A |-> h[i][x]]
    <2>2. x \in B /\ Summable(c, A)
        BY <1>2
    <2>3. ASSUME NEW i \in A PROVE rows(s)[i] = rows(t)[i] + 1 * c[i]
        <3>1. SumOf(h[i], s) = h[i][x] + SumOf(h[i], t) /\ SumOf(h[i], t) \in Int /\ h[i][x] \in Int
            BY <1>1, <2>1, SummablePart DEF Adds
        <3>2. SumOf(h[i], s) = SumOf(h[i], t) + 1 * h[i][x]
            BY <3>1
        <3> QED BY <3>2
    <2>4. SumOf(rows(s), A) = SumOf(rows(t), A) + 1 * SumOf(c, A)
        <3> HIDE DEF rows, c
        <3>1. Combined(rows(s), rows(t), 1, c, A)
            BY <2>3 DEF Combined
        <3>2. CombinedSum(rows(s), rows(t), 1, c, A)
            BY <1>4, <2>2, <3>1, SumLinear
        <3> QED BY <3>2 DEF CombinedSum
    <2>5. col[x] = SumOf(c, A)
        BY <2>2 DEF Columns
    <2>6. SumOf(col, s) = col[x] + SumOf(col, t) /\ col[x] \in Int /\ SumOf(col, t) \in Int
        <3> HIDE DEF col
        <3> QED BY <1>3, <2>1, SummablePart DEF Adds
    <2>7. SumOf(rows(t), A) = SumOf(col, t)
        BY <1>6, <2>1
    <2>8. SumOf(rows(s), A) = SumOf(col, s)
        <3> HIDE DEF rows, col, c
        <3> QED BY <2>4, <2>5, <2>6, <2>7
    <2> QED BY <2>8
<1>7. B \in D
    <2> HIDE DEF D
    <2> QED BY <1>5, <1>6, SubsetInduction, Zenon
<1>8. PICK U \in SUBSET B : U = B
    OBVIOUS
<1>9. rows(B) = Rows(h, A, B)
    BY DEF Rows
<1> QED BY <1>3, <1>4, <1>7, <1>8, <1>9, Zenon

\* A factor of every term.
Scaled(g, c, h, S) == \A x \in S : g[x] = c * h[x]
ScaledSum(g, c, h, S) == Summable(g, S) /\ SumOf(g, S) = c * SumOf(h, S)

\* A factor of every term is one of the sum.
LEMMA SumTimes ==
    ASSUME NEW h, NEW g, NEW S, Summable(h, S), NEW c \in Int, Scaled(g, c, h, S)
    PROVE  ScaledSum(g, c, h, S)
<1> DEFINE z == [x \in S |-> 0]
<1>1. Summable(z, S)
    BY DEF Summable
<1>2. SumOf(z, S) = 0
    <2>1. IsFiniteSet(S) /\ \A x \in S : z[x] = 0
        BY DEF Summable
    <2> HIDE DEF z
    <2> QED BY <2>1, SumOfZeros
<1>3. Combined(g, z, c, h, S)
    BY DEF Summable, Scaled, Combined
<1> HIDE DEF z
<1>4. Summable(g, S) /\ SumOf(g, S) = SumOf(z, S) + c * SumOf(h, S)
    BY <1>1, <1>3, SumLinear DEF CombinedSum
<1>5. SumOf(h, S) \in Int
    BY SumIsInt
<1>6. c * SumOf(h, S) \in Int
    BY <1>5
<1> QED BY <1>2, <1>4, <1>6 DEF ScaledSum

\* The things that D is renamed to.
Image(r, s) == {r[k] : k \in s}

\* A sum may be taken over the indices of what is summed up.
LEMMA SumRenamed ==
    ASSUME NEW D, IsFiniteSet(D), NEW r, \A a, b \in D : r[a] = r[b] => a = b,
           NEW f, NEW h, \A k \in D : h[k] = f[r[k]] /\ h[k] \in Int
    PROVE  /\ Summable(f, Image(r, D)) /\ Summable(h, D)
           /\ SumOf(h, D) = SumOf(f, Image(r, D))
<1> DEFINE G == {s \in SUBSET D : Summable(f, Image(r, s)) /\ SumOf(h, s) = SumOf(f, Image(r, s))}
<1>1. Summable(h, D)
    BY DEF Summable
<1>2. {} \in G
    <2>1. Image(r, {}) = {}
        BY DEF Image
    <2> QED BY <2>1, SumOfNone, FS_EmptySet DEF Summable
<1>3. ASSUME NEW s \in SUBSET D, NEW x \in s, s \ {x} \in G PROVE s \in G
    <2>1. PICK t \in SUBSET D : t = s \ {x}
        BY Zenon
    <2>2. Image(r, s) = Image(r, t) \cup {r[x]} /\ r[x] \notin Image(r, t)
        BY <2>1 DEF Image
    <2>3. Summable(f, Image(r, t)) /\ SumOf(h, t) = SumOf(f, Image(r, t))
        BY <1>3, <2>1
    <2>4. h[x] = f[r[x]] /\ f[r[x]] \in Int
        OBVIOUS
    <2> HIDE DEF G
    <2>5. /\ Summable(f, Image(r, s)) /\ SumOf(f, Image(r, s)) = f[r[x]] + SumOf(f, Image(r, t))
        BY <2>2, <2>3, <2>4, SumAdd
    <2>6. SumOf(h, s) = h[x] + SumOf(h, t)
        <3>1. Adds(h, s, x)
            BY <1>1, SummablePart
        <3> QED BY <2>1, <3>1 DEF Adds
    <2>7. SumOf(h, s) = SumOf(f, Image(r, s))
        BY <2>3, <2>4, <2>5, <2>6, Zenon
    <2> QED BY <2>5, <2>7 DEF G
<1>4. D \in G
    <2> HIDE DEF G
    <2> QED BY <1>2, <1>3, SubsetInduction, Zenon
<1> QED BY <1>1, <1>4

\* As many different names as there are things to name.
LEMMA Renaming ==
    ASSUME NEW D, IsFiniteSet(D), NEW r, Cardinality(Image(r, D)) = Cardinality(D)
    PROVE  \A a, b \in D : r[a] = r[b] => a = b
<1> DEFINE g == [k \in D |-> r[k]]
<1>1. g \in Surjection(D, Image(r, D))
    BY DEF Surjection, Image
<1>2. g \in Injection(D, Image(r, D))
    <2> HIDE DEF g
    <2> QED BY <1>1, FS_Surjection
<1> QED BY <1>2, Zenon DEF Injection, IsInjective

\* Different things have as many names as there are of them.
LEMMA Names ==
    ASSUME NEW D, IsFiniteSet(D), NEW r, \A a, b \in D : r[a] = r[b] => a = b
    PROVE  Cardinality(Image(r, D)) = Cardinality(D)
<1> DEFINE g == [k \in D |-> r[k]]
<1>1. g \in Surjection(D, Image(r, D)) /\ g \in Injection(D, Image(r, D))
    BY DEF Surjection, Injection, IsInjective, Image
<1> HIDE DEF g
<1> QED BY <1>1, FS_Surjection

-----------------------------------------------------------------------------
(* Interpolation *)

\* The sets of points that shares may be at.
Points == SUBSET (1..(P - 1))

\* Points are not 0, and different points have differences that are not 0.
LEMMA PointsFinite ==
    ASSUME NEW S \in Points
    PROVE  /\ IsFiniteSet(S) /\ Cardinality(S) \in Nat
           /\ \A i \in S : i \in Int /\ ~Same(i, 0) /\ S \ {i} \in Points
           /\ \A i, j \in S : i # j => i - j \in Int /\ ~Same(i - j, 0)
<1>0. P \in Nat /\ P > 1
    BY PrimeOrder
<1>1. IsFiniteSet(S)
    <2>1. PICK n \in Int : n = P - 1
        BY <1>0
    <2>2. IsFiniteSet(1..n)
        BY FS_Interval
    <2> QED BY <2>1, <2>2, FS_Subset, Zenon DEF Points
<1>2. ASSUME NEW d \in Int, d > -P, d < P, Same(d, 0) PROVE d = 0
    <2>1. 0 \in Int
        OBVIOUS
    <2>2. PICK q \in Int : d = 0 + q * P
        BY <1>2, <2>1, SameIff
    <2>3. q * P \in Int /\ d = q * P
        BY <1>0, <2>2
    <2>4. ~(q > 0)
        <3>1. q > 0 => q * P >= 0 * P + P
            BY <1>0, Quotient
        <3> QED BY <1>0, <1>2, <2>3, <3>1
    <2>5. ~(0 > q)
        <3>1. 0 > q => 0 * P >= q * P + P
            BY <1>0, Quotient
        <3> QED BY <1>0, <1>2, <2>3, <3>1
    <2> QED BY <1>0, <2>3, <2>4, <2>5
<1>3. ASSUME NEW i \in S PROVE i \in Int /\ i > 0 /\ i < P
    BY <1>0 DEF Points
<1>4. ASSUME NEW i \in S PROVE i \in Int /\ ~Same(i, 0) /\ S \ {i} \in Points
    BY <1>0, <1>2, <1>3 DEF Points
<1>5. ASSUME NEW i \in S, NEW j \in S, i # j PROVE i - j \in Int /\ ~Same(i - j, 0)
    <2>1. PICK d \in Int : d = i - j /\ d > -P /\ d < P /\ d # 0
        BY <1>0, <1>3, <1>5
    <2>2. ~Same(d, 0)
        BY <1>2, <2>1
    <2> QED BY <2>1, <2>2
<1> QED BY <1>1, <1>4, <1>5, FS_CardinalityType

\* The factors of a Lagrange coefficient.
Factors(i, S) == [j \in S \ {i} |-> (-j) * invert(i - j)]

\* A Lagrange coefficient is the product of its factors.
LEMMA LambdaIs ==
    ASSUME NEW S \in Points, NEW i \in S
    PROVE  /\ Summable(Factors(i, S), S \ {i})
           /\ lambda(i, S) \in Int
           /\ ProductOf(Factors(i, S), S \ {i}) \in Int
           /\ Same(lambda(i, S), ProductOf(Factors(i, S), S \ {i}))
<1>1. lambda(i, S) = ProductOver(Factors(i, S))
    BY Zenon DEF lambda, lagrange_coefficients, Points, Factors
<1>2. Summable(Factors(i, S), S \ {i})
    <2>1. IsFiniteSet(S \ {i})
        BY PointsFinite
    <2>2. ASSUME NEW j \in S \ {i} PROVE (-j) * invert(i - j) \in Int
        <3>1. j \in Int /\ i - j \in Int /\ ~Same(i - j, 0)
            BY PointsFinite, Zenon
        <3>2. invert(i - j) \in Int
            BY <3>1, InverseTimes
        <3> QED BY <3>1, <3>2
    <2> QED BY <2>1, <2>2 DEF Summable, Factors
<1>3. ProductOf(Factors(i, S), S \ {i}) \in Int
    BY <1>2, ProductIsInt
<1>4. lambda(i, S) = ProductOf(Factors(i, S), S \ {i}) % P
    <2>1. DOMAIN Factors(i, S) = S \ {i}
        BY DEF Factors
    <2> QED BY <1>1, <2>1, ProductOfFunction
<1> QED BY <1>2, <1>3, <1>4, ModType, SameMod

\* A point that is dropped takes its factor out of the coefficient of another.
LEMMA LambdaStep ==
    ASSUME NEW S \in Points, NEW m \in S, NEW i \in S \ {m}
    PROVE  Same(lambda(i, S) * (i - m), lambda(i, S \ {m}) * (-m))
<1> DEFINE T == S \ {i}
           U == (S \ {m}) \ {i}
           f == Factors(i, S)
           h == Factors(i, S \ {m})
<1>1. T \ {m} = U /\ m \in T /\ S \ {m} \in Points
    BY PointsFinite
<1>2. Summable(f, T) /\ Summable(h, U)
    BY <1>1, LambdaIs, Zenon
<1>3. Summable(f, U)
    BY <1>1, <1>2, FS_Subset DEF Summable
<1>4. \A x \in U : f[x] = h[x]
    BY DEF Factors
<1>5. f[m] = (-m) * invert(i - m)
    BY <1>1 DEF Factors
<1>6. /\ lambda(i, S) \in Int /\ Same(lambda(i, S), ProductOf(f, T))
      /\ lambda(i, S \ {m}) \in Int /\ Same(lambda(i, S \ {m}), ProductOf(h, U))
      /\ ProductOf(h, U) \in Int
    BY <1>1, LambdaIs, Zenon
<1> HIDE DEF f, h
<1>7. ProductOf(f, T) = f[m] * ProductOf(f, T \ {m})
    BY <1>1, <1>2, ProductRemove
<1>8. ProductOf(f, U) = ProductOf(h, U)
    BY <1>3, <1>4, ProductSame
<1>9. PICK q \in Int : q = ProductOf(h, U)
    BY <1>6
<1>10. PICK v \in Int : v = invert(i - m) /\ Same((i - m) * v, 1)
    BY PointsFinite, InverseTimes
<1>11. i \in Int /\ m \in Int /\ i - m \in Int /\ -m \in Int
    <2>1. i \in Int /\ m \in Int
        BY PointsFinite, Zenon
    <2> QED BY <2>1
<1>12. PICK l \in Int : l = lambda(i, S) /\ Same(l, ((-m) * v) * q)
    BY <1>1, <1>5, <1>6, <1>7, <1>8, <1>9, <1>10, Zenon
<1>13. PICK k \in Int : k = lambda(i, S \ {m}) /\ Same(q, k)
    BY <1>6, <1>9, Zenon DEF Same
<1>14. Same(l * (i - m), (((-m) * v) * q) * (i - m))
    <2>1. ((-m) * v) * q \in Int /\ Same(i - m, i - m)
        BY <1>11 DEF Same
    <2> QED BY <1>11, <1>12, <2>1, SameTimes, Zenon
<1>15. (((-m) * v) * q) * (i - m) = ((i - m) * v) * (q * (-m))
    BY <1>11
<1>16. Same(q * (-m), k * (-m))
    <2>1. Same(-m, -m)
        BY DEF Same
    <2> QED BY <1>11, <1>13, <2>1, SameTimes, Zenon
<1>17. Same(((i - m) * v) * (q * (-m)), 1 * (k * (-m)))
    <2>1. (i - m) * v \in Int /\ q * (-m) \in Int /\ k * (-m) \in Int /\ 1 \in Int
        BY <1>11
    <2> QED BY <1>10, <1>16, <2>1, SameTimes
<1>18. 1 * (k * (-m)) = k * (-m)
    BY <1>11
<1>19. Same(l * (i - m), k * (-m))
    BY <1>14, <1>15, <1>17, <1>18 DEF Same
<1> QED BY <1>12, <1>13, <1>19, Zenon

\* The powers of x.
LEMMA PowerIs ==
    ASSUME NEW x \in Int, NEW n \in Nat
    PROVE  /\ x_power(x, n) \in Int
           /\ x_power(x, 0) = 1
           /\ Same(x_power(x, n + 1), x * x_power(x, n))
<1> DEFINE c(k) == [i \in 1..k |-> x]
<1>1. ASSUME NEW k \in Nat
      PROVE  /\ Summable(c(k), 1..k)
             /\ ProductOf(c(k), 1..k) \in Int
             /\ x_power(x, k) = ProductOf(c(k), 1..k) % P
    <2>1. Summable(c(k), 1..k)
        BY FS_Interval DEF Summable
    <2>2. DOMAIN c(k) = 1..k
        OBVIOUS
    <2>3. x_power(x, k) = ProductOver(c(k))
        BY DEF x_power
    <2> HIDE DEF c
    <2>4. x_power(x, k) = ProductOf(c(k), 1..k) % P
        BY <2>2, <2>3, ProductOfFunction
    <2> QED BY <2>1, <2>4, ProductIsInt
<1>2. x_power(x, 0) = 1
    <2>1. 1..0 = {} /\ 0 \in Nat
        OBVIOUS
    <2> HIDE DEF c
    <2>2. ProductOf(c(0), 1..0) = 1
        BY <2>1, ProductOfNone
    <2>3. 1 % P = 1
        BY PrimeOrder
    <2> QED BY <1>1, <2>1, <2>2, <2>3
<1>3. PICK k \in Nat : k = n + 1
    OBVIOUS
<1>4. k \in 1..k /\ (1..k) \ {k} = 1..n
    BY <1>3
<1>5. c(k)[k] = x /\ \A i \in 1..n : c(k)[i] = c(n)[i]
    BY <1>3, <1>4
<1> HIDE DEF c
<1>6. ProductOf(c(k), 1..k) = x * ProductOf(c(k), 1..n)
    <2>1. ProductOf(c(k), 1..k) = c(k)[k] * ProductOf(c(k), (1..k) \ {k})
        <3>1. PICK K, f : K = 1..k /\ f = c(k)
            BY Zenon
        <3>2. Summable(f, K) /\ k \in K
            BY <1>1, <1>4, <3>1, Zenon
        <3>3. ProductOf(f, K) = f[k] * ProductOf(f, K \ {k})
            BY <3>2, ProductRemove
        <3> QED BY <3>1, <3>3, Zenon
    <2> QED BY <1>4, <1>5, <2>1, Zenon
<1>7. Summable(c(k), 1..n)
    BY <1>1, <1>4, FS_RemoveElement, Zenon DEF Summable
<1>8. ProductOf(c(k), 1..n) = ProductOf(c(n), 1..n)
    BY <1>5, <1>7, ProductSame
<1>9. PICK q \in Int : q = ProductOf(c(n), 1..n) /\ x_power(x, n) = q % P
    BY <1>1
<1>10. x_power(x, n) \in Int /\ Same(q, x_power(x, n))
    BY <1>9, ModType, SameMod
<1>11. Same(x_power(x, k), x * q)
    <2>1. x_power(x, k) = (x * q) % P /\ x * q \in Int
        BY <1>1, <1>6, <1>8, <1>9
    <2> QED BY <2>1, SameMod
<1>12. Same(x * q, x * x_power(x, n))
    <2>1. Same(x, x)
        BY DEF Same
    <2> QED BY <1>10, <2>1, SameTimes
<1>13. Same(x_power(x, k), x * x_power(x, n))
    BY <1>11, <1>12 DEF Same
<1> QED BY <1>2, <1>3, <1>10, <1>13

\* The sum that interpolation at 0 gives for the shares x^k.
Term(S, k) == [i \in S |-> lambda(i, S) * x_power(i, k)]
Moment(S, k) == SumOf(Term(S, k), S)

\* The sum for x^k is an integer.
LEMMA MomentIsInt ==
    ASSUME NEW S \in Points, NEW k \in Nat
    PROVE  Summable(Term(S, k), S) /\ Moment(S, k) \in Int
<1>1. ASSUME NEW i \in S PROVE lambda(i, S) * x_power(i, k) \in Int
    <2>1. lambda(i, S) \in Int /\ i \in Int
        BY LambdaIs, PointsFinite, Zenon
    <2>2. x_power(i, k) \in Int
        BY <2>1, PowerIs
    <2> QED BY <2>1, <2>2, TimesInt, Zenon
<1>2. IsFiniteSet(S)
    BY PointsFinite
<1>3. Summable(Term(S, k), S)
    BY <1>1, <1>2, Zenon DEF Summable, Term
<1> QED BY <1>3, SumIsInt DEF Moment

\* What x^(k + 1) gives, from what x^k gives with all points and with one less.
LEMMA MomentStep ==
    ASSUME NEW S \in Points, NEW m \in S, NEW k \in Nat, NEW w \in Int, w = -m
    PROVE  Same(Moment(S, k + 1) + w * Moment(S, k), w * Moment(S \ {m}, k))
<1> DEFINE R == S \ {m}
           a == Term(S, k + 1)
           b == Term(S, k)
           c == Term(R, k)
           g == [i \in S |-> a[i] + w * b[i]]
           d == [i \in R |-> w * c[i]]
<1>1. R \in Points /\ m \in Int /\ k + 1 \in Nat
    BY PointsFinite
<1>2. Summable(a, S) /\ Summable(b, S) /\ Summable(c, R)
    BY <1>1, MomentIsInt
\* Each term of g, in terms of i - m.
<1>3. ASSUME NEW i \in S
      PROVE  \E p, l, e \in Int :
                /\ p = x_power(i, k) /\ l = lambda(i, S) /\ e = i - m
                /\ g[i] \in Int /\ Same(g[i], (l * e) * p)
    <2>1. i \in Int /\ lambda(i, S) \in Int
        BY PointsFinite, LambdaIs, Zenon
    <2>2. /\ x_power(i, k) \in Int /\ Same(x_power(i, k + 1), i * x_power(i, k))
          /\ x_power(i, k + 1) \in Int
        BY <1>1, <2>1, PowerIs
    <2>3. g[i] = lambda(i, S) * x_power(i, k + 1) + w * (lambda(i, S) * x_power(i, k))
        BY Zenon DEF Term
    <2>4. PICK l \in Int : l = lambda(i, S)
        BY <2>1, Zenon
    <2>5. PICK p, q \in Int : /\ p = x_power(i, k) /\ q = x_power(i, k + 1)
                              /\ Same(q, i * p)
        BY <2>2
    <2>6. g[i] = l * q + w * (l * p)
        BY <2>3, <2>4, <2>5, Zenon
    <2> HIDE DEF g
    <2>7. PICK e \in Int : e = i - m
        BY <1>1, <2>1
    <2>8. i * p \in Int /\ l * q \in Int /\ l * (i * p) \in Int /\ w * (l * p) \in Int
        BY <2>1, TimesInt, Zenon
    <2>9. Same(l * q, l * (i * p))
        <3>1. Same(l, l)
            BY DEF Same
        <3> QED BY <2>5, <2>8, <3>1, SameTimes
    <2>10. Same(l * q + w * (l * p), l * (i * p) + w * (l * p))
        <3>1. Same(w * (l * p), w * (l * p))
            BY DEF Same
        <3> QED BY <2>8, <2>9, <3>1, SameAdd
    <2>11. l * (i * p) + w * (l * p) = (l * e) * p
        <3>1. w = -m /\ i \in Int /\ m \in Int
            BY <1>1, <2>1
        <3> QED BY <2>7, <3>1
    <2>12. l * q + w * (l * p) \in Int
        BY <2>8, TimesInt, Zenon
    <2> QED BY <2>4, <2>5, <2>6, <2>7, <2>10, <2>11, <2>12, ZenonT(40)
<1>4. Same(g[m], 0) /\ g[m] \in Int
    <2>1. PICK p, l, e \in Int : e = m - m /\ g[m] \in Int /\ Same(g[m], (l * e) * p)
        BY <1>3, Zenon
    <2> HIDE DEF g
    <2>2. e = 0
        BY <1>1, <2>1
    <2>3. (l * e) * p = 0
        BY <2>2
    <2> QED BY <2>1, <2>3
<1>5. ASSUME NEW i \in R PROVE Same(g[i], d[i]) /\ g[i] \in Int /\ d[i] \in Int
    <2>1. PICK p, l, e \in Int :
                /\ p = x_power(i, k) /\ l = lambda(i, S) /\ e = i - m
                /\ g[i] \in Int /\ Same(g[i], (l * e) * p)
        BY <1>3, Zenon
    <2>2. PICK n \in Int : n = lambda(i, R)
        BY <1>1, LambdaIs, Zenon
    <2>3. d[i] = w * (n * p)
        BY <2>1, <2>2, Zenon DEF Term
    <2> HIDE DEF g, d
    <2>4. Same(l * e, n * w)
        BY <2>1, <2>2, LambdaStep, Zenon
    <2>5. l * e \in Int /\ n * w \in Int /\ (n * w) * p \in Int
        BY TimesInt, Zenon
    <2>6. Same((l * e) * p, (n * w) * p)
        <3>1. Same(p, p)
            BY DEF Same
        <3> QED BY <2>4, <2>5, <3>1, SameTimes
    <2>7. w * (n * p) = (n * w) * p
        OBVIOUS
    <2> QED BY <2>1, <2>3, <2>5, <2>6, <2>7, Zenon DEF Same
<1>6. \A i \in S : g[i] = a[i] + w * b[i]
    OBVIOUS
<1>7. \A i \in R : d[i] = w * c[i]
    OBVIOUS
<1> HIDE DEF a, b, c, d, g, R
<1>8. SumOf(g, S) = SumOf(a, S) + w * SumOf(b, S) /\ Summable(g, S)
    <2>1. Combined(g, a, w, b, S)
        BY <1>6 DEF Combined
    <2>2. CombinedSum(g, a, w, b, S)
        BY <1>2, <2>1, SumLinear
    <2> QED BY <2>2, Zenon DEF CombinedSum
<1>9. SumOf(d, R) = w * SumOf(c, R) /\ Summable(d, R)
    <2>1. Scaled(d, w, c, R)
        BY <1>7 DEF Scaled
    <2>2. ScaledSum(d, w, c, R)
        BY <1>2, <2>1, SumTimes
    <2> QED BY <2>2, Zenon DEF ScaledSum
<1>10. Summable(g, R) /\ SumOf(g, R) \in Int /\ SumOf(g, S) = g[m] + SumOf(g, R)
    BY <1>8, SummablePart DEF Adds, R
<1>11. Same(SumOf(g, R), SumOf(d, R))
    BY <1>5, <1>9, <1>10, SumOfSame
<1>12. SumOf(d, R) \in Int
    BY <1>9, SumIsInt
<1>13. Same(g[m] + SumOf(g, R), 0 + SumOf(d, R))
    <2>1. 0 \in Int
        OBVIOUS
    <2> QED BY <1>4, <1>10, <1>11, <1>12, <2>1, SameAdd, SMTT(30)
<1>14. 0 + SumOf(d, R) = SumOf(d, R)
    BY <1>12
<1>15. Same(SumOf(a, S) + w * SumOf(b, S), w * SumOf(c, R))
    BY <1>8, <1>9, <1>10, <1>13, <1>14, Zenon
<1> QED BY <1>15, Zenon DEF Moment, a, b, c, R

\* What interpolation gives for x^k: 1 for k = 0, and 0 for any other k less
\* than the number of points.
Delta(k) == IF k = 0 THEN 1 ELSE 0

\* With one point.
LEMMA OneMoment ==
    ASSUME NEW S \in Points, NEW i \in S, S \ {i} = {}
    PROVE  Same(Moment(S, 0), 1)
<1>1. lambda(i, S) \in Int /\ Same(lambda(i, S), 1)
    <2>1. ProductOf(Factors(i, S), {}) = 1
        BY ProductOfNone
    <2> QED BY <2>1, LambdaIs, Zenon
<1>2. x_power(i, 0) = 1
    BY PointsFinite, PowerIs, Zenon
<1>3. PICK l \in Int : l = lambda(i, S) /\ l * 1 = l /\ l + 0 = l
    <2>1. \A x \in Int : x * 1 = x /\ x + 0 = x
        OBVIOUS
    <2> QED BY <1>1, <2>1, Zenon
<1>4. Summable(Term(S, 0), S)
    BY MomentIsInt
<1>5. Moment(S, 0) = Term(S, 0)[i] + SumOf(Term(S, 0), S \ {i})
    BY <1>4, SumRemove DEF Moment
<1>6. SumOf(Term(S, 0), S \ {i}) = 0
    BY SumOfNone
<1>7. Term(S, 0)[i] = l
    BY <1>2, <1>3, Zenon DEF Term
<1> QED BY <1>1, <1>3, <1>5, <1>6, <1>7, Zenon

\* Two points m and n give the moments of S, once those with a point less are
\* known.
LEMMA ZerothMoment ==
    ASSUME NEW S \in Points, NEW m \in S, NEW n \in S, m # n,
           Same(Moment(S \ {m}, 0), 1), Same(Moment(S \ {n}, 0), 1)
    PROVE  Same(Moment(S, 0), 1)
<1>1. /\ m \in Int /\ n \in Int /\ m - n \in Int /\ ~Same(m - n, 0)
      /\ S \ {m} \in Points /\ S \ {n} \in Points
    BY PointsFinite, SMTT(30)
<1>2. PICK w \in Int : w = -m
    BY <1>1
<1>3. PICK v \in Int : v = -n
    BY <1>1
<1>4. PICK a0, a1 \in Int : a0 = Moment(S, 0) /\ a1 = Moment(S, 0 + 1)
    BY MomentIsInt
<1>5. PICK b \in Int : b = Moment(S \ {m}, 0) /\ Same(b, 1)
    BY <1>1, MomentIsInt
<1>6. PICK c \in Int : c = Moment(S \ {n}, 0) /\ Same(c, 1)
    BY <1>1, MomentIsInt
<1>7. Same(a1 + w * a0, w * b) /\ Same(a1 + v * a0, v * c)
    <2>1. 0 \in Nat
        OBVIOUS
    <2>2. Same(Moment(S, 0 + 1) + w * Moment(S, 0), w * Moment(S \ {m}, 0))
        BY <1>2, <2>1, MomentStep
    <2>3. Same(Moment(S, 0 + 1) + v * Moment(S, 0), v * Moment(S \ {n}, 0))
        BY <1>3, <2>1, MomentStep
    <2> QED BY <1>4, <1>5, <1>6, <2>2, <2>3, Zenon
<1>8. \A x \in Int : Same(x, x)
    BY DEF Same
<1>9. Same(w * b, w * 1) /\ Same(v * c, v * 1)
    <2>1. PICK o \in Int : o = 1
        OBVIOUS
    <2>2. Same(w * b, w * o) /\ Same(v * c, v * o)
        BY <1>5, <1>6, <1>8, <2>1, SameTimes, Zenon
    <2> QED BY <2>1, <2>2, Zenon
<1>10. Same(a1 + w * a0, w) /\ Same(a1 + v * a0, v)
    <2>1. w * 1 = w /\ v * 1 = v
        OBVIOUS
    <2> QED BY <1>7, <1>9, <2>1 DEF Same
<1>11. PICK x, y \in Int : x = a1 + w * a0 /\ y = a1 + v * a0
    BY TimesInt, Zenon
<1>12. PICK z \in Int : z = -1
    OBVIOUS
<1>13. Same(z * x, z * w)
    BY <1>8, <1>10, <1>11, SameTimes, Zenon
<1>14. Same(z * x + y, z * w + v)
    <2>1. z * x \in Int /\ z * w \in Int
        OBVIOUS
    <2> QED BY <1>10, <1>11, <1>13, <2>1, SameAdd
<1>15. PICK e \in Int : e = m - n
    BY <1>1
<1>16. PICK t \in Int : t = z * w + v
    OBVIOUS
<1>17. z * x + y = e * a0 /\ t = e
    BY <1>1, <1>2, <1>3, <1>11, <1>12, <1>15, <1>16
<1>18. Same(e * a0, e)
    BY <1>14, <1>16, <1>17
<1>19. PICK o \in Int : o = z * e
    OBVIOUS
<1>20. Same(e * a0 + o, e + o)
    <2>1. e * a0 \in Int
        OBVIOUS
    <2> QED BY <1>8, <1>18, <2>1, SameAdd, Zenon
<1>21. PICK u \in Int : u = a0 - 1
    OBVIOUS
<1>22. e * a0 + o = e * u /\ e + o = 0
    BY <1>12, <1>19, <1>21
<1>23. Same(u, 0)
    BY <1>1, <1>15, <1>20, <1>22, NoZeroDivisors, Zenon
<1>24. Same(u + 1, 0 + 1)
    <2>1. 0 \in Int /\ 1 \in Int
        OBVIOUS
    <2> QED BY <1>8, <1>23, <2>1, SameAdd
<1>25. u + 1 = a0 /\ 0 + 1 = 1
    BY <1>21
<1> QED BY <1>4, <1>24, <1>25

\* The next moment.
LEMMA NextMoment ==
    ASSUME NEW S \in Points, NEW m \in S, NEW k \in Nat,
           Same(Moment(S, k), Delta(k)), Same(Moment(S \ {m}, k), Delta(k))
    PROVE  Same(Moment(S, k + 1), 0)
<1>1. m \in Int /\ S \ {m} \in Points /\ k + 1 \in Nat
    BY PointsFinite
<1>2. PICK w \in Int : w = -m
    BY <1>1
<1>3. PICK a, b, c \in Int : a = Moment(S, k) /\ b = Moment(S, k + 1) /\ c = Moment(S \ {m}, k)
    BY <1>1, MomentIsInt
<1>4. PICK d \in Int : d = Delta(k)
    BY DEF Delta
<1>5. \A x \in Int : Same(x, x)
    BY DEF Same
<1>6. Same(b + w * a, w * c)
    BY <1>2, <1>3, MomentStep
<1>7. Same(w * a, w * d) /\ Same(w * c, w * d)
    BY <1>3, <1>4, <1>5, SameTimes, Zenon
<1>8. PICK x, y \in Int : x = w * a /\ y = w * c
    OBVIOUS
<1>9. PICK z \in Int : z = -1
    OBVIOUS
<1>10. Same(b + x, x)
    BY <1>6, <1>7, <1>8 DEF Same
<1>11. PICK t \in Int : t = z * x
    OBVIOUS
<1>12. Same((b + x) + t, x + t)
    <2>1. b + x \in Int
        OBVIOUS
    <2> QED BY <1>5, <1>10, <2>1, SameAdd, Zenon
<1>13. (b + x) + t = b /\ x + t = 0
    BY <1>9, <1>11
<1> QED BY <1>3, <1>12, <1>13

\* Interpolation at 0 of x^k.
LEMMA Moments ==
    ASSUME NEW S \in Points, NEW k \in Nat, k < Cardinality(S)
    PROVE  Same(Moment(S, k), Delta(k))
<1> DEFINE Known(T, n) == \A j \in 0..n : Same(Moment(T, j), Delta(j))
           D == {n \in Nat : \A T \in Points : Cardinality(T) = n + 1 => Known(T, n)}
<1>1. 0 \in D
    <2> SUFFICES ASSUME NEW T \in Points, Cardinality(T) = 1 PROVE Same(Moment(T, 0), 1)
        BY DEF Delta
    <2>1. IsFiniteSet(T)
        BY PointsFinite
    <2>2. PICK i \in T : TRUE
        BY FS_EmptySet
    <2>3. IsFiniteSet(T \ {i}) /\ Cardinality(T \ {i}) = 0
        <3>1. IsFiniteSet(T \ {i}) /\ Cardinality(T \ {i}) = Cardinality(T) - 1
            BY <2>1, FS_RemoveElement
        <3> QED BY <3>1
    <2>4. T \ {i} = {}
        BY <2>3, FS_EmptySet
    <2> QED BY <2>4, OneMoment
<1>2. ASSUME NEW n \in D \cap Nat PROVE n + 1 \in D
    <2> SUFFICES ASSUME NEW T \in Points, Cardinality(T) = n + 2 PROVE Known(T, n + 1)
        OBVIOUS
    <2>1. IsFiniteSet(T)
        BY PointsFinite
    <2>2. ASSUME NEW i \in T
          PROVE  T \ {i} \in Points /\ Cardinality(T \ {i}) = n + 1 /\ Known(T \ {i}, n)
        <3>1. Cardinality(T \ {i}) = Cardinality(T) - 1
            BY <2>1, FS_RemoveElement
        <3>2. Cardinality(T \ {i}) = n + 1
            BY <3>1
        <3>3. T \ {i} \in Points
            BY PointsFinite
        <3> QED BY <3>2, <3>3
    <2> HIDE DEF Known
    <2>3. PICK m \in T : TRUE
        BY FS_EmptySet
    <2>4. PICK l \in T \ {m} : TRUE
        <3>1. Cardinality(T \ {m}) = n + 1
            BY <2>2
        <3>2. Cardinality(T \ {m}) # 0
            BY <3>1
        <3>3. T \ {m} # {}
            BY <3>2, FS_EmptySet, Zenon
        <3> QED BY <3>3, Zenon
    <2>5. ASSUME NEW i \in T, NEW j \in 0..n PROVE Same(Moment(T \ {i}, j), Delta(j))
        BY <2>2, Zenon DEF Known
    <2>6. Same(Moment(T, 0), 1)
        <3>1. 0 \in 0..n /\ Delta(0) = 1
            BY DEF Delta
        <3>2. Same(Moment(T \ {m}, 0), 1) /\ Same(Moment(T \ {l}, 0), 1)
            BY <2>5, <3>1
        <3> QED BY <2>4, <3>2, ZerothMoment
    <2> DEFINE E == {j \in Nat : j <= n + 1 => Same(Moment(T, j), Delta(j))}
    <2>7. 0 \in E
        BY <2>6 DEF Delta
    <2>8. ASSUME NEW j \in E \cap Nat PROVE j + 1 \in E
        <3> SUFFICES ASSUME j + 1 <= n + 1 PROVE Same(Moment(T, j + 1), Delta(j + 1))
            OBVIOUS
        <3>1. j \in 0..n /\ Same(Moment(T, j), Delta(j)) /\ j \in Nat
            OBVIOUS
        <3>2. Same(Moment(T \ {m}, j), Delta(j))
            BY <2>5, <3>1
        <3>3. Same(Moment(T, j + 1), 0)
            BY <3>1, <3>2, NextMoment
        <3> QED BY <3>3 DEF Delta
    <2>9. Nat \subseteq E
        <3> HIDE DEF E
        <3> QED BY <2>7, <2>8, SetInduction
    <2> QED BY <2>9 DEF Known
<1>3. Nat \subseteq D
    <2> HIDE DEF D
    <2> QED BY <1>1, <1>2, SetInduction
<1>4. Cardinality(S) \in Nat
    BY PointsFinite
<1>5. PICK n \in Nat : Cardinality(S) = n + 1
    <2>1. Cardinality(S) - 1 \in Nat /\ Cardinality(S) = (Cardinality(S) - 1) + 1
        BY <1>4
    <2> QED BY <2>1
<1>6. Known(S, n)
    BY <1>3, <1>5
<1>7. k \in 0..n
    BY <1>5
<1> QED BY <1>6, <1>7

-----------------------------------------------------------------------------
(* Shares *)

\* What interpolation at 0 gives for the shares y.
Weighted(y, S) == [i \in S |-> lambda(i, S) * y[i]]
Interpolated(y, S) == SumOf(Weighted(y, S), S)

\* reconstruct_secret computes what is interpolated.
LEMMA InterpolatedIsInt ==
    ASSUME NEW S \in Points, NEW y, \A i \in S : y[i] \in Int
    PROVE  /\ Summable(Weighted(y, S), S)
           /\ Interpolated(y, S) \in Int
           /\ reconstruct_secret(y, S) = Interpolated(y, S) % P
<1>1. ASSUME NEW i \in S PROVE lambda(i, S) * y[i] \in Int
    BY LambdaIs, TimesInt, Zenon
<1>2. IsFiniteSet(S)
    BY PointsFinite
<1>3. Summable(Weighted(y, S), S)
    BY <1>1, <1>2, Zenon DEF Summable, Weighted
<1>4. DOMAIN Weighted(y, S) = S
    BY DEF Weighted
<1>5. reconstruct_secret(y, S) = SumOver(Weighted(y, S))
    BY DEF reconstruct_secret, Weighted
<1> QED BY <1>3, <1>4, <1>5, SumIsInt, SumOverFunction DEF Interpolated

\* Interpolation is linear: it takes a combination of shares to that of what it
\* gives for each.
LEMMA InterpolatedSum ==
    ASSUME NEW S \in Points, NEW J, IsFiniteSet(J), NEW a \in [J -> Int],
           NEW h \in [J -> [S -> Int]], NEW y, \A i \in S : y[i] \in Int,
           \A i \in S : Same(y[i], SumOf([j \in J |-> a[j] * h[j][i]], J))
    PROVE  /\ Summable([j \in J |-> a[j] * Interpolated(h[j], S)], J)
           /\ Same(Interpolated(y, S), SumOf([j \in J |-> a[j] * Interpolated(h[j], S)], J))
<1> DEFINE part(i) == [j \in J |-> a[j] * h[j][i]]
           M == [i \in S |-> [j \in J |-> lambda(i, S) * (a[j] * h[j][i])]]
           c == [j \in J |-> a[j] * Interpolated(h[j], S)]
<1>0. IsFiniteSet(S)
    BY PointsFinite
<1>1. ASSUME NEW i \in S
      PROVE  /\ lambda(i, S) \in Int
             /\ \A j \in J : a[j] * h[j][i] \in Int /\ lambda(i, S) * (a[j] * h[j][i]) \in Int
    <2>1. lambda(i, S) \in Int
        BY LambdaIs, Zenon
    <2>2. ASSUME NEW j \in J PROVE a[j] \in Int /\ h[j][i] \in Int
        OBVIOUS
    <2> QED BY <2>1, <2>2, TimesInt, Zenon
<1>2. M \in [S -> [J -> Int]]
    BY <1>1, Zenon
<1>3. ASSUME NEW i \in S
      PROVE  /\ Summable(part(i), J) /\ SumOf(part(i), J) \in Int
             /\ SumOf(M[i], J) = lambda(i, S) * SumOf(part(i), J)
    <2>1. Summable(part(i), J)
        BY <1>1 DEF Summable
    <2>2. \A j \in J : M[i][j] = lambda(i, S) * part(i)[j]
        BY Zenon
    <2>3. lambda(i, S) \in Int
        BY <1>1, Zenon
    <2> HIDE DEF M, part
    <2>4. SumOf(M[i], J) = lambda(i, S) * SumOf(part(i), J)
        <3>1. PICK v \in Int : v = lambda(i, S)
            BY <2>3, Zenon
        <3>2. PICK g, f : g = M[i] /\ f = part(i)
            BY Zenon
        <3>3. Summable(f, J) /\ Scaled(g, v, f, J)
            BY <2>1, <2>2, <3>1, <3>2, Zenon DEF Scaled
        <3>4. SumOf(g, J) = v * SumOf(f, J)
            <4>1. ScaledSum(g, v, f, J)
                BY <3>3, SumTimes
            <4> QED BY <4>1, Zenon DEF ScaledSum
        <3> QED BY <3>1, <3>2, <3>4, Zenon
    <2> QED BY <2>1, <2>4, SumIsInt
<1>4. ASSUME NEW j \in J
      PROVE  Columns(M, S, J)[j] = c[j]
    <2> DEFINE col == [i \in S |-> M[i][j]]
               w == Weighted(h[j], S)
    <2>1. Summable(w, S)
        BY InterpolatedIsInt
    <2>2. ASSUME NEW i \in S PROVE col[i] = a[j] * w[i]
        <3>1. PICK l, b, x \in Int : l = lambda(i, S) /\ b = a[j] /\ x = h[j][i]
            BY <1>1, Zenon
        <3>2. col[i] = l * (b * x) /\ w[i] = l * x
            BY <3>1, Zenon DEF Weighted
        <3>3. l * (b * x) = b * (l * x)
            OBVIOUS
        <3> QED BY <3>1, <3>2, <3>3, Zenon
    <2>3. Columns(M, S, J)[j] = SumOf(col, S)
        BY Zenon DEF Columns
    <2>4. a[j] \in Int
        OBVIOUS
    <2> HIDE DEF col, w, M
    <2>5. SumOf(col, S) = a[j] * SumOf(w, S)
        <3>1. PICK v \in Int : v = a[j]
            BY <2>4
        <3>2. SumOf(col, S) = v * SumOf(w, S)
            <4>1. Scaled(col, v, w, S)
                BY <2>2, <3>1, Zenon DEF Scaled
            <4>2. ScaledSum(col, v, w, S)
                BY <2>1, <4>1, SumTimes
            <4> QED BY <4>2, Zenon DEF ScaledSum
        <3> QED BY <3>1, <3>2, Zenon
    <2> QED BY <2>3, <2>5, Zenon DEF w, Interpolated
<1>5. DOMAIN Columns(M, S, J) = J /\ DOMAIN c = J
    BY DEF Columns
<1>6. Columns(M, S, J) = c
    <2>1. Columns(M, S, J) = [j \in J |-> Columns(M, S, J)[j]]
        BY DEF Columns
    <2>2. c = [j \in J |-> c[j]]
        OBVIOUS
    <2> HIDE DEF c, M
    <2> QED BY <1>4, <2>1, <2>2, Zenon
<1>7. /\ Summable(Rows(M, S, J), S) /\ Summable(c, J)
      /\ SumOf(Rows(M, S, J), S) = SumOf(c, J)
    <2> HIDE DEF M, c
    <2> QED BY <1>0, <1>2, <1>6, SumSwap
<1>8. ASSUME NEW i \in S PROVE Same(Weighted(y, S)[i], Rows(M, S, J)[i])
    <2>1. Rows(M, S, J)[i] = lambda(i, S) * SumOf(part(i), J)
        <3>1. Rows(M, S, J)[i] = SumOf(M[i], J)
            BY Zenon DEF Rows
        <3> QED BY <1>3, <3>1, Zenon
    <2>2. Weighted(y, S)[i] = lambda(i, S) * y[i]
        BY Zenon DEF Weighted
    <2>3. Same(y[i], SumOf(part(i), J)) /\ y[i] \in Int
        BY Zenon
    <2>4. lambda(i, S) \in Int /\ SumOf(part(i), J) \in Int
        BY <1>1, <1>3, Zenon
    <2> HIDE DEF M, part
    <2>5. Same(lambda(i, S), lambda(i, S))
        BY DEF Same
    <2>6. Same(lambda(i, S) * y[i], lambda(i, S) * SumOf(part(i), J))
        BY <2>3, <2>4, <2>5, SameTimes, ZenonT(40)
    <2> QED BY <2>1, <2>2, <2>6, Zenon
<1>9. Summable(Weighted(y, S), S)
    BY InterpolatedIsInt
<1> HIDE DEF M, c
<1>10. Same(SumOf(Weighted(y, S), S), SumOf(Rows(M, S, J), S))
    BY <1>7, <1>8, <1>9, SumOfSame
<1> QED BY <1>7, <1>10, Zenon DEF Interpolated, c

\* The terms of a polynomial.
Terms(c, x) == [k \in DOMAIN c |-> c[k] * x_power(x, k - 1)]

\* evaluate_poly computes the sum of the terms.
LEMMA PolynomialIs ==
    ASSUME NEW n \in Nat, NEW c \in [1..n -> Int], NEW x \in Int
    PROVE  /\ evaluate_poly(c, x) \in Field /\ evaluate_poly(c, x) \in Int
           /\ Summable(Terms(c, x), 1..n)
           /\ Same(evaluate_poly(c, x), SumOf(Terms(c, x), 1..n))
<1>1. DOMAIN c = 1..n /\ DOMAIN Terms(c, x) = 1..n
    BY DEF Terms
<1>2. ASSUME NEW k \in 1..n PROVE Terms(c, x)[k] \in Int
    <2>1. k - 1 \in Nat /\ c[k] \in Int
        OBVIOUS
    <2>2. x_power(x, k - 1) \in Int
        BY <2>1, PowerIs
    <2>3. Terms(c, x)[k] = c[k] * x_power(x, k - 1)
        BY <1>1, Zenon DEF Terms
    <2> QED BY <2>1, <2>2, <2>3, TimesInt, Zenon
<1>3. Summable(Terms(c, x), 1..n)
    BY <1>2, FS_Interval DEF Summable
<1>4. evaluate_poly(c, x) = SumOver(Terms(c, x))
    BY DEF evaluate_poly, Terms
<1>5. evaluate_poly(c, x) = SumOf(Terms(c, x), 1..n) % P
    BY <1>1, <1>4, SumOverFunction
<1>6. SumOf(Terms(c, x), 1..n) \in Int
    BY <1>3, SumIsInt
<1> QED BY <1>3, <1>5, <1>6, ModType, SameMod

\* The powers 0 to n - 1, and 1 to n, of the points.
Powers(S, n, e) == [k \in 1..n |-> [i \in S |-> x_power(i, k + e)]]

\* Interpolation of a combination of powers less than the number of points.
LEMMA InterpolatedPowers ==
    ASSUME NEW S \in Points, NEW n \in Nat, NEW c \in [1..n -> Int], NEW e \in {-1, 0},
           n + e < Cardinality(S), NEW y, \A i \in S : y[i] \in Int,
           \A i \in S : Same(y[i], SumOf([k \in 1..n |-> c[k] * Powers(S, n, e)[k][i]], 1..n))
    PROVE  Same(Interpolated(y, S), IF e = -1 /\ n > 0 THEN c[1] ELSE 0)
<1> DEFINE h == Powers(S, n, e)
           f == [k \in 1..n |-> c[k] * Interpolated(h[k], S)]
           d == [k \in 1..n |-> c[k] * Delta(k + e)]
<1>1. IsFiniteSet(1..n)
    BY FS_Interval
<1>2. ASSUME NEW k \in 1..n PROVE k + e \in Nat /\ k + e < Cardinality(S)
    BY PointsFinite, SMTT(30)
<1>3. h \in [1..n -> [S -> Int]]
    <2> SUFFICES ASSUME NEW k \in 1..n, NEW i \in S PROVE x_power(i, k + e) \in Int
        BY Zenon DEF Powers
    <2>1. i \in Int
        BY PointsFinite, Zenon
    <2> QED BY <1>2, <2>1, PowerIs
<1>4. ASSUME NEW k \in 1..n
      PROVE  Same(f[k], d[k]) /\ f[k] \in Int /\ d[k] \in Int
    <2>1. Weighted(h[k], S) = Term(S, k + e)
        BY Zenon DEF Powers, Weighted, Term
    <2>2. Interpolated(h[k], S) = Moment(S, k + e)
        BY <2>1, Zenon DEF Interpolated, Moment
    <2>3. PICK m, v, b \in Int : m = Moment(S, k + e) /\ v = Delta(k + e) /\ b = c[k]
        <3>1. Delta(k + e) \in Int
            BY DEF Delta
        <3>2. Moment(S, k + e) \in Int
            BY <1>2, MomentIsInt
        <3>3. c[k] \in Int
            OBVIOUS
        <3> QED BY <3>1, <3>2, <3>3, Zenon
    <2>4. Same(m, v) /\ Same(b, b)
        <3>1. Same(Moment(S, k + e), Delta(k + e))
            BY <1>2, Moments, Zenon
        <3> QED BY <2>3, <3>1 DEF Same
    <2>5. Same(b * m, b * v)
        BY <2>4, SameTimes, Zenon
    <2>6. f[k] = b * m /\ d[k] = b * v
        BY <2>2, <2>3, Zenon
    <2> HIDE DEF f, d
    <2> QED BY <2>5, <2>6, TimesInt
<1>5. \A i \in S : Same(y[i], SumOf([k \in 1..n |-> c[k] * h[k][i]], 1..n))
    OBVIOUS
<1> HIDE DEF h
<1>6. Same(Interpolated(y, S), SumOf(f, 1..n))
    BY <1>1, <1>3, <1>5, InterpolatedSum, Zenon
<1>7. Summable(f, 1..n) /\ Summable(d, 1..n)
    <2> HIDE DEF f, d
    <2> QED BY <1>1, <1>4 DEF Summable
<1>8. Same(SumOf(f, 1..n), SumOf(d, 1..n))
    <2> HIDE DEF f, d
    <2> QED BY <1>4, <1>7, SumOfSame
<1>9. Same(Interpolated(y, S), SumOf(d, 1..n))
    BY <1>6, <1>8 DEF Same
<1>10. ASSUME NEW k \in 1..n, k + e # 0 PROVE d[k] = 0
    BY <1>10 DEF Delta
<1>11. CASE e = -1 /\ n > 0
    <2>1. 1 \in 1..n /\ c[1] \in Int
        BY <1>11
    <2>2. d[1] = c[1]
        BY <1>11, <2>1 DEF Delta
    <2>3. \A k \in (1..n) \ {1} : d[k] = 0
        BY <1>10, <1>11
    <2> HIDE DEF d
    <2>4. SumOf(d, 1..n) = d[1]
        BY <1>1, <2>1, <2>2, <2>3, SumOfOne
    <2> QED BY <1>9, <1>11, <2>2, <2>4
<1>12. CASE ~(e = -1 /\ n > 0)
    <2>1. \A k \in 1..n : d[k] = 0
        BY <1>10, <1>12
    <2> HIDE DEF d
    <2>2. SumOf(d, 1..n) = 0
        BY <1>1, <2>1, SumOfZeros
    <2> QED BY <1>9, <1>12, <2>2
<1> QED BY <1>11, <1>12

\* The shares of a polynomial give its constant, with as many points as it has
\* coefficients.
LEMMA SharesOfPolynomial ==
    ASSUME NEW S \in Points, NEW n \in Nat \ {0}, NEW c \in [1..n -> Int],
           n <= Cardinality(S), NEW y, \A i \in S : y[i] = evaluate_poly(c, i)
    PROVE  Same(Interpolated(y, S), c[1])
<1>0. PICK e \in {-1, 0} : e = -1
    OBVIOUS
<1>1. ASSUME NEW i \in S
      PROVE  y[i] \in Int /\ Same(y[i], SumOf([k \in 1..n |-> c[k] * Powers(S, n, e)[k][i]], 1..n))
    <2>1. i \in Int
        BY PointsFinite, Zenon
    <2>2. y[i] \in Int /\ Same(y[i], SumOf(Terms(c, i), 1..n))
        BY <2>1, PolynomialIs, SMTT(30)
    <2>3. DOMAIN c = 1..n /\ \A k \in 1..n : k + e = k - 1
        BY <1>0
    <2>4. Terms(c, i) = [k \in 1..n |-> c[k] * Powers(S, n, e)[k][i]]
        <3>1. ASSUME NEW k \in 1..n PROVE Powers(S, n, e)[k][i] = x_power(i, k - 1)
            BY <2>3, Zenon DEF Powers
        <3> QED BY <2>3, <3>1, Zenon DEF Terms
    <2> QED BY <2>2, <2>4, Zenon
<1>2. n + e < Cardinality(S) /\ n > 0
    BY <1>0, PointsFinite
<1>3. Same(Interpolated(y, S), IF e = -1 /\ n > 0 THEN c[1] ELSE 0)
    BY <1>1, <1>2, InterpolatedPowers, Zenon
<1> QED BY <1>0, <1>2, <1>3

\* Those of a polynomial without a constant give 0, with one point more than it
\* has coefficients.
LEMMA SharesOfUpdate ==
    ASSUME NEW S \in Points, NEW n \in Nat, NEW c \in [1..n -> Int],
           n < Cardinality(S), NEW y, \A i \in S : y[i] = i * evaluate_poly(c, i)
    PROVE  Same(Interpolated(y, S), 0)
<1>0. PICK e \in {-1, 0} : e = 0
    OBVIOUS
<1>1. ASSUME NEW i \in S
      PROVE  y[i] \in Int /\ Same(y[i], SumOf([k \in 1..n |-> c[k] * Powers(S, n, e)[k][i]], 1..n))
    <2> DEFINE t == Terms(c, i)
               it == [k \in 1..n |-> i * t[k]]
               p == [k \in 1..n |-> c[k] * Powers(S, n, e)[k][i]]
    <2>1. i \in Int /\ DOMAIN c = 1..n
        BY PointsFinite, Zenon
    <2>2. PICK v \in Int : v = evaluate_poly(c, i) /\ Same(v, SumOf(t, 1..n)) /\ Summable(t, 1..n)
        BY <2>1, PolynomialIs
    <2>3. SumOf(t, 1..n) \in Int
        BY <2>2, SumIsInt
    <2>4. Same(i * v, i * SumOf(t, 1..n))
        <3>1. Same(i, i)
            BY DEF Same
        <3> HIDE DEF t
        <3> QED BY <2>1, <2>2, <2>3, <3>1, SameTimes
    <2>5. ScaledSum(it, i, t, 1..n)
        <3>1. Scaled(it, i, t, 1..n)
            BY DEF Scaled
        <3> HIDE DEF it, t
        <3> QED BY <2>1, <2>2, <3>1, SumTimes
    <2>6. ASSUME NEW k \in 1..n PROVE Same(it[k], p[k]) /\ p[k] \in Int
        <3>1. k - 1 \in Nat /\ (k - 1) + 1 = k /\ k + e = k /\ c[k] \in Int
            BY <1>0
        <3>2. x_power(i, k - 1) \in Int /\ Same(x_power(i, k), i * x_power(i, k - 1))
            BY <2>1, <3>1, PowerIs, Zenon
        <3>3. k \in Nat
            OBVIOUS
        <3>4. x_power(i, k) \in Int
            BY <2>1, <3>3, PowerIs
        <3>5. PICK b, q, r \in Int : b = c[k] /\ q = x_power(i, k - 1) /\ r = x_power(i, k)
            BY <3>1, <3>2, <3>4, Zenon
        <3>6. it[k] = i * (b * q)
            BY <2>1, <3>5, Zenon DEF Terms
        <3>7. p[k] = b * r
            BY <3>1, <3>5, Zenon DEF Powers
        <3>8. i * (b * q) = b * (i * q) /\ i * q \in Int /\ b * r \in Int
            BY <2>1
        <3>9. Same(b * r, b * (i * q))
            <4>1. Same(b, b) /\ Same(r, i * q)
                BY <3>2, <3>5 DEF Same
            <4> QED BY <3>8, <4>1, SameTimes
        <3> HIDE DEF it, p
        <3> QED BY <3>6, <3>7, <3>8, <3>9 DEF Same
    <2> HIDE DEF t, it, p
    <2>7. Summable(it, 1..n) /\ SumOf(it, 1..n) = i * SumOf(t, 1..n)
        BY <2>5, Zenon DEF ScaledSum
    <2>8. Summable(p, 1..n)
        BY <2>6, FS_Interval DEF Summable
    <2>9. Same(SumOf(it, 1..n), SumOf(p, 1..n))
        BY <2>6, <2>7, <2>8, SumOfSame
    <2>10. y[i] = i * v /\ i * v \in Int
        BY <2>1, <2>2, TimesInt, Zenon
    <2>11. Same(y[i], SumOf(p, 1..n))
        BY <2>4, <2>7, <2>9, <2>10 DEF Same
    <2> QED BY <2>10, <2>11, Zenon DEF p
<1>2. n + e < Cardinality(S)
    BY <1>0
<1>3. Same(Interpolated(y, S), IF e = -1 /\ n > 0 THEN c[1] ELSE 0)
    BY <1>1, <1>2, InterpolatedPowers, ZenonT(40)
<1> QED BY <1>0, <1>3

\* The values y are u + c * v, up to a multiple of P.
Mixed(y, u, c, v, S) ==
    \A i \in S : /\ u[i] \in Int /\ v[i] \in Int /\ y[i] \in Int
                 /\ Same(y[i], u[i] + c * v[i])

MixedShares(y, u, c, v, S) ==
    Same(Interpolated(y, S), Interpolated(u, S) + c * Interpolated(v, S))

\* What is interpolated from u + c * v.
LEMMA SharesMixed ==
    ASSUME NEW S \in Points, NEW u, NEW v, NEW y, NEW c \in Int, Mixed(y, u, c, v, S)
    PROVE  MixedShares(y, u, c, v, S)
<1> DEFINE g == [i \in S |-> Weighted(u, S)[i] + c * Weighted(v, S)[i]]
<1>1. \A i \in S : u[i] \in Int /\ v[i] \in Int /\ y[i] \in Int
    BY DEF Mixed
<1>2. /\ Summable(Weighted(u, S), S) /\ Summable(Weighted(v, S), S)
      /\ Summable(Weighted(y, S), S)
    BY <1>1, InterpolatedIsInt
<1>3. ASSUME NEW i \in S PROVE Same(Weighted(y, S)[i], g[i])
    <2>1. PICK l, a, b, s \in Int : l = lambda(i, S) /\ a = u[i] /\ b = v[i] /\ s = y[i]
        BY <1>1, LambdaIs, Zenon
    <2>2. PICK m \in Int : m = a + c * b
        OBVIOUS
    <2>3. Same(s, m) /\ Same(l, l)
        BY <2>1, <2>2, Zenon DEF Same, Mixed
    <2>4. Same(l * s, l * m)
        BY <2>3, SameTimes
    <2>5. l * m = l * a + c * (l * b)
        BY <2>2
    <2>6. Weighted(y, S)[i] = l * s /\ g[i] = l * a + c * (l * b)
        BY <2>1, Zenon DEF Weighted
    <2> HIDE DEF g
    <2> QED BY <2>4, <2>5, <2>6, Zenon
<1>4. Combined(g, Weighted(u, S), c, Weighted(v, S), S)
    BY Zenon DEF Combined
<1> HIDE DEF g
<1>5. CombinedSum(g, Weighted(u, S), c, Weighted(v, S), S)
    BY <1>2, <1>4, SumLinear
<1>6. Same(SumOf(Weighted(y, S), S), SumOf(g, S))
    BY <1>2, <1>3, <1>5, SumOfSame DEF CombinedSum
<1> QED BY <1>5, <1>6, Zenon DEF Interpolated, CombinedSum, MixedShares

\* What is interpolated from a sum of shares.
LEMMA SharesAdd ==
    ASSUME NEW S \in Points, NEW u, NEW v, NEW y,
           \A i \in S : u[i] \in Int /\ v[i] \in Int /\ y[i] \in Int /\ Same(y[i], u[i] + v[i])
    PROVE  Same(Interpolated(y, S), Interpolated(u, S) + Interpolated(v, S))
<1>1. PICK o \in Int : o = 1
    OBVIOUS
<1>2. \A a \in Int : o * a = a
    BY <1>1
<1>3. Mixed(y, u, o, v, S)
    BY <1>2, Zenon DEF Mixed
<1>4. MixedShares(y, u, o, v, S)
    BY <1>3, SharesMixed
<1>5. Interpolated(v, S) \in Int
    BY InterpolatedIsInt
<1> QED BY <1>2, <1>4, <1>5, Zenon DEF MixedShares

\* Points that are interpolated from a multiple of the shares.
LEMMA Multiples ==
    ASSUME NEW S \in Points, NEW base \in Int, NEW y, NEW v,
           \A i \in S : y[i] \in Int /\ v[i] \in Int /\ Same(y[i], base * v[i])
    PROVE  Same(Interpolated(y, S), base * Interpolated(v, S))
<1> DEFINE u == [i \in S |-> 0]
<1>1. ASSUME NEW i \in S PROVE u[i] \in Int /\ Same(y[i], u[i] + base * v[i])
    <2>1. PICK m \in Int : m = base * v[i]
        BY TimesInt
    <2>2. u[i] = 0 /\ 0 + m = m
        OBVIOUS
    <2> QED BY <2>1, <2>2
<1>2. Mixed(y, u, base, v, S)
    <2> HIDE DEF u
    <2> QED BY <1>1, Zenon DEF Mixed
<1>3. Interpolated(u, S) = 0
    <2>1. ASSUME NEW i \in S PROVE Weighted(u, S)[i] = 0
        <3>1. PICK l \in Int : l = lambda(i, S)
            BY LambdaIs, Zenon
        <3>2. l * 0 = 0 /\ u[i] = 0
            OBVIOUS
        <3>3. Weighted(u, S)[i] = lambda(i, S) * u[i]
            BY Zenon DEF Weighted
        <3> QED BY <3>1, <3>2, <3>3, Zenon
    <2> QED BY <2>1, SumOfZeros, PointsFinite DEF Interpolated
<1> HIDE DEF u
<1>4. Same(Interpolated(y, S), Interpolated(u, S) + base * Interpolated(v, S))
    BY <1>2, SharesMixed DEF MixedShares
<1>5. Interpolated(v, S) \in Int
    BY InterpolatedIsInt
<1>6. PICK m \in Int : m = base * Interpolated(v, S)
    BY <1>5, TimesInt
<1> QED BY <1>3, <1>4, <1>6

\* Sums of shares of several secrets are shares of the sum.
LEMMA SharesSum ==
    ASSUME NEW S \in Points, NEW J, IsFiniteSet(J), NEW h \in [J -> [S -> Int]],
           NEW y, \A i \in S : y[i] \in Int,
           \A i \in S : Same(y[i], SumOf([j \in J |-> h[j][i]], J)),
           NEW r \in [J -> Int], \A j \in J : Same(Interpolated(h[j], S), r[j])
    PROVE  Same(Interpolated(y, S), SumOf(r, J))
<1> DEFINE a == [j \in J |-> 1]
           f == [j \in J |-> a[j] * Interpolated(h[j], S)]
<1>1. a \in [J -> Int]
    OBVIOUS
<1>2. ASSUME NEW i \in S
      PROVE  Same(y[i], SumOf([j \in J |-> a[j] * h[j][i]], J))
    <2>1. ASSUME NEW j \in J PROVE a[j] * h[j][i] = h[j][i]
        <3>1. h[j][i] \in Int /\ a[j] = 1
            OBVIOUS
        <3> QED BY <3>1
    <2>2. [j \in J |-> a[j] * h[j][i]] = [j \in J |-> h[j][i]]
        BY <2>1, Zenon
    <2> QED BY <2>2, Zenon
<1>3. ASSUME NEW j \in J PROVE f[j] = Interpolated(h[j], S) /\ f[j] \in Int
    <2>1. Interpolated(h[j], S) \in Int
        BY InterpolatedIsInt
    <2> QED BY <2>1
<1> HIDE DEF a
<1>4. Summable(f, J) /\ Same(Interpolated(y, S), SumOf(f, J))
    BY <1>1, <1>2, InterpolatedSum, Zenon
<1> HIDE DEF f
<1>5. Summable(r, J)
    BY DEF Summable
<1>6. Same(SumOf(f, J), SumOf(r, J))
    BY <1>3, <1>4, <1>5, SumOfSame
<1> QED BY <1>4, <1>6 DEF Same

-----------------------------------------------------------------------------
(* Reconstruction *)

\* reconstruct_secret gives the secret that a polynomial was made for, from any
\* shares of it that are as many as its coefficients or more, whichever they are.
THEOREM ReconstructsSecret ==
    ASSUME NEW S \in Points, NEW n \in Nat \ {0}, NEW c \in [1..n -> Field],
           n <= Cardinality(S), NEW y, \A i \in S : y[i] = evaluate_poly(c, i)
    PROVE  reconstruct_secret(y, S) = c[1]
<1>1. c \in [1..n -> Int] /\ c[1] \in Field
    BY PrimeOrder DEF Field
<1>2. Same(Interpolated(y, S), c[1])
    BY <1>1, SharesOfPolynomial
<1>3. \A i \in S : y[i] \in Int
    BY <1>1, PointsFinite, PolynomialIs, Zenon
<1>4. Interpolated(y, S) \in Int /\ reconstruct_secret(y, S) = Interpolated(y, S) % P
    BY <1>3, InterpolatedIsInt
<1>5. c[1] % P = c[1]
    BY <1>1, ModOfField
<1> QED BY <1>2, <1>4, <1>5 DEF Same

=============================================================================
