------------------------------- MODULE Shamir -------------------------------
(***************************************************************************)
(* The scalars, and the polynomials over them, of                          *)
(* specter-primitives/src/shamir.rs and of its users dkg.rs and            *)
(* threshold.rs.  The field has P elements in place of the 2^252 of        *)
(* Ristretto255.  A point a * G is written as a: the group has prime       *)
(* order, so two points are equal if and only if their scalars are.        *)
(* A polynomial is the sequence of its coefficients, the constant first.   *)
(***************************************************************************)
EXTENDS Integers, Sequences, FiniteSets, FiniteSetsExt, Functions

CONSTANT P        \* the order of the field

ASSUME PrimeOrder ==
    P \in Nat \ {0, 1} /\ \A a, b \in 1..(P - 1) : (a * b) % P # 0

Field == 0..(P - 1)

SumOver(f) == SumFunction(f) % P
ProductOver(f) == FoldFunction(LAMBDA a, b : a * b, 1, f) % P

\* Scalar::invert, which gives 0 for 0.
invert(a) ==
    IF a % P = 0 THEN 0 ELSE CHOOSE b \in Field : ((a % P) * b) % P = 1

\* x_power after n coefficients: each multiplies it by x.
x_power(x, n) == ProductOver([k \in 1..n |-> x])

\* evaluate_polynomial, evaluate_poly and, on commitments,
\* evaluate_poly_points.
evaluate_poly(coeffs, x) ==
    SumOver([k \in DOMAIN coeffs |-> coeffs[k] * x_power(x, k - 1)])

\* The Lagrange coefficients at 0 for any set of points.
lagrange_coefficients ==
    [ids \in SUBSET (1..(P - 1)) |-> [i \in ids |->
        ProductOver([j \in ids \ {i} |-> (-j) * invert(i - j)])]]

lambda(i, ids) == lagrange_coefficients[ids][i]

\* reconstruct_secret from the shares y of ids.
reconstruct_secret(y, ids) == SumOver([i \in ids |-> lambda(i, ids) * y[i]])
=============================================================================
