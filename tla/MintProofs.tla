----------------------------- MODULE MintProofs -----------------------------
(***************************************************************************)
(* A mint whose key several participants hold: whom round 3 of the key     *)
(* generation can blame, that any signers who are enough have the key and  *)
(* sign under it, and that resharing keeps it.  For any number of          *)
(* participants, faulty ones included, and any field of prime order.       *)
(*                                                                         *)
(* What round 3 returns is determined by the commitments alone.  Shares    *)
(* are values of the sum of the participants' polynomials then, and        *)
(* ShamirProofs says what is reconstructed from them, from their sums and  *)
(* multiples, and after a polynomial without a constant is added.          *)
(***************************************************************************)
EXTENDS Threshold, ShamirProofs, FiniteSetTheorems, TLAPS

\* The length of a sequence.
LEMMA Lengths ==
    ASSUME NEW S, NEW s \in Seq(S) PROVE Len(s) \in Nat /\ DOMAIN s = 1..Len(s)
OBVIOUS

(* --------------------------- key generation ---------------------------- *)

DkgShape ==
    /\ DOMAIN secret_poly = Honest /\ DOMAIN commitments = Ids /\ DOMAIN pok = Ids
    /\ DOMAIN received = Honest /\ DOMAIN keyset = Honest
    /\ \A i \in Honest : DOMAIN received[i] = Ids

\* An honest participant that has broadcast has committed to its polynomial, of
\* the right degree, with a proof that verifies.
RoundOne ==
    \A j \in Honest : commitments[j] # <<>> =>
        /\ commitments[j] = secret_poly[j]
        /\ Len(commitments[j]) = threshold
        /\ verify_pok(j)

\* What honest participants send, and what is received from them, is on the
\* polynomial that they have committed to.
RoundTwo ==
    /\ \A m \in mail :
        /\ m[1] \in Honest /\ commitments[m[1]] # <<>>
        /\ m[3] = evaluate_poly(commitments[m[1]], m[2])
    /\ \A i, j \in Honest : received[i][j] # NoShare =>
        /\ commitments[j] # <<>>
        /\ received[i][j] = evaluate_poly(commitments[j], i)

\* Round 3 has failed for i when everyone has broadcast, and for a reason that
\* lies with a faulty participant.
RoundThree ==
    \A i \in Honest : keyset[i].result = "error" =>
        /\ \A j \in Ids : commitments[j] # <<>>
        /\ \E f \in Faulty :
            ~verify_pok(f) \/ (f \in Senders(i) /\ ~ShareVerifies(i, f))

DkgInv == DkgShape /\ RoundOne /\ RoundTwo /\ RoundThree

\* Polynomials have threshold coefficients, at least one.
LEMMA PolynomialLength ==
    ASSUME NEW poly \in [1..threshold -> Scalars]
    PROVE  Len(poly) = threshold /\ poly # <<>>
<1>1. threshold \in Nat \ {0}
    <2>1. P - 1 \in Nat
        BY PrimeOrder
    <2>2. IsFiniteSet(1..(P - 1))
        BY <2>1, FS_Interval
    <2>3. IsFiniteSet(Ids)
        BY <2>2, FS_Subset, DkgAssumption, ZenonT(40)
    <2>4. Cardinality(Ids) \in Nat
        BY <2>3, FS_CardinalityType
    <2> QED BY <2>4, DkgAssumption
<1>2. poly \in Seq(Scalars)
    BY <1>1
<1>3. DOMAIN poly = 1..threshold
    OBVIOUS
<1> QED BY <1>1, <1>2, <1>3, Lengths

\* Before round 1 nobody has anything, and so after a keyset is put together.
LEMMA DkgEmpty ==
    ASSUME Init PROVE DkgInv
<1>1. DkgShape
    BY DEF Init, DkgShape
<1>2. RoundOne
    BY DEF Init, RoundOne, Honest
<1>3. RoundTwo
    BY DEF Init, RoundTwo, Honest
<1>4. RoundThree
    BY DEF Init, RoundThree, None
<1> QED BY <1>1, <1>2, <1>3, <1>4 DEF DkgInv

\* Nothing happens.
LEMMA DkgStutter ==
    ASSUME DkgInv, UNCHANGED dkgVars PROVE DkgInv'
BY DEF dkgVars, DkgInv, DkgShape, RoundOne, RoundTwo, RoundThree, verify_pok,
       Senders, ShareVerifies

\* dkg_round1: nobody has had anything from i before.
LEMMA RoundOneInv ==
    ASSUME DkgInv, NEW i \in Honest, dkg_round1(i) PROVE DkgInv'
<1>1. PICK poly \in [1..threshold -> Scalars] :
        /\ secret_poly' = [secret_poly EXCEPT ![i] = poly]
        /\ commitments' = [commitments EXCEPT ![i] = poly]
    BY Zenon DEF dkg_round1
<1>2. Len(poly) = threshold /\ poly # <<>> /\ i \in Ids /\ i \notin Faulty
    BY PolynomialLength DEF Honest
<1>3. /\ pok' = [pok EXCEPT ![i] = TRUE] /\ commitments[i] = <<>>
      /\ mail' = mail /\ received' = received /\ keyset' = keyset
    BY DEF dkg_round1
<1>4. /\ \A j \in Ids : /\ commitments'[j] = IF j = i THEN poly ELSE commitments[j]
                        /\ j # i => pok'[j] = pok[j]
      /\ \A j \in Honest : secret_poly'[j] = IF j = i THEN poly ELSE secret_poly[j]
      /\ pok'[i] = TRUE
    BY <1>1, <1>2, <1>3, ZenonT(40) DEF DkgInv, DkgShape, Honest
<1>5. DkgShape'
    BY <1>1, <1>3 DEF DkgInv, DkgShape
<1>6. RoundOne'
    BY <1>2, <1>4 DEF DkgInv, RoundOne, verify_pok, Honest
<1>7. RoundTwo'
    <2>1. ASSUME NEW m \in mail
          PROVE  /\ m[1] \in Honest /\ commitments'[m[1]] # <<>>
                 /\ m[3] = evaluate_poly(commitments'[m[1]], m[2])
        <3>1. /\ m[1] \in Honest /\ commitments[m[1]] # <<>>
              /\ m[3] = evaluate_poly(commitments[m[1]], m[2])
            BY DEF DkgInv, RoundTwo
        <3>2. commitments'[m[1]] = commitments[m[1]]
            BY <1>3, <1>4, <3>1, ZenonT(40) DEF Honest
        <3> QED BY <3>1, <3>2
    <2>2. ASSUME NEW k \in Honest, NEW j \in Honest, received[k][j] # NoShare
          PROVE  /\ commitments'[j] # <<>>
                 /\ received[k][j] = evaluate_poly(commitments'[j], k)
        <3>1. /\ commitments[j] # <<>>
              /\ received[k][j] = evaluate_poly(commitments[j], k)
            BY <2>2 DEF DkgInv, RoundTwo
        <3>2. commitments'[j] = commitments[j]
            BY <1>3, <1>4, <3>1, ZenonT(40) DEF Honest
        <3> QED BY <3>1, <3>2
    <2> QED BY <1>3, <2>1, <2>2 DEF RoundTwo
<1>8. RoundThree'
    BY <1>2, <1>3 DEF DkgInv, RoundThree
<1> QED BY <1>5, <1>6, <1>7, <1>8 DEF DkgInv

\* A faulty participant broadcasts once; then nobody has failed yet.
LEMMA FaultyRound1Inv ==
    ASSUME DkgInv, NEW f \in Faulty, FaultyRound1(f) PROVE DkgInv'
<1>1. PICK c : commitments' = [commitments EXCEPT ![f] = c]
    BY Zenon DEF FaultyRound1
<1>2. PICK b : pok' = [pok EXCEPT ![f] = b]
    BY Zenon DEF FaultyRound1
<1>3. /\ commitments[f] = <<>> /\ secret_poly' = secret_poly
      /\ mail' = mail /\ received' = received /\ keyset' = keyset
      /\ f \in Ids
    BY DkgAssumption DEF FaultyRound1
<1>4. \A j \in Honest : commitments'[j] = commitments[j] /\ pok'[j] = pok[j]
    BY <1>1, <1>2 DEF DkgInv, DkgShape, Honest
<1>5. DkgShape'
    BY <1>1, <1>2, <1>3 DEF DkgInv, DkgShape
<1>6. RoundOne'
    BY <1>3, <1>4 DEF DkgInv, RoundOne, verify_pok
<1>7. RoundTwo'
    <2>1. ASSUME NEW m \in mail
          PROVE  /\ m[1] \in Honest /\ commitments'[m[1]] # <<>>
                 /\ m[3] = evaluate_poly(commitments'[m[1]], m[2])
        <3>1. /\ m[1] \in Honest /\ commitments[m[1]] # <<>>
              /\ m[3] = evaluate_poly(commitments[m[1]], m[2])
            BY DEF DkgInv, RoundTwo
        <3> QED BY <1>4, <3>1
    <2>2. ASSUME NEW k \in Honest, NEW j \in Honest, received[k][j] # NoShare
          PROVE  /\ commitments'[j] # <<>>
                 /\ received[k][j] = evaluate_poly(commitments'[j], k)
        <3>1. /\ commitments[j] # <<>>
              /\ received[k][j] = evaluate_poly(commitments[j], k)
            BY <2>2 DEF DkgInv, RoundTwo
        <3> QED BY <1>4, <3>1
    <2> QED BY <1>3, <2>1, <2>2 DEF RoundTwo
<1>8. RoundThree'
    BY <1>3 DEF DkgInv, RoundThree
<1> QED BY <1>5, <1>6, <1>7, <1>8 DEF DkgInv

\* dkg_round2: the polynomial that is evaluated is the one committed to.
LEMMA RoundTwoInv ==
    ASSUME DkgInv, NEW i \in Honest, dkg_round2(i) PROVE DkgInv'
<1>1. /\ commitments[i] # <<>>
      /\ mail' = mail \cup {<<i, j, evaluate_poly(secret_poly[i], j)>> : j \in Honest \ {i}}
      /\ UNCHANGED <<secret_poly, commitments, pok, received, keyset>>
    BY DEF dkg_round2
<1>2. secret_poly[i] = commitments[i]
    BY <1>1 DEF DkgInv, RoundOne
<1>3. \A m \in mail' :
        /\ m[1] \in Honest /\ commitments[m[1]] # <<>>
        /\ m[3] = evaluate_poly(commitments[m[1]], m[2])
    <2> TAKE m \in mail'
    <2>1. CASE m \in mail
        BY <2>1 DEF DkgInv, RoundTwo
    <2>2. ASSUME NEW j \in Honest \ {i}, m = <<i, j, evaluate_poly(secret_poly[i], j)>>
          PROVE  /\ m[1] \in Honest /\ commitments[m[1]] # <<>>
                 /\ m[3] = evaluate_poly(commitments[m[1]], m[2])
        BY <1>1, <1>2, <2>2, SMTT(30)
    <2> QED BY <1>1, <2>1, <2>2
<1>4. RoundTwo'
    BY <1>1, <1>3 DEF DkgInv, RoundTwo
<1>5. DkgShape' /\ RoundOne' /\ RoundThree'
    BY <1>1 DEF DkgInv, DkgShape, RoundOne, RoundThree, verify_pok, Senders, ShareVerifies
<1> QED BY <1>4, <1>5 DEF DkgInv

\* A share that comes in: an honest one is from the mail, and none comes to a
\* participant after its round 3.
LEMMA DeliverInv ==
    ASSUME DkgInv, NEW i \in Honest, NEW j \in Ids \ {i}, NEW y \in Field,
           Deliver(i, j, y)
    PROVE  DkgInv'
<1>1. /\ <<j, i, y>> \in mail \/ j \in Faulty
      /\ keyset[i] = None
      /\ received' = [received EXCEPT ![i][j] = y]
      /\ UNCHANGED <<secret_poly, commitments, pok, mail, keyset>>
    BY DEF Deliver
<1>2. \A k \in Honest, l \in Ids :
        received'[k][l] = IF k = i /\ l = j THEN y ELSE received[k][l]
    BY <1>1 DEF DkgInv, DkgShape
<1>3. DkgShape'
    BY <1>1 DEF DkgInv, DkgShape
<1>4. RoundOne'
    BY <1>1 DEF DkgInv, RoundOne, verify_pok
<1>5. RoundTwo'
    <2>1. ASSUME NEW k \in Honest, NEW l \in Honest, received'[k][l] # NoShare
          PROVE  /\ commitments[l] # <<>>
                 /\ received'[k][l] = evaluate_poly(commitments[l], k)
        <3>1. CASE received'[k][l] = received[k][l]
            BY <2>1, <3>1 DEF DkgInv, RoundTwo
        <3>2. CASE k = i /\ l = j /\ received'[k][l] = y
            <4>1. <<j, i, y>> \in mail
                BY <1>1, <3>2 DEF Honest
            <4>2. commitments[j] # <<>> /\ y = evaluate_poly(commitments[j], i)
                BY <4>1 DEF DkgInv, RoundTwo
            <4> QED BY <3>2, <4>2
        <3> QED BY <1>2, <3>1, <3>2, SMTT(30) DEF Honest
    <2> QED BY <1>1, <2>1 DEF DkgInv, RoundTwo
<1>6. RoundThree'
    <2> SUFFICES ASSUME NEW k \in Honest, keyset[k].result = "error"
                 PROVE  /\ \A l \in Ids : commitments[l] # <<>>
                        /\ \E f \in Faulty :
                            ~verify_pok(f)' \/ (f \in Senders(k)' /\ ~ShareVerifies(k, f)')
        BY <1>1 DEF RoundThree
    <2>1. k # i
        BY <1>1 DEF None
    <2>2. \A l \in Ids : received'[k][l] = received[k][l]
        BY <1>2, <2>1
    <2>3. /\ \A l \in Ids : commitments[l] # <<>>
          /\ \E f \in Faulty :
              ~verify_pok(f) \/ (f \in Senders(k) /\ ~ShareVerifies(k, f))
        BY DEF DkgInv, RoundThree
    <2>4. \A f \in Faulty : /\ verify_pok(f)' = verify_pok(f)
                            /\ f \in Senders(k) => f \in Senders(k)'
                            /\ ShareVerifies(k, f)' => ShareVerifies(k, f)
        BY <1>1, <2>2, DkgAssumption, SMTT(30) DEF verify_pok, Senders, ShareVerifies
    <2> QED BY <2>3, <2>4
<1> QED BY <1>3, <1>4, <1>5, <1>6 DEF DkgInv

\* dkg_round3 finds nothing wrong with an honest participant.
LEMMA RoundThreeInv ==
    ASSUME DkgInv, NEW i \in Honest, dkg_round3(i) PROVE DkgInv'
<1>1. /\ \A j \in Ids : commitments[j] # <<>>
      /\ UNCHANGED <<secret_poly, commitments, pok, mail, received>>
      /\ \A k \in Honest \ {i} : keyset'[k] = keyset[k]
      /\ DOMAIN keyset' = Honest
      /\ Verified(i) => keyset'[i].result = "ok"
    BY DEF dkg_round3, DkgInv, DkgShape
<1>2. ASSUME NEW j \in Honest
      PROVE  verify_pok(j) /\ (j \in Senders(i) => ShareVerifies(i, j))
    BY <1>1 DEF DkgInv, RoundOne, RoundTwo, Senders, ShareVerifies, Honest
<1>3. ASSUME ~Verified(i)
      PROVE  \E f \in Faulty : ~verify_pok(f) \/ (f \in Senders(i) /\ ~ShareVerifies(i, f))
    <2>1. PICK f \in Ids : ~verify_pok(f) \/ (f \in Senders(i) /\ ~ShareVerifies(i, f))
        BY <1>3 DEF Verified, Senders
    <2>2. f \in Faulty
        BY <1>2, <2>1 DEF Honest
    <2> QED BY <2>1, <2>2
<1>4. DkgShape' /\ RoundOne' /\ RoundTwo'
    BY <1>1 DEF DkgInv, DkgShape, RoundOne, RoundTwo, verify_pok
<1>5. RoundThree'
    <2> SUFFICES ASSUME NEW k \in Honest, keyset'[k].result = "error"
                 PROVE  \E f \in Faulty :
                            ~verify_pok(f) \/ (f \in Senders(k) /\ ~ShareVerifies(k, f))
        BY <1>1 DEF RoundThree, verify_pok, Senders, ShareVerifies
    <2>1. CASE k = i
        BY <1>1, <1>3, <2>1
    <2>2. CASE k # i
        BY <1>1, <2>2 DEF DkgInv, RoundThree
    <2> QED BY <2>1, <2>2
<1> QED BY <1>4, <1>5 DEF DkgInv

\* Combining the keysets drops everything that was exchanged for them.
LEMMA CombineInv ==
    ASSUME NEW m \in Honest, Combine(m) PROVE DkgInv'
<1>1. DkgShape'
    BY DEF Combine, DkgShape
<1>2. RoundOne'
    BY DEF Combine, RoundOne, Honest
<1>3. RoundTwo'
    BY DEF Combine, RoundTwo, Honest
<1>4. RoundThree'
    BY DEF Combine, RoundThree, None
<1> QED BY <1>1, <1>2, <1>3, <1>4 DEF DkgInv

\* Every step of the key's life keeps the invariant.
LEMMA DkgNextInv == ASSUME DkgInv, [Next]_vars PROVE DkgInv'
<1>1. CASE DkgNext
    BY <1>1, RoundOneInv, RoundTwoInv, RoundThreeInv, DeliverInv, FaultyRound1Inv, SMTT(30) DEF DkgNext
<1>2. CASE dealer_keygen
    BY <1>2, DkgStutter DEF dealer_keygen
<1>3. ASSUME NEW m \in Honest, Combine(m) PROVE DkgInv'
    BY <1>3, CombineInv
<1>4. CASE proactive_reshare
    BY <1>4, DkgStutter DEF proactive_reshare
<1>5. ASSUME NEW ids, threshold_blind_sign(ids) PROVE DkgInv'
    BY <1>5, DkgStutter DEF threshold_blind_sign
<1>6. ASSUME NEW ids, threshold_clause_blind_sign(ids) PROVE DkgInv'
    BY <1>6, DkgStutter DEF threshold_clause_blind_sign
<1>7. CASE UNCHANGED vars
    BY <1>7, DkgStutter DEF vars
<1> QED BY <1>1, <1>2, <1>3, <1>4, <1>5, <1>6, <1>7, SMTT(30) DEF Next

\* Round 3 of the key generation fails for an honest participant only over
\* something a faulty one broadcast or sent, for any number of participants and
\* of faulty ones among them, any threshold and field, whatever shares are lost
\* or late and whenever round 3 is called.
THEOREM HonestNotBlamedHolds == Spec => []HonestNotBlamed
<1>1. ThresholdInit => DkgInv
    BY DkgEmpty DEF ThresholdInit
<1>2. DkgInv /\ [Next]_vars => DkgInv'
    BY DkgNextInv
<1>3. DkgInv => HonestNotBlamed
    BY DEF DkgInv, RoundThree, HonestNotBlamed
<1> QED BY <1>1, <1>2, <1>3, PTL DEF Spec

(* ------------------------------- the key ------------------------------- *)

\* What participants have broadcast are polynomials, and shares are scalars.
Broadcast ==
    /\ \A j \in Ids : commitments[j] # <<>> =>
        \E n \in Nat \ {0} : commitments[j] \in [1..n -> Field]
    /\ \A i \in Honest, j \in Ids : received[i][j] \in Field \cup {NoShare}

\* Everyone has broadcast a polynomial of the right degree.
AllCommitted == \A j \in Ids : commitments[j] \in [1..threshold -> Field]

\* The keyset that everyone's commitments determine.
TrueKeyset(i) ==
    [result |-> "ok",
     group_public |-> group_public,
     share |-> public_share(i),
     public_shares |-> [j \in Ids |-> public_share(j)]]

\* Round 3 returns that keyset.
KeysetInv ==
    \A i \in Honest : keyset[i].result = "ok" =>
        AllCommitted /\ keyset[i] = TrueKeyset(i)

\* Constants, for any of the instances.
LEMMA IdsArePoints ==
    /\ P \in Nat /\ P > 1
    /\ Ids \in Points /\ Honest \in Points /\ IsFiniteSet(Ids) /\ IsFiniteSet(Honest)
    /\ Cardinality(Ids) \in Nat /\ Cardinality(Honest) \in Nat /\ Cardinality(Ids) < P
    /\ threshold \in Nat \ {0} /\ threshold <= Cardinality(Ids)
    /\ 1..Cardinality(Ids) \in Points
    /\ Honest \subseteq Ids /\ Faulty \subseteq Ids /\ Scalars \subseteq Field
<1>1. P \in Nat /\ P > 1
    BY PrimeOrder
<1>2. Ids \in Points /\ Honest \in Points
    BY DkgAssumption DEF Points, Honest
<1>3. IsFiniteSet(Ids) /\ IsFiniteSet(Honest) /\ Cardinality(Ids) \in Nat /\ Cardinality(Honest) \in Nat
    BY <1>2, PointsFinite
<1>4. Cardinality(Ids) < P
    <2>1. PICK n \in Nat : n = P - 1
        BY <1>1
    <2>2. IsFiniteSet(1..n) /\ Cardinality(1..n) = n
        <3>1. 1 \in Int /\ n \in Int
            OBVIOUS
        <3>2. IsFiniteSet(1..n) /\ Cardinality(1..n) = IF 1 > n THEN 0 ELSE n - 1 + 1
            BY <3>1, FS_Interval
        <3> QED BY <3>2
    <2>3. Cardinality(Ids) <= Cardinality(1..n)
        BY <2>1, <2>2, FS_Subset, DkgAssumption, Zenon
    <2> QED BY <1>1, <1>3, <2>1, <2>2, <2>3
<1>5. threshold \in Nat \ {0} /\ threshold <= Cardinality(Ids)
    BY <1>3, DkgAssumption
<1>6. 1..Cardinality(Ids) \in Points
    BY <1>1, <1>3, <1>4 DEF Points
<1> QED BY <1>1, <1>2, <1>3, <1>4, <1>5, <1>6, DkgAssumption, SMTT(30) DEF Honest

\* A polynomial as it is drawn.
LEMMA Drawn ==
    ASSUME NEW n \in Nat, NEW c \in [1..n -> Scalars]
    PROVE  c \in [1..n -> Field] /\ c \in [1..n -> Int]
<1>1. Field \subseteq Int
    BY IdsArePoints DEF Field
<1> QED BY <1>1, IdsArePoints, ZenonT(40)

\* Scalars are integers.
LEMMA FieldInt == Field \subseteq Int
BY IdsArePoints DEF Field

\* The public key share, from commitments of the right degree.
LEMMA PublicShareIs ==
    ASSUME AllCommitted, NEW i \in Int
    PROVE  /\ \A j \in Ids : /\ evaluate_poly(commitments[j], i) \in Field
                             /\ evaluate_poly(commitments[j], i) \in Int
           /\ Summable([j \in Ids |-> evaluate_poly(commitments[j], i)], Ids)
           /\ SumOf([j \in Ids |-> evaluate_poly(commitments[j], i)], Ids) \in Int
           /\ public_share(i) = SumOf([j \in Ids |-> evaluate_poly(commitments[j], i)], Ids) % P
<1> DEFINE f == [j \in Ids |-> evaluate_poly(commitments[j], i)]
<1>1. ASSUME NEW j \in Ids
      PROVE  evaluate_poly(commitments[j], i) \in Field /\ evaluate_poly(commitments[j], i) \in Int
    <2>1. threshold \in Nat /\ commitments[j] \in [1..threshold -> Int]
        BY IdsArePoints, FieldInt, ZenonT(40) DEF AllCommitted
    <2> QED BY <2>1, PolynomialIs
<1>2. Summable(f, Ids)
    BY <1>1, IdsArePoints DEF Summable
<1>3. DOMAIN f = Ids
    OBVIOUS
<1>4. public_share(i) = SumOver(f)
    BY DEF public_share
<1> HIDE DEF f
<1>5. public_share(i) = SumOf(f, Ids) % P
    BY <1>3, <1>4, SumOverFunction
<1>6. SumOf(f, Ids) \in Int
    BY <1>2, SumIsInt, SMTT(30)
<1> QED BY <1>1, <1>2, <1>5, <1>6 DEF f

\* Once all shares have come and are verified, the key share is the one that the
\* others compute the public key share of.
LEMMA TotalIsPublic ==
    ASSUME AllCommitted, NEW i \in Honest, secret_poly[i] = commitments[i],
           Senders(i) = Ids \ {i},
           \A j \in Ids \ {i} : received[i][j] = evaluate_poly(commitments[j], i)
    PROVE  total_share(i) = public_share(i)
<1> DEFINE f == [j \in Ids |-> evaluate_poly(commitments[j], i)]
           h == [j \in Senders(i) |-> received[i][j]]
           R == Ids \ {i}
<1>1. i \in Int /\ i \in Ids
    BY IdsArePoints, PointsFinite, Zenon
<1>2. /\ Summable(f, Ids) /\ public_share(i) = SumOf(f, Ids) % P
      /\ f[i] = evaluate_poly(commitments[i], i)
    BY <1>1, PublicShareIs
<1>3. DOMAIN h = R /\ \A j \in R : f[j] = h[j]
    OBVIOUS
<1>4. total_share(i) = (f[i] + SumOver(h)) % P
    BY <1>2 DEF total_share
<1> HIDE DEF f, h, R
<1>5. R \in SUBSET Ids
    BY DEF R
<1>6. Summable(f, R) /\ SumOf(f, R) \in Int /\ f[i] \in Int /\ SumOf(f, Ids) = f[i] + SumOf(f, R)
    <2>1. Summable(f, R) /\ SumOf(f, R) \in Int
        BY <1>2, <1>5, SummablePart
    <2>2. f[i] \in Int
        BY <1>1, <1>2 DEF Summable
    <2>3. SumOf(f, Ids) = f[i] + SumOf(f, R)
        BY <1>1, <1>2, SumRemove, SMTT(30) DEF R
    <2> QED BY <2>1, <2>2, <2>3, SMTT(30)
<1>7. SumOf(f, R) = SumOf(h, R)
    BY <1>3, <1>6, SumSame, SMTT(30)
<1>8. PICK q \in Int : q = SumOf(f, R) /\ SumOver(h) = q % P
    BY <1>3, <1>6, <1>7, SumOverFunction, SMTT(30)
<1>9. PICK a \in Int : a = f[i] /\ Same(a, a)
    BY <1>6 DEF Same
<1>10. Same(a + (q % P), a + q)
    BY <1>9, ModType, SameMod, SameAdd, ZenonT(40)
<1> QED BY <1>2, <1>4, <1>6, <1>8, <1>9, <1>10, SMTT(30) DEF Same

\* The keyset of commitments that do not change does not.
LEMMA KeysetKept ==
    ASSUME KeysetInv, commitments' = commitments, keyset' = keyset PROVE KeysetInv'
BY DEF KeysetInv, AllCommitted, TrueKeyset, group_public, public_share

\* dkg_round3, called with all the shares.
LEMMA RoundThreeKey ==
    ASSUME ~Early, DkgInv, Broadcast, KeysetInv, NEW i \in Honest, dkg_round3(i)
    PROVE  KeysetInv'
<1>1. /\ \A j \in Ids : commitments[j] # <<>>
      /\ Senders(i) = Ids \ {i}
      /\ UNCHANGED <<secret_poly, commitments, pok, mail, received>>
      /\ \A k \in Honest \ {i} : keyset'[k] = keyset[k]
      /\ ~Verified(i) => keyset'[i] = Failed
      /\ Verified(i) => keyset'[i] =
            [result |-> "ok", group_public |-> group_public, share |-> total_share(i),
             public_shares |-> [j \in Ids |-> IF j = i THEN total_share(i) ELSE public_share(j)]]
    BY Zenon DEF dkg_round3, DkgInv, DkgShape
<1>2. ASSUME Verified(i) PROVE AllCommitted /\ keyset'[i] = TrueKeyset(i)
    <2>1. i \in Ids
        BY IdsArePoints, SMTT(30)
    <2>2. \A j \in Ids \ {i} : /\ Len(commitments[j]) = threshold
                               /\ received[i][j] = evaluate_poly(commitments[j], i)
        BY <1>1, <1>2, Zenon DEF Verified, ShareVerifies
    <2>3. Len(commitments[i]) = threshold /\ secret_poly[i] = commitments[i]
        BY <1>1, <2>1 DEF DkgInv, RoundOne
    <2>4. ASSUME NEW j \in Ids PROVE commitments[j] \in [1..threshold -> Field]
        <3>1. PICK n \in Nat \ {0} : commitments[j] \in [1..n -> Field]
            BY <1>1, Zenon DEF Broadcast
        <3>2. Len(commitments[j]) = n
            <4>1. commitments[j] \in Seq(Field) /\ DOMAIN commitments[j] = 1..n
                BY <3>1
            <4> QED BY <4>1, Lengths
        <3>3. Len(commitments[j]) = threshold
            BY <2>2, <2>3
        <3> QED BY <3>1, <3>2, <3>3, SMTT(30)
    <2>5. AllCommitted
        BY <2>4 DEF AllCommitted
    <2>6. total_share(i) = public_share(i)
        BY <1>1, <2>2, <2>3, <2>5, TotalIsPublic, Zenon
    <2>7. [j \in Ids |-> IF j = i THEN total_share(i) ELSE public_share(j)]
            = [j \in Ids |-> public_share(j)]
        BY <2>6
    <2> QED BY <1>1, <1>2, <2>5, <2>6, <2>7, ZenonT(40) DEF TrueKeyset
<1>3. ASSUME NEW k \in Honest, keyset'[k].result = "ok"
      PROVE  AllCommitted /\ keyset'[k] = TrueKeyset(k)
    <2>1. CASE k # i
        BY <1>1, <1>3, <2>1, ZenonT(40) DEF KeysetInv
    <2>2. CASE k = i /\ Verified(i)
        BY <1>2, <2>2, SMTT(30)
    <2>3. CASE k = i /\ ~Verified(i)
        BY <1>1, <1>3, <2>3, SMTT(30) DEF Failed
    <2> QED BY <2>1, <2>2, <2>3, SMTT(30)
<1>4. AllCommitted' = AllCommitted /\ \A k \in Honest : TrueKeyset(k)' = TrueKeyset(k)
    BY <1>1, Zenon DEF AllCommitted, TrueKeyset, group_public, public_share
<1> QED BY <1>3, <1>4, SMTT(30) DEF KeysetInv

\* A keyset in use: the shares of any threshold of signers give its key.
GoodKey(k) ==
    /\ k = [result |-> "ok", group_public |-> k.group_public, shares |-> k.shares,
            public_shares |-> k.public_shares]
    /\ DOMAIN k.shares \in {Honest, 1..Cardinality(Ids)}
    /\ k.shares \in [DOMAIN k.shares -> Field]
    /\ k.group_public \in Field
    /\ \A i \in DOMAIN k.shares : k.public_shares[i] = k.shares[i]
    /\ \A ids \in SUBSET (DOMAIN k.shares) : Cardinality(ids) >= threshold =>
        Same(Interpolated(k.shares, ids), k.group_public)

KeyInv == key \in {None, Failed} \/ GoodKey(key)

\* The signers are points.
LEMMA SignersArePoints ==
    ASSUME NEW k, GoodKey(k), NEW ids \in SUBSET (DOMAIN k.shares)
    PROVE  /\ ids \in Points /\ IsFiniteSet(ids) /\ Cardinality(ids) \in Nat
           /\ \A i \in ids : k.shares[i] \in Int /\ i \in Int
<1>1. DOMAIN k.shares \in Points
    BY IdsArePoints DEF GoodKey
<1>2. ids \in Points
    BY <1>1 DEF Points
<1>3. \A i \in ids : k.shares[i] \in Int
    BY FieldInt DEF GoodKey
<1> QED BY <1>2, <1>3, PointsFinite, ZenonT(40)

\* dealer_keygen: the shares are those of one polynomial.
LEMMA DealerKey == ASSUME dealer_keygen PROVE KeyInv'
<1> DEFINE S == 1..Cardinality(Ids)
<1>1. PICK poly \in [1..threshold -> Scalars] :
        key' = [result |-> "ok", group_public |-> poly[1],
                shares |-> [i \in S |-> evaluate_poly(poly, i)],
                public_shares |-> [i \in S |-> evaluate_poly(poly, i)]]
    BY Zenon DEF dealer_keygen
<1>2. PICK y : y = [i \in S |-> evaluate_poly(poly, i)]
    BY Zenon
<1>3. /\ threshold \in Nat \ {0} /\ poly \in [1..threshold -> Int]
      /\ 1 \in 1..threshold /\ poly[1] \in Field
    BY IdsArePoints, Drawn
<1>4. S \in Points
    BY IdsArePoints
<1> HIDE DEF S
<1>5. ASSUME NEW i \in S PROVE evaluate_poly(poly, i) \in Field
    BY <1>3, <1>4, PointsFinite, PolynomialIs, ZenonT(40)
<1>6. y \in [S -> Field] /\ DOMAIN y = S
    BY <1>2, <1>5
<1>7. ASSUME NEW ids \in SUBSET S, Cardinality(ids) >= threshold
      PROVE  Same(Interpolated(y, ids), poly[1])
    <2>1. ids \in Points
        BY <1>4 DEF Points
    <2>2. \A i \in ids : y[i] = evaluate_poly(poly, i)
        BY <1>2
    <2>3. Cardinality(ids) \in Nat
        BY <2>1, PointsFinite
    <2>4. threshold <= Cardinality(ids)
        BY <1>3, <1>7, <2>3, SMTT(30)
    <2> QED BY <1>3, <2>1, <2>2, <2>4, SharesOfPolynomial
<1>8. key' = [result |-> "ok", group_public |-> poly[1], shares |-> y, public_shares |-> y]
    BY <1>1, <1>2
<1>9. PICK k : k = key'
    OBVIOUS
<1>10. /\ k.group_public = poly[1] /\ k.shares = y /\ k.public_shares = y
       /\ k = [result |-> "ok", group_public |-> k.group_public, shares |-> k.shares,
               public_shares |-> k.public_shares]
    BY <1>8, <1>9
<1>11. GoodKey(k)
    BY <1>3, <1>6, <1>7, <1>10, ZenonT(40) DEF GoodKey, S
<1> QED BY <1>9, <1>11 DEF KeyInv

\* Combine: the shares are sums of shares of everyone's polynomials.
LEMMA CombinedKey ==
    ASSUME KeysetInv, NEW m \in Honest, Combine(m) PROVE KeyInv'
<1>1. /\ \A i \in Honest : keyset[i] = TrueKeyset(i)
      /\ AllCommitted
    BY DEF Combine, Complete, KeysetInv
<1> DEFINE y == [i \in Honest |-> public_share(i)]
           c(i) == [j \in Ids |-> evaluate_poly(commitments[j], i)]
           r == [j \in Ids |-> commitments[j][1]]
           q == [i \in Ids |-> public_share(i)]
<1>2. \A i \in Honest : /\ keyset[i].share = public_share(i)
                        /\ keyset[i].group_public = group_public
                        /\ keyset[i].public_shares = q
    <2> SUFFICES ASSUME NEW i \in Honest
                 PROVE  /\ keyset[i].share = public_share(i)
                        /\ keyset[i].group_public = group_public
                        /\ keyset[i].public_shares = q
        BY Zenon
    <2>1. PICK x, s, d : x = group_public /\ s = public_share(i) /\ d = q
        BY Zenon
    <2>2. keyset[i] = [result |-> "ok", group_public |-> x, share |-> s, public_shares |-> d]
        BY <1>1, <2>1, ZenonT(40) DEF TrueKeyset
    <2> HIDE DEF q
    <2>3. keyset[i].share = s /\ keyset[i].group_public = x /\ keyset[i].public_shares = d
        BY <2>2
    <2> QED BY <2>1, <2>3, ZenonT(40)
<1>3. key' = [result |-> "ok", group_public |-> group_public, shares |-> y, public_shares |-> q]
    <2>1. [i \in Honest |-> keyset[i].share] = y
        BY <1>2, Zenon
    <2> QED BY <1>2, <2>1, Zenon DEF Combine
<1>4. ASSUME NEW i \in Ids
      PROVE  /\ i \in Int /\ public_share(i) \in Field /\ public_share(i) \in Int
             /\ SumOf(c(i), Ids) \in Int /\ Same(public_share(i), SumOf(c(i), Ids))
             /\ \A j \in Ids : evaluate_poly(commitments[j], i) \in Int
    <2>1. i \in Int
        BY IdsArePoints, PointsFinite, Zenon
    <2>2. /\ SumOf(c(i), Ids) \in Int /\ public_share(i) = SumOf(c(i), Ids) % P
          /\ \A j \in Ids : evaluate_poly(commitments[j], i) \in Int
        BY <1>1, <2>1, PublicShareIs
    <2> HIDE DEF c
    <2> QED BY <2>1, <2>2, ModType, SameMod
<1>5. r \in [Ids -> Int] /\ DOMAIN r = Ids
    <2>1. 1 \in 1..threshold
        BY IdsArePoints
    <2> QED BY <1>1, <2>1, FieldInt, ZenonT(40) DEF AllCommitted
<1>6. group_public = SumOf(r, Ids) % P /\ SumOf(r, Ids) \in Int
    <2>1. group_public = SumOver(r)
        BY DEF group_public
    <2> HIDE DEF r
    <2>2. Summable(r, Ids)
        BY <1>5, IdsArePoints, SMTT(30) DEF Summable
    <2> QED BY <1>5, <2>1, <2>2, SumOverFunction, SumIsInt
<1>7. group_public \in Field /\ Same(SumOf(r, Ids), group_public)
    BY <1>6, ModType, SameMod, SMTT(30)
<1>8. ASSUME NEW ids \in SUBSET Honest, Cardinality(ids) >= threshold
      PROVE  Same(Interpolated(y, ids), group_public)
    <2> DEFINE h == [j \in Ids |-> [i \in ids |-> evaluate_poly(commitments[j], i)]]
    <2>1. ids \in Points /\ \A i \in ids : i \in Ids
        BY IdsArePoints DEF Points
    <2>2. h \in [Ids -> [ids -> Int]]
        BY <1>4, <2>1, ZenonT(40)
    <2>3. ASSUME NEW i \in ids
          PROVE  y[i] \in Int /\ Same(y[i], SumOf([j \in Ids |-> h[j][i]], Ids))
        <3>1. [j \in Ids |-> h[j][i]] = c(i)
            BY ZenonT(40)
        <3>2. y[i] = public_share(i) /\ i \in Ids
            BY <2>1
        <3> HIDE DEF h, c, y
        <3> QED BY <1>4, <3>1, <3>2
    <2>4. ASSUME NEW j \in Ids PROVE Same(Interpolated(h[j], ids), r[j])
        <3>1. /\ threshold \in Nat \ {0} /\ commitments[j] \in [1..threshold -> Int]
              /\ Cardinality(ids) \in Nat
            BY <1>1, <2>1, IdsArePoints, FieldInt, PointsFinite, ZenonT(40) DEF AllCommitted
        <3>2. threshold <= Cardinality(ids)
            BY <1>8, <3>1
        <3>3. \A i \in ids : h[j][i] = evaluate_poly(commitments[j], i)
            BY Zenon
        <3>4. PICK f, p : f = h[j] /\ p = commitments[j]
            BY ZenonT(40)
        <3>5. Same(Interpolated(f, ids), p[1])
            <4> HIDE DEF h
            <4> QED BY <2>1, <3>1, <3>2, <3>3, <3>4, SharesOfPolynomial, SMTT(30)
        <3> QED BY <3>4, <3>5, ZenonT(40)
    <2> HIDE DEF h, y, r
    <2>5. Same(Interpolated(y, ids), SumOf(r, Ids))
        BY <1>5, <2>1, <2>2, <2>3, <2>4, IdsArePoints, SharesSum, ZenonT(40)
    <2> QED BY <1>7, <2>5, SMTT(30) DEF Same
<1>9. y \in [Honest -> Field] /\ DOMAIN y = Honest /\ \A i \in Honest : q[i] = y[i]
    BY <1>4, IdsArePoints, Zenon
<1> HIDE DEF y, r, q, c
<1>10. PICK k : k = key'
    OBVIOUS
<1>11. /\ k.group_public = group_public /\ k.shares = y /\ k.public_shares = q
       /\ k = [result |-> "ok", group_public |-> k.group_public, shares |-> k.shares,
               public_shares |-> k.public_shares]
    BY <1>3, <1>10
<1>12. GoodKey(k)
    BY <1>7, <1>8, <1>9, <1>11, ZenonT(40) DEF GoodKey
<1> QED BY <1>10, <1>12 DEF KeyInv

\* The shares that proactive_reshare makes are shares of the same key.
LEMMA UpdatedShares ==
    ASSUME GoodKey(key), NEW g \in [Signers -> [1..(threshold - 1) -> Scalars]],
           NEW y, y = [j \in Signers |-> Updated(g, j)]
    PROVE  /\ y \in [Signers -> Field]
           /\ \A ids \in SUBSET Signers : Cardinality(ids) >= threshold =>
                Same(Interpolated(y, ids), key.group_public)
<1> DEFINE t(j) == [i \in Signers |-> j * evaluate_poly(g[i], j)]
           v == [j \in Signers |-> SumOf(t(j), Signers)]
           z == [i \in Signers |-> 0]
<1>1. /\ Signers \in Points /\ IsFiniteSet(Signers)
      /\ \A i \in Signers : key.shares[i] \in Int /\ i \in Int
    BY SignersArePoints DEF Signers
<1>2. PICK n \in Nat : n = threshold - 1
    BY IdsArePoints
<1>3. ASSUME NEW i \in Signers
      PROVE  g[i] \in [1..n -> Int]
    <2>1. g[i] \in [1..n -> Scalars]
        BY <1>2
    <2> QED BY <2>1, Drawn
<1>4. ASSUME NEW i \in Signers, NEW j \in Signers
      PROVE  j * evaluate_poly(g[i], j) \in Int
    <2>1. evaluate_poly(g[i], j) \in Int /\ j \in Int
        BY <1>1, <1>3, PolynomialIs, Zenon
    <2> QED BY <2>1, TimesInt, ZenonT(40)
<1>5. ASSUME NEW j \in Signers
      PROVE  /\ Summable(t(j), Signers) /\ v[j] \in Int
             /\ y[j] \in Field /\ y[j] \in Int /\ Same(y[j], key.shares[j] + v[j])
    <2>1. Summable(t(j), Signers)
        BY <1>1, <1>4 DEF Summable
    <2>2. DOMAIN t(j) = Signers /\ v[j] = SumOf(t(j), Signers)
        OBVIOUS
    <2>3. y[j] = (key.shares[j] + SumOver(t(j))) % P
        BY ZenonT(40) DEF Updated
    <2> HIDE DEF t, v
    <2>4. v[j] \in Int /\ SumOver(t(j)) = v[j] % P
        BY <2>1, <2>2, SumIsInt, SumOverFunction, SMTT(30)
    <2>5. PICK a, b, d \in Int : a = key.shares[j] /\ b = v[j] /\ d = v[j] % P /\ Same(d, b) /\ Same(a, a)
        BY <1>1, <2>4, ModType, SameMod, Zenon DEF Same
    <2>6. Same(a + d, a + b)
        BY <2>5, SameAdd, ZenonT(40)
    <2>7. y[j] = (a + d) % P /\ a + d \in Int
        BY <2>3, <2>4, <2>5, SMTT(30)
    <2>8. y[j] \in Field /\ y[j] \in Int /\ Same(y[j], a + d)
        BY <2>7, ModType, SameMod, SMTT(30)
    <2> QED BY <2>1, <2>4, <2>5, <2>6, <2>8, Zenon DEF Same
<1>6. ASSUME NEW ids \in SUBSET Signers, Cardinality(ids) >= threshold
      PROVE  Same(Interpolated(y, ids), key.group_public)
    <2> DEFINE h == [i \in Signers |-> [j \in ids |-> j * evaluate_poly(g[i], j)]]
    <2>1. ids \in Points /\ Cardinality(ids) \in Nat /\ n < Cardinality(ids)
        <3>1. ids \in Points /\ Cardinality(ids) \in Nat
            BY SignersArePoints DEF Signers
        <3> QED BY <1>2, <1>6, <3>1, IdsArePoints, SMTT(30)
    <2>2. h \in [Signers -> [ids -> Int]]
        BY <1>4, SMTT(30)
    <2>3. ASSUME NEW j \in ids
          PROVE  v[j] \in Int /\ Same(v[j], SumOf([i \in Signers |-> h[i][j]], Signers))
        <3>1. [i \in Signers |-> h[i][j]] = t(j)
            BY Zenon
        <3>2. v[j] = SumOf(t(j), Signers) /\ j \in Signers
            OBVIOUS
        <3> HIDE DEF h, t, v
        <3> QED BY <1>5, <3>1, <3>2, Zenon DEF Same
    <2>4. ASSUME NEW i \in Signers PROVE Same(Interpolated(h[i], ids), z[i])
        <3>1. PICK f, p : f = h[i] /\ p = g[i]
            BY Zenon
        <3>2. \A j \in ids : f[j] = j * evaluate_poly(p, j)
            BY <3>1, ZenonT(40)
        <3>3. z[i] = 0 /\ p \in [1..n -> Int]
            BY <1>3, <3>1, SMTT(30)
        <3>4. Same(Interpolated(f, ids), 0)
            <4> HIDE DEF h, z
            <4> QED BY <2>1, <3>2, <3>3, SharesOfUpdate, SMTT(30)
        <3> QED BY <3>1, <3>3, <3>4, ZenonT(40)
    <2>5. z \in [Signers -> Int] /\ \A i \in Signers : z[i] = 0
        OBVIOUS
    <2> HIDE DEF h, z, v, t
    <2>6. Same(Interpolated(v, ids), SumOf(z, Signers))
        <3>1. PICK J : J = Signers
            OBVIOUS
        <3>2. /\ ids \in Points /\ IsFiniteSet(J) /\ h \in [J -> [ids -> Int]]
              /\ z \in [J -> Int]
              /\ \A j \in ids : v[j] \in Int
              /\ \A j \in ids : Same(v[j], SumOf([i \in J |-> h[i][j]], J))
              /\ \A i \in J : Same(Interpolated(h[i], ids), z[i])
            BY <1>1, <2>1, <2>2, <2>3, <2>4, <2>5, <3>1, ZenonT(40)
        <3>3. Same(Interpolated(v, ids), SumOf(z, J))
            BY <3>2, SharesSum, ZenonT(40)
        <3> QED BY <3>1, <3>3
    <2>7. SumOf(z, Signers) = 0
        BY <1>1, <2>5, SumOfZeros
    <2>8. Same(Interpolated(y, ids), Interpolated(key.shares, ids) + Interpolated(v, ids))
        <3>1. \A j \in ids : /\ key.shares[j] \in Int /\ v[j] \in Int /\ y[j] \in Int
                             /\ Same(y[j], key.shares[j] + v[j])
            BY <1>1, <1>5
        <3> QED BY <2>1, <3>1, SharesAdd, ZenonT(40)
    <2>9. Interpolated(key.shares, ids) \in Int /\ Interpolated(v, ids) \in Int
        <3>1. \A j \in ids : key.shares[j] \in Int /\ v[j] \in Int
            BY <1>1, <2>3, ZenonT(40)
        <3> QED BY <2>1, <3>1, InterpolatedIsInt, Zenon
    <2>10. Same(Interpolated(key.shares, ids), key.group_public)
        BY <1>6 DEF GoodKey, Signers
    <2>11. PICK a, b, p \in Int : /\ a = Interpolated(key.shares, ids)
                                 /\ b = Interpolated(v, ids) /\ p = key.group_public
        BY <2>9, FieldInt DEF GoodKey
    <2>12. Same(a + b, p + 0)
        <3>1. Same(a, p) /\ Same(b, 0) /\ 0 \in Int
            BY <2>6, <2>7, <2>10, <2>11, SMTT(30)
        <3> QED BY <3>1, SameAdd
    <2>13. p + 0 = p
        OBVIOUS
    <2> QED BY <2>8, <2>11, <2>12, <2>13, SMTT(30) DEF Same
<1> HIDE DEF t, v, z
<1> QED BY <1>5, <1>6, SMTT(30)

(* ------------------------------ signing -------------------------------- *)

\* A keyset that was made is a good one.
LEMMA OkKey == ASSUME KeyInv, key.result = "ok" PROVE GoodKey(key)
BY DEF KeyInv, None, Failed

\* The lesser of two numbers.
LEMMA LesserOf ==
    ASSUME NEW a \in Nat, NEW b \in Nat, a <= b PROVE Min({a, b}) = a
<1>1. \E x \in {a, b} : \A y \in {a, b} : x <= y
    OBVIOUS
<1>2. Min({a, b}) \in {a, b} /\ \A y \in {a, b} : Min({a, b}) <= y
    BY <1>1 DEF Min
<1> QED BY <1>2

\* A keyset whose shares are replaced.
WithShares(k, y) == [k EXCEPT !.shares = y, !.public_shares = y]

\* What is replaced, and what is kept.
LEMMA NewShares ==
    ASSUME NEW k, NEW pk, NEW s, NEW q, NEW y,
           k = [result |-> "ok", group_public |-> pk, shares |-> s, public_shares |-> q]
    PROVE  WithShares(k, y)
            = [result |-> "ok", group_public |-> pk, shares |-> y, public_shares |-> y]
<1>1. [k EXCEPT !.shares = y]
        = [result |-> "ok", group_public |-> pk, shares |-> y, public_shares |-> q]
    OBVIOUS
<1>2. PICK m : m = [result |-> "ok", group_public |-> pk, shares |-> y, public_shares |-> q]
    BY ZenonT(40)
<1>3. [m EXCEPT !.public_shares = y]
        = [result |-> "ok", group_public |-> pk, shares |-> y, public_shares |-> y]
    BY <1>2
<1>4. WithShares(k, y) = [m EXCEPT !.public_shares = y]
    BY <1>1, <1>2, Zenon DEF WithShares
<1> QED BY <1>3, <1>4

\* proactive_reshare: if there are enough signers, the keyset survives.
LEMMA ReshareKey ==
    ASSUME KeyInv, proactive_reshare
    PROVE  /\ KeyInv'
           /\ threshold <= Cardinality(Signers) =>
                /\ key'.result = "ok" /\ Signers' = Signers
                /\ key'.group_public = key.group_public
<1>1. GoodKey(key) /\ key.result = "ok"
    BY OkKey DEF proactive_reshare
<1>2. PICK g \in [Signers -> [1..(threshold - 1) -> Scalars]], subset \in SUBSET Signers :
        /\ Cardinality(subset) = Min({threshold, Cardinality(Signers)})
        /\ key' = IF reconstruct_secret([j \in Signers |-> Updated(g, j)], subset) # key.group_public
                  THEN Failed
                  ELSE [key EXCEPT !.shares = [j \in Signers |-> Updated(g, j)],
                                   !.public_shares = [j \in Signers |-> Updated(g, j)]]
    BY Zenon DEF proactive_reshare
<1>3. PICK y : y = [j \in Signers |-> Updated(g, j)]
    BY Zenon
<1>4. /\ y \in [Signers -> Field] /\ DOMAIN y = Signers
      /\ \A ids \in SUBSET Signers : Cardinality(ids) >= threshold =>
            Same(Interpolated(y, ids), key.group_public)
    <2>1. y \in [Signers -> Field] /\ \A ids \in SUBSET Signers : Cardinality(ids) >= threshold =>
            Same(Interpolated(y, ids), key.group_public)
        BY <1>1, <1>3, UpdatedShares
    <2> QED BY <2>1
<1>5. PICK pk, s, q : key = [result |-> "ok", group_public |-> pk, shares |-> s, public_shares |-> q]
    BY <1>1, ZenonT(40) DEF GoodKey
<1>6. pk = key.group_public /\ pk \in Field
    <2>1. pk = key.group_public
        BY <1>5
    <2> QED BY <1>1, <2>1 DEF GoodKey
<1>7. WithShares(key, y)
        = [result |-> "ok", group_public |-> pk, shares |-> y, public_shares |-> y]
    <2>1. PICK m : m = key
        OBVIOUS
    <2>2. m = [result |-> "ok", group_public |-> pk, shares |-> s, public_shares |-> q]
        BY <1>5, <2>1, ZenonT(40)
    <2>3. WithShares(m, y) = [result |-> "ok", group_public |-> pk, shares |-> y, public_shares |-> y]
        BY <2>2, NewShares
    <2> QED BY <2>1, <2>3, ZenonT(40)
<1>8. PICK k : k = [result |-> "ok", group_public |-> pk, shares |-> y, public_shares |-> y]
    BY ZenonT(40)
<1>9. /\ k.result = "ok" /\ k.group_public = pk /\ k.shares = y /\ k.public_shares = y
      /\ k = [result |-> "ok", group_public |-> k.group_public, shares |-> k.shares,
              public_shares |-> k.public_shares]
    BY <1>8
<1>10. GoodKey(k)
    <2>1. Signers \in {Honest, 1..Cardinality(Ids)}
        BY <1>1, ZenonT(40) DEF GoodKey, Signers
    <2> QED BY <1>4, <1>6, <1>9, <2>1, Zenon DEF GoodKey
<1>11. key' = IF reconstruct_secret(y, subset) # key.group_public THEN Failed ELSE k
    BY <1>2, <1>3, <1>7, <1>8, ZenonT(40) DEF WithShares
<1>12. KeyInv'
    BY <1>10, <1>11 DEF KeyInv
<1>13. ASSUME threshold <= Cardinality(Signers)
       PROVE  key' = k
    <2>1. Cardinality(Signers) \in Nat
        BY <1>1, SignersArePoints DEF Signers
    <2>2. Cardinality(subset) = threshold
        BY <1>2, <1>13, <2>1, LesserOf, IdsArePoints, SMTT(30)
    <2>3. Same(Interpolated(y, subset), key.group_public)
        BY <1>4, <2>2, IdsArePoints, SMTT(30)
    <2>4. subset \in Points /\ \A i \in subset : y[i] \in Int
        BY <1>1, <1>4, SignersArePoints, FieldInt, Zenon DEF Signers
    <2>5. reconstruct_secret(y, subset) = Interpolated(y, subset) % P
        BY <2>4, InterpolatedIsInt, Zenon
    <2>6. reconstruct_secret(y, subset) = key.group_public
        BY <1>6, <2>3, <2>5, ModOfField, SMTT(30) DEF Same
    <2> QED BY <1>11, <2>6
<1>14. ASSUME key' = k PROVE Signers' = Signers
    BY <1>4, <1>9, <1>14, SMTT(30) DEF Signers
<1> QED BY <1>6, <1>9, <1>12, <1>13, <1>14, SMTT(30)

\* The responses of enough signers, combined, answer for the key.
LEMMA CombinedResponses ==
    ASSUME GoodKey(key), NEW ids \in SUBSET Signers, Cardinality(ids) >= threshold,
           NEW k \in [ids -> Int], NEW e \in Int
    PROVE  /\ Interpolated(k, ids) \in Int /\ weighted(ids, k) = Interpolated(k, ids) % P
           /\ key.group_public \in Int /\ response(ids, k, e) \in Int
           /\ Same(response(ids, k, e), Interpolated(k, ids) + e * key.group_public)
<1> DEFINE y == [i \in ids |-> k[i] + e * key.shares[i]]
<1>1. /\ ids \in Points /\ key.group_public \in Int
      /\ \A i \in ids : k[i] \in Int /\ key.shares[i] \in Int
    BY SignersArePoints, FieldInt, SMTT(30) DEF Signers, GoodKey
<1>2. weighted(ids, k) = Interpolated(k, ids) % P /\ Interpolated(k, ids) \in Int
    <2>1. weighted(ids, k) = reconstruct_secret(k, ids)
        BY DEF weighted, reconstruct_secret
    <2> QED BY <1>1, <2>1, InterpolatedIsInt, Zenon
<1>3. ASSUME NEW i \in ids PROVE y[i] \in Int /\ Same(y[i], k[i] + e * key.shares[i])
    <2>1. k[i] + e * key.shares[i] \in Int
        BY <1>1, TimesInt
    <2> QED BY <2>1 DEF Same
<1>4. Mixed(y, k, e, key.shares, ids)
    BY <1>1, <1>3, ZenonT(40) DEF Mixed
<1>5. response(ids, k, e) = reconstruct_secret(y, ids)
    <2>1. \A i \in ids : y[i] = k[i] + e * key.shares[i]
        OBVIOUS
    <2> HIDE DEF y
    <2>2. [i \in ids |-> lambda(i, ids) * (k[i] + e * key.shares[i])]
            = [i \in ids |-> lambda(i, ids) * y[i]]
        BY <2>1, ZenonT(40)
    <2> QED BY <2>2, ZenonT(40) DEF response, reconstruct_secret
<1> HIDE DEF y
<1>6. Same(Interpolated(y, ids), Interpolated(k, ids) + e * Interpolated(key.shares, ids))
    BY <1>1, <1>4, SharesMixed, Zenon DEF MixedShares
<1>7. Interpolated(y, ids) \in Int /\ response(ids, k, e) = Interpolated(y, ids) % P
    BY <1>1, <1>3, <1>5, InterpolatedIsInt, Zenon
<1>8. /\ Same(Interpolated(key.shares, ids), key.group_public)
      /\ Interpolated(key.shares, ids) \in Int
    BY <1>1, InterpolatedIsInt DEF GoodKey, Signers
<1>9. PICK w, b, pk \in Int : /\ w = Interpolated(k, ids) /\ pk = key.group_public
                              /\ b = Interpolated(key.shares, ids)
    BY <1>1, <1>2, <1>8
<1>10. Same(w + e * b, w + e * pk)
    <2>1. Same(e, e) /\ Same(w, w) /\ Same(b, pk)
        BY <1>8, <1>9 DEF Same
    <2>2. Same(e * b, e * pk) /\ e * b \in Int /\ e * pk \in Int
        BY <2>1, SameTimes, TimesInt
    <2> QED BY <2>1, <2>2, SameAdd, SMTT(30)
<1>11. response(ids, k, e) \in Int /\ Same(response(ids, k, e), Interpolated(y, ids))
    BY <1>7, ModType, SameMod
<1> QED BY <1>1, <1>2, <1>6, <1>9, <1>10, <1>11, Zenon DEF Same

\* A signature as it is made: verify finds the hashed point.
SigInv ==
    sig # None =>
        /\ key.result = "ok" /\ threshold <= Cardinality(Signers)
        /\ verify(key.group_public, sig)

\* unblind_signature, with the point that r_prime gives.
LEMMA Unblinded ==
    ASSUME GoodKey(key), NEW ids \in SUBSET Signers, Cardinality(ids) >= threshold,
           NEW k \in [ids -> Int], NEW alpha \in Int, NEW beta \in Int, NEW e \in Int,
           NEW g,
           g = unblind_signature(response(ids, k, e + beta), alpha,
                                 r_prime(weighted(ids, k), alpha, beta), e)
    PROVE  verify(key.group_public, g)
<1>1. PICK c \in Int : c = e + beta
    OBVIOUS
<1>2. PICK w, pk, s, r \in Int :
        /\ w = Interpolated(k, ids) /\ pk = key.group_public /\ s = response(ids, k, c)
        /\ r = w % P /\ r = weighted(ids, k)
        /\ Same(s, w + c * pk) /\ Same(r, w)
    BY CombinedResponses, ModType, SameMod, ZenonT(40)
<1>3. /\ g.s = (s + alpha) % P /\ g.e = e
      /\ g.hashed = (r + alpha + beta * pk) % P
    BY <1>1, <1>2 DEF unblind_signature, r_prime
<1>4. PICK u \in Int : u = g.s /\ Same(u, s + alpha)
    <2>1. s + alpha \in Int
        OBVIOUS
    <2> QED BY <1>3, <2>1, ModType, SameMod
<1>5. PICK x \in Int : x = e * pk
    BY TimesInt
<1>6. PICK z \in Int : z = beta * pk
    BY TimesInt
<1>7. PICK v \in Int : v = c * pk /\ v = x + z
    <2>1. c * pk = x + z
        BY <1>1, <1>5, <1>6, SMTT(30)
    <2> QED BY <2>1
<1>8. Same(s + alpha, (w + v) + alpha)
    <2>1. Same(s, w + v) /\ Same(alpha, alpha) /\ w + v \in Int
        BY <1>2, <1>7 DEF Same
    <2> QED BY <2>1, SameAdd
<1>9. Same(u + (-x), ((w + v) + alpha) + (-x))
    <2>1. Same(u, (w + v) + alpha) /\ Same(-x, -x) /\ -x \in Int /\ (w + v) + alpha \in Int
        BY <1>4, <1>8, SMTT(30) DEF Same
    <2> QED BY <2>1, SameAdd, SMTT(30)
<1>10. u + (-x) = u - x /\ ((w + v) + alpha) + (-x) = w + (alpha + z)
    BY <1>7
<1>11. Same(r + (alpha + z), w + (alpha + z))
    <2>1. Same(alpha + z, alpha + z) /\ alpha + z \in Int
        BY DEF Same
    <2> QED BY <1>2, <2>1, SameAdd
<1>12. r + (alpha + z) = r + alpha + z
    OBVIOUS
<1>13. (u - x) % P = (r + alpha + z) % P
    BY <1>9, <1>10, <1>11, <1>12, ZenonT(40) DEF Same
<1>14. (g.s - g.e * pk) % P = g.hashed
    BY <1>3, <1>4, <1>5, <1>6, <1>13, ZenonT(40)
<1> QED BY <1>2, <1>14, ZenonT(40) DEF verify

\* Who signs together are no more than all signers.
LEMMA EnoughSigners ==
    ASSUME GoodKey(key), NEW ids \in SUBSET Signers, Cardinality(ids) >= threshold
    PROVE  threshold <= Cardinality(Signers)
<1>1. /\ Cardinality(ids) \in Nat /\ IsFiniteSet(Signers) /\ Cardinality(Signers) \in Nat
    BY SignersArePoints DEF Signers
<1>2. Cardinality(ids) <= Cardinality(Signers)
    BY <1>1, FS_Subset
<1> QED BY <1>1, <1>2, IdsArePoints

\* Nonces are scalars.
LEMMA NoncesInt ==
    ASSUME NEW ids, NEW k \in [ids -> Scalars] PROVE k \in [ids -> Int]
BY IdsArePoints, FieldInt, ZenonT(40)

\* Scalars that are drawn are integers.
LEMMA ScalarsInt == Scalars \subseteq Int
BY IdsArePoints, FieldInt

\* threshold_blind_sign: the signature verifies.
LEMMA BlindSignature ==
    ASSUME KeyInv, NEW ids \in SUBSET Signers, threshold_blind_sign(ids) PROVE SigInv'
<1>1. /\ GoodKey(key) /\ key.result = "ok" /\ Cardinality(ids) >= threshold /\ key' = key
    BY OkKey DEF threshold_blind_sign, MaySign
<1>2. PICK k \in [ids -> Scalars], alpha, beta, e \in Scalars :
        sig' = unblind_signature(response(ids, k, e + beta), alpha,
                                 r_prime(weighted(ids, k), alpha, beta), e)
    BY Zenon DEF threshold_blind_sign
<1>3. k \in [ids -> Int] /\ alpha \in Int /\ beta \in Int /\ e \in Int
    BY NoncesInt, ScalarsInt, SMTT(30)
<1>4. verify(key.group_public, sig')
    BY <1>1, <1>2, <1>3, Unblinded, SMTT(30)
<1> QED BY <1>1, <1>4, EnoughSigners DEF SigInv, Signers, verify

\* threshold_clause_blind_sign: of the two sessions, the one that is gone on with
\* verifies.
LEMMA ClauseBlindSignature ==
    ASSUME KeyInv, NEW ids \in SUBSET Signers, threshold_clause_blind_sign(ids) PROVE SigInv'
<1>1. /\ GoodKey(key) /\ key.result = "ok" /\ Cardinality(ids) >= threshold /\ key' = key
    BY OkKey DEF threshold_clause_blind_sign, MaySign
<1>2. PICK ks \in [{0, 1} -> [ids -> Scalars]], alpha, beta, e, decoy \in Scalars, chosen \in {0, 1} :
        sig' = unblind_signature(
            [b \in {0, 1} |-> response(ids, ks[b],
                clause_blind_challenge(chosen, e + beta, decoy)[b])][chosen],
            alpha, r_prime(weighted(ids, ks[chosen]), alpha, beta), e)
    BY Zenon DEF threshold_clause_blind_sign
<1>3. PICK k : k = ks[chosen]
    OBVIOUS
<1>4. clause_blind_challenge(chosen, e + beta, decoy)[chosen] = e + beta
    BY DEF clause_blind_challenge
<1>5. sig' = unblind_signature(response(ids, k, e + beta), alpha,
                               r_prime(weighted(ids, k), alpha, beta), e)
    BY <1>2, <1>3, <1>4, ZenonT(40)
<1>6. k \in [ids -> Int] /\ alpha \in Int /\ beta \in Int /\ e \in Int
    <2>1. k \in [ids -> Scalars]
        BY <1>3, SMTT(30)
    <2> QED BY <2>1, NoncesInt, ScalarsInt, SMTT(30)
<1>7. verify(key.group_public, sig')
    BY <1>1, <1>5, <1>6, Unblinded, SMTT(30)
<1> QED BY <1>1, <1>7, EnoughSigners, SMTT(30) DEF SigInv, Signers, verify

(* ------------------------- the whole invariant ------------------------- *)

\* The key generation and what is done with the key.
ThresholdInv == DkgInv /\ Broadcast /\ KeysetInv /\ KeyInv /\ SigInv

\* Round 1 is a broadcast of one polynomial.  Nobody has a keyset yet.
LEMMA BroadcastOne ==
    ASSUME DkgInv, Broadcast, KeysetInv, NEW j \in Ids, NEW n \in Nat \ {0},
           NEW c \in [1..n -> Scalars], commitments[j] = <<>>,
           commitments' = [commitments EXCEPT ![j] = c], UNCHANGED <<received, keyset>>
    PROVE  Broadcast' /\ KeysetInv'
<1>1. c \in [1..n -> Field]
    BY Drawn, SMTT(30)
<1>2. \A i \in Ids : commitments'[i] = IF i = j THEN c ELSE commitments[i]
    BY SMTT(30) DEF DkgInv, DkgShape
<1>3. Broadcast'
    BY <1>1, <1>2, SMTT(30) DEF Broadcast
<1>4. ~AllCommitted
    <2>1. ASSUME commitments[j] \in [1..threshold -> Field] PROVE FALSE
        <3>1. DOMAIN commitments[j] = 1..threshold /\ 1 \in 1..threshold
            BY <2>1, IdsArePoints, SMTT(30)
        <3>2. DOMAIN <<>> = {}
            BY SMTT(30)
        <3> QED BY <3>1, <3>2
    <2> QED BY <2>1, Zenon DEF AllCommitted
<1>5. KeysetInv'
    BY <1>4, SMTT(30) DEF KeysetInv
<1> QED BY <1>3, <1>5, SMTT(30)

\* The steps of the key generation.
LEMMA DkgKeyset ==
    ASSUME ~Early, DkgInv, Broadcast, KeysetInv, DkgNext PROVE Broadcast' /\ KeysetInv'
<1>1. ASSUME NEW i \in Honest, dkg_round1(i) PROVE Broadcast' /\ KeysetInv'
    <2>1. PICK poly \in [1..threshold -> Scalars] : commitments' = [commitments EXCEPT ![i] = poly]
        BY <1>1, Zenon DEF dkg_round1
    <2>2. commitments[i] = <<>> /\ UNCHANGED <<received, keyset>>
        BY <1>1, SMTT(30) DEF dkg_round1
    <2> QED BY <2>1, <2>2, BroadcastOne, IdsArePoints, ZenonT(40)
<1>2. ASSUME NEW i \in Honest, dkg_round2(i) PROVE Broadcast' /\ KeysetInv'
    <2>1. UNCHANGED <<commitments, received, keyset>>
        BY <1>2, SMTT(30) DEF dkg_round2
    <2> QED BY <2>1, KeysetKept, SMTT(30) DEF Broadcast
<1>3. ASSUME NEW i \in Honest, dkg_round3(i) PROVE Broadcast' /\ KeysetInv'
    <2>1. UNCHANGED <<commitments, received>>
        BY <1>3, Zenon DEF dkg_round3
    <2>2. KeysetInv'
        BY <1>3, RoundThreeKey
    <2> QED BY <2>1, <2>2, SMTT(30) DEF Broadcast
<1>4. ASSUME NEW i \in Honest, NEW j \in Ids \ {i}, NEW y \in Field, Deliver(i, j, y)
      PROVE  Broadcast' /\ KeysetInv'
    <2>1. UNCHANGED <<commitments, keyset>> /\ received' = [received EXCEPT ![i][j] = y]
        BY <1>4 DEF Deliver
    <2>2. \A k \in Honest, l \in Ids :
            received'[k][l] = IF k = i /\ l = j THEN y ELSE received[k][l]
        BY <2>1, SMTT(30) DEF DkgInv, DkgShape
    <2>3. Broadcast'
        BY <2>1, <2>2, SMTT(30) DEF Broadcast
    <2> QED BY <2>1, <2>3, KeysetKept, SMTT(30)
<1>5. ASSUME NEW f \in Faulty, FaultyRound1(f) PROVE Broadcast' /\ KeysetInv'
    <2>1. PICK n \in 1..(threshold + 1) : \E c \in [1..n -> Scalars] :
            commitments' = [commitments EXCEPT ![f] = c]
        BY <1>5, Zenon DEF FaultyRound1
    <2>2. PICK c \in [1..n -> Scalars] : commitments' = [commitments EXCEPT ![f] = c]
        BY <2>1, Zenon
    <2>3. commitments[f] = <<>> /\ UNCHANGED <<received, keyset>> /\ f \in Ids /\ n \in Nat \ {0}
        BY <1>5, IdsArePoints, SMTT(30) DEF FaultyRound1
    <2> QED BY <2>2, <2>3, BroadcastOne, ZenonT(40)
<1> QED BY <1>1, <1>2, <1>3, <1>4, <1>5, SMTT(30) DEF DkgNext

\* Before the key generation.
LEMMA Nothing ==
    ASSUME commitments = [i \in Ids |-> <<>>],
           received = [i \in Honest |-> [j \in Ids |-> NoShare]],
           keyset = [i \in Honest |-> None]
    PROVE  Broadcast /\ KeysetInv
BY DEF Broadcast, KeysetInv, None

\* When the key generation starts anew.
LEMMA NothingNext ==
    ASSUME commitments' = [i \in Ids |-> <<>>],
           received' = [i \in Honest |-> [j \in Ids |-> NoShare]],
           keyset' = [i \in Honest |-> None]
    PROVE  Broadcast' /\ KeysetInv'
BY DEF Broadcast, KeysetInv, None

\* What does not take part in the key generation.
LEMMA KeysetsUnchanged ==
    ASSUME Broadcast, KeysetInv, UNCHANGED dkgVars PROVE Broadcast' /\ KeysetInv'
BY KeysetKept DEF Broadcast, dkgVars

\* What does not change the key or the signature.
LEMMA KeyUnchanged ==
    ASSUME KeyInv, SigInv, UNCHANGED <<key, sig>> PROVE KeyInv' /\ SigInv'
BY DEF KeyInv, SigInv, Signers, verify

\* Every step keeps the invariant.
LEMMA ThresholdNextInv ==
    ASSUME ~Early, ThresholdInv, [Next]_vars PROVE ThresholdInv'
<1>0. DkgInv'
    BY DkgNextInv DEF ThresholdInv
<1> USE DEF ThresholdInv
<1>1. CASE key = None /\ DkgNext /\ UNCHANGED <<key, sig>>
    BY <1>0, <1>1, DkgKeyset, KeyUnchanged, SMTT(30)
<1>2. CASE dealer_keygen
    <2>1. sig' = None /\ UNCHANGED dkgVars
        BY <1>2, SMTT(30) DEF dealer_keygen, SigInv, None
    <2> QED BY <1>0, <1>2, <2>1, DealerKey, KeysetsUnchanged, Zenon DEF SigInv
<1>3. ASSUME NEW m \in Honest, Combine(m) PROVE ThresholdInv'
    <2>1. sig' = None
        BY <1>3, Zenon DEF Combine, SigInv, None
    <2>2. Broadcast' /\ KeysetInv'
        BY <1>3, NothingNext, Zenon DEF Combine
    <2> QED BY <1>0, <1>3, <2>1, <2>2, CombinedKey, SMTT(30) DEF SigInv
<1>4. CASE proactive_reshare
    <2>1. KeyInv'
        BY <1>4, ReshareKey
    <2>2. UNCHANGED dkgVars /\ sig' = sig
        BY <1>4 DEF proactive_reshare
    <2>3. SigInv'
        BY <1>4, <2>2, ReshareKey, SMTT(30) DEF SigInv, verify
    <2> QED BY <1>0, <2>1, <2>2, <2>3, KeysetsUnchanged, SMTT(30)
<1>5. ASSUME NEW ids \in SUBSET Signers,
             threshold_blind_sign(ids) \/ threshold_clause_blind_sign(ids)
      PROVE  ThresholdInv'
    <2>1. UNCHANGED dkgVars /\ key' = key
        BY <1>5 DEF threshold_blind_sign, threshold_clause_blind_sign
    <2>2. SigInv'
        BY <1>5, BlindSignature, ClauseBlindSignature, SMTT(30)
    <2> QED BY <1>0, <2>1, <2>2, KeysetsUnchanged, SMTT(30) DEF KeyInv
<1>6. CASE UNCHANGED vars
    BY <1>0, <1>6, KeysetsUnchanged, KeyUnchanged, SMTT(30) DEF vars
<1> QED BY <1>1, <1>2, <1>3, <1>4, <1>5, <1>6, Zenon DEF Next

\* It holds at the start.
LEMMA ThresholdInitInv == ASSUME ThresholdInit PROVE ThresholdInv
BY DkgEmpty, Nothing DEF ThresholdInit, Init, ThresholdInv, KeyInv, SigInv

\* And so always.
LEMMA ThresholdInvariant == ASSUME ~Early PROVE Spec => []ThresholdInv
BY ThresholdInitInv, ThresholdNextInv, PTL DEF Spec

\* If dkg_round3 is called when all shares have come, then the public key share
\* that anyone computes for a participant from the commitments is that of the key
\* share the participant has: for every number of participants and faulty ones.
THEOREM FinalShareIsSumHolds == ASSUME ~Early PROVE Spec => []FinalShareIsSum
<1>1. ASSUME ThresholdInv, NEW i \in Complete, NEW k \in Complete
      PROVE  keyset[k].public_shares[i] = keyset[i].share
    <2>1. i \in Honest /\ i \in Ids /\ keyset[i] = TrueKeyset(i) /\ keyset[k] = TrueKeyset(k)
        BY <1>1, IdsArePoints DEF ThresholdInv, KeysetInv, Complete
    <2> QED BY <2>1, SMTT(30) DEF TrueKeyset
<1>2. ThresholdInv => FinalShareIsSum
    BY <1>1 DEF FinalShareIsSum
<1> QED BY <1>2, ThresholdInvariant, PTL

\* Of a keyset, whether a dealer has made it or the key generation, and however
\* often proactive_reshare has changed the shares, every set of as many signers as
\* the threshold says, or more, reconstructs the secret of group_public.
THEOREM AnyThresholdHasKeyHolds == ASSUME ~Early PROVE Spec => []AnyThresholdHasKey
<1>1. ASSUME ThresholdInv PROVE AnyThresholdHasKey
    <2> SUFFICES ASSUME key.result = "ok"
                 PROVE  /\ \A i \in Signers : key.public_shares[i] = key.shares[i]
                        /\ \A ids \in SUBSET Signers : Cardinality(ids) >= threshold =>
                            reconstruct_secret(key.shares, ids) = key.group_public
        BY DEF AnyThresholdHasKey
    <2>1. GoodKey(key)
        BY <1>1, OkKey DEF ThresholdInv
    <2>2. ASSUME NEW ids \in SUBSET Signers, Cardinality(ids) >= threshold
          PROVE  reconstruct_secret(key.shares, ids) = key.group_public
        <3>1. Same(Interpolated(key.shares, ids), key.group_public) /\ key.group_public \in Field
            BY <2>1, <2>2, SMTT(30) DEF GoodKey, Signers
        <3>2. reconstruct_secret(key.shares, ids) = Interpolated(key.shares, ids) % P
            BY <2>1, SignersArePoints, InterpolatedIsInt, Zenon DEF Signers
        <3> QED BY <3>1, <3>2, ModOfField, SMTT(30) DEF Same
    <2> QED BY <2>1, <2>2, SMTT(30) DEF GoodKey, Signers
<1> QED BY <1>1, ThresholdInvariant, PTL

\* What threshold_blind_sign and threshold_clause_blind_sign return verifies under
\* the public key of the group after unblind_signature, whichever signers took part
\* and whichever nonces and blinding factors were drawn.
THEOREM SignatureVerifiesHolds == ASSUME ~Early PROVE Spec => []SignatureVerifies
<1>1. ThresholdInv => SignatureVerifies
    BY DEF ThresholdInv, SigInv, SignatureVerifies
<1> QED BY <1>1, ThresholdInvariant, PTL

\* No reshare and no signature changes the public key of the group or loses the
\* keyset, as long as there are enough honest participants to sign at all.
THEOREM KeyIsKeptHolds ==
    ASSUME ~Early, Cardinality(Honest) >= threshold PROVE Spec => KeyIsKept
<1>1. ASSUME KeyInv, key.result = "ok" PROVE threshold <= Cardinality(Signers)
    <2>1. GoodKey(key)
        BY <1>1, OkKey, SMTT(30)
    <2>2. CASE Signers = Honest
        BY <2>2, IdsArePoints
    <2>3. CASE Signers = 1..Cardinality(Ids)
        <3>1. PICK n \in Nat : n = Cardinality(Ids)
            BY IdsArePoints
        <3>2. Cardinality(1..n) = IF 1 > n THEN 0 ELSE n - 1 + 1
            <4>1. 1 \in Int /\ n \in Int
                OBVIOUS
            <4> QED BY <4>1, FS_Interval
        <3>3. Cardinality(1..n) = n
            BY <3>2, SMTT(30)
        <3> QED BY <2>3, <3>1, <3>3, IdsArePoints, SMTT(30)
    <2> QED BY <2>1, <2>2, <2>3, SMTT(30) DEF GoodKey, Signers
<1>2. ASSUME ThresholdInv, [Next]_vars, key.result = "ok"
      PROVE  key'.result = "ok" /\ key'.group_public = key.group_public
    <2>1. CASE proactive_reshare
        BY <1>1, <1>2, <2>1, ReshareKey, SMTT(30) DEF ThresholdInv
    <2>2. CASE key' = key
        BY <1>2, <2>2, SMTT(30)
    <2>3. key # None
        BY <1>2 DEF None
    <2> QED BY <1>2, <2>1, <2>2, <2>3, ZenonT(40) DEF Next, vars, dealer_keygen, Combine,
            threshold_blind_sign, threshold_clause_blind_sign
<1>3. ThresholdInv /\ [Next]_vars =>
        [key.result = "ok" => key'.result = "ok" /\ key'.group_public = key.group_public]_vars
    BY <1>2, SMTT(30)
<1> QED BY <1>3, ThresholdInvariant, PTL DEF Spec, KeyIsKept
=============================================================================
