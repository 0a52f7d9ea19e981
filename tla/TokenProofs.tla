---------------------------- MODULE TokenProofs -----------------------------
(***************************************************************************)
(* What every sequence of issues, transfers, splits, renewals, saves and   *)
(* loads keeps, for every recursion bound and any number of tokens: each   *)
(* token verifies, at most one version of it can be spent, no two owners   *)
(* of it show the same credential, and the value of what can be spent is   *)
(* no more than was paid.  And presentations of credentials: for any       *)
(* issuers, profiles and requests, over a wire that mixes presentations    *)
(* up.                                                                     *)
(*                                                                         *)
(* A wallet that is loaded brings back versions that were spent long ago,  *)
(* so the argument is about all versions that are anywhere, in hand or     *)
(* saved: one is told from another by the owner's secret, which transfer   *)
(* draws anew.                                                             *)
(***************************************************************************)
EXTENDS Tokens, Disclosure, FiniteSums, SequenceTheorems, TLAPS

-----------------------------------------------------------------------------
(* Presentations of credentials *)

\* The place of a number is one of 1 to the size of the set, and no two numbers
\* have the same.
LEMMA PlaceOfOne ==
    ASSUME NEW S \in SUBSET Int, IsFiniteSet(S), NEW k \in S
    PROVE  /\ Place(k, S) \in 1..Cardinality(S)
           /\ \A l \in S : Place(l, S) = Place(k, S) => l = k
<1> DEFINE B(l) == {m \in S : m <= l}
<1>1. \A l \in S : /\ B(l) \in SUBSET S /\ l \in B(l)
                   /\ IsFiniteSet(B(l)) /\ Cardinality(B(l)) \in Nat
                   /\ Cardinality(B(l)) <= Cardinality(S)
    BY FS_Subset, FS_CardinalityType
<1>2. Cardinality(B(k)) # 0
    BY <1>1, FS_EmptySet
<1>3. Cardinality(S) \in Nat
    BY FS_CardinalityType
<1>4. Cardinality(B(k)) \in 1..Cardinality(S)
    BY <1>1, <1>2, <1>3
<1>5. ASSUME NEW l \in S, NEW m \in S, l < m PROVE Cardinality(B(l)) # Cardinality(B(m))
    <2>1. B(l) \in SUBSET B(m) /\ m \notin B(l) /\ m \in B(m)
        <3>1. \A x \in S : x \in Int
            OBVIOUS
        <3>2. \A x \in S : x <= l => x <= m
            BY <1>5, <3>1
        <3>3. ~(m <= l) /\ m <= m
            BY <1>5, <3>1
        <3> QED BY <3>2, <3>3, Zenon
    <2> HIDE DEF B
    <2>2. IsFiniteSet(B(m))
        BY <1>1
    <2> QED BY <2>1, <2>2, FS_Subset
<1>6. \A l \in S : Cardinality(B(l)) = Cardinality(B(k)) => l = k
    <2> HIDE DEF B
    <2>1. \A l \in S : l \in Int /\ k \in Int
        OBVIOUS
    <2> QED BY <1>5, <2>1
<1> QED BY <1>4, <1>6 DEF Place

\* Ascending lists the numbers of a set by their places.
LEMMA AscendingList ==
    ASSUME NEW S \in SUBSET Int, IsFiniteSet(S)
    PROVE  /\ Cardinality(S) \in Nat
           /\ DOMAIN Ascending(S) = 1..Cardinality(S)
           /\ \A j \in 1..Cardinality(S) : /\ Ascending(S)[j] \in S
                                           /\ Place(Ascending(S)[j], S) = j
           /\ \A k \in S : Ascending(S)[Place(k, S)] = k
<1> DEFINE n == Cardinality(S)
           f == [k \in S |-> Place(k, S)]
<1>1. n \in Nat
    BY FS_CardinalityType
<1>2. IsFiniteSet(1..n) /\ Cardinality(1..n) = n
    BY <1>1, FS_Interval
<1>3. \A k \in S : Place(k, S) \in 1..n /\ \A l \in S : Place(l, S) = Place(k, S) => l = k
    BY PlaceOfOne
<1>4. f \in Injection(S, 1..n)
    BY <1>3 DEF Injection, IsInjective
<1>5. f \in Surjection(S, 1..n)
    <2> HIDE DEF f
    <2> QED BY <1>2, <1>4, FS_Injection
<1>6. \A j \in 1..n : \E k \in S : Place(k, S) = j
    BY <1>5, Zenon DEF Surjection
<1>7. \A j \in 1..n : Ascending(S)[j] \in S /\ Place(Ascending(S)[j], S) = j
    BY <1>6 DEF Ascending
<1>8. \A k \in S : Ascending(S)[Place(k, S)] = k
    BY <1>3, <1>7, ZenonT(40)
<1> QED BY <1>1, <1>7, <1>8 DEF Ascending

\* How often a request asks for an index.
Times(r, i) == Cardinality({k \in DOMAIN r : r[k] = i})

\* The requested indices that exist, in the order of the request.  An index that
\* is there twice was asked for twice.
LEMMA ValidDisclose ==
    ASSUME NEW r \in Seq(Nat), NEW v, v = valid_disclose(r)
    PROVE  /\ IsFiniteSet(DOMAIN v)
           /\ \A j \in DOMAIN v : v[j] \in Indices
           /\ \A j, l \in DOMAIN v : j # l /\ v[j] = v[l] =>
                Times(r, v[j]) > 1
<1> DEFINE K == {k \in DOMAIN r : r[k] < N}
           kept == Ascending(K)
           n == Cardinality(K)
<1>1. DOMAIN r = 1..Len(r) /\ Len(r) \in Nat /\ \A k \in DOMAIN r : r[k] \in Nat
    OBVIOUS
<1>2. IsFiniteSet(DOMAIN r) /\ K \in SUBSET DOMAIN r
    BY <1>1, FS_Interval
<1>3. K \in SUBSET Int /\ IsFiniteSet(K)
    BY <1>1, <1>2, FS_Subset
<1>4. v = [j \in DOMAIN kept |-> r[kept[j]]]
    BY DEF valid_disclose
<1> HIDE DEF K
<1>5. /\ n \in Nat /\ DOMAIN kept = 1..n
      /\ \A j \in 1..n : kept[j] \in K /\ Place(kept[j], K) = j
    BY <1>3, AscendingList
<1> HIDE DEF kept, n
<1>6. DOMAIN v = 1..n /\ \A j \in 1..n : v[j] = r[kept[j]] /\ kept[j] \in K
    BY <1>4, <1>5
<1>7. IsFiniteSet(1..n)
    BY <1>5, FS_Interval
<1>8. \A j \in DOMAIN v : v[j] \in Indices
    <2>1. \A k \in K : r[k] \in Nat /\ r[k] < N
        BY <1>1 DEF K
    <2>2. \A x \in Nat : x < N => x \in Indices
        BY DEF Indices, N
    <2> QED BY <1>6, <2>1, <2>2, Zenon
<1>9. ASSUME NEW j \in DOMAIN v, NEW l \in DOMAIN v, j # l, v[j] = v[l]
      PROVE  Times(r, v[j]) > 1
    <2> DEFINE A == {k \in DOMAIN r : r[k] = v[j]}
    <2>1. kept[j] # kept[l]
        BY <1>5, <1>6, <1>9
    <2>2. {kept[j], kept[l]} \in SUBSET A
        BY <1>2, <1>6, <1>9
    <2>3. IsFiniteSet(A)
        BY <1>2, FS_Subset
    <2> HIDE DEF A
    <2>4. Cardinality({kept[j]} \cup {kept[l]}) = 2
        <3>1. IsFiniteSet({kept[j]}) /\ Cardinality({kept[j]}) = 1
            BY FS_Singleton, Zenon
        <3>2. kept[l] \notin {kept[j]}
            BY <2>1
        <3>3. Cardinality({kept[j]} \cup {kept[l]}) = Cardinality({kept[j]}) + 1
            BY <3>1, <3>2, FS_AddElement, ZenonT(40)
        <3> QED BY <3>1, <3>3
    <2>5. {kept[j]} \cup {kept[l]} \in SUBSET A
        BY <2>2
    <2>6. 2 <= Cardinality(A) /\ Cardinality(A) \in Nat
        BY <2>3, <2>4, <2>5, FS_Subset, FS_CardinalityType
    <2> QED BY <2>6 DEF A, Times
<1> QED BY <1>6, <1>7, <1>8, <1>9

\* The credentials that an issuer signs.
CredentialOf(b, issuer, attributes) ==
    LET commitment == commit_vector(to_scalars(attributes), b)
    IN  [commitment |-> commitment, blinding |-> b, attributes |-> attributes,
         signature |-> Signature(commitment, issuer), issuer_pk |-> issuer]

Credentials ==
    {CredentialOf(b, issuer, attributes) : b \in Nat, issuer \in Issuers,
                                           attributes \in Profiles}

\* What a presentation of the credential c with the attributes a holds, in the
\* names of create_presentation.
DisclosedOf(a, r) ==
    [k \in DOMAIN valid_disclose(r) |->
        <<valid_disclose(r)[k], to_scalars(a)[valid_disclose(r)[k]]>>]

ProofPointOf(hidden, n) ==
    [attr |-> [i \in hidden |-> <<n, Place(i, hidden)>>],
     h |-> <<n, Cardinality(hidden) + 1>>]

ResponseOf(c, a, hidden, challenge, n) ==
    Append([j \in 1..Cardinality(hidden) |->
                [r |-> <<n, j>>, c |-> challenge, v |-> to_scalars(a)[Ascending(hidden)[j]]]],
           [r |-> <<n, Cardinality(hidden) + 1>>, c |-> challenge, v |-> c.blinding])

PresentationOf(c, a, r, n) ==
    LET hidden == Hidden(DisclosedOf(a, r))
        t == ProofPointOf(hidden, n)
        challenge == hash_presentation_challenge(c.commitment, t, DisclosedOf(a, r),
                                                 c.issuer_pk)
    IN  [commitment |-> c.commitment, issuer_pk |-> c.issuer_pk, signature |-> c.signature,
         disclosed |-> DisclosedOf(a, r), proof_commitment |-> t,
         proof_response |-> ResponseOf(c, a, hidden, challenge, n),
         proof_challenge |-> challenge]

\* The scalars of attributes are integers.
LEMMA ScalarsAreInts ==
    ASSUME NEW a \in Profiles
    PROVE  /\ DOMAIN to_scalars(a) = Indices
           /\ \A i \in Indices : to_scalars(a)[i] \in Int
<1>1. jurisdiction_code(a.jurisdiction) \in Int
    BY DEF jurisdiction_code
<1>2. \A b : Flag(b) \in Int
    BY DEF Flag
<1>3. a.expires_at \in Int
    BY DisclosureAssumption
<1>4. ASSUME NEW i \in Indices PROVE to_scalars(a)[i] \in Int
    <2>1. i \in {0, 1, 2, 3, 4}
        BY DEF Indices, N
    <2> QED BY <1>1, <1>2, <1>3, <2>1 DEF to_scalars
<1> QED BY <1>4, Zenon DEF to_scalars

\* create_presentation makes that.
LEMMA Presentation ==
    ASSUME NEW c \in Credentials, NEW a \in Profiles, NEW r \in Requests, NEW n
    PROVE  create_presentation([c EXCEPT !.attributes = a], r, n) = PresentationOf(c, a, r, n)
<1> DEFINE e == [c EXCEPT !.attributes = a]
           v == valid_disclose(r)
<1>1. /\ e.attributes = a /\ e.commitment = c.commitment /\ e.blinding = c.blinding
      /\ e.issuer_pk = c.issuer_pk /\ e.signature = c.signature
    BY DEF Credentials, CredentialOf
<1>2. r \in Seq(Nat)
    BY DisclosureAssumption
<1>3. \A j \in DOMAIN v : v[j] \in Indices
    BY <1>2, ValidDisclose
<1>4. \A j \in DOMAIN v : v[j] < N
    BY <1>3 DEF Indices, N
<1> DEFINE D == [k \in DOMAIN v |->
                    <<v[k], IF v[k] < N THEN to_scalars(e.attributes)[v[k]] ELSE 0>>]
<1> HIDE DEF e
<1>5. D = DisclosedOf(a, r)
    BY <1>1, <1>4 DEF DisclosedOf
<1>6. create_presentation(e, r, n) =
        LET hidden == Hidden(D)
            t == ProofPointOf(hidden, n)
            challenge == hash_presentation_challenge(e.commitment, t, D, e.issuer_pk)
        IN  [commitment |-> e.commitment, issuer_pk |-> e.issuer_pk,
             signature |-> e.signature, disclosed |-> D, proof_commitment |-> t,
             proof_response |-> ResponseOf(e, e.attributes, hidden, challenge, n),
             proof_challenge |-> challenge]
    BY ZenonT(40) DEF create_presentation, ProofPointOf, ResponseOf
<1> HIDE DEF D
<1>7. \A hidden, challenge :
        ResponseOf(e, e.attributes, hidden, challenge, n) = ResponseOf(c, a, hidden, challenge, n)
    BY <1>1 DEF ResponseOf
<1>8. create_presentation(e, r, n) = PresentationOf(c, a, r, n)
    BY <1>1, <1>5, <1>6, <1>7, ZenonT(40) DEF PresentationOf
<1> QED BY <1>8 DEF e

\* Every presentation shown is of a credential that was granted.
Presented(s) ==
    /\ s.credential \in DOMAIN granted
    /\ s.attributes \in Profiles /\ s.request \in Requests
    /\ \E n : s.presentation =
            PresentationOf(granted[s.credential], s.attributes, s.request, n)

DisclosureInv ==
    /\ granted \in Seq(Credentials)
    /\ \A s \in shown : Presented(s)
    /\ DisclosedIsIssued

Fields ==
    {"commitment", "issuer_pk", "signature", "disclosed", "proof_commitment",
     "proof_response", "proof_challenge"}

\* Finitely many pairs of an index and a scalar.
Listed(d) ==
    /\ IsFiniteSet(DOMAIN d)
    /\ \A k \in DOMAIN d : /\ d[k] = <<d[k][1], d[k][2]>>
                           /\ d[k][1] \in Nat /\ d[k][2] \in Int

\* The signature g is an issuer's on a granted credential.
Endorsed(g) ==
    \E k \in DOMAIN granted : g = Signature(granted[k].commitment, granted[k].issuer_pk)

\* What a holder discloses.
LEMMA DisclosedListed ==
    ASSUME NEW a \in Profiles, NEW r \in Requests
    PROVE  /\ Listed(DisclosedOf(a, r))
           /\ \A k \in DOMAIN DisclosedOf(a, r) :
                /\ DisclosedOf(a, r)[k][1] \in Indices
                /\ DisclosedOf(a, r)[k][2] = to_scalars(a)[DisclosedOf(a, r)[k][1]]
<1> DEFINE v == valid_disclose(r)
<1>1. r \in Seq(Nat)
    BY DisclosureAssumption
<1>2. IsFiniteSet(DOMAIN v) /\ \A j \in DOMAIN v : v[j] \in Indices
    BY <1>1, ValidDisclose
<1>3. DisclosedOf(a, r) = [k \in DOMAIN v |-> <<v[k], to_scalars(a)[v[k]]>>]
    BY DEF DisclosedOf
<1>4. \A i \in Indices : i \in Nat /\ to_scalars(a)[i] \in Int
    BY ScalarsAreInts DEF Indices, N
<1> HIDE DEF v
<1> QED BY <1>2, <1>3, <1>4 DEF Listed

\* What a holder sends.
LEMMA SentFields ==
    ASSUME DisclosureInv, NEW s \in shown
    PROVE  /\ DOMAIN s.presentation = Fields
           /\ Endorsed(s.presentation.signature)
           /\ Listed(s.presentation.disclosed)
<1> DEFINE c == granted[s.credential]
           a == s.attributes
           r == s.request
<1>1. PICK n : s.presentation = PresentationOf(c, a, r, n)
    BY DEF DisclosureInv, Presented
<1>2. s.credential \in DOMAIN granted /\ c \in Credentials
    BY DEF DisclosureInv, Presented
<1>3. a \in Profiles /\ r \in Requests
    BY DEF DisclosureInv, Presented
<1>4. c.signature = Signature(c.commitment, c.issuer_pk)
    BY <1>2, SMTT(30) DEF Credentials, CredentialOf
<1> HIDE DEF a, r
<1>5. /\ DOMAIN s.presentation = Fields
      /\ s.presentation.signature = c.signature
      /\ s.presentation.disclosed = DisclosedOf(a, r)
    BY <1>1 DEF PresentationOf, Fields
<1>6. Listed(DisclosedOf(a, r))
    BY <1>3, DisclosedListed, SMTT(30)
<1>7. Endorsed(c.signature)
    BY <1>2, <1>4 DEF Endorsed
<1> QED BY <1>5, <1>6, <1>7, SMTT(30)

\* Overwriting the scalar of the first pair leaves a list of pairs.
LEMMA OverwrittenListed ==
    ASSUME NEW d, Listed(d)
    PROVE  Listed([d EXCEPT ![1][2] = 1])
<1> DEFINE e == [d EXCEPT ![1][2] = 1]
<1>1. DOMAIN e = DOMAIN d
    OBVIOUS
<1>2. ASSUME NEW k \in DOMAIN d
      PROVE  e[k] = <<e[k][1], e[k][2]>> /\ e[k][1] \in Nat /\ e[k][2] \in Int
    <2>1. d[k] = <<d[k][1], d[k][2]>> /\ d[k][1] \in Nat /\ d[k][2] \in Int
        BY DEF Listed
    <2>2. CASE k = 1
        <3>1. e[k] = [d[k] EXCEPT ![2] = 1]
            BY <2>2
        <3>2. [d[k] EXCEPT ![2] = 1] = <<d[k][1], 1>>
            BY <2>1
        <3> QED BY <2>1, <3>1, <3>2
    <2>3. CASE k # 1
        <3>1. e[k] = d[k]
            BY <2>3
        <3> QED BY <2>1, <3>1
    <2> QED BY <2>2, <2>3
<1> HIDE DEF e
<1>3. Listed(e)
    BY <1>1, <1>2 DEF Listed
<1> QED BY <1>3 DEF e

\* Whatever happens on the way, the signature is an issuer's and what is
\* disclosed a list of pairs.
LEMMA ArrivingFields ==
    ASSUME DisclosureInv, NEW p \in Arriving
    PROVE  Endorsed(p.signature) /\ Listed(p.disclosed)
<1> DEFINE Sent == {s.presentation : s \in shown}
           Good(q) == /\ DOMAIN q = Fields
                      /\ Endorsed(q.signature)
                      /\ Listed(q.disclosed)
<1>1. \A q \in Sent : Good(q)
    BY SentFields
<1>2. CASE p \in Sent
    BY <1>1, <1>2
<1>3. ASSUME NEW q \in Sent, NEW u \in Sent,
             NEW field \in {"commitment", "issuer_pk", "signature", "disclosed",
                            "proof_response", "proof_challenge"},
             p = [q EXCEPT ![field] = u[field]]
      PROVE  Endorsed(p.signature) /\ Listed(p.disclosed)
    <2>1. DOMAIN q = Fields /\ Good(q) /\ Good(u)
        BY <1>1
    <2>2. p.signature = IF field = "signature" THEN u.signature ELSE q.signature
        BY <1>3, <2>1, SMTT(30) DEF Fields
    <2>3. p.disclosed = IF field = "disclosed" THEN u.disclosed ELSE q.disclosed
        BY <1>3, <2>1 DEF Fields
    <2> QED BY <2>1, <2>2, <2>3
<1>4. ASSUME NEW q \in Sent, NEW x, p = [q EXCEPT !.proof_response = x]
      PROVE  Endorsed(p.signature) /\ Listed(p.disclosed)
    <2>1. p.signature = q.signature /\ p.disclosed = q.disclosed
        BY <1>4
    <2> QED BY <1>1, <2>1
<1>5. ASSUME NEW q \in Sent, p = [q EXCEPT !.disclosed[1][2] = 1]
      PROVE  Endorsed(p.signature) /\ Listed(p.disclosed)
    <2>1. Good(q) /\ "disclosed" \in DOMAIN q
        BY <1>1 DEF Fields
    <2>2. p.signature = q.signature /\ p.disclosed = [q.disclosed EXCEPT ![1][2] = 1]
        BY <1>5, <2>1
    <2> QED BY <2>1, <2>2, OverwrittenListed
<1> DEFINE Parts == {"commitment", "issuer_pk", "signature", "disclosed",
                     "proof_response", "proof_challenge"}
           Mixed == {[q EXCEPT ![field] = u[field]] : q \in Sent, u \in Sent, field \in Parts}
           Shorter == {[q EXCEPT !.proof_response = SubSeq(@, 1, Len(@) - 1)] : q \in Sent}
           Longer == {[q EXCEPT !.proof_response = Append(@, @[Len(@)])] : q \in Sent}
           Some == {q \in Sent : q.disclosed # <<>>}
           Overwritten == {[q EXCEPT !.disclosed[1][2] = 1] : q \in Some}
<1>6. Arriving = Sent \cup Mixed \cup Shorter \cup Longer \cup Overwritten
    BY DEF Arriving
<1>7. CASE p \in Mixed
    <2>1. PICK q \in Sent, u \in Sent, field \in Parts : p = [q EXCEPT ![field] = u[field]]
        BY <1>7
    <2> QED BY <1>3, <2>1, ZenonT(40)
<1>8. CASE p \in Shorter
    <2>1. PICK q \in Sent : p = [q EXCEPT !.proof_response = SubSeq(@, 1, Len(@) - 1)]
        BY <1>8
    <2> QED BY <1>4, <2>1
<1>9. CASE p \in Longer
    <2>1. PICK q \in Sent : p = [q EXCEPT !.proof_response = Append(@, @[Len(@)])]
        BY <1>9
    <2> QED BY <1>4, <2>1
<1>10. CASE p \in Overwritten
    <2>1. PICK q \in Sent : p = [q EXCEPT !.disclosed[1][2] = 1]
        BY <1>10, SMTT(30)
    <2> QED BY <1>5, <2>1
<1> HIDE DEF Sent, Mixed, Shorter, Longer, Overwritten
<1> QED BY <1>2, <1>6, <1>7, <1>8, <1>9, <1>10, SMTT(30)

\* What verify_presentation accepts is what was issued, attribute by attribute.
LEMMA VerifiedIsIssued ==
    ASSUME DisclosureInv, NEW p \in Arriving, verify_presentation(p) = "accepted"
    PROVE  \E k \in DOMAIN granted :
             /\ granted[k].commitment = p.commitment
             /\ granted[k].issuer_pk = p.issuer_pk
             /\ \A d \in DOMAIN p.disclosed :
                  LET index == p.disclosed[d][1]
                      again == {e \in DOMAIN p.disclosed \ {d} : p.disclosed[e][1] = index}
                  IN  again = {} =>
                        p.disclosed[d][2] = to_scalars(granted[k].attributes)[index]
<1>1. /\ p.signature = Signature(p.commitment, p.issuer_pk)
      /\ \A k \in DOMAIN p.disclosed : ~(p.disclosed[k][1] >= N)
      /\ Recomputes(p)
    BY DEF verify_presentation, verify_credential_signature
<1>2. Listed(p.disclosed)
    BY ArrivingFields
<1>3. PICK k \in DOMAIN granted :
        p.signature = Signature(granted[k].commitment, granted[k].issuer_pk)
    BY ArrivingFields DEF Endorsed
<1>4. granted[k].commitment = p.commitment /\ granted[k].issuer_pk = p.issuer_pk
    BY <1>1, <1>3 DEF Signature
<1>5. PICK b \in Nat, issuer \in Issuers, a \in Profiles : granted[k] = CredentialOf(b, issuer, a)
    BY SMTT(30) DEF DisclosureInv, Credentials
<1>6. p.commitment.attr = to_scalars(a) /\ granted[k].attributes = a
    BY <1>4, <1>5, SMTT(30) DEF CredentialOf, commit_vector
<1>7. ASSUME NEW d \in DOMAIN p.disclosed,
             \A e \in DOMAIN p.disclosed \ {d} : p.disclosed[e][1] # p.disclosed[d][1]
      PROVE  p.disclosed[d][2] = to_scalars(a)[p.disclosed[d][1]]
    <2> DEFINE i == p.disclosed[d][1]
               S == DOMAIN p.disclosed
               f == [j \in S |-> IF p.disclosed[j][1] = i THEN p.disclosed[j][2] ELSE 0]
    <2>1. i \in Indices /\ p.disclosed[d][2] \in Int
        BY <1>1, <1>2 DEF Listed, Indices, N
    <2>2. i \notin Hidden(p.disclosed)
        BY SMTT(30) DEF Hidden
    <2>3. c_hidden(p, i) = 0
        BY <1>1, <2>1, <2>2 DEF Recomputes
    <2>4. c_hidden(p, i) = p.commitment.attr[i] - MapThenSumSet(LAMBDA j : f[j], S)
        BY SMTT(30) DEF c_hidden
    <2>5. f[d] = p.disclosed[d][2] /\ \A y \in S \ {d} : f[y] = 0
        BY <1>7, SMTT(30)
    <2>6. IsFiniteSet(S) /\ f[d] \in Int
        BY <1>2, <2>1, <2>5, ZenonT(40) DEF Listed
    <2>7. to_scalars(a)[i] \in Int
        BY <2>1, ScalarsAreInts
    <2> HIDE DEF f, S, i
    <2>8. MapThenSumSet(LAMBDA j : f[j], S) = SumOf(f, S)
        BY SumOfFunction, ZenonT(40)
    <2>9. d \in S
        BY SMTT(30) DEF S
    <2>10. SumOf(f, S) = f[d]
        BY <2>5, <2>6, <2>9, SumOfOne, ZenonT(40)
    <2>11. to_scalars(a)[i] - f[d] = 0
        BY <1>6, <2>3, <2>4, <2>8, <2>10, SMTT(30)
    <2>12. to_scalars(a)[i] = f[d]
        BY <2>6, <2>7, <2>11
    <2> QED BY <2>5, <2>12, SMTT(30) DEF i
<1> QED BY <1>4, <1>6, <1>7, SMTT(30)

\* The sum over what is disclosed of attribute i, as c_hidden takes it off.
LEMMA TakenOff ==
    ASSUME NEW p, NEW i, NEW f,
           f = [k \in DOMAIN p.disclosed |->
                    IF p.disclosed[k][1] = i THEN p.disclosed[k][2] ELSE 0]
    PROVE  c_hidden(p, i) = p.commitment.attr[i] - SumOf(f, DOMAIN p.disclosed)
<1> DEFINE S == DOMAIN p.disclosed
           g == [k \in S |-> IF p.disclosed[k][1] = i THEN p.disclosed[k][2] ELSE 0]
<1>1. c_hidden(p, i) = p.commitment.attr[i] - MapThenSumSet(LAMBDA k : g[k], S)
    BY DEF c_hidden
<1>2. f = g
    OBVIOUS
<1> HIDE DEF g, S
<1>3. MapThenSumSet(LAMBDA k : g[k], S) = SumOf(g, S)
    BY SumOfFunction, Zenon
<1> QED BY <1>1, <1>2, <1>3 DEF S

Answers(response, c, a, hidden, challenge, n) ==
    /\ Len(response) = Cardinality(hidden) + 1
    /\ \A i \in hidden : response[Place(i, hidden)] =
            [r |-> <<n, Place(i, hidden)>>, c |-> challenge, v |-> to_scalars(a)[i]]
    /\ response[Cardinality(hidden) + 1] =
            [r |-> <<n, Cardinality(hidden) + 1>>, c |-> challenge, v |-> c.blinding]

\* The response has one entry per hidden attribute and one for the blinding.
LEMMA ResponseFields ==
    ASSUME NEW c, NEW a, NEW hidden \in SUBSET Int, IsFiniteSet(hidden), NEW challenge, NEW n,
           NEW response, response = ResponseOf(c, a, hidden, challenge, n)
    PROVE  Answers(response, c, a, hidden, challenge, n)
<1> DEFINE m == Cardinality(hidden)
           e(j) == [r |-> <<n, j>>, c |-> challenge, v |-> to_scalars(a)[Ascending(hidden)[j]]]
           q == [j \in 1..m |-> e(j)]
           last == [r |-> <<n, m + 1>>, c |-> challenge, v |-> c.blinding]
           S == {e(j) : j \in 1..m} \cup {last}
<1>1. m \in Nat /\ \A i \in hidden : /\ Place(i, hidden) \in 1..m
                                     /\ Ascending(hidden)[Place(i, hidden)] = i
    BY AscendingList, PlaceOfOne
<1>2. response = Append(q, last)
    BY DEF ResponseOf
<1>3. q \in Seq(S) /\ Len(q) = m /\ last \in S /\ \A j \in 1..m : q[j] = e(j)
    <2>1. m \in Nat
        BY <1>1
    <2> HIDE DEF m, last, e
    <2>2. q \in [1..m -> S]
        OBVIOUS
    <2> QED BY <2>1, <2>2
<1>4. \A i \in hidden : e(Place(i, hidden)) =
        [r |-> <<n, Place(i, hidden)>>, c |-> challenge, v |-> to_scalars(a)[i]]
    BY <1>1, SMTT(30)
<1> HIDE DEF m, q, S, e
<1>5. /\ Len(Append(q, last)) = m + 1
      /\ Append(q, last)[m + 1] = last
      /\ \A j \in 1..m : Append(q, last)[j] = q[j]
    <2> HIDE DEF last
    <2> QED BY <1>1, <1>3, AppendProperties, SMTT(30)
<1>6. \A i \in hidden : response[Place(i, hidden)] = e(Place(i, hidden))
    BY <1>1, <1>2, <1>3, <1>5
<1> QED BY <1>2, <1>4, <1>5, <1>6, ZenonT(40) DEF m, Answers

\* What verify_presentation recomputes, in the names of its local variables.
Recomputed(p, hidden, c, response) ==
    /\ hidden = Hidden(p.disclosed)
    /\ c = p.proof_challenge
    /\ response = p.proof_response
    /\ DOMAIN c.t.attr = hidden
    /\ \A i \in hidden : /\ response[Place(i, hidden)].c = c
                         /\ response[Place(i, hidden)].r = c.t.attr[i]
                         /\ response[Place(i, hidden)].v = c_hidden(p, i)
    /\ response[Cardinality(hidden) + 1].c = c
    /\ response[Cardinality(hidden) + 1].r = c.t.h
    /\ response[Cardinality(hidden) + 1].v = p.commitment.h
    /\ \A i \in Indices \ hidden : c_hidden(p, i) = 0

LEMMA RecomputesIf ==
    ASSUME NEW p, NEW hidden, NEW c, NEW response, Recomputed(p, hidden, c, response)
    PROVE  Recomputes(p)
BY ZenonT(60), ZenonT(40) DEF Recomputes, Recomputed

\* What a holder asks for of a credential whose attributes are as they were issued
\* is verified, unless it asks twice for an attribute that is not zero.
LEMMA PresentedVerifies ==
    ASSUME NEW c \in Credentials, NEW a \in Profiles, NEW r \in Requests, NEW n,
           NEW p, p = PresentationOf(c, a, r, n),
           to_scalars(a) = to_scalars(c.attributes),
           \A i \in Indices :
                Times(r, i) > 1 => to_scalars(a)[i] = 0
    PROVE  verify_presentation(p) = "accepted"
<1> DEFINE D == DisclosedOf(a, r)
           hidden == Hidden(D)
           t == ProofPointOf(hidden, n)
           challenge == hash_presentation_challenge(c.commitment, t, D, c.issuer_pk)
           response == ResponseOf(c, a, hidden, challenge, n)
<1>1. /\ p.commitment = c.commitment /\ p.issuer_pk = c.issuer_pk /\ p.signature = c.signature
      /\ p.disclosed = D /\ p.proof_response = response /\ p.proof_challenge = challenge
    BY DEF PresentationOf
<1>2. /\ c.signature = Signature(c.commitment, c.issuer_pk)
      /\ c.commitment.attr = to_scalars(a) /\ c.commitment.h = c.blinding
    <2>1. PICK b \in Nat, issuer \in Issuers, x \in Profiles : c = CredentialOf(b, issuer, x)
        BY DEF Credentials
    <2>2. to_scalars(a) = to_scalars(x)
        BY <2>1, SMTT(30) DEF CredentialOf
    <2> QED BY <2>1, <2>2 DEF CredentialOf, commit_vector
<1>3. /\ Listed(D)
      /\ \A k \in DOMAIN D : D[k][1] \in Indices /\ D[k][2] = to_scalars(a)[D[k][1]]
    BY DisclosedListed
<1>4. hidden \in SUBSET Indices /\ hidden \in SUBSET Int /\ IsFiniteSet(hidden)
    <2>1. hidden \in SUBSET Indices
        BY DEF Hidden
    <2>2. PICK m \in Nat : m = 4
        OBVIOUS
    <2>3. Indices \in SUBSET Nat /\ Indices \in SUBSET Int /\ \A i \in Indices : i <= m
        BY <2>2 DEF Indices, N
    <2> HIDE DEF hidden
    <2>4. hidden \in SUBSET Nat /\ hidden \in SUBSET Int /\ \A i \in hidden : i <= m
        BY <2>1, <2>3, SMTT(30)
    <2> QED BY <2>1, <2>4, FS_BoundedSetOfNaturals, SMTT(30)
<1>5. challenge.t = t /\ t.attr = [i \in hidden |-> <<n, Place(i, hidden)>>]
      /\ t.h = <<n, Cardinality(hidden) + 1>>
    BY SMTT(30) DEF hash_presentation_challenge, ProofPointOf
<1>6. challenge = hash_presentation_challenge(p.commitment, challenge.t, p.disclosed, p.issuer_pk)
    BY <1>1, <1>5, ZenonT(40)
<1>7. \A i \in hidden : \A k \in DOMAIN D : D[k][1] # i
    BY Zenon DEF Hidden
<1>8. \A i \in Indices \ hidden : \E k \in DOMAIN D : D[k][1] = i
    BY DEF Hidden
<1>9. \A d, e \in DOMAIN D : d # e /\ D[d][1] = D[e][1] => to_scalars(a)[D[d][1]] = 0
    <2>1. r \in Seq(Nat)
        BY DisclosureAssumption, SMTT(30)
    <2>2. \A d, e \in DOMAIN valid_disclose(r) :
            d # e /\ valid_disclose(r)[d] = valid_disclose(r)[e] =>
                Times(r, valid_disclose(r)[d]) > 1
        BY <2>1, ValidDisclose, SMTT(30)
    <2>3. DOMAIN D = DOMAIN valid_disclose(r)
          /\ \A d \in DOMAIN D : D[d][1] = valid_disclose(r)[d]
        BY SMTT(30) DEF DisclosedOf
    <2> HIDE DEF D
    <2>4. \A d \in DOMAIN D : D[d][1] \in Indices
        BY <1>3
    <2> QED BY <2>2, <2>3, <2>4, SMTT(30)
<1> HIDE DEF D, hidden, t, challenge, response
<1>10. ASSUME NEW i \in Indices
       PROVE  c_hidden(p, i) = IF i \in hidden THEN to_scalars(a)[i] ELSE 0
    <2> DEFINE f == [k \in DOMAIN D |-> IF D[k][1] = i THEN D[k][2] ELSE 0]
    <2>1. c_hidden(p, i) = to_scalars(a)[i] - SumOf(f, DOMAIN D)
        BY <1>1, <1>2, TakenOff, SMTT(30)
    <2>2. to_scalars(a)[i] \in Int /\ IsFiniteSet(DOMAIN D)
        BY <1>3, ScalarsAreInts, Zenon DEF Listed
    <2>3. ASSUME \A k \in DOMAIN D : f[k] = 0
          PROVE  c_hidden(p, i) = to_scalars(a)[i]
        <3> HIDE DEF f
        <3>1. SumOf(f, DOMAIN D) = 0
            BY <2>2, <2>3, SumOfZeros, SMTT(30)
        <3> QED BY <2>1, <2>2, <3>1, SMTT(30)
    <2>4. CASE i \in hidden
        BY <1>7, <2>3, <2>4, SMTT(30)
    <2>5. CASE i \notin hidden
        <3>1. PICK d \in DOMAIN D : D[d][1] = i
            BY <1>8, <2>5, SMTT(30)
        <3>2. CASE \E e \in DOMAIN D : e # d /\ D[e][1] = i
            <4>1. to_scalars(a)[i] = 0
                BY <1>9, <3>1, <3>2, SMTT(30)
            <4>2. \A k \in DOMAIN D : f[k] = 0
                BY <1>3, <4>1, SMTT(30)
            <4> QED BY <2>3, <2>5, <4>1, <4>2, SMTT(30)
        <3>3. CASE ~\E e \in DOMAIN D : e # d /\ D[e][1] = i
            <4>1. f[d] = to_scalars(a)[i] /\ \A y \in (DOMAIN D) \ {d} : f[y] = 0
                BY <1>3, <3>1, <3>3, SMTT(30)
            <4> HIDE DEF f
            <4>2. SumOf(f, DOMAIN D) = f[d]
                BY <2>2, <4>1, SumOfOne, Zenon
            <4> QED BY <2>1, <2>2, <2>5, <4>1, <4>2, SMTT(30)
        <3> QED BY <3>2, <3>3, Zenon
    <2> QED BY <2>4, <2>5, SMTT(30)
<1>11. /\ Len(response) = Cardinality(hidden) + 1
       /\ \A i \in hidden : response[Place(i, hidden)] =
            [r |-> <<n, Place(i, hidden)>>, c |-> challenge, v |-> to_scalars(a)[i]]
       /\ response[Cardinality(hidden) + 1] =
            [r |-> <<n, Cardinality(hidden) + 1>>, c |-> challenge, v |-> c.blinding]
    <2>1. response = ResponseOf(c, a, hidden, challenge, n)
        BY SMTT(30) DEF response
    <2>2. Answers(response, c, a, hidden, challenge, n)
        BY <1>4, <2>1, ResponseFields, ZenonT(40)
    <2> QED BY <2>2, Zenon DEF Answers
<1>12. hidden = Hidden(p.disclosed)
    BY <1>1, SMTT(30) DEF hidden
<1>13. Recomputes(p)
    <2>1. DOMAIN challenge.t.attr = hidden
        BY <1>5, SMTT(30)
    <2>2. ASSUME NEW i \in hidden
          PROVE  /\ response[Place(i, hidden)].c = challenge
                 /\ response[Place(i, hidden)].r = challenge.t.attr[i]
                 /\ response[Place(i, hidden)].v = c_hidden(p, i)
        <3>1. c_hidden(p, i) = to_scalars(a)[i]
            BY <1>4, <1>10, SMTT(30)
        <3>2. challenge.t.attr[i] = <<n, Place(i, hidden)>>
            BY <1>5
        <3>3. PICK x : x = response[Place(i, hidden)]
            BY SMTT(30)
        <3>4. x = [r |-> <<n, Place(i, hidden)>>, c |-> challenge, v |-> to_scalars(a)[i]]
            BY <1>11, <3>3, Zenon
        <3>5. x.c = challenge /\ x.r = <<n, Place(i, hidden)>> /\ x.v = to_scalars(a)[i]
            BY <3>4, SMTT(30)
        <3> QED BY <3>1, <3>2, <3>3, <3>5, Zenon
    <2>3. /\ response[Cardinality(hidden) + 1].c = challenge
          /\ response[Cardinality(hidden) + 1].r = challenge.t.h
          /\ response[Cardinality(hidden) + 1].v = p.commitment.h
        <3>1. PICK x : x = response[Cardinality(hidden) + 1]
            BY SMTT(30)
        <3>2. x = [r |-> <<n, Cardinality(hidden) + 1>>, c |-> challenge, v |-> c.blinding]
            BY <1>11, <3>1, Zenon
        <3>3. x.c = challenge /\ x.r = <<n, Cardinality(hidden) + 1>> /\ x.v = c.blinding
            BY <3>2
        <3> QED BY <1>1, <1>2, <1>5, <3>1, <3>3, Zenon
    <2>4. \A i \in Indices \ hidden : c_hidden(p, i) = 0
        BY <1>10, SMTT(30)
    <2>5. p.proof_challenge = challenge /\ p.proof_response = response
        BY <1>1, SMTT(30)
    <2>6. Recomputed(p, hidden, challenge, response)
        BY <1>12, <2>1, <2>2, <2>3, <2>4, <2>5, ZenonT(40) DEF Recomputed
    <2> QED BY <2>6, RecomputesIf, SMTT(30)
<1>14. ~\E k \in DOMAIN p.disclosed : p.disclosed[k][1] >= N
    BY <1>1, <1>3, SMTT(30) DEF Indices, N
<1>15. ~(Len(p.proof_response) < Cardinality(Hidden(p.disclosed)) + 1)
    <2>1. Cardinality(hidden) \in Nat
        BY <1>4, FS_CardinalityType, SMTT(30)
    <2> QED BY <1>1, <1>11, <1>12, <2>1, SMTT(30)
<1>16. verify_credential_signature(p.signature, p.commitment, p.issuer_pk)
    BY <1>1, <1>2, SMTT(30) DEF verify_credential_signature
<1>17. p.proof_challenge =
        hash_presentation_challenge(p.commitment, p.proof_challenge.t, p.disclosed, p.issuer_pk)
    BY <1>1, <1>6, SMTT(30)
<1> QED BY <1>13, <1>14, <1>15, <1>16, <1>17, SMTT(30) DEF verify_presentation

\* At first nothing is granted, shown or accepted.
LEMMA DisclosureInitInv == DisclosureInit => DisclosureInv
BY DEF DisclosureInit, DisclosureInv, DisclosedIsIssued

\* What the presentation p discloses is what the credential c holds.
IssuedAs(p, c) ==
    /\ c.commitment = p.commitment
    /\ c.issuer_pk = p.issuer_pk
    /\ \A d \in DOMAIN p.disclosed :
         LET index == p.disclosed[d][1]
             again == {e \in DOMAIN p.disclosed \ {d} : p.disclosed[e][1] = index}
         IN  again = {} => p.disclosed[d][2] = to_scalars(c.attributes)[index]

\* What was granted stays, so what rests on it does.
LEMMA GrantInv ==
    ASSUME DisclosureInv, NEW issuer \in Issuers, NEW attributes \in Profiles,
           Grant(issuer, attributes)
    PROVE  DisclosureInv'
<1> DEFINE c == issue(issuer, attributes)
<1>1. granted \in Seq(Credentials) /\ Len(granted) \in Nat
    BY DEF DisclosureInv
<1>2. c \in Credentials
    <2>1. c = CredentialOf(Len(granted) + 1, issuer, attributes)
        BY DEF issue, CredentialOf
    <2>2. PICK b \in Nat : b = Len(granted) + 1
        BY <1>1
    <2>3. c = CredentialOf(b, issuer, attributes)
        BY <2>1, <2>2
    <2> HIDE DEF c
    <2> QED BY <2>3, SMTT(30) DEF Credentials
<1>3. granted' = Append(granted, c) /\ shown' = shown /\ accepted' = accepted
    BY DEF Grant
<1> HIDE DEF c
<1>4. /\ granted' \in Seq(Credentials)
      /\ \A k \in DOMAIN granted : k \in DOMAIN granted' /\ granted'[k] = granted[k]
    <2> DEFINE C == Credentials
    <2>1. granted \in Seq(C) /\ c \in C
        BY <1>1, <1>2
    <2> HIDE DEF C
    <2>2. Append(granted, c) \in Seq(C)
        BY <2>1, SMTT(30)
    <2>3. DOMAIN granted = 1..Len(granted) /\ DOMAIN Append(granted, c) = 1..(Len(granted) + 1)
          /\ \A k \in 1..Len(granted) : Append(granted, c)[k] = granted[k]
        BY <2>1, AppendProperties, LenProperties
    <2>4. 1..Len(granted) \subseteq 1..(Len(granted) + 1)
        BY <1>1, SMTT(30)
    <2> QED BY <1>3, <2>2, <2>3, <2>4, SMTT(30) DEF C
<1>5. (\A s \in shown : Presented(s))'
    <2> SUFFICES ASSUME NEW s \in shown PROVE Presented(s)'
        BY <1>3
    <2>1. Presented(s)
        BY SMTT(30) DEF DisclosureInv
    <2> QED BY <1>4, <2>1 DEF Presented
<1>6. DisclosedIsIssued'
    <2>1. \A p \in accepted : \E k \in DOMAIN granted : IssuedAs(p, granted[k])
        BY ZenonT(40) DEF DisclosureInv, DisclosedIsIssued, IssuedAs
    <2>2. \A p \in accepted' : \E k \in DOMAIN granted' : IssuedAs(p, granted'[k])
        BY <1>3, <1>4, <2>1, SMTT(30)
    <2> QED BY <2>2, Zenon DEF DisclosedIsIssued, IssuedAs
<1> QED BY <1>4, <1>5, <1>6, SMTT(30) DEF DisclosureInv

\* What create_presentation makes is a presentation of a granted credential.
LEMMA PresentInv ==
    ASSUME DisclosureInv, NEW k \in DOMAIN granted, NEW attributes \in Profiles,
           NEW request \in Requests, Present(k, attributes, request)
    PROVE  DisclosureInv'
<1> DEFINE n == Cardinality(shown) + 1
           p == create_presentation([granted[k] EXCEPT !.attributes = attributes], request, n)
           new == [credential |-> k, attributes |-> attributes, request |-> request,
                   presentation |-> p]
<1>1. granted' = granted /\ accepted' = accepted /\ shown' = shown \cup {new}
    BY DEF Present
<1>2. granted[k] \in Credentials
    BY DEF DisclosureInv
<1>3. p = PresentationOf(granted[k], attributes, request, n)
    BY <1>2, Presentation
<1>4. PICK u : u = new
    BY ZenonT(40)
<1>5. PICK m : m = n
    OBVIOUS
<1> HIDE DEF p, n
<1>6. /\ u.credential = k /\ u.attributes = attributes /\ u.request = request
      /\ u.presentation = PresentationOf(granted[k], attributes, request, m)
    BY <1>3, <1>4, <1>5, SMTT(30)
<1> HIDE DEF new
<1>7. Presented(u)'
    BY <1>1, <1>6, SMTT(30) DEF Presented
<1>8. ASSUME NEW s \in shown PROVE Presented(s)'
    <2>1. Presented(s)
        BY SMTT(30) DEF DisclosureInv
    <2> QED BY <1>1, <2>1 DEF Presented
<1>9. DisclosedIsIssued'
    <2>1. DisclosedIsIssued
        BY DEF DisclosureInv
    <2> QED BY <1>1, <2>1 DEF DisclosedIsIssued
<1>10. shown' = shown \cup {u}
    BY <1>1, <1>4
<1>11. (\A s \in shown : Presented(s))'
    <2> SUFFICES ASSUME NEW s \in shown' PROVE Presented(s)'
        OBVIOUS
    <2> QED BY <1>7, <1>8, <1>10
<1>12. granted \in Seq(Credentials)
    BY DEF DisclosureInv
<1> QED BY <1>1, <1>9, <1>11, <1>12 DEF DisclosureInv

\* What verify_presentation accepts is what was issued.
LEMMA VerifyInv ==
    ASSUME DisclosureInv, NEW p \in Arriving, Verify(p)
    PROVE  DisclosureInv'
<1>1. granted' = granted /\ shown' = shown /\ accepted' = {p}
    BY DEF Verify
<1>2. verify_presentation(p) = "accepted"
    BY SMTT(30) DEF Verify
<1>3. DisclosedIsIssued'
    BY <1>1, <1>2, VerifiedIsIssued, SMTT(30) DEF DisclosedIsIssued
<1>4. (\A s \in shown : Presented(s))'
    <2>1. \A s \in shown : Presented(s)
        BY DEF DisclosureInv
    <2> QED BY <1>1, <2>1 DEF Presented
<1> QED BY <1>1, <1>3, <1>4 DEF DisclosureInv

\* Every step preserves the invariant.
LEMMA DisclosureInvHolds == DisclosureSpec => []DisclosureInv
<1>1. DisclosureInv /\ [DisclosureNext]_disclosureVars => DisclosureInv'
    <2> SUFFICES ASSUME DisclosureInv, [DisclosureNext]_disclosureVars PROVE DisclosureInv'
        OBVIOUS
    <2>1. CASE UNCHANGED disclosureVars
        BY <2>1, ZenonT(40) DEF disclosureVars, DisclosureInv, Presented, DisclosedIsIssued
    <2>2. ASSUME NEW issuer \in Issuers, NEW attributes \in Profiles, Grant(issuer, attributes)
          PROVE  DisclosureInv'
        BY <2>2, GrantInv
    <2>3. ASSUME NEW k \in DOMAIN granted, NEW attributes \in Profiles,
                 NEW request \in Requests, Present(k, attributes, request)
          PROVE  DisclosureInv'
        BY <2>3, PresentInv
    <2>4. ASSUME NEW p \in Arriving, Verify(p) PROVE DisclosureInv'
        BY <2>4, VerifyInv
    <2> QED BY <2>1, <2>2, <2>3, <2>4, SMTT(30) DEF DisclosureNext
<1> QED BY <1>1, DisclosureInitInv, PTL DEF DisclosureSpec

\* For any issuers, attributes and requests, what verify_presentation accepts
\* discloses what the issuer signed, whatever the holder edited and whatever was
\* mixed on the way.
THEOREM DisclosedIsIssuedHolds == DisclosureSpec => []DisclosedIsIssued
<1>1. DisclosureInv => DisclosedIsIssued
    BY SMTT(30) DEF DisclosureInv
<1> QED BY <1>1, DisclosureInvHolds, PTL

\* For any attributes and requests, what create_presentation makes of a credential
\* as it was issued passes verify_presentation.
THEOREM PresentationVerifiesHolds == DisclosureSpec => []PresentationVerifies
<1>1. DisclosureInv => PresentationVerifies
    <2> SUFFICES ASSUME DisclosureInv, NEW s \in shown,
                        to_scalars(s.attributes) = to_scalars(granted[s.credential].attributes),
                        \A i \in Indices : Times(s.request, i) > 1 =>
                            to_scalars(s.attributes)[i] = 0
                 PROVE  verify_presentation(s.presentation) = "accepted"
        BY SMTT(30) DEF PresentationVerifies, Times
    <2> DEFINE c == granted[s.credential]
    <2>1. /\ c \in Credentials /\ s.attributes \in Profiles /\ s.request \in Requests
          /\ \E n : s.presentation = PresentationOf(c, s.attributes, s.request, n)
        BY SMTT(30) DEF DisclosureInv, Presented
    <2>2. PICK n : s.presentation = PresentationOf(c, s.attributes, s.request, n)
        BY <2>1, SMTT(30)
    <2> HIDE DEF c
    <2>3. to_scalars(s.attributes) = to_scalars(c.attributes)
        BY DEF c
    <2> QED BY <2>1, <2>2, <2>3, PresentedVerifies, SMTT(30)
<1> QED BY <1>1, DisclosureInvHolds, PTL

-----------------------------------------------------------------------------
(* Tokens *)

All == held \cup saved

\* The steps of a chain and the tokens, as the operations build them.
Link == [owner : Nat, signed : Nat \X Nat \X Nat \X Nat]

TokenType ==
    [id : Nat \ {0}, value : Nat \ {0}, commitment : Nat, signature : Nat \X Nat \X Nat,
     secret : Nat \ {0}, count : Nat, genesis : Nat, chain : Seq(Link), steps : Nat,
     credential : Nat \X Nat, pool : Seq(Nat \X Nat)]

\* The mint's signature and the chain of owners are in order, and the counter of
\* the token, that of the chain and its length agree.
Sound(t) ==
    /\ signature_valid(t) /\ value_valid(t) /\ within_bound(t) /\ fold_valid(t)
    /\ t.count = t.steps

\* A token without a credential has none in the pool.  Otherwise the pool has
\* one for each step that is left, and the token shows the one of its own step,
\* or one that was made for its owner.
Stocked(t) ==
    \/ t.credential = NoCredential /\ t.pool = <<>>
    \/ /\ t.credential \in {<<t.id, t.steps>>, <<0, t.secret>>}
       /\ t.pool = [k \in 1..(Bound - t.steps) |-> <<t.id, t.steps + k>>]

\* What holds of each token, with n the first random value not drawn.
Good(t, n) ==
    /\ t \in TokenType
    /\ t.id < n /\ t.secret < n
    /\ Sound(t) /\ Stocked(t)

\* The versions of a token have different owners.
Versions(S) == \A t, u \in S : t.id = u.id /\ t.secret = u.secret => t = u

IInv ==
    /\ next \in Nat \ {0}
    /\ \A t \in All : Good(t, next)
    /\ Versions(All)
    /\ OneOwner

-----------------------------------------------------------------------------
(* What the operations produce *)

\* Mint::issue_full returns a token that verifies, with the whole pool.
LEMMA TokenGood ==
    ASSUME NEW n \in Nat \ {0}, NEW v \in Nat \ {0}, NEW a \in BOOLEAN
    PROVE  /\ Good(Token(n, v, a), n + 1)
           /\ Token(n, v, a).id = n /\ Token(n, v, a).secret = n
<1> DEFINE t == Token(n, v, a)
<1>1. /\ t.id = n /\ t.value = v /\ t.commitment = v /\ t.signature = <<n, v, n>>
      /\ t.secret = n /\ t.count = 0 /\ t.genesis = n /\ t.chain = <<>> /\ t.steps = 0
      /\ t.credential = IF a THEN <<n, 0>> ELSE NoCredential
      /\ t.pool = IF a THEN [k \in 1..Bound |-> <<n, k>>] ELSE <<>>
    BY Zenon DEF Token
<1>2. t.credential \in Nat \X Nat
    BY <1>1 DEF NoCredential
<1>3. t.pool \in Seq(Nat \X Nat)
    <2>1. [k \in 1..Bound |-> <<n, k>>] \in Seq(Nat \X Nat)
        BY TokensAssumption
    <2> QED BY <1>1, <2>1
<1>4. t \in TokenType
    <2>1. <<>> \in Seq(Link)
        OBVIOUS
    <2> QED BY <1>2, <1>3, <2>1, Zenon DEF TokenType, Token
<1>5. Sound(t)
    BY <1>1, TokensAssumption
    DEF Sound, signature_valid, value_valid, within_bound, fold_valid, accum_valid, OwnerAfter
<1>6. Stocked(t)
    <2>1. CASE a
        <3>1. [k \in 1..(Bound - 0) |-> <<n, 0 + k>>] = [k \in 1..Bound |-> <<n, k>>]
            BY TokensAssumption
        <3> QED BY <1>1, <2>1, <3>1, Zenon DEF Stocked
    <2>2. CASE ~a
        BY <1>1, <2>2, Zenon DEF Stocked
    <2> QED BY <2>1, <2>2
<1> QED BY <1>1, <1>4, <1>5, <1>6 DEF Good

\* The link that the owner of t signs for n, the chain with it, and the credential that a transfer
\* leaves to the next owner if it is not online.
LinkTo(t, n) == [owner |-> n, signed |-> <<t.secret, t.id, t.steps + 1, n>>]

Extended(t, n) == Append(t.chain, LinkTo(t, n))

Taken(t) == IF t.pool = <<>> THEN t.credential ELSE Head(t.pool)

\* The token r that the new owner n gets for t.
Handed(t, n, online, r) ==
    /\ r.id = t.id /\ r.value = t.value /\ r.commitment = t.commitment
    /\ r.signature = t.signature /\ r.genesis = t.genesis
    /\ r.secret = n /\ r.count = t.count + 1 /\ r.steps = t.steps + 1
    /\ r.chain = Extended(t, n)
    /\ r.pool = IF t.pool = <<>> THEN t.pool ELSE Tail(t.pool)
    /\ r.credential = IF online /\ Taken(t) # NoCredential THEN <<0, n>> ELSE Taken(t)

\* fold_transfer_signed adds a link to the chain and counts it.
LEMMA FoldedFields ==
    ASSUME NEW n \in Nat \ {0}, NEW t \in TokenType, NEW f, f = Folded(t, n)
    PROVE  /\ f \in TokenType
           /\ f.id = t.id /\ f.value = t.value /\ f.commitment = t.commitment
           /\ f.signature = t.signature /\ f.genesis = t.genesis
           /\ f.secret = t.secret /\ f.count = t.count
           /\ f.credential = t.credential /\ f.pool = t.pool
           /\ f.chain = Extended(t, n) /\ f.steps = t.steps + 1
<1> DEFINE u == [t EXCEPT !.chain = Extended(t, n)]
<1>1. t.chain \in Seq(Link) /\ t.steps \in Nat /\ t.secret \in Nat /\ t.id \in Nat
    BY DEF TokenType
<1>2. LinkTo(t, n) \in Link
    BY <1>1 DEF Link, LinkTo
<1>3. Extended(t, n) \in Seq(Link)
    BY <1>1, <1>2 DEF Extended
<1>4. u \in TokenType
    BY <1>3, Zenon DEF TokenType
<1>5. f = [u EXCEPT !.steps = t.steps + 1]
    BY DEF Folded, TokenType, LinkTo, Extended
<1>6. f \in TokenType
    <2> HIDE DEF u
    <2>1. t.steps + 1 \in Nat
        BY <1>1
    <2> QED BY <1>4, <1>5, <2>1, ZenonT(40) DEF TokenType
<1>7. /\ f.id = t.id /\ f.value = t.value /\ f.commitment = t.commitment
      /\ f.signature = t.signature /\ f.genesis = t.genesis
      /\ f.secret = t.secret /\ f.count = t.count
      /\ f.credential = t.credential /\ f.pool = t.pool
      /\ f.chain = Extended(t, n) /\ f.steps = t.steps + 1
    BY <1>5 DEF TokenType
<1> QED BY <1>6, <1>7

\* A transfer takes the first credential of the pool, if there is one.
LEMMA NextCredentialFields ==
    ASSUME NEW f \in TokenType, NEW g, g = NextCredential(f)
    PROVE  /\ g \in TokenType
           /\ g.id = f.id /\ g.value = f.value /\ g.commitment = f.commitment
           /\ g.signature = f.signature /\ g.genesis = f.genesis
           /\ g.secret = f.secret /\ g.count = f.count
           /\ g.chain = f.chain /\ g.steps = f.steps
           /\ g.credential = IF f.pool = <<>> THEN f.credential ELSE Head(f.pool)
           /\ g.pool = IF f.pool = <<>> THEN f.pool ELSE Tail(f.pool)
<1>1. CASE f.pool = <<>>
    BY <1>1 DEF NextCredential
<1>2. CASE f.pool # <<>>
    <2> DEFINE C == Nat \X Nat
               u == [f EXCEPT !.credential = Head(f.pool)]
    <2>1. Head(f.pool) \in C /\ Tail(f.pool) \in Seq(C)
        <3>1. f.pool \in Seq(C)
            BY DEF TokenType
        <3> HIDE DEF C
        <3> QED BY <1>2, <3>1, HeadTailProperties, Zenon
    <2>2. u \in TokenType
        BY <2>1, Zenon DEF TokenType
    <2>3. g = [u EXCEPT !.pool = Tail(f.pool)]
        BY <1>2 DEF NextCredential, TokenType
    <2>4. g \in TokenType
        <3> HIDE DEF u
        <3> QED BY <2>1, <2>2, <2>3, ZenonT(40) DEF TokenType
    <2>5. /\ g.id = f.id /\ g.value = f.value /\ g.commitment = f.commitment
          /\ g.signature = f.signature /\ g.genesis = f.genesis
          /\ g.secret = f.secret /\ g.count = f.count
          /\ g.chain = f.chain /\ g.steps = f.steps
          /\ g.credential = Head(f.pool) /\ g.pool = Tail(f.pool)
        BY <2>3 DEF TokenType
    <2> QED BY <1>2, <2>4, <2>5
<1> QED BY <1>1, <1>2, Zenon

\* transfer hands on a token with one more step in its chain, signed by the owner
\* before, and with the credential of that step, or a new one.
LEMMA ReceivedFields ==
    ASSUME NEW n \in Nat \ {0}, NEW t \in TokenType, NEW online \in BOOLEAN,
           NEW r, r = Received(t, n, online)
    PROVE  r \in TokenType /\ Handed(t, n, online, r)
<1> DEFINE f == Folded(t, n)
           g == NextCredential(f)
           h == [g EXCEPT !.secret = n]
           u == [h EXCEPT !.count = g.count + 1]
<1>1. /\ f \in TokenType
      /\ f.id = t.id /\ f.value = t.value /\ f.commitment = t.commitment
      /\ f.signature = t.signature /\ f.genesis = t.genesis
      /\ f.secret = t.secret /\ f.count = t.count
      /\ f.credential = t.credential /\ f.pool = t.pool
      /\ f.chain = Extended(t, n) /\ f.steps = t.steps + 1
    BY FoldedFields, ZenonT(40)
<1>2. /\ g \in TokenType
      /\ g.id = f.id /\ g.value = f.value /\ g.commitment = f.commitment
      /\ g.signature = f.signature /\ g.genesis = f.genesis
      /\ g.secret = f.secret /\ g.count = f.count
      /\ g.chain = f.chain /\ g.steps = f.steps
      /\ g.credential = IF f.pool = <<>> THEN f.credential ELSE Head(f.pool)
      /\ g.pool = IF f.pool = <<>> THEN f.pool ELSE Tail(f.pool)
    BY <1>1, NextCredentialFields, Zenon
<1>3. r = IF online THEN Refreshed(u, n) ELSE u
    BY DEF Received
<1> HIDE DEF f, g
<1>4. h \in TokenType
    BY <1>2, Zenon DEF TokenType
<1>5. g.count + 1 \in Nat
    <2>1. g.count \in Nat
        BY <1>2, Zenon DEF TokenType
    <2> QED BY <2>1
<1>6. u \in TokenType
    <2> HIDE DEF h
    <2> QED BY <1>4, <1>5, Zenon DEF TokenType
<1>7. /\ u.id = g.id /\ u.value = g.value /\ u.commitment = g.commitment
      /\ u.signature = g.signature /\ u.genesis = g.genesis
      /\ u.secret = n /\ u.count = g.count + 1
      /\ u.chain = g.chain /\ u.steps = g.steps
      /\ u.credential = g.credential /\ u.pool = g.pool
    BY <1>2, Zenon DEF TokenType
<1> HIDE DEF h, u
<1>8. r = IF online /\ u.credential # NoCredential
          THEN [u EXCEPT !.credential = <<0, n>>] ELSE u
    BY <1>3 DEF Refreshed
<1>9. /\ r \in TokenType
      /\ r.id = u.id /\ r.value = u.value /\ r.commitment = u.commitment
      /\ r.signature = u.signature /\ r.genesis = u.genesis
      /\ r.secret = u.secret /\ r.count = u.count
      /\ r.chain = u.chain /\ r.steps = u.steps /\ r.pool = u.pool
      /\ r.credential = IF online /\ u.credential # NoCredential
                        THEN <<0, n>> ELSE u.credential
    <2>1. CASE online /\ u.credential # NoCredential
        <3>1. r = [u EXCEPT !.credential = <<0, n>>]
            BY <1>8, <2>1
        <3>2. r \in TokenType
            <4>1. \A y \in Nat \X Nat : [u EXCEPT !.credential = y] \in TokenType
                BY <1>6, ZenonT(40) DEF TokenType
            <4>2. <<0, n>> \in Nat \X Nat
                OBVIOUS
            <4> QED BY <3>1, <4>1, <4>2
        <3> QED BY <1>6, <2>1, <3>1, <3>2, Zenon DEF TokenType
    <2>2. CASE ~(online /\ u.credential # NoCredential)
        BY <1>6, <1>8, <2>2
    <2> QED BY <2>1, <2>2, Zenon
<1> QED BY <1>1, <1>2, <1>7, <1>9 DEF Taken, Handed

\* The chain that fold_transfer_signed builds is one verify_accumulated_proof
\* accepts, up to the new owner.
LEMMA ReceivedSound ==
    ASSUME NEW n \in Nat \ {0}, NEW t \in TokenType, Sound(t), ~needs_renewal(t),
           NEW online \in BOOLEAN, NEW r, r = Received(t, n, online)
    PROVE  Sound(r)
<1>1. /\ r.id = t.id /\ r.value = t.value /\ r.commitment = t.commitment
      /\ r.signature = t.signature /\ r.genesis = t.genesis
      /\ r.secret = n /\ r.count = t.count + 1 /\ r.steps = t.steps + 1
      /\ r.chain = Extended(t, n)
    <2>1. Handed(t, n, online, r)
        BY ReceivedFields
    <2> QED BY <2>1, Zenon DEF Handed
<1>2. /\ t.chain \in Seq(Link) /\ t.steps \in Nat /\ t.count \in Nat
      /\ Len(t.chain) \in Nat
    BY DEF TokenType
<1>3. t.count < Bound /\ t.count = t.steps /\ t.steps = Len(t.chain)
    BY <1>2, TokensAssumption DEF needs_renewal, Sound, fold_valid, accum_valid
<1>4. /\ Len(r.chain) = Len(t.chain) + 1
      /\ r.chain[Len(t.chain) + 1] = LinkTo(t, n)
      /\ \A i \in 1..Len(t.chain) : r.chain[i] = t.chain[i]
    <2>1. LinkTo(t, n) \in Link
        <3>1. t.secret \in Nat /\ t.id \in Nat
            BY DEF TokenType
        <3>2. PICK i, p, c \in Nat : i = t.id /\ p = t.secret /\ c = t.steps + 1
            BY <1>2, <3>1
        <3>3. LinkTo(t, n) = [owner |-> n, signed |-> <<p, i, c, n>>]
            BY <3>2, Zenon DEF LinkTo
        <3> QED BY <3>3 DEF Link
    <2> QED BY <1>1, <1>2, <2>1, AppendProperties DEF Extended
<1>5. signature_valid(r) /\ value_valid(r)
    BY <1>1, Zenon DEF Sound, signature_valid, value_valid
<1>6. within_bound(r)
    BY <1>1, <1>2, <1>3, TokensAssumption DEF within_bound
<1>7. \A i \in 0..Len(t.chain) : OwnerAfter(r, i) = OwnerAfter(t, i)
    BY <1>1, <1>2, <1>4, SMTT(30) DEF OwnerAfter
<1>8. accum_valid(r)
    <2> SUFFICES ASSUME NEW i \in 1..Len(r.chain)
                 PROVE  r.chain[i].signed =
                            <<OwnerAfter(r, i - 1), r.id, i, r.chain[i].owner>>
        BY <1>1, <1>3, <1>4, Zenon DEF accum_valid
    <2>1. i - 1 \in 0..Len(t.chain)
        BY <1>2, <1>4
    <2>2. OwnerAfter(r, i - 1) = OwnerAfter(t, i - 1)
        BY <1>7, <2>1
    <2>3. CASE i \in 1..Len(t.chain)
        <3>1. t.chain[i].signed = <<OwnerAfter(t, i - 1), t.id, i, t.chain[i].owner>>
            BY <2>3, Zenon DEF Sound, fold_valid, accum_valid
        <3> QED BY <1>1, <1>4, <2>2, <2>3, <3>1, Zenon
    <2>4. CASE i = Len(t.chain) + 1
        <3>1. OwnerAfter(t, i - 1) = t.secret
            BY <1>2, <2>4 DEF Sound, fold_valid
        <3>2. r.chain[i] = LinkTo(t, n)
            BY <1>4, <2>4, Zenon
        <3> QED BY <1>1, <1>3, <2>2, <2>4, <3>1, <3>2 DEF LinkTo
    <2>5. i \in 1..Len(t.chain) \/ i = Len(t.chain) + 1
        <3>1. PICK m \in Nat : m = Len(t.chain) /\ i \in 1..(m + 1)
            BY <1>2, <1>4, Zenon
        <3>2. i \in 1..m \/ i = m + 1
            BY <3>1
        <3> QED BY <3>1, <3>2, Zenon
    <2> QED BY <2>3, <2>4, <2>5, Zenon
<1>9. r.secret = OwnerAfter(r, Len(r.chain))
    BY <1>1, <1>2, <1>4 DEF OwnerAfter, LinkTo
<1> QED BY <1>1, <1>3, <1>5, <1>6, <1>8, <1>9, Zenon DEF Sound, fold_valid

\* The credential that is taken is the one of the new step, and the pool keeps
\* one for each step after it.
LEMMA ReceivedStocked ==
    ASSUME NEW n \in Nat \ {0}, NEW t \in TokenType, Sound(t), Stocked(t),
           ~needs_renewal(t),
           NEW online \in BOOLEAN, NEW r, r = Received(t, n, online)
    PROVE  Stocked(r)
<1>1. /\ r.id = t.id /\ r.secret = n /\ r.steps = t.steps + 1
      /\ r.pool = IF t.pool = <<>> THEN t.pool ELSE Tail(t.pool)
      /\ r.credential = IF online /\ Taken(t) # NoCredential THEN <<0, n>> ELSE Taken(t)
    BY ReceivedFields DEF Handed
<1>2. t.steps \in Nat /\ t.steps < Bound /\ t.id \in Nat \ {0} /\ Bound \in Nat
    <2>1. t.steps \in Nat /\ t.id \in Nat \ {0}
        BY DEF TokenType
    <2>2. Bound \in Nat
        BY TokensAssumption
    <2>3. t.count = t.steps
        BY DEF Sound
    <2>4. ~(t.count >= Bound)
        BY DEF needs_renewal
    <2> QED BY <2>1, <2>2, <2>3, <2>4
<1>3. CASE t.credential = NoCredential /\ t.pool = <<>>
    BY <1>1, <1>3, Zenon DEF Stocked, Taken
<1>4. CASE t.pool = [k \in 1..(Bound - t.steps) |-> <<t.id, t.steps + k>>]
    <2>1. /\ t.pool # <<>>
          /\ Head(t.pool) = <<t.id, t.steps + 1>>
        BY <1>2, <1>4
    <2>2. Tail(t.pool) = [k \in 1..(Bound - r.steps) |-> <<r.id, r.steps + k>>]
        <3> DEFINE C == Nat \X Nat
        <3>1. t.pool \in Seq(C) /\ Len(t.pool) = Bound - t.steps
            <4>1. t.pool \in Seq(C)
                BY DEF TokenType
            <4>2. DOMAIN t.pool = 1..(Bound - t.steps) /\ Bound - t.steps \in Nat
                BY <1>2, <1>4
            <4> HIDE DEF C
            <4> QED BY <4>1, <4>2, LenProperties
        <3> HIDE DEF C
        <3>2. /\ Tail(t.pool) \in Seq(C)
              /\ Len(Tail(t.pool)) = Len(t.pool) - 1
              /\ \A k \in 1..Len(Tail(t.pool)) : Tail(t.pool)[k] = t.pool[k + 1]
            BY <2>1, <3>1, HeadTailProperties
        <3>3. \A k \in 1..Len(Tail(t.pool)) : Tail(t.pool)[k] = <<r.id, r.steps + k>>
            <4> SUFFICES ASSUME NEW k \in 1..Len(Tail(t.pool))
                         PROVE  Tail(t.pool)[k] = <<r.id, r.steps + k>>
                BY Zenon
            <4>1. k + 1 \in 1..(Bound - t.steps) /\ Tail(t.pool)[k] = t.pool[k + 1]
                BY <1>2, <3>1, <3>2
            <4>2. t.pool[k + 1] = <<t.id, t.steps + (k + 1)>>
                BY <1>4, <4>1, Zenon
            <4>3. t.steps + (k + 1) = r.steps + k
                <5>1. r.steps = t.steps + 1 /\ k \in Int /\ t.steps \in Int
                    BY <1>1, <1>2
                <5> QED BY <5>1
            <4> QED BY <1>1, <4>1, <4>2, <4>3, Zenon
        <3>4. Tail(t.pool) = [k \in 1..Len(Tail(t.pool)) |-> Tail(t.pool)[k]]
            BY <3>2, SMTT(30)
        <3>5. Len(Tail(t.pool)) = Bound - r.steps
            BY <1>1, <1>2, <3>1, <3>2
        <3> QED BY <3>3, <3>4, <3>5, ZenonT(40)
    <2>3. r.credential \in {<<r.id, r.steps>>, <<0, r.secret>>}
        BY <1>1, <2>1, Zenon DEF Taken
    <2> QED BY <1>1, <2>1, <2>2, <2>3, Zenon DEF Stocked
<1> QED BY <1>3, <1>4, Zenon DEF Stocked

\* Together: what transfer hands on is as good as what it was given.
LEMMA ReceivedGood ==
    ASSUME NEW n \in Nat \ {0}, NEW t, Good(t, n), ~needs_renewal(t),
           NEW online \in BOOLEAN, NEW r, r = Received(t, n, online)
    PROVE  /\ Good(r, n + 1)
           /\ r.id = t.id /\ r.secret = n
<1>1. r \in TokenType /\ Handed(t, n, online, r)
    BY ReceivedFields DEF Good
<1>2. Sound(r) /\ Stocked(r)
    BY ReceivedSound, ReceivedStocked DEF Good
<1>3. r.id = t.id /\ r.secret = n
    BY <1>1, Zenon DEF Handed
<1>4. t.id \in Nat /\ t.id < n
    BY DEF Good, TokenType
<1> QED BY <1>1, <1>2, <1>3, <1>4 DEF Good

-----------------------------------------------------------------------------
(* The inductive invariant *)

\* A step that puts the tokens New into somebody's hands, each with random values
\* of its own, and spends whatever had the id of one of them.
LEMMA AddedInv ==
    ASSUME IInv, NEW New, All' \subseteq All \cup New,
           next' \in Nat, next' >= next, spent \subseteq spent',
           \A r \in New : Good(r, next') /\ r.secret >= next,
           \A q, r \in New : q.id = r.id => q = r,
           \A r \in New, u \in All : r.id = u.id => compute_nullifier(u) \in spent'
    PROVE  IInv'
<1>1. next \in Nat \ {0}
    BY DEF IInv
<1>2. \A t \in All : Good(t, next) /\ Good(t, next') /\ t.secret < next
    <2> SUFFICES ASSUME NEW t \in All
                 PROVE  Good(t, next) /\ Good(t, next') /\ t.secret < next
        OBVIOUS
    <2>1. Good(t, next)
        BY DEF IInv
    <2>2. t.id \in Nat /\ t.secret \in Nat /\ t.id < next /\ t.secret < next
        BY <2>1, Zenon DEF Good, TokenType
    <2>3. t.id < next' /\ t.secret < next'
        BY <1>1, <2>2
    <2> QED BY <2>1, <2>2, <2>3 DEF Good
<1>3. \A r \in New : r.secret \in Nat
    BY DEF Good, TokenType
<1>4. \A t \in All, r \in New : t.secret # r.secret
    <2> TAKE t \in All, r \in New
    <2>1. t.secret \in Nat
        BY <1>2, Zenon DEF Good, TokenType
    <2> QED BY <1>1, <1>2, <1>3, <2>1
<1>5. Versions(All')
    BY <1>4 DEF IInv, Versions
<1>6. OneOwner'
    <2> SUFFICES ASSUME NEW t \in All', NEW u \in All', t.id = u.id,
                        compute_nullifier(t) \notin spent',
                        compute_nullifier(u) \notin spent'
                 PROVE  t = u
        BY DEF OneOwner, Live, All, compute_nullifier
    <2>1. CASE t \in All /\ u \in All
        BY <2>1 DEF IInv, OneOwner, Live, All
    <2> QED BY <2>1
<1> QED BY <1>1, <1>2, <1>5, <1>6 DEF IInv

\* A step that brings no version of a token that was nowhere before.
LEMMA NothingNewInv ==
    ASSUME IInv, All' \subseteq All, next' \in {next, next + 1}, spent \subseteq spent'
    PROVE  IInv'
<1>1. next' \in Nat /\ next' >= next
    BY DEF IInv
<1> DEFINE New == {}
<1>2. /\ \A r \in New : Good(r, next') /\ r.secret >= next
      /\ \A q, r \in New : q.id = r.id => q = r
      /\ \A r \in New, u \in All : r.id = u.id => compute_nullifier(u) \in spent'
      /\ All' \subseteq All \cup New
    OBVIOUS
<1> HIDE DEF New
<1> QED BY <1>1, <1>2, AddedInv

\* Issuing: the id is new.
LEMMA IssuedInv ==
    ASSUME IInv, NEW v \in Nat \ {0}, NEW a \in BOOLEAN,
           All' \subseteq All \cup {Token(next, v, a)},
           next' = next + 1, spent \subseteq spent'
    PROVE  IInv'
<1> DEFINE r == Token(next, v, a)
<1>1. next \in Nat \ {0}
    BY DEF IInv
<1>2. Good(r, next + 1) /\ r.id = next /\ r.secret = next
    BY <1>1, TokenGood
<1>3. \A u \in All : u.id # next
    <2> TAKE u \in All
    <2>1. u.id \in Nat /\ u.id < next
        BY DEF IInv, Good, TokenType
    <2> QED BY <1>1, <2>1
<1>4. next' \in Nat /\ next' >= next /\ r.secret >= next
    BY <1>1, <1>2
<1>5. All' \subseteq All \cup {r}
    OBVIOUS
<1> HIDE DEF r
<1> DEFINE New == {r}
<1>6. \A q \in New : Good(q, next') /\ q.secret >= next
    BY <1>2, <1>4
<1>7. \A q \in New, u \in All : q.id # u.id
    BY <1>2, <1>3
<1>8. (\A q, p \in New : q.id = p.id => q = p) /\ All' \subseteq All \cup New
    BY <1>5
<1> HIDE DEF New
<1> QED BY <1>4, <1>6, <1>7, <1>8, AddedInv, Zenon

\* transfer: the version before it was the only one to be spent.
LEMMA TransferInv ==
    ASSUME IInv, NEW t \in held, NEW online \in BOOLEAN, Transfer(t, online)
    PROVE  IInv'
<1> DEFINE r == Received(t, next, online)
<1>1. next \in Nat \ {0} /\ next' = next + 1
    BY DEF IInv, Transfer
<1>2. Good(t, next)
    BY DEF IInv, All
<1>3. Good(r, next + 1) /\ r.id = t.id /\ r.secret = next
    BY <1>1, <1>2, ReceivedGood DEF Transfer
<1>4. All' \subseteq All \cup {r}
    BY DEF All, Transfer
<1>5. spent \subseteq spent' /\ compute_nullifier(t) \in spent'
    BY DEF Transfer
<1>6. ASSUME NEW u \in All, u.id = t.id PROVE compute_nullifier(u) \in spent'
    <2>1. compute_nullifier(t) \notin spent
        BY DEF Transfer
    <2>2. CASE compute_nullifier(u) \notin spent
        BY <1>5, <1>6, <2>1, <2>2 DEF IInv, OneOwner, Live, All
    <2> QED BY <1>5, <2>2
<1> HIDE DEF r
<1>7. next' \in Nat /\ next' >= next /\ r.secret >= next
    BY <1>1, <1>3
<1> DEFINE New == {r}
<1>8. \A q \in New : Good(q, next') /\ q.secret >= next
    BY <1>1, <1>3, <1>7
<1>9. \A q \in New, u \in All : q.id = u.id => compute_nullifier(u) \in spent'
    BY <1>3, <1>6
<1>10. (\A q, p \in New : q.id = p.id => q = p) /\ All' \subseteq All \cup New
    BY <1>4
<1> HIDE DEF New
<1> QED BY <1>5, <1>7, <1>8, <1>9, <1>10, AddedInv

\* Mint::split: the outputs are two tokens that were nowhere before.
LEMMA SplitInv ==
    ASSUME IInv, NEW t \in held, NEW v \in 1..MaxValue, NEW w \in 1..MaxValue,
           Split(t, v, w)
    PROVE  IInv'
<1> DEFINE q == Token(next, v, FALSE)
           r == Token(next + 1, w, FALSE)
<1>1. /\ next \in Nat \ {0} /\ next + 1 \in Nat \ {0} /\ next' = next + 2
      /\ v \in Nat \ {0} /\ w \in Nat \ {0}
    BY TokensAssumption DEF IInv, Split
<1>2. /\ Good(q, next + 1) /\ q.id = next /\ q.secret = next
      /\ Good(r, next + 1 + 1) /\ r.id = next + 1 /\ r.secret = next + 1
    BY <1>1, TokenGood, Zenon
<1>3. All' \subseteq All \cup {q, r} /\ spent \subseteq spent'
    BY Zenon DEF All, Split
<1> HIDE DEF q, r
<1>4. Good(q, next') /\ Good(r, next')
    <2>1. next + 1 + 1 = next' /\ q.id < next' /\ q.secret < next'
        BY <1>1, <1>2
    <2> QED BY <1>2, <2>1 DEF Good
<1> DEFINE New == {q, r}
<1>5. \A p \in New : Good(p, next') /\ p.secret >= next
    BY <1>1, <1>2, <1>4
<1>6. \A p \in New, u \in All : p.id # u.id
    <2> TAKE p \in New, u \in All
    <2>1. u.id \in Nat /\ u.id < next
        BY DEF IInv, Good, TokenType
    <2> QED BY <1>1, <1>2, <2>1
<1>7. \A o, p \in New : o.id = p.id => o = p
    BY <1>1, <1>2
<1>8. next' \in Nat /\ next' >= next /\ All' \subseteq All \cup New
    BY <1>1, <1>3
<1> HIDE DEF New
<1> QED BY <1>3, <1>5, <1>6, <1>7, <1>8, AddedInv

\* renew_token: the value of the new token is that of a token that verified.
LEMMA RenewInv ==
    ASSUME IInv, NEW t \in held, Renew(t)
    PROVE  IInv'
<1>1. t.value \in Nat \ {0}
    BY DEF IInv, All, Good, TokenType
<1>2. next' = next + 1 /\ spent \subseteq spent'
    BY Zenon DEF Renew
<1>3. CASE held' = (held \ {t}) \cup {Token(next, t.value, t.credential # NoCredential)}
    <2>1. All' \subseteq All \cup {Token(next, t.value, t.credential # NoCredential)}
        BY <1>3, Zenon DEF All, Renew
    <2>2. (t.credential # NoCredential) \in BOOLEAN
        OBVIOUS
    <2> QED BY <1>1, <1>2, <2>1, <2>2, IssuedInv, ZenonT(40)
<1>4. CASE held' = held \ {t}
    <2>1. All' \subseteq All
        BY <1>4 DEF All, Renew
    <2> QED BY <1>2, <2>1, NothingNewInv
<1> QED BY <1>3, <1>4 DEF Renew

\* Every step of Next keeps the invariant.
LEMMA NextInv == ASSUME IInv, [Next]_vars PROVE IInv'
<1>1. ASSUME NEW v \in 1..MaxValue, NEW a \in BOOLEAN, Issue(v, a) PROVE IInv'
    <2>1. v \in Nat \ {0}
        BY TokensAssumption
    <2>2. /\ All' \subseteq All \cup {Token(next, v, a)}
          /\ next' = next + 1 /\ spent \subseteq spent'
        BY <1>1 DEF Issue, All
    <2> QED BY <2>1, <2>2, IssuedInv
<1>2. ASSUME NEW t \in held, NEW online \in BOOLEAN, Transfer(t, online) PROVE IInv'
    BY <1>2, TransferInv
<1>3. ASSUME NEW t \in held, TransferFails(t) PROVE IInv'
    <2>1. All' \subseteq All /\ next' = next /\ spent' = spent
        BY <1>3 DEF TransferFails, All
    <2> QED BY <2>1, NothingNewInv
<1>4. ASSUME NEW t \in held, NEW v \in 1..MaxValue, NEW w \in 1..MaxValue, Split(t, v, w)
      PROVE  IInv'
    BY <1>4, SplitInv
<1>5. ASSUME NEW t \in held, Renew(t) PROVE IInv'
    BY <1>5, RenewInv
<1>6. ASSUME NEW t \in held, RenewFails(t) PROVE IInv'
    <2>1. All' \subseteq All /\ next' = next /\ spent' = spent
        BY <1>6 DEF RenewFails, All
    <2> QED BY <2>1, NothingNewInv
<1>7. CASE Save
    <2>1. All' \subseteq All /\ next' = next /\ spent' = spent
        BY <1>7 DEF Save, All
    <2> QED BY <2>1, NothingNewInv
<1>8. CASE Load
    <2>1. All' \subseteq All /\ next' = next /\ spent' = spent
        BY <1>8 DEF Load, All
    <2> QED BY <2>1, NothingNewInv
<1>9. CASE Expire
    <2>1. All' \subseteq All /\ next' = next /\ spent' = spent
        BY <1>9 DEF Expire, All
    <2> QED BY <2>1, NothingNewInv
<1>10. CASE UNCHANGED vars
    <2>1. All' \subseteq All /\ next' = next /\ spent' = spent
        BY <1>10 DEF vars, All
    <2> QED BY <2>1, NothingNewInv
<1> QED BY <1>1, <1>2, <1>3, <1>4, <1>5, <1>6, <1>7, <1>8, <1>9, <1>10, Zenon DEF Next

\* It holds at all times.
LEMMA InvHolds == Spec => []IInv
<1>1. Init => IInv
    BY DEF Init, IInv, All, Versions, OneOwner, Live
<1>2. IInv /\ [Next]_vars => IInv'
    BY NextInv
<1> QED BY <1>1, <1>2, PTL DEF Spec

-----------------------------------------------------------------------------
(* Results *)

\* Of all versions and copies of a token, in hand or in a saved wallet, at most
\* one can be spent: transfer notes the nullifier of the version it is given and
\* no operation brings a spent one back, for any number of tokens, any number of
\* loads of any old wallet, and errors wherever they can happen.
THEOREM OneOwnerHolds == Spec => []OneOwner
<1>1. IInv => OneOwner
    BY DEF IInv
<1> QED BY <1>1, InvHolds, PTL

\* Every token that issue, transfer, split, renewal and load return passes
\* verify_token, for every recursion_bound: the chain of fold_transfer_signed
\* verifies at any length, and the count never passes the bound.
THEOREM ProducedVerifiesHolds == Spec => []ProducedVerifies
<1>1. IInv => ProducedVerifies
    BY Zenon DEF IInv, All, Good, Sound, ProducedVerifies, all_valid, credential_valid
<1> QED BY <1>1, InvHolds, PTL

\* No two owners of a token show the same credential, whatever transfers were
\* online or offline: the pool has one for each transfer up to the bound, and
\* the one that refresh_credential makes is made for one owner.
THEOREM UnlinkableHolds == Spec => []Unlinkable
<1>1. IInv => Unlinkable
    <2> SUFFICES ASSUME IInv, NEW t \in All, NEW u \in All, t.id = u.id,
                        t.steps # u.steps, t.credential # NoCredential,
                        t.credential = u.credential
                 PROVE  FALSE
        BY DEF Unlinkable, All
    <2>1. /\ t.id \in Nat \ {0} /\ t.secret \in Nat \ {0}
          /\ u.id \in Nat \ {0} /\ u.secret \in Nat \ {0}
        BY DEF IInv, Good, TokenType
    <2>2. t.credential \in {<<t.id, t.steps>>, <<0, t.secret>>}
        BY Zenon DEF IInv, Good, Stocked
    <2>3. u.credential \in {<<u.id, u.steps>>, <<0, u.secret>>}
        BY Zenon DEF IInv, Good, Stocked
    <2>4. t.secret # u.secret
        BY DEF IInv, Versions
    <2> QED BY <2>1, <2>2, <2>3, <2>4
<1> QED BY <1>1, InvHolds, PTL

-----------------------------------------------------------------------------
(* The value of tokens *)

\* What a token is worth, as a function.
Worth == [t \in TokenType |-> t.value]

\* LiveValue is the sum of it over the tokens that can be spent.
LEMMA ValueIsSum ==
    ASSUME NEW S \in SUBSET TokenType
    PROVE  MapThenSumSet(LAMBDA t : t.value, S) = SumOf(Worth, S)
<1> DEFINE Iter(g) ==
        g = [s \in SUBSET S |->
                IF s = {} THEN 0 ELSE Chosen(s).value + g[s \ {Chosen(s)}]]
<1>1. MapThenSumSet(LAMBDA t : t.value, S) = (CHOOSE g : Iter(g))[S]
    BY Zenon DEF MapThenSumSet, MapThenFoldSet, Chosen
<1>2. \A s \in SUBSET S : s # {} => Worth[Chosen(s)] = Chosen(s).value
    BY ChosenIn DEF Worth
<1>3. \A g : Iter(g) <=> IsSum(Worth, S, g)
    BY <1>2, Zenon DEF IsSum
<1> HIDE DEF Iter
<1>4. (CHOOSE g : Iter(g)) = (CHOOSE g : IsSum(Worth, S, g))
    BY <1>3
<1> QED BY <1>1, <1>4, Zenon DEF SumOf

Total(S) == SumOf(Worth, S)

\* All tokens there are are finitely many, and every nullifier that was noted is
\* of an owner whose secret was drawn before.
Finite == IsFiniteSet(All)

SpentBefore == \A s, i \in Nat : <<s, i>> \in spent => s < next

ValueInv == Finite /\ SpentBefore /\ issued \in Int /\ Total(Live) <= issued

\* A token more, or less, in a set of tokens.
LEMMA TotalAdd ==
    ASSUME NEW S \in SUBSET TokenType, IsFiniteSet(S), NEW r \in TokenType, r \notin S
    PROVE  /\ S \cup {r} \in SUBSET TokenType /\ IsFiniteSet(S \cup {r})
           /\ Total(S) \in Int /\ r.value \in Int
           /\ Total(S \cup {r}) = Total(S) + r.value
<1>1. \A t \in TokenType : Worth[t] = t.value /\ t.value \in Int
    BY DEF Worth, TokenType
<1>2. Summable(Worth, S)
    BY <1>1 DEF Summable
<1>3. SumOf(Worth, S \cup {r}) = Worth[r] + SumOf(Worth, S) /\ Summable(Worth, S \cup {r})
    BY <1>1, <1>2, SumAdd, Zenon
<1>4. SumOf(Worth, S) \in Int
    BY <1>2, SumIsInt
<1>5. Worth[r] = r.value /\ r.value \in Int
    BY <1>1
<1>6. r.value + SumOf(Worth, S) = SumOf(Worth, S) + r.value
    BY <1>4, <1>5
<1> QED BY <1>3, <1>4, <1>5, <1>6, Zenon DEF Total, Summable

\* The same for a token less.
LEMMA TotalRemove ==
    ASSUME NEW S \in SUBSET TokenType, IsFiniteSet(S), NEW t \in S
    PROVE  /\ S \ {t} \in SUBSET TokenType /\ IsFiniteSet(S \ {t})
           /\ Total(S \ {t}) \in Int /\ t.value \in Int
           /\ Total(S) = Total(S \ {t}) + t.value
<1>1. IsFiniteSet(S \ {t}) /\ t \notin S \ {t} /\ (S \ {t}) \cup {t} = S
    BY FS_RemoveElement
<1>2. S \ {t} \in SUBSET TokenType /\ t \in TokenType
    OBVIOUS
<1> QED BY <1>1, <1>2, TotalAdd, Zenon

\* LiveValue is the total of the tokens that can be spent.
LEMMA LiveTotal ==
    ASSUME IInv, Finite
    PROVE  /\ Live \in SUBSET TokenType /\ IsFiniteSet(Live)
           /\ LiveValue = Total(Live) /\ Total(Live) \in Int
<1>1. Live \in SUBSET All /\ All \in SUBSET TokenType
    BY DEF IInv, Good, Live, All
<1>2. Live \in SUBSET TokenType
    BY <1>1
<1>3. IsFiniteSet(Live)
    BY <1>1, FS_Subset DEF Finite
<1>4. LiveValue = Total(Live)
    BY <1>2, ValueIsSum DEF LiveValue, Total
<1>5. Summable(Worth, Live)
    BY <1>2, <1>3 DEF Summable, Worth, TokenType
<1>6. Total(Live) \in Int
    BY <1>5, SumIsInt DEF Total
<1> QED BY <1>2, <1>3, <1>4, <1>6

\* A step that notes the nullifier of t and makes the tokens New, whose owners'
\* secrets were not drawn before.
LEMMA LiveAfter ==
    ASSUME IInv, SpentBefore, NEW t \in All, compute_nullifier(t) \notin spent,
           spent' = spent \cup {compute_nullifier(t)},
           NEW New, \A r \in New : r \in TokenType /\ r.secret >= next,
           All \ {t} \subseteq All', New \subseteq All', All' \subseteq All \cup New
    PROVE  t \in Live /\ Live' = (Live \ {t}) \cup New /\ Live \cap New = {}
<1>1. \A u \in All : u.id \in Nat /\ u.secret \in Nat /\ u.secret < next /\ next \in Nat
    BY Zenon DEF IInv, Good, TokenType
<1>2. \A r \in New : r.id \in Nat /\ r.secret \in Nat
    BY Zenon DEF TokenType
<1>3. \A r \in New : r \notin All
    BY <1>1
<1>4. \A u \in All : compute_nullifier(u) = compute_nullifier(t) => u = t
    BY DEF IInv, Versions, compute_nullifier
<1>5. \A r \in New : compute_nullifier(r) \notin spent'
    <2> TAKE r \in New
    <2>1. r.secret # t.secret /\ ~(r.secret < next)
        BY <1>1, <1>2
    <2>2. compute_nullifier(r) \notin spent
        BY <1>2, <2>1 DEF SpentBefore, compute_nullifier
    <2>3. compute_nullifier(r) # compute_nullifier(t)
        BY <2>1 DEF compute_nullifier
    <2> QED BY <2>2, <2>3
<1>6. /\ Live = {u \in All : compute_nullifier(u) \notin spent}
      /\ Live' = {u \in All' : compute_nullifier(u) \notin spent'}
    BY DEF Live, All, compute_nullifier
<1> QED BY <1>3, <1>4, <1>5, <1>6

\* A step carries the value over, or puts nothing into anybody's hands and makes
\* nothing spendable.
Carried == Total(Live') - issued' = Total(Live) - issued

Dropped == held' \subseteq held /\ Live' \subseteq Live /\ issued' = issued

Accounted ==
    /\ IsFiniteSet(All') /\ SpentBefore' /\ issued' \in Int
    /\ Carried \/ Dropped

\* A step that makes at most two tokens.
LEMMA FiniteAfter ==
    ASSUME Finite, NEW q, NEW r, All' \subseteq All \cup {q, r}
    PROVE  IsFiniteSet(All')
<1>1. IsFiniteSet((All \cup {q}) \cup {r})
    BY FS_AddElement, ZenonT(40) DEF Finite
<1>2. All' \in SUBSET ((All \cup {q}) \cup {r})
    OBVIOUS
<1> QED BY <1>1, <1>2, FS_Subset

\* A step that notes the nullifier of a token at most.
LEMMA SpentAfter ==
    ASSUME IInv, SpentBefore, next' \in Nat, next' >= next, NEW t \in All,
           spent' \subseteq spent \cup {compute_nullifier(t)}
    PROVE  SpentBefore'
<1>1. t.secret \in Nat /\ t.secret < next /\ next \in Nat
    BY DEF IInv, Good, TokenType
<1>2. ASSUME NEW s \in Nat, NEW i \in Nat, <<s, i>> \in spent' PROVE s < next'
    <2>1. CASE <<s, i>> \in spent
        <3>1. s < next
            BY <2>1 DEF SpentBefore
        <3> QED BY <1>1, <3>1
    <2>2. CASE <<s, i>> = compute_nullifier(t)
        <3>1. s = t.secret
            BY <2>2 DEF compute_nullifier
        <3> QED BY <1>1, <3>1
    <2> QED BY <1>2, <2>1, <2>2
<1> QED BY <1>2 DEF SpentBefore

\* A step that neither makes nor spends a token.
LEMMA NothingMade ==
    ASSUME IInv, ValueInv, All' \subseteq All, UNCHANGED <<spent, next, issued>>,
           held' \subseteq held \/ All' = All
    PROVE  Accounted
<1>1. IsFiniteSet(All')
    <2>1. All' \in SUBSET All
        OBVIOUS
    <2> QED BY <2>1, FS_Subset DEF ValueInv, Finite
<1>2. SpentBefore' /\ issued' \in Int /\ issued' = issued
    BY DEF ValueInv, SpentBefore
<1>3. Live' \subseteq Live /\ (All' = All => Live' = Live)
    BY DEF Live, All, compute_nullifier
<1> QED BY <1>1, <1>2, <1>3 DEF Accounted, Carried, Dropped

\* Issuing adds the value that is paid for.
LEMMA IssueValue ==
    ASSUME IInv, ValueInv, NEW v \in 1..MaxValue, NEW a \in BOOLEAN, Issue(v, a)
    PROVE  Accounted
<1> DEFINE r == Token(next, v, a)
<1>1. /\ next \in Nat \ {0} /\ v \in Nat \ {0} /\ next' = next + 1
      /\ spent' = spent /\ issued' = issued + v /\ issued \in Int
    BY TokensAssumption DEF IInv, ValueInv, Issue
<1>2. Good(r, next + 1) /\ r.secret = next
    BY <1>1, TokenGood
<1>3. r.value = v
    BY Zenon DEF Token
<1>4. All' = All \cup {r}
    BY DEF All, Issue
<1> HIDE DEF r
<1>5. IsFiniteSet(All')
    BY <1>4, FiniteAfter DEF ValueInv
<1>6. SpentBefore'
    BY <1>1 DEF ValueInv, SpentBefore
<1>7. r \in TokenType /\ r.id \in Nat
    BY <1>2, Zenon DEF Good, TokenType
<1>8. r \notin All
    <2>1. \A u \in All : u.secret \in Nat /\ u.secret < next
        BY DEF IInv, Good, TokenType
    <2> QED BY <1>1, <1>2, <2>1
<1>9. compute_nullifier(r) \notin spent
    BY <1>1, <1>2, <1>7 DEF ValueInv, SpentBefore, compute_nullifier
<1>10. Live' = Live \cup {r} /\ r \notin Live
    <2>1. /\ Live = {u \in All : compute_nullifier(u) \notin spent}
          /\ Live' = {u \in All' : compute_nullifier(u) \notin spent'}
        BY DEF Live, All, compute_nullifier
    <2> QED BY <1>1, <1>4, <1>8, <1>9, <2>1, SMTT(30)
<1>11. Live \in SUBSET TokenType /\ IsFiniteSet(Live) /\ Total(Live) \in Int
    BY LiveTotal DEF ValueInv
<1>12. Total(Live') = Total(Live) + v
    BY <1>3, <1>7, <1>10, <1>11, TotalAdd, SMTT(30)
<1>13. Carried
    BY <1>1, <1>11, <1>12 DEF Carried
<1>14. issued' \in Int
    BY <1>1
<1> QED BY <1>5, <1>6, <1>13, <1>14 DEF Accounted

\* A token is spent for another of the same value.
LEMMA ExchangeValue ==
    ASSUME IInv, ValueInv, NEW t \in held, NEW r \in TokenType,
           r.secret >= next, r.value = t.value,
           compute_nullifier(t) \notin spent,
           spent' = spent \cup {compute_nullifier(t)},
           held' = (held \ {t}) \cup {r}, saved' = saved,
           next' = next + 1, issued' = issued
    PROVE  Accounted
<1>1. next' \in Nat /\ next' >= next /\ issued \in Int
    BY DEF IInv, ValueInv
<1>2. t \in All /\ All \ {t} \subseteq All' /\ {r} \subseteq All' /\ All' \subseteq All \cup {r}
    BY DEF All
<1>3. IsFiniteSet(All')
    BY <1>2, FiniteAfter DEF ValueInv
<1>4. SpentBefore'
    BY <1>1, <1>2, SpentAfter DEF ValueInv
<1>5. t \in Live /\ Live' = (Live \ {t}) \cup {r} /\ r \notin Live
    <2> DEFINE New == {r}
    <2>1. \A q \in New : q \in TokenType /\ q.secret >= next
        OBVIOUS
    <2>2. New \subseteq All' /\ All' \subseteq All \cup New
        BY <1>2
    <2> HIDE DEF New
    <2>3. t \in Live /\ Live' = (Live \ {t}) \cup New /\ Live \cap New = {}
        BY <1>2, <2>1, <2>2, LiveAfter, Zenon DEF ValueInv
    <2> QED BY <2>3 DEF New
<1>6. Live \in SUBSET TokenType /\ IsFiniteSet(Live) /\ Total(Live) \in Int
    BY LiveTotal DEF ValueInv
<1> DEFINE S == Live \ {t}
<1>7. /\ S \in SUBSET TokenType /\ IsFiniteSet(S) /\ Total(S) \in Int /\ t.value \in Int
      /\ Total(Live) = Total(S) + t.value
    BY <1>5, <1>6, TotalRemove, Zenon
<1>8. r \notin S /\ Live' = S \cup {r}
    BY <1>5
<1> HIDE DEF S
<1>9. Total(Live') = Total(S) + r.value
    BY <1>7, <1>8, TotalAdd, Zenon
<1>10. Carried
    BY <1>7, <1>9 DEF Carried
<1> QED BY <1>1, <1>3, <1>4, <1>10 DEF Accounted

\* transfer: FoldOk holds for a token that verifies and needs no renewal.
LEMMA TransferValue ==
    ASSUME IInv, ValueInv, NEW t \in held, NEW online \in BOOLEAN, Transfer(t, online)
    PROVE  Accounted
<1> DEFINE r == Received(t, next, online)
<1>1. next \in Nat \ {0} /\ Good(t, next) /\ ~needs_renewal(t)
    BY Zenon DEF IInv, All, Transfer
<1>2. Good(r, next + 1) /\ r.secret = next
    BY <1>1, ReceivedGood, SMTT(30)
<1>3. r \in TokenType /\ r.value = t.value
    <2>1. t \in TokenType
        BY <1>1 DEF Good
    <2>2. r \in TokenType /\ Handed(t, next, online, r)
        BY <1>1, <2>1, ReceivedFields
    <2> QED BY <2>2, Zenon DEF Handed
<1>4. FoldOk(t)
    <2>1. t.count = t.steps /\ t.secret = OwnerAfter(t, Len(t.chain)) /\ t.count \in Nat
        BY <1>1 DEF Good, Sound, fold_valid, TokenType
    <2> QED BY <1>1, <2>1, TokensAssumption DEF FoldOk, needs_renewal
<1>5. /\ held' = (held \ {t}) \cup {r} /\ saved' = saved
      /\ compute_nullifier(t) \notin spent /\ spent' = spent \cup {compute_nullifier(t)}
      /\ next' = next + 1 /\ issued' = issued
    BY <1>4, Zenon DEF Transfer
<1>6. r.secret >= next
    BY <1>1, <1>2
<1> HIDE DEF r
<1> QED BY <1>3, <1>5, <1>6, ExchangeValue, Zenon

\* renew_token: the new token has the value of the old one.  If the signers fail,
\* there is none.
LEMMA RenewValue ==
    ASSUME IInv, ValueInv, NEW t \in held, Renew(t)
    PROVE  Accounted
<1>1. /\ saved' = saved /\ compute_nullifier(t) \notin spent
      /\ spent' = spent \cup {compute_nullifier(t)}
      /\ next' = next + 1 /\ issued' = issued
    BY Zenon DEF Renew
<1>2. next \in Nat \ {0} /\ t.value \in Nat \ {0} /\ t \in All
    BY DEF IInv, All, Good, TokenType
<1>3. CASE held' = (held \ {t}) \cup {Token(next, t.value, t.credential # NoCredential)}
    <2>1. PICK a \in BOOLEAN : a = (t.credential # NoCredential)
        BY ZenonT(40)
    <2> DEFINE r == Token(next, t.value, a)
    <2>2. Good(r, next + 1) /\ r.secret = next
        BY <1>2, TokenGood, Zenon
    <2>3. r.value = t.value
        BY Zenon DEF Token
    <2>4. held' = (held \ {t}) \cup {r}
        BY <1>3, <2>1
    <2>5. r \in TokenType /\ r.secret >= next
        BY <1>2, <2>2 DEF Good
    <2> HIDE DEF r
    <2> QED BY <1>1, <2>3, <2>4, <2>5, ExchangeValue, Zenon
<1>4. CASE held' = held \ {t}
    <2>1. All' \subseteq All
        BY <1>1, <1>4 DEF All
    <2>2. IsFiniteSet(All')
        BY <2>1, FiniteAfter DEF ValueInv
    <2>3. SpentBefore'
        BY <1>1, <1>2, SpentAfter DEF ValueInv
    <2>4. Live' \subseteq Live
        BY <1>1, <2>1 DEF Live, All, compute_nullifier
    <2> QED BY <1>1, <1>4, <2>2, <2>3, <2>4 DEF Accounted, Dropped, ValueInv
<1> QED BY <1>3, <1>4, Zenon DEF Renew

\* Mint::split: the two outputs have the value of the input together.
LEMMA SplitValue ==
    ASSUME IInv, ValueInv, NEW t \in held, NEW v \in 1..MaxValue, NEW w \in 1..MaxValue,
           Split(t, v, w)
    PROVE  Accounted
<1> DEFINE q == Token(next, v, FALSE)
           r == Token(next + 1, w, FALSE)
<1>1. /\ next \in Nat \ {0} /\ next + 1 \in Nat \ {0}
      /\ v \in Nat \ {0} /\ w \in Nat \ {0} /\ issued \in Int
    BY TokensAssumption DEF IInv, ValueInv
<1>2. /\ saved' = saved /\ compute_nullifier(t) \notin spent
      /\ spent' = spent \cup {compute_nullifier(t)}
      /\ next' = next + 2 /\ issued' = issued /\ v + w = t.value
      /\ held' = held \cup {q, r}
    BY Zenon DEF Split
<1>3. Good(q, next + 1) /\ q.secret = next /\ Good(r, next + 1 + 1) /\ r.secret = next + 1
    BY <1>1, TokenGood, ZenonT(40)
<1>4. q.value = v /\ r.value = w
    BY Zenon DEF Token
<1> HIDE DEF q, r
<1>5. q \in TokenType /\ r \in TokenType /\ q.secret >= next /\ r.secret >= next /\ q # r
    <2>1. q.secret # r.secret /\ q.secret >= next /\ r.secret >= next
        BY <1>1, <1>3
    <2> QED BY <1>3, <2>1, Zenon DEF Good
<1>6. next' \in Nat /\ next' >= next /\ t \in All /\ All' = All \cup {q, r}
    BY <1>1, <1>2 DEF All
<1>7. IsFiniteSet(All')
    BY <1>6, FiniteAfter, Zenon DEF ValueInv
<1>8. SpentBefore'
    BY <1>2, <1>6, SpentAfter, Zenon DEF ValueInv
<1>9. t \in Live /\ Live' = (Live \ {t}) \cup {q, r} /\ q \notin Live /\ r \notin Live
    <2> DEFINE New == {q, r}
    <2>1. \A p \in New : p \in TokenType /\ p.secret >= next
        BY <1>5
    <2>2. New \subseteq All' /\ All' \subseteq All \cup New /\ All \ {t} \subseteq All'
        BY <1>6
    <2> HIDE DEF New
    <2>3. t \in Live /\ Live' = (Live \ {t}) \cup New /\ Live \cap New = {}
        BY <1>2, <1>6, <2>1, <2>2, LiveAfter, Zenon DEF ValueInv
    <2> QED BY <2>3 DEF New
<1>10. Live \in SUBSET TokenType /\ IsFiniteSet(Live) /\ Total(Live) \in Int
    BY LiveTotal, Zenon DEF ValueInv
<1> DEFINE S == Live \ {t}
           U == S \cup {q}
<1>11. /\ S \in SUBSET TokenType /\ IsFiniteSet(S) /\ Total(S) \in Int /\ t.value \in Int
       /\ Total(Live) = Total(S) + t.value
    BY <1>9, <1>10, TotalRemove, ZenonT(40)
<1>12. q \notin S /\ r \notin U /\ Live' = U \cup {r}
    BY <1>5, <1>9, Zenon
<1> HIDE DEF S
<1>13. /\ U \in SUBSET TokenType /\ IsFiniteSet(U)
       /\ Total(U) = Total(S) + v
    BY <1>4, <1>5, <1>11, <1>12, TotalAdd, Zenon
<1> HIDE DEF U
<1>14. Total(Live') = Total(U) + w
    BY <1>4, <1>5, <1>12, <1>13, TotalAdd, Zenon
<1>15. Carried
    BY <1>1, <1>2, <1>11, <1>13, <1>14, SMTT(30) DEF Carried
<1> QED BY <1>1, <1>2, <1>7, <1>8, <1>15, Zenon DEF Accounted

\* Every step.
LEMMA NextValue == ASSUME IInv, ValueInv, [Next]_vars PROVE Accounted
<1>1. ASSUME NEW t \in held, TransferFails(t) PROVE Accounted
    <2>1. /\ All' \subseteq All /\ held' \subseteq held
          /\ UNCHANGED <<spent, next, issued>>
        BY <1>1 DEF TransferFails, All
    <2> QED BY <2>1, NothingMade
<1>2. ASSUME NEW t \in held, RenewFails(t) PROVE Accounted
    <2>1. /\ All' \subseteq All /\ held' \subseteq held
          /\ UNCHANGED <<spent, next, issued>>
        BY <1>2 DEF RenewFails, All
    <2> QED BY <2>1, NothingMade
<1>3. CASE Save
    <2>1. /\ All' \subseteq All /\ held' \subseteq held
          /\ UNCHANGED <<spent, next, issued>>
        BY <1>3 DEF Save, All
    <2> QED BY <2>1, NothingMade
<1>4. CASE Load
    <2>1. All' = All /\ UNCHANGED <<spent, next, issued>>
        BY <1>4 DEF Load, All
    <2> QED BY <2>1, NothingMade
<1>5. CASE Expire
    <2>1. All' = All /\ UNCHANGED <<spent, next, issued>>
        BY <1>5 DEF Expire, All
    <2> QED BY <2>1, NothingMade
<1>6. CASE UNCHANGED vars
    <2>1. All' = All /\ UNCHANGED <<spent, next, issued>>
        BY <1>6 DEF vars, All
    <2> QED BY <2>1, NothingMade
<1> QED BY Zenon, <1>1, <1>2, <1>3, <1>4, <1>5, <1>6, IssueValue, TransferValue, SplitValue,
           RenewValue DEF Next

\* What can be spent is never worth more than before, compared with what was
\* paid for.
LEMMA NextValueInv == ASSUME IInv, ValueInv, [Next]_vars PROVE ValueInv'
<1>1. Accounted /\ IInv'
    BY NextValue, NextInv
<1>2. /\ Live \in SUBSET TokenType /\ IsFiniteSet(Live)
      /\ Total(Live) \in Int /\ Total(Live) <= issued /\ issued \in Int
    BY LiveTotal DEF ValueInv
<1>3. Finite' /\ SpentBefore' /\ issued' \in Int
    BY <1>1 DEF Accounted, Finite
<1>4. Total(Live') \in Int
    <2>1. Live' \in SUBSET All' /\ All' \in SUBSET TokenType
        BY <1>1, Zenon DEF IInv, Good, Live, All
    <2>2. Summable(Worth, Live')
        BY <1>3, <2>1, FS_Subset DEF Finite, Summable, Worth, TokenType
    <2> QED BY <2>2, SumIsInt DEF Total
<1>5. CASE Carried
    BY <1>2, <1>3, <1>4, <1>5 DEF ValueInv, Carried, Total
<1>6. CASE Dropped
    <2>1. \A t \in Live : Worth[t] \in Nat
        BY <1>2, Zenon DEF Worth, TokenType
    <2>2. Live' \in SUBSET Live
        BY <1>6 DEF Dropped
    <2>3. Total(Live') <= Total(Live)
        BY <1>2, <2>1, <2>2, SumOfPart, Zenon DEF Total
    <2> QED BY <1>2, <1>3, <1>4, <1>6, <2>3 DEF ValueInv, Dropped, Total
<1> QED BY <1>1, <1>5, <1>6 DEF Accounted

\* It holds at all times.
LEMMA ValueInvHolds == Spec => [](IInv /\ ValueInv)
<1>1. Init => IInv
    BY DEF Init, IInv, All, Versions, OneOwner, Live
<1>2. Init => ValueInv
    <2> SUFFICES ASSUME Init PROVE ValueInv
        OBVIOUS
    <2>1. All = {} /\ Live = {} /\ spent = {} /\ issued = 0
        BY DEF Init, All, Live
    <2> QED BY <2>1, FS_EmptySet, SumOfNone DEF ValueInv, Finite, SpentBefore, Total
<1>3. IInv /\ ValueInv /\ [Next]_vars => (IInv /\ ValueInv)'
    BY NextInv, NextValueInv
<1> QED BY <1>1, <1>2, <1>3, PTL DEF Spec

\* No sequence of transfers, splits and renewals, with any number of loads of any
\* old wallet and errors wherever they can happen, makes more spendable value
\* than was issued for money: for every number of tokens, every value and every
\* recursion_bound.
THEOREM NoInflationHolds == Spec => []NoInflation
<1>1. IInv /\ ValueInv => NoInflation
    BY LiveTotal DEF ValueInv, NoInflation
<1> QED BY <1>1, ValueInvHolds, PTL

\* A step that puts a token into somebody's hands (issue_full, transfer, split,
\* renew_token, Wallet::load) makes exactly as much spendable as it spends or as
\* was paid.
THEOREM ValueCarriedOverHolds == Spec => ValueCarriedOver
<1>1. IInv /\ ValueInv => LiveValue = Total(Live)
    BY LiveTotal DEF ValueInv
<1>2. IInv /\ ValueInv /\ (IInv /\ ValueInv)' /\ [Next]_vars =>
        [~(held' \subseteq held) => LiveValue' - issued' = LiveValue - issued]_vars
    <2> SUFFICES ASSUME IInv, ValueInv, (IInv /\ ValueInv)', [Next]_vars,
                        ~(held' \subseteq held)
                 PROVE  LiveValue' - issued' = LiveValue - issued
        OBVIOUS
    <2>1. LiveValue' = Total(Live')
        <3>1. (IInv /\ ValueInv => LiveValue = Total(Live))'
            BY <1>1, PTL
        <3> QED BY <3>1 DEF Total
    <2>2. Carried
        BY NextValue DEF Accounted, Dropped
    <2> QED BY <1>1, <2>1, <2>2 DEF Carried
<1> QED BY <1>2, ValueInvHolds, PTL DEF Spec, ValueCarriedOver
=============================================================================
