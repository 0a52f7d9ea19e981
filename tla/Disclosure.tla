---------------------------- MODULE Disclosure ----------------------------
(***************************************************************************)
(* The specter-credential crate: an issuer signs a commitment to five      *)
(* attributes, a holder discloses some of them and proves knowledge of the *)
(* rest, and a verifier checks the result (verify_token calls              *)
(* verify_presentation for every token).                                   *)
(*                                                                         *)
(* The generators of the vector commitment are independent, so a point is  *)
(* its coordinates: one per attribute, and the blinding on H.  Hashes are  *)
(* injective constructors.  A response r + c * v is the triple [r, c, v]:  *)
(* c is the hash of what the prover committed to, so the sum recomputed by *)
(* the verifier equals the committed point only if the terms in c cancel   *)
(* coordinate by coordinate.  Scalars are small integers: the sums that    *)
(* occur stay far below the group order.                                   *)
(*                                                                         *)
(* The attributes of a credential are public fields, so a holder may       *)
(* present after editing them.  A presentation is damaged on its way: one  *)
(* of its parts is replaced by that of another, or its response changes    *)
(* length (the token decoder reads any count).                             *)
(***************************************************************************)
EXTENDS Integers, Sequences, FiniteSets, FiniteSetsExt

CONSTANTS
  Issuers,
  Profiles,   \* the Attributes values that occur
  Requests,   \* the disclose_indices arguments: sequences of indices
  MaxGranted,
  MaxShown

ASSUME DisclosureAssumption ==
  /\ \A a \in Profiles : a.expires_at \in Nat
  /\ Requests \subseteq Seq(Nat)

VARIABLES
  granted,     \* sequence of credentials; a credential's position is its blinding
  shown,      \* set of [credential, attributes, request, presentation]
  accepted    \* the presentation a verifier accepted last, if any

disclosureVars == <<granted, shown, accepted>>

N == 5
Indices == 0 .. N - 1

\* Every jurisdiction outside the six named ones has the same code.
jurisdiction_code(j) ==
  CASE j = "EU" -> 1 [] j = "US" -> 2 [] j = "BR" -> 3
    [] j = "UK" -> 4 [] j = "CH" -> 5 [] j = "JP" -> 6 [] OTHER -> 99

Flag(b) == IF b THEN 1 ELSE 0

to_scalars(a) ==
  [i \in Indices |->
     CASE i = 0 -> Flag(a.kyc_passed)
       [] i = 1 -> Flag(a.not_sanctioned)
       [] i = 2 -> jurisdiction_code(a.jurisdiction)
       [] i = 3 -> Flag(a.age_over_18)
       [] i = 4 -> a.expires_at]

commit_vector(scalars, blinding) == [attr |-> scalars, h |-> blinding]

\* The issuer's Schnorr signature on a commitment.
Signature(commitment, issuer_pk) == <<"sig", commitment, issuer_pk>>

verify_credential_signature(s, commitment, issuer_pk) ==
  s = Signature(commitment, issuer_pk)

issue(issuer, attributes) ==
  LET commitment == commit_vector(to_scalars(attributes), Len(granted) + 1)
  IN  [commitment |-> commitment, blinding |-> Len(granted) + 1, attributes |-> attributes,
       signature |-> Signature(commitment, issuer), issuer_pk |-> issuer]

hash_presentation_challenge(commitment, t, disclosed, issuer_pk) ==
  [commitment |-> commitment, t |-> t, disclosed |-> disclosed, issuer_pk |-> issuer_pk]

\* The place of k in a set of numbers, and the numbers in ascending order.
Place(k, S) == Cardinality({l \in S : l <= k})

Ascending(S) == [j \in 1 .. Cardinality(S) |-> CHOOSE k \in S : Place(k, S) = j]

\* The indices not disclosed; responses are in their ascending order.
Hidden(disclosed) ==
  {i \in Indices : \A k \in DOMAIN disclosed : disclosed[k][1] # i}

\* Mutant: indices out of range are kept.
valid_disclose_all(request) == request

valid_disclose(request) ==
  LET kept == Ascending({k \in DOMAIN request : request[k] < N})
  IN  [j \in DOMAIN kept |-> request[kept[j]]]

\* The prover's random scalars are named after the proof and their place in it.
create_presentation(credential, request, nonce) ==
  LET all == to_scalars(credential.attributes)
      indices == valid_disclose(request)
      disclosed == [k \in DOMAIN indices |->
                      <<indices[k], IF indices[k] < N THEN all[indices[k]] ELSE 0>>]
      hidden == Hidden(disclosed)
      random(j) == <<nonce, j>>
      t == [attr |-> [i \in hidden |-> random(Place(i, hidden))],
            h |-> random(Cardinality(hidden) + 1)]
      c == hash_presentation_challenge(credential.commitment, t, disclosed, credential.issuer_pk)
  IN  [commitment |-> credential.commitment, issuer_pk |-> credential.issuer_pk,
       signature |-> credential.signature, disclosed |-> disclosed, proof_commitment |-> t,
       proof_response |->
         Append([j \in 1 .. Cardinality(hidden) |->
                   [r |-> random(j), c |-> c, v |-> all[Ascending(hidden)[j]]]],
                [r |-> random(Cardinality(hidden) + 1), c |-> c, v |-> credential.blinding]),
       proof_challenge |-> c]

\* What is left of an attribute's coordinate once the disclosed values are taken
\* off: an index listed twice is taken off twice.
c_hidden(p, i) ==
  LET disclosed_part == [k \in DOMAIN p.disclosed |->
                           IF p.disclosed[k][1] = i THEN p.disclosed[k][2] ELSE 0]
  IN  p.commitment.attr[i] - MapThenSumSet(LAMBDA k : disclosed_part[k], DOMAIN p.disclosed)

\* Mutant: the disclosed values are hashed but never taken off the commitment.
Recomputes_hidden_only(p) ==
  LET hidden == Hidden(p.disclosed)
      c == p.proof_challenge
  IN  \A i \in hidden :
        /\ p.proof_response[Place(i, hidden)].c = c
        /\ p.proof_response[Place(i, hidden)].v = c_hidden(p, i)

\* recomputed_t equals the point hashed in the challenge: each response carries
\* that challenge and the random scalar of its generator, and its value cancels
\* what c_hidden leaves there; on a disclosed attribute nothing is left.
Recomputes(p) ==
  LET hidden == Hidden(p.disclosed)
      c == p.proof_challenge
      Cancels(response, random, rest) ==
        response.c = c /\ response.r = random /\ response.v = rest
  IN  /\ DOMAIN c.t.attr = hidden
      /\ \A i \in hidden :
           Cancels(p.proof_response[Place(i, hidden)], c.t.attr[i], c_hidden(p, i))
      /\ Cancels(p.proof_response[Cardinality(hidden) + 1], c.t.h, p.commitment.h)
      /\ \A i \in Indices \ hidden : c_hidden(p, i) = 0

\* The response is indexed without a look at its length: one that is too short
\* panics.  A longer one is read up to the blinding's place.
verify_presentation(p) ==
  IF ~ verify_credential_signature(p.signature, p.commitment, p.issuer_pk) THEN "refused"
  ELSE IF \E k \in DOMAIN p.disclosed : p.disclosed[k][1] >= N THEN "refused"
  ELSE IF Len(p.proof_response) < Cardinality(Hidden(p.disclosed)) + 1 THEN "panic"
  ELSE IF /\ Recomputes(p)
          /\ p.proof_challenge = hash_presentation_challenge(p.commitment, p.proof_challenge.t,
                                                             p.disclosed, p.issuer_pk)
       THEN "accepted" ELSE "refused"

(* --------------------------------- actions ----------------------------- *)

Grant(issuer, attributes) ==
  /\ Len(granted) < MaxGranted
  /\ granted' = Append(granted, issue(issuer, attributes))
  /\ UNCHANGED <<shown, accepted>>

\* The holder of the k-th credential presents it with the attributes it then holds.
Present(k, attributes, request) ==
  /\ Cardinality(shown) < MaxShown
  /\ shown' = shown \cup
       {[credential |-> k, attributes |-> attributes, request |-> request,
         presentation |-> create_presentation([granted[k] EXCEPT !.attributes = attributes],
                                              request, Cardinality(shown) + 1)]}
  /\ UNCHANGED <<granted, accepted>>

\* What a verifier may read: one shown, or two of them mixed in one part, or one
\* with a response dropped or added, or with a disclosed value overwritten.
Arriving ==
  LET sent == {s.presentation : s \in shown}
  IN  sent \cup
      {[p EXCEPT ![field] = q[field]] : p \in sent, q \in sent,
         field \in {"commitment", "issuer_pk", "signature", "disclosed",
                    "proof_response", "proof_challenge"}} \cup
      {[p EXCEPT !.proof_response = SubSeq(@, 1, Len(@) - 1)] : p \in sent} \cup
      {[p EXCEPT !.proof_response = Append(@, @[Len(@)])] : p \in sent} \cup
      {[p EXCEPT !.disclosed[1][2] = 1] : p \in {q \in sent : q.disclosed # <<>>}}

Verify(p) ==
  /\ verify_presentation(p) = "accepted"
  /\ accepted' = {p}
  /\ UNCHANGED <<granted, shown>>

DisclosureInit ==
  /\ granted = <<>>
  /\ shown = {}
  /\ accepted = {}

DisclosureNext ==
  \/ \E issuer \in Issuers, attributes \in Profiles : Grant(issuer, attributes)
  \/ \E k \in DOMAIN granted, attributes \in Profiles, request \in Requests :
       Present(k, attributes, request)
  \/ \E p \in Arriving \ accepted : Verify(p)

DisclosureSpec == DisclosureInit /\ [][DisclosureNext]_disclosureVars

(* -------------------------------- properties --------------------------- *)

\* Attributes::to_scalars promises that the issuer's signature binds every
\* attribute, "it cannot be modified after issuance": what an accepted presentation
\* discloses is what its issuer signed under that commitment, even if the holder
\* edited the attributes first or the parts of two presentations were mixed.  Of an
\* attribute that is listed more than once only the sum is bound.
DisclosedIsIssued ==
  \A p \in accepted : \E k \in DOMAIN granted :
    /\ granted[k].commitment = p.commitment
    /\ granted[k].issuer_pk = p.issuer_pk
    /\ \A d \in DOMAIN p.disclosed :
         LET index == p.disclosed[d][1]
             again == {e \in DOMAIN p.disclosed \ {d} : p.disclosed[e][1] = index}
         IN  again = {} => p.disclosed[d][2] = to_scalars(granted[k].attributes)[index]

\* create_presentation "silently drops" indices out of range and verify_presentation
\* refuses them: whatever a caller asks to disclose, the presentation of an unedited
\* credential verifies, as long as no index with a non-zero value is asked for twice.
PresentationVerifies ==
  \A s \in shown :
    LET scalars == to_scalars(s.attributes)
        Repeated(i) == Cardinality({k \in DOMAIN s.request : s.request[k] = i}) > 1
    IN  /\ scalars = to_scalars(granted[s.credential].attributes)
        /\ \A i \in Indices : Repeated(i) => scalars[i] = 0
        => verify_presentation(s.presentation) = "accepted"
==========================================================================
