----------------------------- MODULE Threshold -----------------------------
(***************************************************************************)
(* A threshold keyset, from the dealer or from the distributed key         *)
(* generation, and its use: threshold_blind_sign and                       *)
(* threshold_clause_blind_sign of specter-blind-sig/src/threshold.rs and   *)
(* proactive_reshare of dkg.rs.                                            *)
(*                                                                         *)
(* A challenge hash is a scalar e together with what is hashed: hashes of  *)
(* different points are never taken for each other, whatever e is.  The    *)
(* message is the same all along.                                          *)
(***************************************************************************)
EXTENDS Dkg

VARIABLES
    key,          \* the ThresholdKeyset in use
    sig           \* a signature, or None (bound: one is made)

vars == <<dkgVars, key, sig>>

ThresholdInit == Init /\ key = None /\ sig = None

Signers == DOMAIN key.shares

-----------------------------------------------------------------------------

\* dealer_keygen, which shares a random secret with split_secret.
dealer_keygen ==
    /\ key = None
    /\ commitments = [i \in Ids |-> <<>>]
    /\ \E poly \in [1..threshold -> Scalars] :
        LET y == [i \in 1..Cardinality(Ids) |-> evaluate_poly(poly, i)]
        IN  key' = [result |-> "ok", group_public |-> poly[1],
                    shares |-> y, public_shares |-> y]
    /\ UNCHANGED <<dkgVars, sig>>

\* The keysets of the participants are put together, starting from anyone's;
\* the participants are dropped.
Combine(m) ==
    /\ key = None
    /\ Complete = Honest
    /\ key' = [result |-> "ok", group_public |-> keyset[m].group_public,
               shares |-> [i \in Honest |-> keyset[i].share],
               public_shares |-> keyset[m].public_shares]
    /\ secret_poly' = [i \in Honest |-> <<>>]
    /\ commitments' = [i \in Ids |-> <<>>]
    /\ pok' = [i \in Ids |-> FALSE]
    /\ mail' = {}
    /\ received' = [i \in Honest |-> [j \in Ids |-> NoShare]]
    /\ keyset' = [i \in Honest |-> None]
    /\ UNCHANGED sig

\* Mutant: the update polynomials have a constant term.
UpdatedWithConstant(g, j) ==
    (key.shares[j] + SumOver([i \in Signers |-> evaluate_poly(g[i], j)])) % P

\* The share of j after the update polynomials g, whose first coefficient is
\* that of x.
Updated(g, j) ==
    (key.shares[j] + SumOver([i \in Signers |-> j * evaluate_poly(g[i], j)])) % P

\* Mutant: the public shares are those of before.
proactive_reshare_keeps_public ==
    /\ key.result = "ok"
    /\ \E g \in [Signers -> [1..(threshold - 1) -> Scalars]],
          subset \in SUBSET Signers :
        LET y == [j \in Signers |-> Updated(g, j)]
        IN  /\ Cardinality(subset) = Min({threshold, Cardinality(Signers)})
            /\ key' = IF reconstruct_secret(y, subset) # key.group_public
                      THEN Failed
                      ELSE [key EXCEPT !.shares = y]
    /\ UNCHANGED <<dkgVars, sig>>

\* The old keyset is consumed, also if the new shares of the signers that the
\* map happens to list first do not give the old public key.
proactive_reshare ==
    /\ key.result = "ok"
    /\ \E g \in [Signers -> [1..(threshold - 1) -> Scalars]],
          subset \in SUBSET Signers :
        LET y == [j \in Signers |-> Updated(g, j)]
        IN  /\ Cardinality(subset) = Min({threshold, Cardinality(Signers)})
            /\ key' = IF reconstruct_secret(y, subset) # key.group_public
                      THEN Failed
                      ELSE [key EXCEPT !.shares = y, !.public_shares = y]
    /\ UNCHANGED <<dkgVars, sig>>

\* Mutant: the nonces are added up.
weighted_unweighted(ids, k) == SumOver([i \in ids |-> k[i]])

\* The combination of one value per signer: of nonce commitments, and of
\* partial responses.
weighted(ids, k) == SumOver([i \in ids |-> lambda(i, ids) * k[i]])

\* The partial responses to challenge e with nonces k, combined.
response(ids, k, e) ==
    SumOver([i \in ids |-> lambda(i, ids) * (k[i] + e * key.shares[i])])

\* R' of blind_challenge, which unblind_signature computes again.
r_prime(r, alpha, beta) == (r + alpha + beta * key.group_public) % P

\* Both ways to sign ask for enough signers, each known and listed once.
MaySign(ids) ==
    /\ key.result = "ok"
    /\ sig = None
    /\ ids \subseteq Signers
    /\ Cardinality(ids) >= threshold

\* unblind_signature: the hash over r, of value e, and the response s.
unblind_signature(s, alpha, r, e) ==
    [result |-> "ok", e |-> e, hashed |-> r, s |-> (s + alpha) % P]

threshold_blind_sign(ids) ==
    /\ MaySign(ids)
    /\ \E k \in [ids -> Scalars], alpha, beta, e \in Scalars :
        LET r == r_prime(weighted(ids, k), alpha, beta)
        IN  sig' = unblind_signature(response(ids, k, e + beta), alpha, r, e)
    /\ UNCHANGED <<dkgVars, key>>

\* The challenges of clause_blind_challenge for the two nonces: the real one
\* for the chosen nonce, a decoy for the other.
clause_blind_challenge(chosen, real, decoy) ==
    [b \in {0, 1} |-> IF b = chosen THEN real ELSE decoy]

\* Every signer has two nonces; clause_unblind takes the response to the chosen
\* one.
threshold_clause_blind_sign(ids) ==
    /\ MaySign(ids)
    /\ \E k \in [{0, 1} -> [ids -> Scalars]], alpha, beta, e, decoy \in Scalars,
          chosen \in {0, 1} :
        LET r == r_prime(weighted(ids, k[chosen]), alpha, beta)
            es == clause_blind_challenge(chosen, e + beta, decoy)
            s == [b \in {0, 1} |-> response(ids, k[b], es[b])]
        IN  sig' = unblind_signature(s[chosen], alpha, r, e)
    /\ UNCHANGED <<dkgVars, key>>

Next ==
    \/ key = None /\ DkgNext /\ UNCHANGED <<key, sig>>
    \/ dealer_keygen
    \/ \E m \in Honest : Combine(m)
    \/ proactive_reshare
    \/ key.result = "ok" /\ \E ids \in SUBSET Signers :
        threshold_blind_sign(ids) \/ threshold_clause_blind_sign(ids)

Spec == ThresholdInit /\ [][Next]_vars

-----------------------------------------------------------------------------
(* Properties *)

\* The point that is recovered from a signature is the one that was hashed.
verify(pk, g) == (g.s - g.e * pk) % P = g.hashed

\* "Any t shares can reconstruct the secret": whichever way the keyset came
\* about, with faulty participants in it, and however often it was reshared,
\* every threshold of the signers has the key that group_public is for, and
\* public_shares tells the truth about everyone's share.
AnyThresholdHasKey ==
    key.result = "ok" =>
        /\ \A i \in Signers : key.public_shares[i] = key.shares[i]
        /\ \A ids \in SUBSET Signers : Cardinality(ids) >= threshold =>
            reconstruct_secret(key.shares, ids) = key.group_public

\* "Re-randomizes every participant's Shamir share without changing the group
\* public key", and its check "should never fire": proactive_reshare never
\* consumes a keyset and leaves none.
KeyIsKept ==
    [][key.result = "ok" =>
        key'.result = "ok" /\ key'.group_public = key.group_public]_vars

\* "A blind signature verifiable against the group public key": verify finds
\* the hashed point again from s and e, whoever signed, also after a reshare.
SignatureVerifies ==
    sig # None => verify(key.group_public, sig)
=============================================================================
