-------------------------------- MODULE Sbt --------------------------------
(***************************************************************************)
(* The symmetric blind tokens of specter-sbt: a threshold oblivious        *)
(* pseudorandom function (oprf.rs), its proofs (proof.rs, transcript.rs)   *)
(* and the scheme that mints and spends tokens with it (scheme.rs).        *)
(*                                                                         *)
(* As in module Shamir a point is written as its scalar.  The generators   *)
(* g and h of the Pedersen commitments are independent, so g * s + h * r   *)
(* is the pair <<s, r>>.  A challenge is a scalar that depends on what is  *)
(* hashed; it never happens to be zero, and hashes of different contents   *)
(* are never taken for each other.                                         *)
(*                                                                         *)
(* Trustees answer everyone, so an evaluation that a trustee would return  *)
(* may be used in any later step; a rogue trustee multiplies by any share, *)
(* and proves it for any base, session and index.                          *)
(***************************************************************************)
EXTENDS Shamir

CONSTANTS
    Trustees,     \* the indices of the trustees, 1..n
    Rogue,        \* trustees that answer anything
    SbtThreshold, \* threshold
    Coefficients, \* what the dealer draws
    Openings,     \* pairs of a client_secret and a payload, as scalars
    Alphas,       \* the blinding factors the clients draw
    Nonces,       \* the nonces the provers draw
    Mints         \* the runs of prepare and finalize (bound)

\* Blinding factors and nonces are "re-drawn" when they are zero; no
\* commitment hashes to the identity.
ASSUME SbtAssumption ==
    /\ SbtThreshold \in 1..Cardinality(Trustees)
    /\ Trustees = 1..Cardinality(Trustees)
    /\ Rogue \subseteq Trustees
    /\ Trustees \subseteq 1..(P - 1)
    /\ Coefficients \subseteq Field
    /\ Openings \cup Alphas \cup Nonces \subseteq 1..(P - 1)

VARIABLES
    oprf_key,     \* the key and the trustees' shares of it
    scheme,       \* the SbtScheme, or NoScheme
    minting,      \* minting[m]: the state and the request of a client
    tokens,       \* the tokens that exist
    asked,        \* the <<base, session>> that trustees were asked about
    redeemed      \* the accepted spends: sequence of tokens

sbtVars == <<oprf_key, scheme, minting, tokens, asked, redeemed>>

NoScheme == [built |-> FALSE]
Idle == [phase |-> "idle"]
Finished == [phase |-> "finished"]

\* The session ids: "short" has less than MIN_SESSION_ID_LEN bytes.
Sessions == {"mint", "spend", "short"}
Long(session) == session # "short"

SbtInit ==
    /\ \E poly \in [1..SbtThreshold -> Coefficients] :
         oprf_key = [secret |-> poly[1],
                     shares |-> [i \in Trustees |-> evaluate_poly(poly, i)]]
    /\ scheme = NoScheme
    /\ minting = [m \in Mints |-> Idle]
    /\ tokens = {}
    /\ asked = {}
    /\ redeemed = <<>>

share(i) == oprf_key.shares[i]

-----------------------------------------------------------------------------

\* challenge_scalar of a transcript with these points, a scalar but zero.
challenge_scalar(a, b, t) == 1 + ((a + b + t) % (P - 1))

\* DdhEqualityProof::prove: a = x * G and b = x * H have the same x.
ddh_prove(x, base, a, b, session, index, w) ==
    LET content == [session |-> session, trustee |-> index, h |-> base,
                    a |-> a, b |-> b, t |-> w % P, t_h |-> (base * w) % P]
    IN  [content |-> content, z |-> (w + challenge_scalar(a, b, w) * x) % P]

\* Mutant: the session is not part of the transcript.
ddh_verify_any_session(proof, base, a, b, session, index) ==
    LET content == [proof.content EXCEPT !.trustee = index, !.h = base,
                                         !.a = a, !.b = b]
        c == challenge_scalar(a, b, content.t)
    IN  /\ content = proof.content
        /\ proof.z = (content.t + a * c) % P
        /\ (base * proof.z) % P = (content.t_h + b * c) % P

\* Mutant: the equation of the trustee's commit is not checked.
ddh_verify_one(proof, base, a, b, session, index) ==
    LET content == [proof.content EXCEPT !.session = session,
                        !.trustee = index, !.h = base, !.a = a, !.b = b]
        c == challenge_scalar(a, b, content.t)
    IN  /\ content = proof.content
        /\ (base * proof.z) % P = (content.t_h + b * c) % P

\* DdhEqualityProof::verify rebuilds the transcript from the statement and the
\* two nonce points of the proof.
ddh_verify(proof, base, a, b, session, index) ==
    LET content == [proof.content EXCEPT !.session = session,
                        !.trustee = index, !.h = base, !.a = a, !.b = b]
        c == challenge_scalar(a, b, content.t)
    IN  /\ 0 \notin {base, a, b, content.t, content.t_h}
        /\ content = proof.content
        /\ proof.z = (content.t + a * c) % P
        /\ (base * proof.z) % P = (content.t_h + b * c) % P

\* evaluate_server with share x and commit a.  It fails for an identity, and
\* for index 0, which no trustee has.
evaluate_server(i, x, a, base, session, w) ==
    IF 0 \in {base % P, a % P}
    THEN {}
    ELSE {[index |-> i, point |-> (base * x) % P,
           proof |-> ddh_prove(x, base, a, (base * x) % P, session, i, w)]}

\* Everything that trustees may have sent so far.  A rogue one uses any share,
\* or sends what another one has sent.
Evaluations ==
    LET honest == UNION {evaluate_server(i, share(i), share(i), q[1], q[2], w) :
                             i \in Trustees, q \in asked, w \in Nonces}
        rogue == UNION {evaluate_server(f, x, share(f), q[1], q[2], w) :
                            f \in Rogue, x \in Coefficients, q \in asked, w \in Nonces}
    IN  honest \cup rogue \cup {[e EXCEPT !.index = f] : e \in honest, f \in Rogue}

\* The answers a caller collects.
Responses == [1..SbtThreshold -> Evaluations]

\* hash_to_curve of a commitment.
hash_to_curve(c) == c[1]

\* OprfEvaluation::validate.
Valid(e) == e.index # 0 /\ e.point # 0

\* combine_evaluations; 0 stands for an error.
combine_evaluations(commits, evals, base, session) ==
    LET ids == {evals[k].index : k \in DOMAIN evals}
    IN  IF /\ Len(evals) = SbtThreshold
           /\ base # 0
           /\ Cardinality(ids) = Len(evals)
           /\ \A k \in DOMAIN evals :
                 /\ Valid(evals[k])
                 /\ evals[k].index \in DOMAIN commits
                 /\ ddh_verify(evals[k].proof, base, commits[evals[k].index],
                               evals[k].point, session, evals[k].index)
        THEN SumOver([k \in DOMAIN evals |->
                         lambda(evals[k].index, ids) * evals[k].point])
        ELSE 0

-----------------------------------------------------------------------------

\* aggregate_over_quorum.
aggregate_over_quorum(commits, ids) == reconstruct_secret(commits, ids)

\* The checks of SbtScheme::new.  expected and secret are the
\* expected_public_key and the secret_key, -1 for None.
ConfigAccepted(commits, expected, secret, session) ==
    LET agg == aggregate_over_quorum(commits, 1..SbtThreshold)
        n == Cardinality(DOMAIN commits)
    IN  /\ SbtThreshold \in 1..n
        /\ Long(session)
        /\ \A i \in DOMAIN commits : commits[i] # 0
        /\ IF n >= 2 * SbtThreshold
           THEN agg = aggregate_over_quorum(commits,
                          (SbtThreshold + 1)..(2 * SbtThreshold))
           ELSE expected # -1
        /\ agg # 0
        /\ expected \in {-1, agg}
        /\ secret \in {-1, agg}

\* SbtScheme::new, with at most one commit that is not the trustee's.  A
\* refused configuration leaves nothing behind.
SbtNew ==
    /\ scheme = NoScheme
    /\ \E i \in Trustees, y \in Field, expected, secret \in Field \cup {-1},
          session \in {"mint", "short"} :
        LET commits == [j \in Trustees |-> IF j = i THEN y ELSE share(j)]
        IN  /\ ConfigAccepted(commits, expected, secret, session)
            /\ scheme' = [built |-> TRUE, commits |-> commits,
                          session |-> session, secret_key |-> secret,
                          public_key |-> aggregate_over_quorum(commits,
                                             1..SbtThreshold)]
    /\ UNCHANGED <<oprf_key, minting, tokens, asked, redeemed>>

\* The commitment of prepare: derive_scalar is deterministic in the opening.
commitment(o) == <<o, (o + 1) % P>>

\* prepare.  The state is kept by the client, the request goes to trustees.
prepare(m) ==
    /\ scheme.built
    /\ minting[m] = Idle
    /\ \E o \in Openings, alpha \in Alphas :
        LET c == commitment(o)
            blinded == (hash_to_curve(c) * alpha) % P
        IN  /\ minting' = [minting EXCEPT ![m] =
                  [phase |-> "prepared", opening |-> o, alpha |-> alpha,
                   commitment |-> c, blinded |-> blinded]]
            /\ asked' = asked \cup {<<blinded, scheme.session>>}
    /\ UNCHANGED <<oprf_key, scheme, tokens, redeemed>>

\* TokenProof::prove, a proof of the opening of the commitment.
token_prove(c, tag, ctx, y, w) ==
    LET content == [ctx |-> ctx, y |-> y, c |-> c, p |-> hash_to_curve(c),
                    tag |-> tag, t |-> w]
        e == challenge_scalar(y, tag, w)
    IN  [content |-> content, z |-> <<(w + e * c[1]) % P, (w + e * c[2]) % P>>]

\* TokenProof::verify.
token_verify(proof, c, tag, ctx, y) ==
    LET content == [proof.content EXCEPT !.ctx = ctx, !.y = y, !.c = c,
                        !.p = hash_to_curve(c), !.tag = tag]
        e == challenge_scalar(y, tag, content.t)
    IN  /\ c # <<0, 0>>
        /\ 0 \notin {hash_to_curve(c), tag, y, content.t}
        /\ content = proof.content
        /\ \A k \in 1..2 : proof.z[k] = (content.t + e * c[k]) % P

\* The SpendToken of a client that knows the opening.
SpendToken(c, tag, w, finalized) ==
    [commitment |-> c, tag |-> tag, session |-> scheme.session,
     proof |-> token_prove(c, tag, scheme.session, scheme.public_key, w),
     finalized |-> finalized]

\* unblind.
unblind(alpha, point) == (invert(alpha) * point) % P

\* finalize consumes the state, also when it fails.  The request is the one
\* that was sent, or that of another run.
finalize(m) ==
    /\ minting[m].phase = "prepared"
    /\ \E n \in {k \in Mints : minting[k].phase = "prepared"} :
        LET st == minting[m]
            req == minting[n]
        IN  \E bk \in {combine_evaluations(scheme.commits, evals, req.blinded,
                                          scheme.session) : evals \in Responses} :
            LET tag == unblind(st.alpha, bk)
            IN \/ /\ req.commitment = st.commitment
                  /\ req.blinded = st.blinded
                  /\ tag # 0
                  /\ \E w \in Nonces : tokens' =
                        tokens \cup {SpendToken(st.commitment, tag, w, TRUE)}
               \/ /\ \/ req.commitment # st.commitment
                     \/ req.blinded # st.blinded
                     \/ tag = 0
                  /\ UNCHANGED tokens
    /\ minting' = [minting EXCEPT ![m] = Finished]
    /\ UNCHANGED <<oprf_key, scheme, asked, redeemed>>

\* A faulty client puts a token together from an opening that it knows, with
\* a tag and a proof of its own (bound: one such token).
Assemble ==
    /\ scheme.built
    /\ \A tk \in tokens : tk.finalized
    /\ \E o \in Openings, tag, claimed \in Openings \cup Coefficients,
          w \in Nonces :
        tokens' = tokens \cup
            {[SpendToken(commitment(o), tag, w, FALSE) EXCEPT !.tag = claimed]}
    /\ UNCHANGED <<oprf_key, scheme, minting, asked, redeemed>>

\* evaluate_for_spend: trustees are asked about the unblinded point of a token.
evaluate_for_spend(tk) ==
    /\ asked' = asked \cup {<<hash_to_curve(tk.commitment), "spend">>}
    /\ UNCHANGED <<oprf_key, scheme, minting, tokens, redeemed>>

\* SpendToken::validate and the session check of both verifiers.
Structural(tk) == tk.commitment # <<0, 0>> /\ tk.tag # 0 /\ Long(tk.session)

\* verify_client_proof.
verify_client_proof(tk) ==
    /\ Structural(tk)
    /\ tk.session = scheme.session
    /\ token_verify(tk.proof, tk.commitment, tk.tag, scheme.session,
                    scheme.public_key)

\* verify_tag_with_secret_key.
verify_tag_with_secret_key(tk, k) ==
    Structural(tk) /\ tk.tag = (hash_to_curve(tk.commitment) * k) % P

\* verify_token refuses every token if the scheme has no secret_key.
verify_token(tk) ==
    /\ scheme.secret_key # -1
    /\ verify_client_proof(tk)
    /\ verify_tag_with_secret_key(tk, scheme.secret_key)

\* Mutant: the combined evaluation is not compared with the tag.
verify_tag_threshold_any(tk, evals, session) ==
    /\ Structural(tk)
    /\ Long(session) /\ session # scheme.session
    /\ verify_client_proof(tk)
    /\ combine_evaluations(scheme.commits, evals, hash_to_curve(tk.commitment),
                           session) # 0

\* verify_tag_threshold.
verify_tag_threshold(tk, evals, session) ==
    /\ Structural(tk)
    /\ Long(session)
    /\ session # scheme.session
    /\ verify_client_proof(tk)
    /\ combine_evaluations(scheme.commits, evals, hash_to_curve(tk.commitment),
                           session) = tk.tag

\* SpendToken::nullifier, which hashes the tag alone.
sbt_nullifier(tk) == tk.tag

\* A spend is accepted if either verifier accepts the token and its nullifier
\* was not seen.
Redeem(tk) ==
    /\ \A k \in DOMAIN redeemed : sbt_nullifier(redeemed[k]) # sbt_nullifier(tk)
    /\ \/ verify_token(tk)
       \/ \E session \in Sessions :
            TRUE \in {verify_tag_threshold(tk, evals, session) :
                         evals \in Responses}
    /\ redeemed' = Append(redeemed, tk)
    /\ UNCHANGED <<oprf_key, scheme, minting, tokens, asked>>

SbtNext ==
    \/ SbtNew
    \/ \E m \in Mints : prepare(m) \/ finalize(m)
    \/ Assemble
    \/ \E tk \in tokens : evaluate_for_spend(tk) \/ Redeem(tk)

SbtSpec == SbtInit /\ [][SbtNext]_sbtVars

-----------------------------------------------------------------------------

\* The evaluation of the token's commitment under the shared key.
TrueTag(c) == (hash_to_curve(c) * oprf_key.secret) % P

\* A scheme that SbtScheme::new has built has the public key of the shared
\* polynomial, whichever commit of the configuration was wrong; and what
\* finalize returns is the evaluation under the shared key, whichever quorum
\* answered and whatever rogue trustees sent ("Rogue trustee share injection").
TagIsEvaluation ==
    scheme.built =>
        /\ scheme.public_key = oprf_key.secret
        /\ \A tk \in tokens : tk.finalized => tk.tag = TrueTag(tk.commitment)

\* "two mints of the same payload by the same client produce the same
\* nullifier (double-spend detection)": however often a payload is minted, with
\* whichever blinding factors and quorums, and whichever verifier accepts it,
\* it is redeemed once; and only with the tag of the shared key.
RedeemedOncePerPayload ==
    /\ \A j, k \in DOMAIN redeemed :
         redeemed[j].commitment = redeemed[k].commitment => j = k
    /\ \A k \in DOMAIN redeemed :
         redeemed[k].tag = TrueTag(redeemed[k].commitment)

\* A finalized token is accepted by every quorum of honest trustees that the
\* scheme has the commits of, under a spend session, and by verify_token exactly
\* if the scheme has the secret key; evaluations of the mint session are not
\* accepted at spend time ("to prevent cross-protocol replay of mint-time DDH
\* proofs").  (SbtScheme::new compares the first 2 * threshold commits; a wrong
\* one behind them shuts its trustee out of every quorum.)
FinalizedIsSpendable ==
    \A tk \in {t \in tokens : t.finalized} :
        /\ verify_token(tk) <=> scheme.secret_key # -1
        /\ \A ids \in Injection(1..SbtThreshold,
                               {i \in Trustees \ Rogue : scheme.commits[i] = share(i)}),
              w \in Nonces, made, session \in Sessions :
             LET evals == [k \in 1..SbtThreshold |->
                     CHOOSE e \in evaluate_server(ids[k], share(ids[k]),
                         share(ids[k]), hash_to_curve(tk.commitment), made, w) :
                             TRUE]
             IN  verify_tag_threshold(tk, evals, session)
                     <=> made = session /\ session = "spend"
=============================================================================
