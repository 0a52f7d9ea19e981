-------------------------------- MODULE Dkg --------------------------------
(***************************************************************************)
(* The three rounds of the distributed key generation of                   *)
(* specter-blind-sig/src/dkg.rs, run by participants that exchange         *)
(* messages, as the functions dkg_round1, dkg_round2 and dkg_round3 are    *)
(* meant to be (run_dkg calls them for all participants in one process).   *)
(*                                                                         *)
(* Commitments are broadcast, and everyone sees the same ones.  Shares are *)
(* sent to one participant each; they may be lost or come late.  A faulty  *)
(* participant broadcasts commitments of any length, with or without a     *)
(* proof of knowledge that verifies, and sends any shares.  (No commitment *)
(* vector is empty: verify_pok is given its first element.)                *)
(***************************************************************************)
EXTENDS Shamir

CONSTANTS
    Ids,          \* participant_ids
    Faulty,       \* participants that do anything
    threshold,
    Scalars,      \* what random_scalar returns
    Early         \* whether round 3 is called before all shares have come

Honest == Ids \ Faulty

\* run_dkg refuses other parameters.  An id is the x-coordinate of a share,
\* "must be nonzero".
ASSUME DkgAssumption ==
    /\ threshold \in 1..Cardinality(Ids)
    /\ Ids \subseteq 1..(P - 1)
    /\ Faulty \subseteq Ids
    /\ Scalars \subseteq Field
    /\ Early \in BOOLEAN

NoShare == -1
None == [result |-> "none"]
Failed == [result |-> "error"]

VARIABLES
    secret_poly,  \* secret_poly[i]: the coefficients of an honest participant
    commitments,  \* commitments[i]: what i has broadcast, or <<>>
    pok,          \* pok[i]: whether its proof of knowledge verifies
    mail,         \* <<j, i, y>>: j has sent share y to i
    received,     \* received[i][j]: the share of j that i has, or NoShare
    keyset        \* keyset[i]: what round 3 has returned to i

dkgVars == <<secret_poly, commitments, pok, mail, received, keyset>>

Init ==
    /\ secret_poly = [i \in Honest |-> <<>>]
    /\ commitments = [i \in Ids |-> <<>>]
    /\ pok = [i \in Ids |-> FALSE]
    /\ mail = {}
    /\ received = [i \in Honest |-> [j \in Ids |-> NoShare]]
    /\ keyset = [i \in Honest |-> None]

-----------------------------------------------------------------------------

\* threshold random coefficients, their commitments, and the proof of knowledge.
dkg_round1(i) ==
    /\ commitments[i] = <<>>
    /\ \E poly \in [1..threshold -> Scalars] :
        /\ secret_poly' = [secret_poly EXCEPT ![i] = poly]
        /\ commitments' = [commitments EXCEPT ![i] = poly]
    /\ pok' = [pok EXCEPT ![i] = TRUE]
    /\ UNCHANGED <<mail, received, keyset>>

\* A faulty participant's round 1.
FaultyRound1(f) ==
    /\ commitments[f] = <<>>
    /\ \E n \in 1..(threshold + 1) : \E c \in [1..n -> Scalars] :
        commitments' = [commitments EXCEPT ![f] = c]
    /\ \E b \in BOOLEAN : pok' = [pok EXCEPT ![f] = b]
    /\ UNCHANGED <<secret_poly, mail, received, keyset>>

\* Mutant: a participant gets the share of the one behind it.
dkg_round2_shifted(i) ==
    /\ commitments[i] # <<>>
    /\ mail' = mail \cup {<<i, j, evaluate_poly(secret_poly[i], j + 1)>> :
                          j \in Honest \ {i}}
    /\ UNCHANGED <<secret_poly, commitments, pok, received, keyset>>

\* The share for each other participant j is the polynomial at j.  (What is
\* sent to a faulty participant has no effect.)
dkg_round2(i) ==
    /\ commitments[i] # <<>>
    /\ mail' = mail \cup {<<i, j, evaluate_poly(secret_poly[i], j)>> :
                          j \in Honest \ {i}}
    /\ UNCHANGED <<secret_poly, commitments, pok, received, keyset>>

\* Participant i gets a share from j.
Deliver(i, j, y) ==
    /\ <<j, i, y>> \in mail \/ j \in Faulty
    /\ keyset[i] = None
    /\ received[i][j] = NoShare
    /\ received' = [received EXCEPT ![i][j] = y]
    /\ UNCHANGED <<secret_poly, commitments, pok, mail, keyset>>

verify_pok(j) == pok[j]

Senders(i) == {j \in Ids : received[i][j] # NoShare}

\* The checks of one sender's commitments and share.
ShareVerifies(i, j) ==
    /\ Len(commitments[j]) = threshold
    /\ received[i][j] = evaluate_poly(commitments[j], i)

Verified(i) ==
    /\ \A j \in Ids : verify_pok(j)
    /\ \A j \in Senders(i) : ShareVerifies(i, j)

\* The key share: the own share of the own polynomial and the received ones.
total_share(i) ==
    (evaluate_poly(secret_poly[i], i)
        + SumOver([j \in Senders(i) |-> received[i][j]])) % P

group_public == SumOver([j \in Ids |-> commitments[j][1]])

\* The public key share of i, from everyone's commitments.
public_share(i) == SumOver([j \in Ids |-> evaluate_poly(commitments[j], i)])

dkg_round3(i) ==
    /\ keyset[i] = None
    /\ \A j \in Ids : commitments[j] # <<>>
    /\ Early \/ Senders(i) = Ids \ {i}
    /\ keyset' = [keyset EXCEPT ![i] =
        IF ~Verified(i) THEN Failed
        ELSE [result |-> "ok",
              group_public |-> group_public,
              share |-> total_share(i),
              public_shares |-> [j \in Ids |->
                  IF j = i THEN total_share(i) ELSE public_share(j)]]]
    /\ UNCHANGED <<secret_poly, commitments, pok, mail, received>>

DkgNext ==
    \/ \E i \in Honest :
        \/ dkg_round1(i) \/ dkg_round2(i) \/ dkg_round3(i)
        \/ \E j \in Ids \ {i}, y \in Field : Deliver(i, j, y)
    \/ \E f \in Faulty : FaultyRound1(f)

DkgSpec == Init /\ [][DkgNext]_dkgVars

-----------------------------------------------------------------------------
(* Properties *)

Complete == {i \in Honest : keyset[i].result = "ok"}

\* "Final share: y_i = sum(s_{j->i}) for all j (including self)": the share in
\* a keyset that round 3 returns is the one that everyone else computes the
\* public key share of from the commitments.
FinalShareIsSum ==
    \A i \in Complete, k \in Complete :
        keyset[k].public_shares[i] = keyset[i].share

\* Round 3 refuses only because of what a faulty participant did: what honest
\* ones broadcast in round 1 and send in round 2 is verified by everyone.
HonestNotBlamed ==
    \A i \in Honest : keyset[i].result = "error" =>
        \E f \in Faulty : ~verify_pok(f) \/ ~ShareVerifies(i, f)
=============================================================================
