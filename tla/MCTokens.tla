------------------------------ MODULE MCTokens ------------------------------
(***************************************************************************)
(* What a token is made of, for TLC: tokens and wallets, the selective     *)
(* disclosure of a credential and symmetric blind tokens.  They share no   *)
(* state: a behaviour is one of a single part, chosen at the start, while  *)
(* the others stay as they are, so that the states of the parts add up.    *)
(***************************************************************************)
EXTENDS Tokens, Disclosure, Sbt, TLC

VARIABLE part

\* Attributes that differ in a flag, in the jurisdiction and in the expiry, and two
\* that differ in the expiry alone: one is twice the other.
Attribute(kyc, place, expiry) ==
    [kyc_passed |-> kyc, not_sanctioned |-> TRUE, jurisdiction |-> place,
     age_over_18 |-> TRUE, expires_at |-> expiry]
People ==
    {Attribute(FALSE, "EU", 1), Attribute(TRUE, "AR", 2), Attribute(FALSE, "EU", 2)}

\* Nothing, two attributes out of order, a flag and the expiry twice, and one that
\* is not there.
Asked == {<<>>, <<4, 2>>, <<0, 0>>, <<4, 4>>, <<1, 7>>}

tokenVars == <<part, vars, disclosureVars, sbtVars>>

TokensInit ==
    /\ part \in {"tokens", "disclosure", "sbt"}
    /\ Init /\ DisclosureInit /\ SbtInit

TokensNext ==
    /\ UNCHANGED part
    /\ \/ part = "tokens" /\ Next /\ UNCHANGED <<disclosureVars, sbtVars>>
       \/ part = "disclosure" /\ DisclosureNext /\ UNCHANGED <<vars, sbtVars>>
       \/ part = "sbt" /\ SbtNext /\ UNCHANGED <<vars, disclosureVars>>

TokensSpec == TokensInit /\ [][TokensNext]_tokenVars

Symmetry == Permutations(Mints)
=============================================================================
