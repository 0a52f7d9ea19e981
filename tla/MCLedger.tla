------------------------------ MODULE MCLedger ------------------------------
(***************************************************************************)
(* The two ledgers, for TLC: the validators' log of nullifiers and the     *)
(* registry of bonds.  They share no state: a behaviour is one of a single *)
(* part, chosen at the start, while the other stays as it is, so that      *)
(* their states add up.                                                    *)
(***************************************************************************)
EXTENDS Consensus, Bonds, TLC

VARIABLE part

ledgerVars == <<part, vars, bondsVars>>

LedgerInit == part \in {"consensus", "bonds"} /\ Init /\ BondsInit

LedgerNext ==
    /\ UNCHANGED part
    /\ \/ part = "consensus" /\ Next /\ UNCHANGED bondsVars
       \/ part = "bonds" /\ BondsNext /\ UNCHANGED vars

LedgerSpec == LedgerInit /\ [][LedgerNext]_ledgerVars

Symmetry == Permutations(Owners)
=============================================================================
