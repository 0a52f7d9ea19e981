------------------------------- MODULE MCMint -------------------------------
(***************************************************************************)
(* A mint, for TLC: its key, which several signers make and use, and the   *)
(* attestation of the guests that they run in.  They share no state: a     *)
(* behaviour is one of a single part, chosen at the start, while the other *)
(* stays as it is, so that their states add up.                            *)
(***************************************************************************)
EXTENDS Threshold, Tee, TLC

CONSTANTS g, h, k, l

VARIABLE part

\* A guest with all certificates, one on another chip whose table holds a VLEK,
\* and two without SEV-SNP that have that one's key.
Guest(pk, provider, chip, measurement, table) ==
    [pk |-> pk, provider |-> provider, chip |-> chip,
     measurement |-> measurement, table |-> table]
Machines ==
    g :> Guest(1, "snp", "c1", "m", "full") @@ h :> Guest(2, "snp", "c2", "n", "vlek")
        @@ k :> Guest(2, "mock", "c2", "n", "none") @@ l :> Guest(2, "null", "c2", "n", "none")
Lines == [c1 |-> "milan", c2 |-> "genoa"]

\* The policy asks for the tee and microcode of the second version; the first is
\* above that floor as a number.
Tcb(bootloader, tee, snp, microcode) ==
    [bootloader |-> bootloader, tee |-> tee, snp |-> snp, microcode |-> microcode]
Levels == {Tcb(1, 0, 0, 0), Tcb(1, 1, 0, 1)}
Strict ==
    [min_tcb |-> Tcb(0, 1, 0, 1), allowed_measurements |-> {"m"}, max_vmpl |-> 0]
Checkers ==
    {[provider |-> "snp", policy |-> Strict], [provider |-> "portable", policy |-> permissive],
     [provider |-> "mock", policy |-> Strict]}

mintVars == <<part, vars, teeVars>>

MintInit == part \in {"threshold", "tee"} /\ ThresholdInit /\ TeeInit

MintNext ==
    /\ UNCHANGED part
    /\ \/ part = "threshold" /\ Next /\ UNCHANGED teeVars
       \/ part = "tee" /\ TeeNext /\ UNCHANGED vars

MintSpec == MintInit /\ [][MintNext]_mintVars
=============================================================================
