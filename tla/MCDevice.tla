------------------------------ MODULE MCDevice ------------------------------
(***************************************************************************)
(* What runs on a device, for TLC: the handshake, the wallet file of       *)
(* specter-cli, the token format and attestation chains.  They share no    *)
(* state: a behaviour is one of a single part, chosen at the start, while  *)
(* the others stay as they are, so that the states of the parts add up.    *)
(***************************************************************************)
EXTENDS Handshake, Cli, TokenWire, Attestation, TLC

CONSTANTS i1, i2, r1, r2, r3

VARIABLE part

\* Two identities send and receive at a time and a third receives; the first
\* expects the second.
Identities == i1 :> 1 @@ i2 :> 2 @@ r1 :> 1 @@ r2 :> 2 @@ r3 :> 3
Expecting == i1 :> 2 @@ i2 :> Anyone

\* Jurisdictions of lengths around LenMod; "/" is refused when it is read.
Codes == {<<>>, <<"-">>, <<"-", "-">>, <<"-", "/">>, <<"-", "-", "-", "-">>}

\* One coin starts with an honest device, the other with the cheater.
FirstOwners == {[id |-> 1, owner |-> 1], [id |-> 2, owner |-> 2]}

deviceVars == <<part, vars, cliVars, wireVars, attestationVars>>

\* What is not the part that was chosen starts in one way.
SomeToken == CHOOSE t \in WireTokens : TRUE

DeviceInit ==
    /\ part \in {"handshake", "cli", "wire", "attestation"}
    /\ AttestationInit
    /\ Init /\ (part = "handshake" \/ ~hybrid)
    /\ CliInit /\ (part = "cli" \/ persistent)
    /\ WireInit /\ (part = "wire" \/ original = SomeToken)

DeviceNext ==
    /\ UNCHANGED part
    /\ \/ /\ part = "handshake" /\ Next
          /\ UNCHANGED <<cliVars, wireVars, attestationVars>>
       \/ /\ part = "cli" /\ CliNext
          /\ UNCHANGED <<vars, wireVars, attestationVars>>
       \/ /\ part = "wire" /\ WireNext
          /\ UNCHANGED <<vars, cliVars, attestationVars>>
       \/ /\ part = "attestation" /\ AttestationNext
          /\ UNCHANGED <<vars, cliVars, wireVars>>

DeviceSpec == DeviceInit /\ [][DeviceNext]_deviceVars

Symmetry == Permutations(Users) \cup Permutations(Processes)
=============================================================================
