---------------------------- MODULE Attestation ----------------------------
(***************************************************************************)
(* The attestation chains of specter-net/src/attestation.rs, by which      *)
(* devices that are offline find out that a token was spent twice.         *)
(*                                                                         *)
(* A chain goes with the token: the holder adds an attestation and gives   *)
(* the token and the chain to the receiver.  A cheater keeps the token and *)
(* gives it away again, and changes chains that it passes on.  A hash is   *)
(* what is hashed; a signature is the key that made it and what it signs.  *)
(* Everyone has one key and gives its hash as sender_hash.                 *)
(***************************************************************************)
EXTENDS Integers, Sequences, FiniteSets

CONSTANTS
    Devices,      \* the parties
    Cheaters,     \* those that do not follow the protocol
    Coins,        \* tokens, with their first owners
    MaxWitnesses, \* bound: the length of a chain
    MaxCopies     \* bound: the chains that exist

ASSUME AttestationAssumption ==
    /\ Cheaters \subseteq Devices
    /\ \A c \in Coins : c.owner \in Devices
    /\ MaxWitnesses \in Nat /\ MaxCopies \in Nat

VARIABLES
    copies,       \* <<d, chain>>: d holds the token with this chain
    given         \* the attestations that were signed

attestationVars == <<copies, given>>

NoHash == <<>>

AttestationInit ==
    /\ copies = {<<c.owner, [token_id |-> c, attestations |-> <<>>]>> : c \in Coins}
    /\ given = {}

-----------------------------------------------------------------------------

\* Attestation::compute_hash.
compute_hash(token_id, sender_hash, sender_pubkey, receiver_hash, position, prev) ==
    <<token_id, sender_hash, sender_pubkey, receiver_hash, position, prev>>

\* Attestation::new_signed, with the key of the sender.
new_signed(coin, sender, receiver, position, prev) ==
    LET hash == compute_hash(coin, sender, sender, receiver, position, prev)
    IN  [token_id |-> coin, sender_hash |-> sender, sender_pubkey |-> sender,
         receiver_hash |-> receiver, chain_position |-> position,
         prev_hash |-> prev, hash |-> hash, signature |-> <<sender, hash>>]

\* Attestation::verify_signature.
verify_signature(a) ==
    /\ a.hash = compute_hash(a.token_id, a.sender_hash, a.sender_pubkey,
                             a.receiver_hash, a.chain_position, a.prev_hash)
    /\ a.signature = <<a.sender_pubkey, a.hash>>

\* AttestationChain::add_transfer.
add_transfer(chain, sender, receiver) ==
    LET n == Len(chain.attestations)
        prev == IF n = 0 THEN NoHash ELSE chain.attestations[n].hash
    IN  [chain EXCEPT !.attestations =
            Append(@, new_signed(chain.token_id, sender, receiver, n, prev))]

\* Mutant: the link to the attestation before is not checked.
verify_integrity_unlinked(chain) ==
    \A i \in 1..Len(chain.attestations) :
        LET a == chain.attestations[i]
        IN  /\ a.chain_position = i - 1
            /\ a.token_id = chain.token_id
            /\ verify_signature(a)

\* AttestationChain::verify_integrity.
verify_integrity(chain) ==
    \A i \in 1..Len(chain.attestations) :
        LET a == chain.attestations[i]
        IN  /\ a.chain_position = i - 1
            /\ a.prev_hash = IF i = 1 THEN NoHash
                             ELSE chain.attestations[i - 1].hash
            /\ a.token_id = chain.token_id
            /\ verify_signature(a)

\* detect_double_spend.
detect_double_spend(x, y) ==
    LET both == 1..(IF Len(x.attestations) <= Len(y.attestations)
                    THEN Len(x.attestations) ELSE Len(y.attestations))
        differ == {i \in both : x.attestations[i].hash # y.attestations[i].hash}
    IN  IF x.token_id # y.token_id THEN [result |-> "different_tokens"]
        ELSE IF differ = {} THEN [result |-> "consistent"]
        ELSE LET i == CHOOSE k \in differ : \A j \in differ : k <= j
             IN  [result |-> "conflict", position |-> i - 1,
                  cheater |-> x.attestations[i].sender_hash]

-----------------------------------------------------------------------------

\* A holder gives the token away.  Only a cheater still has it afterwards, and
\* only a cheater signs when it was given the same chain a second time: nothing
\* in the chain tells the second copy from the first.  The receiver takes a
\* chain that verifies.
Give(d, chain, e) ==
    LET longer == add_transfer(chain, d, e)
        added == longer.attestations[Len(longer.attestations)]
    IN  /\ <<d, chain>> \in copies
        /\ e # d
        /\ d \in Cheaters \/ \A a \in given :
                ~(a.sender_pubkey = d /\ a.token_id = chain.token_id
                  /\ a.prev_hash = added.prev_hash)
        /\ Len(chain.attestations) < MaxWitnesses
        /\ Cardinality(copies) < MaxCopies
        /\ verify_integrity(longer)
        /\ copies' = (IF d \in Cheaters THEN copies ELSE copies \ {<<d, chain>>})
                     \cup {<<e, longer>>}
        /\ given' = given \cup {added}

\* A cheater makes a chain of its own from attestations that it has seen: it
\* leaves some out, takes them from another chain or changes the receiver of
\* one, and shows it as a chain of which it is the holder.  It is kept if it
\* verifies.
Rearrange(d, chain) ==
    /\ d \in Cheaters
    /\ <<d, chain>> \in copies
    /\ Cardinality(copies) < MaxCopies
    /\ \E i \in 1..Len(chain.attestations) :
        \E a \in {b \in given : b.receiver_hash = d} \cup
                 {[chain.attestations[i] EXCEPT !.receiver_hash = d]} :
            LET changed == [chain EXCEPT !.attestations =
                                Append(SubSeq(@, 1, i - 1), a)]
            IN  /\ verify_integrity(changed)
                /\ copies' = copies \cup {<<d, changed>>}
    /\ UNCHANGED given

AttestationNext ==
    \E copy \in copies :
        \/ \E e \in Devices : Give(copy[1], copy[2], e)
        \/ Rearrange(copy[1], copy[2])

AttestationSpec == AttestationInit /\ [][AttestationNext]_attestationVars

-----------------------------------------------------------------------------

\* The histories of x and y agree as far as both go.
SameHistory(x, y) ==
    \A i \in DOMAIN x.attestations \cap DOMAIN y.attestations :
        x.attestations[i] = y.attestations[i]

\* Two chains of a token are in conflict exactly if neither continues the
\* other, and whoever detect_double_spend names has signed two different
\* transfers at that position, so that the two attestations are a "blame
\* proof"; a device that follows the protocol is never named.  It does not
\* matter which chain is given first.
ConflictNamesTheCheater ==
    \A c1, c2 \in copies :
        LET x == c1[2]
            y == c2[2]
            r == detect_double_spend(x, y)
        IN  x.token_id = y.token_id =>
            /\ r.result = "conflict" <=> ~SameHistory(x, y)
            /\ r.result = "conflict" =>
                 /\ r.cheater \in Cheaters
                 /\ r = detect_double_spend(y, x)
                 /\ \E a, b \in given :
                      /\ a.hash # b.hash
                      /\ a.token_id = b.token_id
                      /\ {a.signature[1], b.signature[1]} = {r.cheater}
                      /\ a.chain_position = r.position
                      /\ b.chain_position = r.position
=============================================================================
