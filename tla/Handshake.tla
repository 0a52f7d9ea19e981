----------------------------- MODULE Handshake -----------------------------
(***************************************************************************)
(* The channel over which the command line sends a token: the handshake    *)
(* authenticated_handshake of specter-cli/src/main.rs, its post-quantum    *)
(* variant hybrid_authenticated_handshake, and the encrypted frame that    *)
(* cmd_send writes and cmd_receive reads after it.                         *)
(*                                                                         *)
(* A session is one call of the handshake; it draws one ephemeral key, and *)
(* so stands for it.  A Diffie-Hellman secret is the set of the two        *)
(* sessions, a hash is what is hashed, and a signature is who signed what. *)
(* An encapsulation to the key of session i by session r is <<i, r>>.  A   *)
(* session does not know whom it is connected to: a read may return what   *)
(* any other session wrote, and it may time out.  Wallets are not part of  *)
(* this module.                                                            *)
(***************************************************************************)
EXTENDS Integers, FiniteSets

CONSTANTS
    Sessions,     \* calls of the handshake
    Initiators,   \* those by cmd_send; the others are by cmd_receive
    Identity,     \* Identity[s]: the long-term key of the caller of s
    Expected,     \* Expected[s]: expected_peer_pk, or Anyone
    Anyone        \* no expected_peer_pk

ASSUME HandshakeAssumption ==
    /\ Initiators \subseteq Sessions
    /\ Identity \in [Sessions -> Nat]
    /\ Anyone \notin Nat
    /\ Expected \in [Initiators -> Nat \cup {Anyone}]

VARIABLES
    hybrid,       \* whether pq-handshake is compiled in; it is not negotiated
    pc,           \* pc[s]: "start", "hello" (waits for a hello), "sig" (waits
                  \* for a signature), "done", "sent" or "received" (a token),
                  \* "failed"
    heard,        \* heard[s]: the session whose hello s has read, or s itself
                  \* if none yet
    kem,          \* kem[s]: the shared secret of the post-quantum leg
    hellos,       \* <<s, c>>: the hello of s, with an encapsulation key
                  \* (c = <<s>>) or a ciphertext (c = <<i, s>>)
    sigs,         \* <<s, t>>: the signature of s on transcript t
    frames        \* <<s, k>>: a token that s encrypted under key k

vars == <<hybrid, pc, heard, kem, hellos, sigs, frames>>

Init ==
    /\ hybrid \in BOOLEAN
    /\ pc = [s \in Sessions |-> IF s \in Initiators THEN "start" ELSE "hello"]
    /\ heard = [s \in Sessions |-> s]
    /\ kem = [s \in Sessions |-> <<>>]
    /\ hellos = {} /\ sigs = {} /\ frames = {}

-----------------------------------------------------------------------------
(* What is computed *)

\* Mutant: each side puts itself first.
OrderedBySide(s, t) ==
    <<Identity[s], Identity[t], s, t>>

\* Both identities and both ephemerals, sorted by identity.
Ordered(s, t) ==
    IF Identity[s] < Identity[t] THEN <<Identity[s], Identity[t], s, t>>
                                 ELSE <<Identity[t], Identity[s], t, s>>

\* transcript_msg of session s, when it has read the hello of t and k is the
\* secret of the post-quantum leg.
transcript_msg(s, t, k) == <<Ordered(s, t), {s, t}, k>>

Transcript(s) == transcript_msg(s, heard[s], kem[s])

\* Mutant: the key is that of the two identities.
session_key_static(s) == {Identity[s], Identity[heard[s]]}

\* session_key: the shared secrets and the transcript.
session_key(s) == <<{s, heard[s]}, kem[s], Transcript(s)>>

\* The post-quantum secret that initiator s decapsulates from ciphertext c; one
\* for another key gives a secret that nobody else has.
decapsulate(s, c) == IF c[1] = s THEN c ELSE <<c[1], c[2], s>>

sign(s, t) == <<s, t>>

encrypt_with_key(s, k) == <<s, k>>

\* Whether f decrypts under k.
decrypt_with_key(f, k) == f[2] = k

-----------------------------------------------------------------------------
(* Steps *)

\* The initiator writes first.
WriteHello(s) ==
    /\ pc[s] = "start"
    /\ pc' = [pc EXCEPT ![s] = "hello"]
    /\ hellos' = hellos \cup {<<s, IF hybrid THEN <<s>> ELSE <<>>>>}
    /\ UNCHANGED <<hybrid, heard, kem, sigs, frames>>

\* The check of expected_peer_pk; cmd_receive passes none.
IsExpected(s, t) ==
    s \in Initiators /\ Expected[s] # Anyone => Identity[t] = Expected[s]

\* The initiator reads a hello, compares the identity, and signs.  A ciphertext
\* is shorter than an encapsulation key, so each role reads its own kind.
InitiatorReads(s, t, c) ==
    /\ s \in Initiators
    /\ pc[s] = "hello"
    /\ s # t /\ <<t, c>> \in hellos
    /\ hybrid => Cardinality(DOMAIN c) = 2
    /\ heard' = [heard EXCEPT ![s] = t]
    /\ kem' = [kem EXCEPT ![s] = IF hybrid THEN decapsulate(s, c) ELSE <<>>]
    /\ IF IsExpected(s, t)
       THEN /\ pc' = [pc EXCEPT ![s] = "sig"]
            /\ sigs' = sigs \cup {sign(s, transcript_msg(s, t, kem'[s]))}
       ELSE /\ pc' = [pc EXCEPT ![s] = "failed"]
            /\ UNCHANGED sigs
    /\ UNCHANGED <<hybrid, hellos, frames>>

\* The responder reads a hello and writes its own.
ResponderReads(s, t, c) ==
    /\ s \notin Initiators
    /\ pc[s] = "hello"
    /\ s # t /\ <<t, c>> \in hellos
    /\ hybrid => Cardinality(DOMAIN c) = 1
    /\ heard' = [heard EXCEPT ![s] = t]
    /\ kem' = [kem EXCEPT ![s] = IF hybrid THEN <<t, s>> ELSE <<>>]
    /\ hellos' = hellos \cup {<<s, IF hybrid THEN <<t, s>> ELSE <<>>>>}
    /\ pc' = [pc EXCEPT ![s] = "sig"]
    /\ UNCHANGED <<hybrid, sigs, frames>>

\* Mutant: any signature by the peer's identity will do.
VerifiesAny(s, g) == Identity[g[1]] = Identity[heard[s]]

\* The signature is by the identity in the hello and on the own transcript.
Verifies(s, g) == Identity[g[1]] = Identity[heard[s]] /\ g[2] = Transcript(s)

\* A signature is read and verified.  The responder writes its own before it
\* verifies the one it has read.
ReadSig(s, g) ==
    /\ pc[s] = "sig"
    /\ g \in sigs /\ g[1] # s
    /\ sigs' = sigs \cup (IF s \in Initiators THEN {} ELSE {sign(s, Transcript(s))})
    /\ pc' = [pc EXCEPT ![s] = IF Verifies(s, g) THEN "done" ELSE "failed"]
    /\ UNCHANGED <<hybrid, heard, kem, hellos, frames>>

\* cmd_send writes the token under the session key.
SendToken(s) ==
    /\ s \in Initiators
    /\ pc[s] = "done"
    /\ frames' = frames \cup {encrypt_with_key(s, session_key(s))}
    /\ pc' = [pc EXCEPT ![s] = "sent"]
    /\ UNCHANGED <<hybrid, heard, kem, hellos, sigs>>

\* cmd_receive decrypts what it reads, or gives up.
ReceiveToken(s, f) ==
    /\ s \notin Initiators
    /\ pc[s] = "done"
    /\ f \in frames
    /\ pc' = [pc EXCEPT ![s] =
                IF decrypt_with_key(f, session_key(s)) THEN "received" ELSE "failed"]
    /\ UNCHANGED <<hybrid, heard, kem, hellos, sigs, frames>>

\* A read or write times out, or the connection breaks.
Timeout(s) ==
    /\ pc[s] \in {"start", "hello", "sig", "done"}
    /\ pc' = [pc EXCEPT ![s] = "failed"]
    /\ UNCHANGED <<hybrid, heard, kem, hellos, sigs, frames>>

Next ==
    \E s \in Sessions :
        \/ WriteHello(s) \/ SendToken(s) \/ Timeout(s)
        \/ \E h \in hellos :
            InitiatorReads(s, h[1], h[2]) \/ ResponderReads(s, h[1], h[2])
        \/ \E g \in sigs : ReadSig(s, g)
        \/ \E f \in frames : ReceiveToken(s, f)

Spec == Init /\ [][Next]_vars

-----------------------------------------------------------------------------
(* Properties *)

Completed(s) == pc[s] \in {"done", "sent", "received"}

\* A session that completes has a peer with the identity it was shown, and the
\* expected one if there is one: a session that has read the very hello that it
\* sent, and has the same key.
MatchingPeer ==
    \A s \in Sessions : Completed(s) =>
        LET t == heard[s]
        IN  /\ s \in Initiators => Expected[s] \in {Anyone, Identity[t]}
            /\ heard[t] = s
            /\ session_key(t) = session_key(s)

\* A token that is decrypted was sent by the session whose hello was read, and
\* one that is sent is decrypted by one session at most.
TokenFromPeer ==
    \A s \in Sessions : pc[s] = "received" =>
        /\ <<heard[s], session_key(s)>> \in frames
        /\ \A t \in Sessions : pc[t] = "received" /\ heard[t] = heard[s] => t = s

\* "both sides compute the same transcript regardless of initiator role": if
\* two sessions of different identities have read each other's hello, neither
\* refuses the other's signature.
SameTranscript ==
    \A s, t \in Sessions :
        heard[s] = t /\ heard[t] = s /\ Identity[s] # Identity[t] =>
            Transcript(s) = Transcript(t)
=============================================================================
