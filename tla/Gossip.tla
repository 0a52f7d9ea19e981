------------------------------- MODULE Gossip -------------------------------
(***************************************************************************)
(* Propagation of nullifiers between nodes: GossipProtocol of              *)
(* specter-net/src/gossip.rs, one per node, as NetworkNode of node.rs      *)
(* calls it.                                                               *)
(*                                                                         *)
(* A message names its sender and carries a signature, which is modelled   *)
(* by the node whose key made it; verification compares the two.  What     *)
(* moves drained messages between nodes is outside the code: a link may    *)
(* lose, duplicate and reorder what is on it.                              *)
(***************************************************************************)
EXTENDS Integers, Sequences, FiniteSets

CONSTANTS
    Nodes,        \* node ids; all of them are in validator_keys
    Links,        \* the set of <<v, p>> such that p is a peer of v
    Nobody,       \* the maker of a signature that no node made
    Nullifiers,   \* nullifiers
    Submissions,  \* the <<v, n>> such that n may be submitted at node v
    MaxOutbox,    \* MAX_OUTBOX_PER_PEER
    MaxKnown,     \* MAX_KNOWN_NULLIFIERS
    Env,          \* what links do: "lose", "duplicate"
    Forgeries     \* the <<l, n>> such that a message with nullifier n that no
                  \* node signed may turn up on link l

ASSUME GossipAssumption ==
    /\ Links \subseteq Nodes \X Nodes
    /\ Nobody \notin Nodes
    /\ Submissions \subseteq Nodes \X Nullifiers
    /\ MaxOutbox \in Nat
    /\ MaxKnown \in Nat
    /\ Env \subseteq {"lose", "duplicate"}
    /\ Forgeries \subseteq Links \X Nullifiers

VARIABLES
    seen,         \* seen[v]: seen_nullifiers
    outbox,       \* outbox[<<v, p>>]: messages queued at v for its peer p
    wire,         \* wire[<<v, p>>]: messages on the link, a set
    submitted,    \* history: the <<v, n>> with n submitted at v
    dropped       \* history: whether a message was lost, a full queue skipped
                  \* or a nullifier refused at the cap

vars == <<seen, outbox, wire, submitted, dropped>>

Message == [nullifier : Nullifiers, sender : Nodes, signer : Nodes \cup {Nobody}]

Init ==
    /\ seen = [v \in Nodes |-> {}]
    /\ outbox = [l \in Links |-> <<>>]
    /\ wire = [l \in Links |-> {}]
    /\ submitted = {}
    /\ dropped = FALSE

\* The loops over the peers: a full queue is skipped.
Queue(v, m, skip) ==
    LET to == {l \in Links : l[1] = v /\ l[2] \notin skip}
        room == {l \in to : Len(outbox[l]) < MaxOutbox}
    IN  /\ outbox' = [l \in Links |-> IF l \in room THEN Append(outbox[l], m)
                                                    ELSE outbox[l]]
        /\ dropped' = (dropped \/ room # to)

\* NetworkNode::submit_nullifier: the node signs and broadcasts.  At capacity,
\* and for a known nullifier, broadcast_nullifier_signed only returns false.
Submit(v, n) ==
    /\ submitted' = submitted \cup {<<v, n>>}
    /\ \/ /\ Cardinality(seen[v]) < MaxKnown
          /\ n \notin seen[v]
          /\ seen' = [seen EXCEPT ![v] = @ \cup {n}]
          /\ Queue(v, [nullifier |-> n, sender |-> v, signer |-> v], {})
       \/ /\ Cardinality(seen[v]) >= MaxKnown \/ n \in seen[v]
          /\ UNCHANGED <<seen, outbox, dropped>>
    /\ UNCHANGED wire

\* drain_messages_for: the queue for a peer is put on the link.
Drain(v, p) ==
    /\ outbox[<<v, p>>] # <<>>
    /\ wire' = [wire EXCEPT ![<<v, p>>] =
                    @ \cup {outbox[<<v, p>>][i] : i \in DOMAIN outbox[<<v, p>>]}]
    /\ outbox' = [outbox EXCEPT ![<<v, p>>] = <<>>]
    /\ UNCHANGED <<seen, submitted, dropped>>

verify_nullifier_broadcast(m) == m.signer = m.sender

\* The message changes nothing; it is dropped if it was well-signed and new.
Ignore(p, m) ==
    /\ dropped' = (dropped \/ (verify_nullifier_broadcast(m) /\
                               m.nullifier \notin seen[p]))
    /\ UNCHANGED <<seen, outbox>>

\* Mutant: the message is relayed under the relaying node's own id.
HandleRenamed(p, m) ==
    \/ /\ verify_nullifier_broadcast(m)
       /\ Cardinality(seen[p]) < MaxKnown
       /\ m.nullifier \notin seen[p]
       /\ seen' = [seen EXCEPT ![p] = @ \cup {m.nullifier}]
       /\ Queue(p, [m EXCEPT !.sender = p], {m.sender})
    \/ /\ \/ ~verify_nullifier_broadcast(m)
          \/ Cardinality(seen[p]) >= MaxKnown
          \/ m.nullifier \in seen[p]
       /\ Ignore(p, m)

\* Mutant: the relaying node signs the message anew.
HandleResigned(p, m) ==
    \/ /\ verify_nullifier_broadcast(m)
       /\ Cardinality(seen[p]) < MaxKnown
       /\ m.nullifier \notin seen[p]
       /\ seen' = [seen EXCEPT ![p] = @ \cup {m.nullifier}]
       /\ Queue(p, [m EXCEPT !.sender = p, !.signer = p], {m.sender})
    \/ /\ \/ ~verify_nullifier_broadcast(m)
          \/ Cardinality(seen[p]) >= MaxKnown
          \/ m.nullifier \in seen[p]
       /\ Ignore(p, m)

\* Mutant: a nullifier that is known already is relayed too.
HandleAgain(p, m) ==
    \/ /\ verify_nullifier_broadcast(m)
       /\ Cardinality(seen[p]) < MaxKnown
       /\ seen' = [seen EXCEPT ![p] = @ \cup {m.nullifier}]
       /\ Queue(p, m, {m.sender})
    \/ /\ \/ ~verify_nullifier_broadcast(m)
          \/ Cardinality(seen[p]) >= MaxKnown
       /\ Ignore(p, m)

\* handle_verified_broadcast: a message that verifies, for which there is room
\* and that is new, is noted and relayed as it is to the peers other than the
\* one that signed it (the one it came from included).
HandleVerifiedBroadcast(p, m) ==
    \/ /\ verify_nullifier_broadcast(m)
       /\ Cardinality(seen[p]) < MaxKnown
       /\ m.nullifier \notin seen[p]
       /\ seen' = [seen EXCEPT ![p] = @ \cup {m.nullifier}]
       /\ Queue(p, m, {m.sender})
    \/ /\ \/ ~verify_nullifier_broadcast(m)
          \/ Cardinality(seen[p]) >= MaxKnown
          \/ m.nullifier \in seen[p]
       /\ Ignore(p, m)

Deliver(v, p, m) ==
    /\ m \in wire[<<v, p>>]
    /\ HandleVerifiedBroadcast(p, m)
    /\ wire' = [wire EXCEPT ![<<v, p>>] = @ \ {m}]
    /\ UNCHANGED submitted

-----------------------------------------------------------------------------
(* The links *)

Duplicate(v, p, m) ==
    /\ "duplicate" \in Env
    /\ m \in wire[<<v, p>>]
    /\ HandleVerifiedBroadcast(p, m)
    /\ UNCHANGED <<wire, submitted>>

Lose(v, p, m) ==
    /\ "lose" \in Env
    /\ m \in wire[<<v, p>>]
    /\ wire' = [wire EXCEPT ![<<v, p>>] = @ \ {m}]
    /\ dropped' = TRUE
    /\ UNCHANGED <<seen, outbox, submitted>>

\* A message in the name of the link's node whose signature none of the nodes made.
Forge(l, n) ==
    /\ wire' = [wire EXCEPT ![l] =
                    @ \cup {[nullifier |-> n, sender |-> l[1], signer |-> Nobody]}]
    /\ UNCHANGED <<seen, outbox, submitted, dropped>>

Next ==
    \/ \E s \in Submissions : Submit(s[1], s[2])
    \/ \E l \in Links :
        \/ Drain(l[1], l[2])
        \/ \E m \in wire[l] :
            \/ Deliver(l[1], l[2], m)
            \/ Duplicate(l[1], l[2], m)
            \/ Lose(l[1], l[2], m)
    \/ \E f \in Forgeries : Forge(f[1], f[2])

Spec == Init /\ [][Next]_vars

\* Nodes drain their queues and links deliver: each carries finitely many
\* messages that a node signed, and none is passed over forever, not for forged
\* ones either.  Nothing has to be submitted.
Fairness ==
    \A l \in Links :
        /\ WF_vars(Drain(l[1], l[2]))
        /\ WF_vars(\E m \in wire[l] :
                m.signer # Nobody /\ Deliver(l[1], l[2], m))

FairSpec == Spec /\ Fairness

-----------------------------------------------------------------------------
(* Properties *)

\* "This prevents injection of forged nullifiers": what a node queues or a link
\* carries under the signature of a node was submitted at that node, through any
\* number of relays, and a node takes note of nothing that was not submitted.
SignedAtOrigin ==
    /\ \A l \in Links : \A m \in wire[l] \cup {outbox[l][i] : i \in DOMAIN outbox[l]} :
        m.signer # Nobody => <<m.signer, m.nullifier>> \in submitted
    /\ \A v \in Nodes : \A n \in seen[v] : \E s \in Nodes : <<s, n>> \in submitted

\* "Broadcast a signed nullifier to all peers": unless something is dropped,
\* a nullifier that a node knows gets to all nodes, over as many relays as it
\* takes.  (A message that is dropped is never sent again.)
Dissemination ==
    \A n \in Nullifiers :
        (\E v \in Nodes : n \in seen[v]) ~> dropped \/ \A w \in Nodes : n \in seen[w]

\* Relaying stops: once no more forged messages turn up, nothing circulates
\* among the nodes, although each relays to where the message came from.
Quiescence ==
    <>[](\A l \in Links : \A m \in wire[l] : m.signer # Nobody) =>
        <>[](\A l \in Links : outbox[l] = <<>> /\ wire[l] = {})
=============================================================================
