------------------------------ MODULE Network ------------------------------
(***************************************************************************)
(* NetworkedNode of specter-core/src/networked.rs: the composition of a    *)
(* node's nullifier set, its gossip and its consensus state.  A nullifier  *)
(* leaves a node on two ways, the signed broadcast of module Gossip and    *)
(* the pending nullifiers of the node's next block.                        *)
(*                                                                         *)
(* NetworkNode runs consensus in ConsensusMode::Test; with fewer than four *)
(* validators a quorum is all of them, so that nobody votes for the next   *)
(* height before it has committed this one.  Module Consensus is about how *)
(* a block is agreed on; here a proposal is either agreed on by all or     *)
(* given up by a view change, and the leader's nullifiers are drained in   *)
(* both cases.                                                             *)
(***************************************************************************)
EXTENDS Gossip, SequencesExt

CONSTANTS
    Order,        \* the sequence of validators in which they lead
    Transfers,    \* the <<v, n>> such that a token with nullifier n, or a copy
                  \* of it, may be handed to node v for a transfer
    MaxPending,   \* MAX_PENDING_NULLIFIERS
    MaxTransfers  \* bound: transfers at all nodes together

VARIABLES
    nullifier_set,  \* nullifier_set[v]: what was transferred at v
    pending,        \* pending[v]: pending_nullifiers
    committed,      \* committed[v]: committed_nullifiers
    turn,           \* (current_height + view) modulo the number of validators
    block,          \* the proposal of this turn: its nullifiers and who has
                    \* committed it; NoBlock before there is one
    forfeited       \* history: the nullifiers that consensus dropped, at the
                    \* cap or with a proposal that was given up

consensusVars == <<nullifier_set, pending, committed, turn, block, forfeited>>
networkVars == <<vars, consensusVars>>

NoBlock == <<>>

NetworkInit ==
    /\ Init
    /\ nullifier_set = [v \in Nodes |-> {}]
    /\ pending = [v \in Nodes |-> {}]
    /\ committed = [v \in Nodes |-> {}]
    /\ turn = 0
    /\ block = NoBlock
    /\ forfeited = {}

current_leader == Order[turn + 1]

is_nullifier_known(v, n) == n \in seen[v] \cup committed[v]

\* ConsensusState::submit_nullifier on the pending nullifiers s of v.
submit_nullifier(v, s, n) ==
    IF Cardinality(s) >= MaxPending \/ n \in committed[v] THEN s ELSE s \cup {n}

\* Mutant: the node leaves it to gossip to publish the nullifier.
transfer_token_gossip_only(v, n) ==
    /\ n \notin nullifier_set[v]
    /\ nullifier_set' = [nullifier_set EXCEPT ![v] = @ \cup {n}]
    /\ Submit(v, n)
    /\ UNCHANGED <<pending, committed, turn, block, forfeited>>

\* transfer_token: transfer notes the nullifier in the node's own set, which is
\* the only one it asks; the network then gets it by gossip and, twice, as a
\* pending nullifier.  That gossip or the pending pool is full is not noticed.
transfer_token(v, n) ==
    LET twice == submit_nullifier(v, submit_nullifier(v, pending[v], n), n)
    IN  /\ n \notin nullifier_set[v]
        /\ nullifier_set' = [nullifier_set EXCEPT ![v] = @ \cup {n}]
        /\ Submit(v, n)
        /\ pending' = [pending EXCEPT ![v] = twice]
        /\ forfeited' = forfeited \cup ({n} \ (twice \cup committed[v]))
        /\ UNCHANGED <<committed, turn, block>>

propose_block(v) ==
    /\ v = current_leader
    /\ block = NoBlock
    /\ block' = [nullifiers |-> pending[v], by |-> {}]
    /\ pending' = [pending EXCEPT ![v] = {}]
    /\ UNCHANGED <<vars, nullifier_set, committed, turn, forfeited>>

NextTurn == (turn + 1) % Len(Order)

\* trigger_view_change at all nodes: the next leader starts over, and what the
\* proposal had drained is in nobody's pool.
trigger_view_change ==
    /\ block # NoBlock /\ block.by = {}
    /\ forfeited' = forfeited \cup block.nullifiers
    /\ block' = NoBlock
    /\ turn' = NextTurn
    /\ UNCHANGED <<vars, nullifier_set, pending, committed>>

\* try_commit at v, which leaves its pending nullifiers as they are.
try_commit(v) ==
    /\ block # NoBlock /\ v \notin block.by
    /\ committed' = [committed EXCEPT ![v] = @ \cup block.nullifiers]
    /\ LET by == block.by \cup {v}
       IN  \/ /\ by # Nodes
              /\ block' = [block EXCEPT !.by = by]
              /\ turn' = turn
           \/ /\ by = Nodes
              /\ block' = NoBlock
              /\ turn' = NextTurn
    /\ UNCHANGED <<vars, nullifier_set, pending, forfeited>>

\* The gossip of the nodes, over links that lose messages.
GossipStep(l) ==
    /\ \/ Drain(l[1], l[2])
       \/ \E m \in wire[l] : Deliver(l[1], l[2], m) \/ Lose(l[1], l[2], m)
    /\ UNCHANGED consensusVars

NetworkNext ==
    \/ /\ Cardinality({t \in Transfers : t[2] \in nullifier_set[t[1]]}) < MaxTransfers
       /\ \E t \in Transfers : transfer_token(t[1], t[2])
    \/ \E v \in Nodes : propose_block(v) \/ try_commit(v)
    \/ trigger_view_change
    \/ \E l \in Links : GossipStep(l)

\* Queues are drained and links deliver as in Gossip; a leader proposes, and a
\* proposal that is not given up is committed by everyone.  Nothing has to be
\* transferred, and every proposal may be given up.
NetworkFairness ==
    /\ Fairness
    /\ \A v \in Nodes :
        WF_networkVars(propose_block(v)) /\ WF_networkVars(try_commit(v))

NetworkSpec == NetworkInit /\ [][NetworkNext]_networkVars /\ NetworkFairness

\* "Nullifier published to network via authenticated gossip for global
\* double-spend detection", and to consensus: is_double_spend becomes true at
\* every node for what transfer_token spent at one, unless both ways fail, the
\* gossip through a lost message or a cap and consensus through a cap or a
\* proposal that was given up after it drained the pool.
SpentBecomesKnown ==
    \A n \in Nullifiers :
        (\E v \in Nodes : n \in nullifier_set[v]) ~>
            \/ \A w \in Nodes : is_nullifier_known(w, n)
            \/ dropped /\ n \in forfeited
=============================================================================
