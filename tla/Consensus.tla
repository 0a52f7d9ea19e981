----------------------------- MODULE Consensus -----------------------------
(***************************************************************************)
(* The validators that agree on blocks of nullifiers: ConsensusState of    *)
(* specter-net/src/consensus.rs, one per validator.                        *)
(*                                                                         *)
(* The code has no loop that drives a ConsensusState.  The driver assumed  *)
(* here for a correct validator proposes once in a view in which it leads, *)
(* hands every proposal to receive_proposal, and votes for one that was    *)
(* not refused if it is by the current leader for the current height, once *)
(* in a view of a height.  A faulty validator proposes any blocks of its   *)
(* own and votes for any blocks.  Messages are lost, duplicated and        *)
(* reordered: proposals and cast are all that was ever sent.               *)
(*                                                                         *)
(* The hash of a block is the block itself (SHA-256 has no collisions), so *)
(* prev_hash is <<>>, the zero hash, or <<b>> for a block b.  The current  *)
(* height and the committed nullifiers are those of the committed blocks.  *)
(* A vote that disapproves counts for nothing and is not modelled.         *)
(***************************************************************************)
EXTENDS Integers, Sequences, FiniteSets

CONSTANTS
    N,            \* number of validators, whose ids are 1..N
    Faulty,       \* the faulty ones
    Nullifiers,   \* nullifiers that are submitted
    MaxPending,   \* MAX_PENDING_NULLIFIERS
    MaxHeight,    \* bound: blocks that a validator commits
    MaxView       \* bound: view changes of a validator

Validators == 1..N
Correct == Validators \ Faulty

ASSUME ConsensusAssumption ==
    /\ N \in Nat \ {0}
    /\ Faulty \subseteq Validators
    /\ MaxPending \in Nat
    /\ MaxHeight \in Nat
    /\ MaxView \in Nat

VARIABLES
    chain,        \* chain[v]: committed_blocks
    pending,      \* pending[v]: pending_nullifiers
    votes,        \* votes[v]: the <<block, voter>> of the stored votes
    view,         \* view[v]
    seen,         \* seen[v]: seen_proposals, a block per height and leader
    proposals,    \* blocks that were sent
    cast          \* votes that correct validators sent

vars == <<chain, pending, votes, view, seen, proposals, cast>>

current_height(v) == Len(chain[v])

committed_nullifiers(v) ==
    UNION {chain[v][i].nullifiers : i \in DOMAIN chain[v]}

max_faults == (N - 1) \div 3

\* Mutant: one vote less than a quorum is enough.
quorum_size_short == IF N < 4 THEN N - 1 ELSE 2 * max_faults

quorum_size == IF N < 4 THEN N ELSE 2 * max_faults + 1

current_leader(v) == (((current_height(v) % N) + (view[v] % N)) % N) + 1

last_hash(v) ==
    IF chain[v] = <<>> THEN <<>> ELSE <<chain[v][Len(chain[v])]>>

Init ==
    /\ chain = [v \in Correct |-> <<>>]
    /\ pending = [v \in Correct |-> {}]
    /\ votes = [v \in Correct |-> {}]
    /\ view = [v \in Correct |-> 0]
    /\ seen = [v \in Correct |-> {}]
    /\ proposals = {}
    /\ cast = {}

-----------------------------------------------------------------------------
(* Operations of a correct validator *)

\* submit_nullifier; over the cap, or if committed, it is dropped silently.
Submit(v, n) ==
    /\ Cardinality(pending[v]) < MaxPending
    /\ n \notin committed_nullifiers(v)
    /\ pending' = [pending EXCEPT ![v] = @ \cup {n}]
    /\ UNCHANGED <<chain, votes, view, seen, proposals, cast>>

Block(h, l, ns, prev) ==
    [height |-> h, leader |-> l, nullifiers |-> ns, prev |-> prev]

\* propose_block drains the pending nullifiers into a block on top of the last
\* one.  (Once in a view: the driver.)
Propose(v) ==
    /\ current_leader(v) = v
    /\ current_height(v) < MaxHeight
    /\ <<v, current_height(v), view[v]>> \notin
            {<<p.by, p.block.height, p.view>> : p \in proposals}
    /\ proposals' = proposals \cup
        {[by |-> v, view |-> view[v],
          block |-> Block(current_height(v), v, pending[v], last_hash(v))]}
    /\ pending' = [pending EXCEPT ![v] = {}]
    /\ UNCHANGED <<chain, votes, view, seen, cast>>

Sent == {p.block : p \in proposals}

\* receive_proposal: the first block of a height and leader is remembered, one
\* with another hash is refused as an equivocation.  One that is not refused
\* gets a vote, which sign_vote binds to the block's height and the signer's
\* view (under the conditions of the driver).
HandleProposal(v, b) ==
    /\ \A s \in seen[v] : s.height = b.height /\ s.leader = b.leader => s = b
    /\ seen' = [seen EXCEPT ![v] = @ \cup {b}]
    /\ \/ /\ b.height = current_height(v)
          /\ b.leader = current_leader(v)
          /\ \A c \in cast :
                ~(c.voter = v /\ c.height = b.height /\ c.view = view[v])
          /\ cast' = cast \cup {[voter |-> v, height |-> b.height,
                                 view |-> view[v], block |-> b]}
       \/ /\ b.height # current_height(v) \/ b.leader # current_leader(v)
          /\ cast' = cast
    /\ UNCHANGED <<chain, pending, votes, view, proposals>>

\* receive_vote: the vote is for the current height and view, and the voter has
\* no vote for this block yet.
ReceiveVote(v, c) ==
    /\ c.height = current_height(v)
    /\ c.view = view[v]
    /\ <<c.block, c.voter>> \notin votes[v]
    /\ votes' = [votes EXCEPT ![v] = @ \cup {<<c.block, c.voter>>}]
    /\ UNCHANGED <<chain, pending, view, seen, proposals, cast>>

Approvals(v, b) == {w \in Validators : <<b, w>> \in votes[v]}

\* Mutant: the votes for a committed block are kept.
TryCommitKeepsVotes(v, b) ==
    /\ current_height(v) < MaxHeight
    /\ Cardinality(Approvals(v, b)) >= quorum_size
    /\ chain' = [chain EXCEPT ![v] = Append(@, b)]
    /\ UNCHANGED <<pending, votes, view, seen, proposals, cast>>

\* Mutant: more votes than a quorum are asked for.
TryCommitBeyondQuorum(v, b) ==
    /\ current_height(v) < MaxHeight
    /\ Cardinality(Approvals(v, b)) > quorum_size
    /\ chain' = [chain EXCEPT ![v] = Append(@, b)]
    /\ votes' = [votes EXCEPT ![v] = {w \in @ : w[1] # b}]
    /\ UNCHANGED <<pending, view, seen, proposals, cast>>

\* try_commit counts the votes stored under the block's hash.  It looks at
\* neither the height nor the prev_hash of the block; votes for other blocks
\* stay, the view stays, and the nullifiers stay pending where they were.
TryCommit(v, b) ==
    /\ current_height(v) < MaxHeight
    /\ Cardinality(Approvals(v, b)) >= quorum_size
    /\ chain' = [chain EXCEPT ![v] = Append(@, b)]
    /\ votes' = [votes EXCEPT ![v] = {w \in @ : w[1] # b}]
    /\ UNCHANGED <<pending, view, seen, proposals, cast>>

TriggerViewChange(v) ==
    /\ view[v] < MaxView
    /\ view' = [view EXCEPT ![v] = @ + 1]
    /\ votes' = [votes EXCEPT ![v] = {}]
    /\ UNCHANGED <<chain, pending, seen, proposals, cast>>

-----------------------------------------------------------------------------
(* Faulty validators *)

\* Any block of its own, on top of nothing or of any block of the height below.
FaultyPropose(f, h, ns) ==
    /\ \E prev \in {<<>>} \cup {<<b>> : b \in {s \in Sent : s.height = h - 1}} :
        proposals' = proposals \cup
            {[by |-> f, view |-> 0, block |-> Block(h, f, ns, prev)]}
    /\ UNCHANGED <<chain, pending, votes, view, seen, cast>>

\* The votes that may reach v: those of correct validators that were sent, and
\* any vote of a faulty one.
Votes(v) ==
    cast \cup {[voter |-> f, height |-> current_height(v), view |-> view[v],
                block |-> b] : f \in Faulty, b \in Sent}

Next ==
    \/ \E v \in Correct :
        \/ \E n \in Nullifiers : Submit(v, n)
        \/ Propose(v)
        \/ \E b \in Sent : HandleProposal(v, b) \/ TryCommit(v, b)
        \/ \E c \in Votes(v) : ReceiveVote(v, c)
        \/ TriggerViewChange(v)
    \/ \E f \in Faulty, h \in 0..(MaxHeight - 1), ns \in SUBSET Nullifiers :
        FaultyPropose(f, h, ns)

Spec == Init /\ [][Next]_vars

\* The driver of a correct validator acts when it can, and a vote that is not
\* taken yet is offered again.
Fairness ==
    \A v \in Correct :
        /\ WF_vars(Propose(v))
        /\ WF_vars(\E b \in Sent : HandleProposal(v, b))
        /\ WF_vars(\E c \in Votes(v) : ReceiveVote(v, c))
        /\ WF_vars(\E b \in Sent : TryCommit(v, b))

FairSpec == Spec /\ Fairness

-----------------------------------------------------------------------------
(* Properties *)

\* Two correct validators never commit different blocks at a height: what
\* receive_vote and try_commit let through leaves one log of nullifiers.
Agreement ==
    \A v, w \in Correct : \A i \in DOMAIN chain[v] \cap DOMAIN chain[w] :
        chain[v][i] = chain[w][i]

\* "chain linking for fork detection": a committed block is on top of the block
\* that was committed before it and at its own height, hence never committed
\* twice, although try_commit compares neither and votes outlive a commit.
ChainLinked ==
    \A v \in Correct : \A i \in DOMAIN chain[v] :
        /\ chain[v][i].prev = IF i = 1 THEN <<>> ELSE <<chain[v][i - 1]>>
        /\ chain[v][i].height = i - 1

\* With all validators correct, and as long as nobody's timer forces a view
\* change, every validator commits a block at every height: leaders rotate and
\* no step waits for another forever.
Progress ==
    [](\A v \in Correct : view[v] = 0) =>
        <>(\A v \in Correct : current_height(v) = MaxHeight)
=============================================================================
