---------------------------- MODULE MCConsensus ----------------------------
(***************************************************************************)
(* Consensus for TLC, with constraints that lead the search to a           *)
(* counterexample: every behaviour they leave is one of Consensus.         *)
(***************************************************************************)
EXTENDS Consensus

\* Only the first three validators collect votes.
Observers == \A v \in Correct \ {1, 2, 3} : votes[v] = {}

\* The first validator stays in its first view.
SlowFirst == Observers /\ view[1] = 0
=============================================================================
