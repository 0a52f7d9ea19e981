----------------------------- MODULE SpendOnce -----------------------------
(***************************************************************************)
(* What a nullifier set promises to the operations that spend tokens: of   *)
(* all the attempts to spend a nullifier, whatever threads and processes   *)
(* make them and whatever restarts happen in between, at most one is told  *)
(* that the nullifier was new.  An attempt may be refused for any reason.  *)
(***************************************************************************)
EXTENDS Naturals

CONSTANT Nullifiers

VARIABLE wins   \* wins[n]: how many attempts were told that n was new

\* No nullifier is spent in a new set.
Init == wins = [n \in Nullifiers |-> 0]

\* An attempt that is told "new": the first one of its nullifier.
Win(n) ==
    /\ wins[n] = 0
    /\ wins' = [wins EXCEPT ![n] = 1]

Next == \E n \in Nullifiers : Win(n)

Spec == Init /\ [][Next]_wins
=============================================================================
