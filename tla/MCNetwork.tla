----------------------------- MODULE MCNetwork -----------------------------
(***************************************************************************)
(* Network for TLC, on three nodes in a line.  Either the nodes are whole  *)
(* NetworkedNodes, a copy of a token is transferred at both ends and       *)
(* another token at the first; or gossip runs by itself, a nullifier is    *)
(* submitted at both ends and more than a node can take note of in all,    *)
(* messages are duplicated and forged ones turn up on the link from the    *)
(* first node to the second.                                               *)
(***************************************************************************)
EXTENDS Network

CONSTANTS a, b, c, x, y, z

VARIABLE part

Line == {<<a, b>>, <<b, a>>, <<b, c>>, <<c, b>>}
Rotation == <<a, b, c>>
Spends == {<<a, x>>, <<c, x>>, <<b, y>>, <<a, z>>}
Copies == {<<a, x>>, <<c, x>>, <<a, y>>}
ForgedFirst == {<< <<a, b>>, y >>}

allVars == <<part, networkVars>>

AllInit == part \in {"gossip", "network"} /\ NetworkInit

AllNext ==
    /\ UNCHANGED part
    /\ \/ part = "gossip" /\ Next /\ UNCHANGED consensusVars
       \/ part = "network" /\ NetworkNext

\* NetworkFairness, of the part that was chosen.
AllFairness ==
    /\ Fairness
    /\ \A v \in Nodes :
        /\ WF_networkVars(part = "network" /\ propose_block(v))
        /\ WF_networkVars(part = "network" /\ try_commit(v))

AllSpec == AllInit /\ [][AllNext]_allVars /\ AllFairness
=============================================================================
