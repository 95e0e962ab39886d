-------------------------- MODULE MCWeightAdmission -------------------------
(***************************************************************************)
(* Instances of WeightAdmission for TLC.                                   *)
(***************************************************************************)
EXTENDS WeightAdmission, TLC

\* Nodes with the same role may be exchanged.
Symmetric == Permutations(Node)
Net(synced, parentFirst, restarting) ==
    [synced |-> synced, parentFirst |-> parentFirst, restarting |-> restarting]
One == CHOOSE n \in Node : TRUE

\* Everybody is subscribed, and either block data come in any order or the nodes
\* may restart; or one node only is subscribed at first.
Bootstraps == {Net(Node, FALSE, {}), Net(Node, TRUE, Node), Net({One}, TRUE, {})}
Steady == {Net(Node, TRUE, {})}
=============================================================================
