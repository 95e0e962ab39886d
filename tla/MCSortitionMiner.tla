-------------------------- MODULE MCSortitionMiner --------------------------
(* Instances of SortitionMiner for TLC. *)
EXTENDS SortitionMiner, TLC

CONSTANTS n1, n2

MCNode == {n1, n2}
Rank == n1 :> 0 @@ n2 :> 1

\* The winner of the round alternates with the height; the scores of two miners
\* differ at every height.
MCScore(n, b) == (Rank[n] + Len(b)) % 2
\* Delays grow with the score, from one second up.
MCDelay(n, b) == 1 + MCScore(n, b)

Scored == [n \in MCNode |-> TRUE]
Unscored == [n \in MCNode |-> FALSE]

Either == {Scored, Unscored}
TieBreak == {Scored}

SameClock == [n \in MCNode |-> 0]
=============================================================================
