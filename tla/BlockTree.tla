------------------------------ MODULE BlockTree ------------------------------
(***************************************************************************)
(* What mining promises, whoever is elected and by whichever rule: the     *)
(* relayed blocks form a tree that only grows, at most one block of a      *)
(* height by the same miner, and every node follows a branch of that tree  *)
(* whose height never falls.                                               *)
(*                                                                         *)
(* A block is the chain that ends in it, a sequence whose elements name    *)
(* their miners.  What else a block carries, when a node may mine and      *)
(* which of several branches it prefers is left to the modules that        *)
(* implement this one.                                                     *)
(***************************************************************************)
EXTENDS Naturals, Sequences

CONSTANT Node

VARIABLES
    blocks,  \* the blocks relayed so far
    head     \* node -> the last block of its active chain

vars == <<blocks, head>>

Genesis == << >>
Parent(b) == SubSeq(b, 1, Len(b) - 1)
Miner(b) == b[Len(b)].miner

\* n relays its first block of a height, on any block of the tree, and is on a
\* branch at least as high when it has.
Propose(n, b) ==
    /\ b \notin blocks
    /\ Parent(b) \in blocks
    /\ Miner(b) = n
    /\ \A c \in blocks \ {Genesis} : Miner(c) = n => Len(c) # Len(b)
    /\ blocks' = blocks \cup {b}
    /\ \E c \in blocks' :
          /\ Len(c) >= Len(b) /\ Len(c) >= Len(head[n])
          /\ head' = [head EXCEPT ![n] = c]

\* n moves to a branch that is no lower.
Adopt(n, b) ==
    /\ Len(b) >= Len(head[n])
    /\ head' = [head EXCEPT ![n] = b]
    /\ UNCHANGED blocks

Init ==
    /\ blocks = {Genesis}
    /\ head = [n \in Node |-> Genesis]

Next == \E n \in Node : \E b \in blocks' : Propose(n, b) \/ Adopt(n, b)

Spec == Init /\ [][Next]_vars
=============================================================================
