--------------------------- MODULE MCRandaoBeacon ---------------------------
(* Small instances of RandaoBeacon for TLC. *)
EXTENDS RandaoBeacon, TLC

\* Nodes and labels are only ever compared for equality.
Symmetry == Permutations(Node) \cup Permutations(Label)
=============================================================================
