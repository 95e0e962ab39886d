---------------------------- MODULE MCStreamSetup ----------------------------
(* Two nodes, of which one or both may create streams.                     *)
EXTENDS StreamSetup

CONSTANTS n1, n2

MCNode == {n1, n2}
OneAdmin == {n1}
TwoAdmins == {n1, n2}
=============================================================================
