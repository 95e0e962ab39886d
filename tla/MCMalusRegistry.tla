--------------------------- MODULE MCMalusRegistry ---------------------------
(***************************************************************************)
(* An instance of MalusRegistry: a validator x that may misbehave, an      *)
(* honest one v and a node n that only reads; epochs of one block; the     *)
(* factor 1/2 and the limit 4, so an equivocation (16 points) shuts x out  *)
(* for several epochs and any other offence lowers its weight for one or   *)
(* two.                                                                    *)
(***************************************************************************)
EXTENDS MalusRegistry

MCValidator == {"x", "v"}
MCPoints == [equiv |-> 16, delay |-> 1, selfwrite |-> 1, badweight |-> 2]

\* The reweighting at height 3 halves v's weight and so doubles its delay.
MCInitial == [w \in MCValidator |-> IF w = "x" THEN 4 ELSE 2]
MCLater == [w \in MCValidator |-> IF w = "x" THEN 4 ELSE 1]
MCLuck == [w \in MCValidator |-> [h \in 1 .. MaxHeight |-> 1]]
=============================================================================
