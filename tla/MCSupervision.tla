--------------------------- MODULE MCSupervision ---------------------------
(* Instances of Supervision for TLC. *)
EXTENDS Supervision

CONSTANTS r1, r2, a1

MCAgentOf == [r \in Run |-> a1]
MCKinds == {"plain", "transient", "rate"}
MCAllKinds == Kind
=============================================================================
