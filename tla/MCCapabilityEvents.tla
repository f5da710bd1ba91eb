------------------------ MODULE MCCapabilityEvents -------------------------
(* Model-checking instances of CapabilityEvents. *)
EXTENDS CapabilityEvents

CONSTANT r1
=============================================================================
