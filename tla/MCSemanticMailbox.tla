------------------------- MODULE MCSemanticMailbox -------------------------
(* Model-checking instances of SemanticMailbox. *)
EXTENDS SemanticMailbox, TLC

CONSTANTS a1, a2, s1, e1, e2

\* Artefacts are interchangeable; used by the run without a liveness property.
ArtefactSymmetry == Permutations(Artefacts)
=============================================================================
