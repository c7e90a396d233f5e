------------------------- MODULE MCStreamRefinement -------------------------
(* An instance of StreamRefinement for TLC.                                *)
EXTENDS StreamRefinement

MCKinds == AllKinds
=============================================================================
