------------------------- MODULE MC_LegRefinement -------------------------
(* The instances of MC_AtomicSwapLeg, checked against EscrowLeg. *)
EXTENDS LegRefinement, MC_AtomicSwapLeg
=============================================================================
