------------------------- MODULE MC_AtomicSwapLeg -------------------------
(* Small instances of AtomicSwapLeg for TLC. *)
EXTENDS AtomicSwapLeg

\* An amount below the reserve of the configured account (5) and one above.
MC_Amounts == {4, 6}

\* Lock time 2 puts the participant's lock time at 1: both are reached
\* within MC_MaxTime.
MC_LockTime == 2
MC_MaxTime == 3
=============================================================================
