------------------------------ MODULE EscrowLeg ------------------------------
(***************************************************************************)
(* What one leg of the swap promises, without accounts, signers or         *)
(* sequence numbers (spec 2 and 3): an escrow is set up, or the set-up is  *)
(* abandoned; once set up it pays out to the recipient, which publishes    *)
(* the secret, or back to the funder once the lock time has passed, and    *)
(* never both.                                                             *)
(***************************************************************************)
EXTENDS Naturals

CONSTANTS
    LockAt,     \* the refund's lower time bound
    Recipient   \* the party the escrow pays out to

VARIABLES
    phase,     \* "building", "locked" (the escrow is set up) or "aborted"
    claimedBy, \* the parties whose authorisation took funds out
    refunded,  \* the funder has taken the funds back
    now,       \* ledger time
    revealed   \* the secret is public

avars == <<phase, claimedBy, refunded, now, revealed>>

Init ==
    /\ phase = "building"
    /\ claimedBy = {} /\ refunded = FALSE
    /\ now = 0 /\ revealed = FALSE

Lock ==
    /\ phase = "building" /\ phase' = "locked"
    /\ UNCHANGED <<claimedBy, refunded, now, revealed>>

Abort ==
    /\ phase = "building" /\ phase' = "aborted"
    /\ UNCHANGED <<claimedBy, refunded, now, revealed>>

\* The recipient takes (part of) the funds; doing so publishes the secret.
Claim ==
    /\ phase = "locked" /\ ~refunded
    /\ claimedBy' = {Recipient} /\ revealed' = TRUE
    /\ UNCHANGED <<phase, refunded, now>>

\* The funder takes the funds back, after the lock time, if nothing was
\* claimed.
RefundEscrow ==
    /\ phase = "locked" /\ claimedBy = {} /\ ~refunded /\ now >= LockAt
    /\ refunded' = TRUE
    /\ UNCHANGED <<phase, claimedBy, now, revealed>>

Reveal ==
    /\ revealed' = TRUE
    /\ UNCHANGED <<phase, claimedBy, refunded, now>>

Tick ==
    /\ now' = now + 1
    /\ UNCHANGED <<phase, claimedBy, refunded, revealed>>

Next == Lock \/ Abort \/ Claim \/ RefundEscrow \/ Reveal \/ Tick

Spec == Init /\ [][Next]_avars
=============================================================================
