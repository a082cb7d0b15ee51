---------------------------- MODULE LegRefinement ----------------------------
(***************************************************************************)
(* AtomicSwapLeg implements EscrowLeg.  The escrow is set up when          *)
(* createAtomicSwapHoldingAccount returned success; a debit counted        *)
(* against the rules (made after that success) is the refund when it is    *)
(* the pre-built refund transaction, and a claim otherwise.  Failed        *)
(* set-ups map to "aborted", whatever then happens to their account.       *)
(***************************************************************************)
EXTENDS AtomicSwapLeg

\* locktime is time.Now() plus a positive duration (lines 492 and 538):
\* it lies after the ledger time at which the command starts.
ASSUME LockTimeAssumption == LockTime >= 2

phaseBar ==
    CASE pc = "done"   -> "locked"
      [] pc = "failed" -> "aborted"
      [] OTHER         -> "building"

\* The keys that signed the claims.
claimedByBar ==
    UNION {debits[i].keys : i \in {j \in DOMAIN debits :
                                     debits[j].live /\ debits[j].tx # refundTx}}

refundedBar == \E i \in DOMAIN debits : debits[i].live /\ debits[i].tx = refundTx

Abs == INSTANCE EscrowLeg
         WITH LockAt <- Locktime, Recipient <- Recipient, phase <- phaseBar,
              claimedBy <- claimedByBar, refunded <- refundedBar

-----------------------------------------------------------------------------
(* What the refinement rests on, besides AtomicSwapLeg's IInv. *)

\* Some debit has been counted against the rules.
AnyLive == \E i \in DOMAIN debits : debits[i].live

\* Until something is paid out, the refund is the next transaction.
RefundNext ==
    pc = "done" /\ ~AnyLive => esc.exists /\ refundTx.seq = esc.seq + 1

\* Once something is paid out, the refund's number is used up.
RefundUsedUp == AnyLive /\ esc.exists => esc.seq >= refundTx.seq

\* The refund merged the account.
RefundMerged == refundedBar => ~esc.exists

\* Claims are signed by the recipient alone.
ClaimKeys ==
    \A i \in DOMAIN debits :
        debits[i].live /\ debits[i].tx # refundTx => debits[i].keys = {Recipient}

\* The redeem command's merge has no time bound (line 726).
RedeemUnbounded == rpc = "fetched" => rtx.minTime = 0

RefInv == RefundNext /\ RefundUsedUp /\ RefundMerged /\ ClaimKeys

(* The leg, as the commands and the other parties run it, refines the     *)
(* escrow's promise: a claim publishes the secret, a refund waits for the *)
(* lock time, and once either happened the other never does.              *)
AbsSpec == Abs!Spec
=============================================================================
