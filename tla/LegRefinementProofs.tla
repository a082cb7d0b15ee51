------------------------- MODULE LegRefinementProofs -------------------------
(***************************************************************************)
(* Proof that AtomicSwapLeg implements EscrowLeg under the mapping of      *)
(* LegRefinement, for every value of the constants.                        *)
(***************************************************************************)
EXTENDS LegRefinement, AtomicSwapLegProofs

USE KeysAssumption, RoleAssumption, AmountsAssumption, TimeAssumption,
    BoundsAssumption, LockTimeAssumption

(* The refund's lower time bound is after the start: no transaction with *)
(* no time bound is the refund transaction.                              *)
LEMMA LocktimePositive == Locktime \in Nat /\ Locktime > 0
BY DEF Locktime

(* The mapped variables after a debit d is recorded. *)
LEMMA BarsAppend ==
    ASSUME debits \in Seq(Debits), NEW d \in Debits,
           debits' = Append(debits, d), refundTx' = refundTx
    PROVE  /\ AnyLive' = (AnyLive \/ d.live)
           /\ refundedBar' = (refundedBar \/ (d.live /\ d.tx = refundTx))
           /\ claimedByBar' =
                claimedByBar \cup (IF d.live /\ d.tx # refundTx THEN d.keys ELSE {})
<1>1. /\ DOMAIN debits' = (DOMAIN debits) \cup {Len(debits) + 1}
      /\ Len(debits) + 1 \notin DOMAIN debits
      /\ \A i \in DOMAIN debits : debits'[i] = debits[i]
      /\ debits'[Len(debits) + 1] = d
  BY AppendProperties
<1>2. AnyLive' = (AnyLive \/ d.live)
  BY <1>1 DEF AnyLive
<1>3. refundedBar' = (refundedBar \/ (d.live /\ d.tx = refundTx))
  BY <1>1 DEF refundedBar
<1>4. claimedByBar' =
        claimedByBar \cup (IF d.live /\ d.tx # refundTx THEN d.keys ELSE {})
  <2> DEFINE C(s) == {j \in DOMAIN s : s[j].live /\ s[j].tx # refundTx}
  <2>1. C(debits') = C(debits) \cup
                     (IF d.live /\ d.tx # refundTx THEN {Len(debits) + 1} ELSE {})
    BY <1>1
  <2>2. QED
    BY <1>1, <2>1 DEF claimedByBar
<1>5. QED
  BY <1>2, <1>3, <1>4

(* Without a live debit nothing is claimed or refunded. *)
LEMMA NoLiveBars ==
    ASSUME ~AnyLive PROVE claimedByBar = {} /\ ~refundedBar
BY DEF AnyLive, claimedByBar, refundedBar

(* With a live claim signed by the recipient alone, the claims' signers *)
(* are the recipient.                                                   *)
LEMMA ClaimedByRecipient ==
    ASSUME ClaimKeys, NEW i \in DOMAIN debits, debits[i].live,
           debits[i].tx # refundTx
    PROVE  claimedByBar = {Recipient}
BY DEF ClaimKeys, claimedByBar

(* Once configured, a valid transaction other than the refund is signed   *)
(* by the recipient's key and no other.                                   *)
LEMMA ClaimSigners ==
    ASSUME SwapInv, pc = "done", NEW tx, NEW keys, NEW pres,
           Valid(tx, keys, pres), tx # refundTx
    PROVE  keys = {Recipient}
<1>1. esc.exists /\ NoExtraAuth(esc, keys, pres) /\ Authorized(esc, tx, keys, pres)
  BY DEF Valid, TxValid
<1>2. esc.signers = SwapSigners /\ esc.master = 0 /\ esc.thr = 2
  BY <1>1 DEF SwapInv, LiveConfig
<1>3. keys \subseteq {Recipient}
  BY <1>1, <1>2 DEF NoExtraAuth, SwapSigners
<1>4. Recipient \in keys
  BY <1>1, <1>2, SwapAuth
<1>5. QED
  BY <1>3, <1>4

-----------------------------------------------------------------------------
(* RefInv is kept by every step. *)

(* A step that records a debit. *)
LEMMA ApplyRefInv ==
    ASSUME IInv, RefInv, NEW tx \in Txs, NEW keys \in SUBSET (Parties \cup {Holding}),
           NEW pres \in SUBSET Preimages,
           Valid(tx, keys, pres), Apply(tx, keys, pres),
           pc' = pc, refundTx' = refundTx
    PROVE  RefInv'
<1> DEFINE d == [tx |-> tx, keys |-> keys, pres |-> pres, at |-> now,
                 live |-> pc = "done"]
<1>1. d \in Debits /\ debits \in Seq(Debits) /\ debits' = Append(debits, d)
  BY DEF Debits, Apply, IInv, SwapInv, TypeOK
<1>2. d.live = (pc = "done") /\ d.keys = keys /\ d.tx = tx
  OBVIOUS
<1>3. /\ AnyLive' = (AnyLive \/ d.live)
      /\ refundedBar' = (refundedBar \/ (d.live /\ d.tx = refundTx))
  BY <1>1, BarsAppend
<1>4. /\ esc.exists /\ tx.seq = esc.seq + 1 /\ esc.seq \in Nat
      /\ esc' = Applied(esc, tx)
  BY DEF Valid, TxValid, Apply, IInv, SwapInv, TypeOK, Accounts
<1>5. esc'.seq = esc.seq + 1
  BY <1>4 DEF Applied
<1>6. AnyLive => pc = "done"
  BY DEF AnyLive, IInv, LiveAfterDone
<1>7. pc = "done" => refundTx \in Txs /\ refundTx.op = "merge"
  BY DEF IInv, SwapInv, RefundBuilt
<1>8. RefundNext'
  BY <1>2, <1>3 DEF RefundNext
<1>9. RefundUsedUp'
  <2>1. CASE AnyLive
    BY <1>4, <1>5, <1>6, <1>7, <2>1 DEF RefInv, RefundUsedUp, Txs
  <2>2. CASE ~AnyLive /\ pc = "done"
    BY <1>4, <1>5, <2>2 DEF RefInv, RefundNext, RefundUsedUp
  <2>3. CASE ~AnyLive /\ pc # "done"
    BY <1>2, <1>3, <2>3 DEF RefundUsedUp
  <2>4. QED
    BY <2>1, <2>2, <2>3
<1>10. RefundMerged'
  <2>1. ~refundedBar
    BY <1>4 DEF RefInv, RefundMerged
  <2>2. d.live /\ d.tx = refundTx => tx.op = "merge"
    BY <1>2, <1>7
  <2>3. tx.op = "merge" => ~esc'.exists
    BY <1>4, MergeRemoves
  <2>4. QED
    BY <1>3, <2>1, <2>2, <2>3 DEF RefundMerged
<1>11. ClaimKeys'
  <2>1. /\ DOMAIN debits' = (DOMAIN debits) \cup {Len(debits) + 1}
        /\ \A i \in DOMAIN debits : debits'[i] = debits[i]
        /\ debits'[Len(debits) + 1] = d
    BY <1>1, AppendProperties
  <2>2. d.live /\ d.tx # refundTx => d.keys = {Recipient}
    BY <1>2, ClaimSigners DEF IInv
  <2>3. QED
    BY <2>1, <2>2 DEF RefInv, ClaimKeys
<1>12. QED
  BY <1>8, <1>9, <1>10, <1>11 DEF RefInv

(* A step that records no debit.  It leaves the mapped claims and refund *)
(* as they are.                                                         *)
LEMMA SameRefInv ==
    ASSUME IInv, RefInv, debits' = debits,
           pc = "done" => UNCHANGED <<pc, esc, refundTx>>,
           pc' = "done" /\ pc # "done" =>
               esc'.exists /\ refundTx'.seq = esc'.seq + 1
    PROVE  RefInv' /\ claimedByBar' = claimedByBar /\ refundedBar' = refundedBar
<1>1. CASE pc = "done"
  BY <1>1 DEF RefInv, RefundNext, RefundUsedUp, RefundMerged, ClaimKeys,
     AnyLive, claimedByBar, refundedBar
<1>2. CASE pc # "done"
  <2>1. ~AnyLive /\ ~AnyLive'
    BY <1>2 DEF IInv, LiveAfterDone, AnyLive
  <2>2. claimedByBar = {} /\ ~refundedBar /\ claimedByBar' = {} /\ ~refundedBar'
    BY <2>1 DEF AnyLive, claimedByBar, refundedBar
  <2>3. RefundNext'
    BY <1>2, <2>1 DEF RefundNext
  <2>4. RefundUsedUp' /\ RefundMerged' /\ ClaimKeys'
    BY <2>1, <2>2 DEF RefundUsedUp, RefundMerged, ClaimKeys, AnyLive
  <2>5. refundedBar' = refundedBar
    BY <2>2 DEF refundedBar
  <2>6. QED
    BY <2>2, <2>3, <2>4, <2>5 DEF RefInv
<1>3. QED
  BY <1>1, <1>2
-----------------------------------------------------------------------------
(* Each step of the leg is a step of EscrowLeg under the mapping. *)

(* The claims so far are the recipient's. *)
LEMMA ClaimedSub == ClaimKeys => claimedByBar \subseteq {Recipient}
BY DEF ClaimKeys, claimedByBar

(* A transaction without time bound, applied after success, is a claim. *)
LEMMA ClaimStep ==
    ASSUME IInv, RefInv, NEW tx \in Txs,
           NEW keys \in SUBSET (Parties \cup {Holding}),
           NEW pres \in SUBSET Preimages,
           Valid(tx, keys, pres), Apply(tx, keys, pres), tx.minTime = 0,
           pc = "done", pc' = pc, refundTx' = refundTx,
           revealed' = (revealed \/ Secret \in pres), now' = now
    PROVE  Abs!Claim
<1> DEFINE d == [tx |-> tx, keys |-> keys, pres |-> pres, at |-> now,
                 live |-> pc = "done"]
<1>1. d \in Debits /\ debits \in Seq(Debits) /\ debits' = Append(debits, d)
  BY DEF Debits, Apply, IInv, SwapInv, TypeOK
<1>2. d.live /\ d.keys = keys /\ d.tx = tx
  OBVIOUS
<1>3. tx # refundTx
  BY LocktimePositive DEF IInv, SwapInv, RefundBuilt
<1>4. /\ refundedBar' = refundedBar
      /\ claimedByBar' = claimedByBar \cup keys
  <2>1. /\ refundedBar' = (refundedBar \/ (d.live /\ d.tx = refundTx))
        /\ claimedByBar' = claimedByBar \cup keys
    BY <1>1, <1>2, <1>3, BarsAppend
  <2>2. QED
    BY <1>3, <2>1 DEF refundedBar
<1>5. esc.exists
  BY DEF Valid, TxValid
<1>6. ~refundedBar
  BY <1>5 DEF RefInv, RefundMerged
<1>7. keys = {Recipient}
  BY <1>3, ClaimSigners DEF IInv
<1>8. claimedByBar' = {Recipient}
  BY <1>4, <1>7, ClaimedSub DEF RefInv
<1>9. Secret \in pres
  <2>1. esc.signers = SwapSigners /\ esc.master = 0 /\ esc.thr = 2
    BY <1>5 DEF IInv, SwapInv, LiveConfig
  <2>2. QED
    BY <1>3, <2>1, SwapAuth DEF Valid, TxValid
<1>10. phaseBar = "locked" /\ phaseBar' = "locked"
  BY DEF phaseBar
<1>11. QED
  BY <1>4, <1>6, <1>8, <1>9, <1>10 DEF Abs!Claim

(* The refund transaction applied after success is the escrow's refund. *)
LEMMA RefundEscrowStep ==
    ASSUME IInv, RefInv, Refund
    PROVE  Abs!RefundEscrow
<1> DEFINE d == [tx |-> refundTx, keys |-> {}, pres |-> {}, at |-> now,
                 live |-> pc = "done"]
<1>1. pc = "done" /\ refundTx \in Txs /\ refundTx.minTime = Locktime
  BY DEF Refund, IInv, SwapInv, RefundBuilt
<1>2. d \in Debits /\ debits \in Seq(Debits) /\ debits' = Append(debits, d)
  BY <1>1 DEF Debits, Refund, Apply, IInv, SwapInv, TypeOK
<1>3. d.live /\ d.tx = refundTx
  BY <1>1
<1>4. refundTx' = refundTx /\ pc' = pc /\ now' = now /\ revealed' = revealed
  BY DEF Refund, builderVars
<1>5. /\ refundedBar'
      /\ claimedByBar' = claimedByBar
  BY <1>2, <1>3, <1>4, BarsAppend
<1>6. esc.exists /\ refundTx.seq = esc.seq + 1 /\ refundTx.minTime <= now
      /\ esc.seq \in Nat
  BY DEF Refund, Valid, TxValid, IInv, SwapInv, TypeOK, Accounts
<1>7. ~refundedBar
  BY <1>6 DEF RefInv, RefundMerged
<1>8. claimedByBar = {}
  <2> SUFFICES ASSUME claimedByBar # {} PROVE FALSE
    OBVIOUS
  <2>1. AnyLive
    BY DEF claimedByBar, AnyLive
  <2>2. esc.seq >= refundTx.seq
    BY <1>6, <2>1 DEF RefInv, RefundUsedUp
  <2>3. QED
    BY <1>6, <2>2
<1>9. phaseBar = "locked" /\ phaseBar' = "locked"
  BY <1>1, <1>4 DEF phaseBar
<1>10. QED
  BY <1>1, <1>4, <1>5, <1>6, <1>7, <1>8, <1>9 DEF Abs!RefundEscrow
(* RedeemUnbounded is kept by every step. *)
LEMMA RedeemUnboundedStep ==
    RedeemUnbounded /\ [Next]_vars => RedeemUnbounded'
<1> SUFFICES ASSUME RedeemUnbounded, [Next]_vars PROVE RedeemUnbounded'
  OBVIOUS
<1>1. CASE RedeemFetch
  BY <1>1 DEF RedeemFetch, RedeemUnbounded
<1>2. CASE RedeemSubmit
  BY <1>2 DEF RedeemSubmit, RedeemUnbounded
<1>3. CASE ~RedeemFetch /\ ~RedeemSubmit
  BY <1>3 DEF Next, RedeemUnbounded, vars, FetchFunding, SubmitCreate,
     FetchForRefund, FetchForConfig, SubmitConfig, Refund, Spend,
     FunderOtherTx, Reveal, Tick, redeemVars
<1>4. QED
  BY <1>1, <1>2, <1>3

(* The builder's steps: the set-up is abandoned or completed, or goes on. *)
LEMMA BuilderRef ==
    ASSUME IInv, RefInv,
           FetchFunding \/ SubmitCreate \/ FetchForRefund \/ FetchForConfig
           \/ SubmitConfig
    PROVE  RefInv' /\ [Abs!Next]_Abs!avars
<1> DEFINE Build == {"fetchFunding", "submitCreate", "fetchForRefund",
                     "fetchForConfig", "submitConfig"}
<1>1. /\ pc \in Build /\ pc' \in Build \cup {"done", "failed"}
      /\ debits' = debits /\ now' = now /\ revealed' = revealed
  BY DEF FetchFunding, SubmitCreate, FetchForRefund, FetchForConfig,
     SubmitConfig
<1>2. pc' = "done" => esc'.exists /\ refundTx'.seq = esc'.seq + 1
  <2>1. CASE SubmitConfig
    <3>1. /\ refundTx.seq = esc.seq + 2 /\ cfgSeq = esc.seq /\ esc \in Accounts
          /\ refundTx' = refundTx
      BY <2>1 DEF SubmitConfig, IInv, SwapInv, RefundAhead, CfgFresh, TypeOK
    <3>2. CASE esc.exists /\ esc' = [esc EXCEPT !.seq = ConfigTx.seq,
                 !.master = ConfigTx.master, !.thr = ConfigTx.thr,
                 !.signers = @ \cup ConfigTx.signers]
      BY <3>1, <3>2 DEF ConfigTx, Accounts
    <3>3. QED
      BY <2>1, <3>2 DEF SubmitConfig
  <2>2. CASE ~SubmitConfig
    BY <2>2 DEF FetchFunding, SubmitCreate, FetchForRefund, FetchForConfig
  <2>3. QED
    BY <2>1, <2>2
<1>3. RefInv' /\ claimedByBar' = claimedByBar /\ refundedBar' = refundedBar
  BY <1>1, <1>2, SameRefInv
<1>4. phaseBar = "building"
  BY <1>1 DEF phaseBar
<1>5. CASE pc' = "failed"
  BY <1>1, <1>3, <1>4, <1>5 DEF Abs!Next, Abs!Abort, phaseBar
<1>6. CASE pc' = "done"
  BY <1>1, <1>3, <1>4, <1>6 DEF Abs!Next, Abs!Lock, phaseBar
<1>7. CASE pc' \in Build
  BY <1>1, <1>3, <1>4, <1>7 DEF Abs!avars, phaseBar
<1>8. QED
  BY <1>1, <1>5, <1>6, <1>7

(* Each step of the leg is a step of EscrowLeg, or leaves the mapped     *)
(* variables alone.                                                     *)
LEMMA RefStep ==
    IInv /\ RefInv /\ RedeemUnbounded /\ [Next]_vars =>
        RefInv' /\ [Abs!Next]_Abs!avars
<1> SUFFICES ASSUME IInv, RefInv, RedeemUnbounded, [Next]_vars
             PROVE  RefInv' /\ [Abs!Next]_Abs!avars
  OBVIOUS
<1>1. CASE FetchFunding \/ SubmitCreate \/ FetchForRefund \/ FetchForConfig
           \/ SubmitConfig
  BY <1>1, BuilderRef
<1>2. CASE RedeemFetch \/ FunderOtherTx \/ UNCHANGED vars
  <2>1. UNCHANGED <<pc, esc, refundTx, debits, now, revealed>>
    BY <1>2 DEF RedeemFetch, FunderOtherTx, vars, builderVars
  <2>2. RefInv' /\ claimedByBar' = claimedByBar /\ refundedBar' = refundedBar
    BY <2>1, SameRefInv
  <2>3. QED
    BY <2>1, <2>2 DEF Abs!avars, phaseBar
<1>3. CASE Reveal \/ Tick
  <2>1. UNCHANGED <<pc, esc, refundTx, debits>>
    BY <1>3 DEF Reveal, Tick, builderVars
  <2>2. RefInv' /\ claimedByBar' = claimedByBar /\ refundedBar' = refundedBar
    BY <2>1, SameRefInv
  <2>3. phaseBar' = phaseBar
    BY <2>1 DEF phaseBar
  <2>4. QED
    BY <1>3, <2>2, <2>3 DEF Reveal, Tick, Abs!Next, Abs!Reveal, Abs!Tick
<1>4. CASE RedeemSubmit
  <2>1. pc = "done" /\ rtx \in Txs /\ rtx.minTime = 0 /\ rpre \in Preimages
    BY <1>4 DEF RedeemSubmit, IInv, SwapInv, RedeemAfterDone, RedeemBuilt,
       RedeemUnbounded, TypeOK
  <2>2. UNCHANGED <<pc, refundTx, now>>
    BY <1>4 DEF RedeemSubmit, builderVars
  <2>3. CASE /\ Valid(rtx, {Recipient}, {rpre})
             /\ Apply(rtx, {Recipient}, {rpre})
             /\ revealed' = (revealed \/ rpre = Secret)
    <3>1. RefInv'
      BY <2>1, <2>2, <2>3, ApplyRefInv DEF Parties
    <3>2. Abs!Claim
      BY <2>1, <2>2, <2>3, ClaimStep DEF Parties
    <3>3. QED
      BY <3>1, <3>2 DEF Abs!Next
  <2>4. CASE rpc' = "failed" /\ UNCHANGED <<esc, debits, revealed>>
    <3>1. RefInv' /\ claimedByBar' = claimedByBar /\ refundedBar' = refundedBar
      BY <2>2, <2>4, SameRefInv
    <3>2. QED
      BY <2>2, <2>4, <3>1 DEF Abs!avars, phaseBar
  <2>5. QED
    BY <1>4, <2>3, <2>4 DEF RedeemSubmit
<1>5. CASE Refund
  <2>1. refundTx \in Txs /\ pc' = pc /\ refundTx' = refundTx
    BY <1>5 DEF Refund, IInv, SwapInv, RefundBuilt, builderVars
  <2>2. RefInv'
    BY <1>5, <2>1, ApplyRefInv DEF Refund
  <2>3. QED
    BY <1>5, <2>2, RefundEscrowStep DEF Abs!Next
<1>6. CASE \E p \in Parties : Spend(p)
  <2>1. PICK p \in Parties : Spend(p)
    BY <1>6
  <2>2. PICK op \in {"merge", "payment"}, dest \in Parties,
             keys \in SUBSET Holds(p), pres \in SUBSET Knows(p) :
          LET tx == [op |-> op, seq |-> esc.seq + 1, minTime |-> 0,
                     dest |-> dest]
          IN  /\ Valid(tx, keys, pres) /\ Apply(tx, keys, pres)
              /\ revealed' = (revealed \/ Secret \in pres)
    BY <2>1 DEF Spend
  <2> DEFINE tx == [op |-> op, seq |-> esc.seq + 1, minTime |-> 0, dest |-> dest]
  <2>3. tx \in Txs /\ tx.minTime = 0
    BY DEF IInv, SwapInv, TypeOK, Accounts, Txs
  <2>4. UNCHANGED <<pc, refundTx, now>>
    BY <2>1 DEF Spend, builderVars
  <2>5. keys \in SUBSET (Parties \cup {Holding}) /\ pres \in SUBSET Preimages
    BY HoldsKnows
  <2>6. RefInv'
    BY <2>2, <2>3, <2>4, <2>5, ApplyRefInv
  <2>7. CASE pc = "done"
    BY <2>2, <2>3, <2>4, <2>5, <2>6, <2>7, ClaimStep DEF Abs!Next
  <2>8. CASE pc # "done"
    <3> DEFINE d == [tx |-> tx, keys |-> keys, pres |-> pres, at |-> now,
                     live |-> pc = "done"]
    <3>1. d \in Debits /\ debits \in Seq(Debits) /\ debits' = Append(debits, d)
      BY <2>2, <2>3, <2>5 DEF Debits, Apply, IInv, SwapInv, TypeOK
    <3>2. ~d.live
      BY <2>8
    <3>3. /\ refundedBar' = (refundedBar \/ (d.live /\ d.tx = refundTx))
          /\ claimedByBar' =
               claimedByBar \cup (IF d.live /\ d.tx # refundTx THEN d.keys ELSE {})
      BY <2>4, <3>1, BarsAppend
    <3>4. refundedBar' = refundedBar /\ claimedByBar' = claimedByBar
      BY <3>2, <3>3 DEF refundedBar
    <3>5. phaseBar' = phaseBar
      BY <2>4 DEF phaseBar
    <3>6. CASE revealed' = revealed
      BY <2>4, <3>4, <3>5, <3>6, <2>6 DEF Abs!avars
    <3>7. CASE revealed' # revealed
      <4>1. revealed' = TRUE
        BY <2>2, <3>7 DEF IInv, SwapInv, TypeOK
      <4>2. Abs!Reveal
        BY <2>4, <3>4, <3>5, <4>1 DEF Abs!Reveal
      <4>3. QED
        BY <2>6, <4>2 DEF Abs!Next
    <3>8. QED
      BY <3>6, <3>7
  <2>9. QED
    BY <2>7, <2>8
<1>7. QED
  BY <1>1, <1>2, <1>3, <1>4, <1>5, <1>6 DEF Next
(* The initial state maps to EscrowLeg's, and RefInv and RedeemUnbounded *)
(* hold in it: nothing has been paid out and no redeem has been fetched. *)
LEMMA InitRef == Init => RefInv /\ RedeemUnbounded /\ Abs!Init
<1> SUFFICES ASSUME Init PROVE RefInv /\ RedeemUnbounded /\ Abs!Init
  OBVIOUS
<1>1. DOMAIN debits = {}
  BY DEF Init
<1>2. RefInv
  BY <1>1 DEF Init, RefInv, RefundNext, RefundUsedUp, RefundMerged, ClaimKeys,
     AnyLive, refundedBar
<1>3. RedeemUnbounded
  BY DEF Init, RedeemUnbounded
<1>4. claimedByBar = {} /\ ~refundedBar /\ phaseBar = "building"
  BY <1>1 DEF Init, claimedByBar, refundedBar, phaseBar
<1>5. QED
  BY <1>2, <1>3, <1>4 DEF Init, Abs!Init

(* The leg, as initiate or participate, redeem, refund and the other     *)
(* parties run it, implements the escrow's promise (AbsSpec): the        *)
(* recipient's claim publishes the secret, the refund waits for the lock *)
(* time, and neither happens after the other.                           *)
THEOREM Refinement == Spec => AbsSpec
<1>1. Init => IInv /\ RefInv /\ RedeemUnbounded
  BY InitIInv, InitRef
<1>2. IInv /\ RefInv /\ RedeemUnbounded /\ [Next]_vars =>
          (IInv /\ RefInv /\ RedeemUnbounded)'
  BY NextIInv, RefStep, RedeemUnboundedStep
<1>3. IInv /\ RefInv /\ RedeemUnbounded /\ [Next]_vars => [Abs!Next]_Abs!avars
  BY RefStep
<1>4. Init => Abs!Init
  BY InitRef
<1>5. QED
  BY <1>1, <1>2, <1>3, <1>4, PTL DEF Spec, AbsSpec, Abs!Spec
=============================================================================
