------------------------- MODULE AtomicSwapLegProofs -------------------------
(***************************************************************************)
(* Proofs about AtomicSwapLeg, for every value of its constants: the type  *)
(* invariant and RefundReserved, through the inductive invariant IInv.     *)
(***************************************************************************)
EXTENDS AtomicSwapLeg, FiniteSetTheorems, SequenceTheorems, TLAPS

USE KeysAssumption, RoleAssumption, AmountsAssumption, TimeAssumption,
    BoundsAssumption

(* A set of signers inside a singleton of weight 1 weighs at most 1. *)
LEMMA WeightAtMostOne ==
    ASSUME NEW S, NEW r, r.weight = 1, S \subseteq {r}
    PROVE  Weight(S) \in Nat /\ Weight(S) <= 1
<1> DEFINE U == UNION {{<<s, i>> : i \in 1..s.weight} : s \in S}
<1>1. U \subseteq {<<r, 1>>}
  OBVIOUS
<1>2. IsFiniteSet({<<r, 1>>}) /\ Cardinality({<<r, 1>>}) = 1
  BY FS_Singleton
<1>3. IsFiniteSet(U) /\ Cardinality(U) <= 1
  BY <1>1, <1>2, FS_Subset
<1>4. QED
  BY <1>3, FS_CardinalityType DEF Weight

(* The empty set of signers weighs 0. *)
LEMMA WeightEmpty == Weight({}) = 0
BY FS_EmptySet DEF Weight

LEMMA LocktimeType == Locktime \in Nat
BY DEF Locktime

-----------------------------------------------------------------------------
LEMMA InitSwapInv == Init => SwapInv
<1> SUFFICES ASSUME Init PROVE SwapInv
  OBVIOUS
<1>1. TypeOK
  <2>1. esc \in Accounts
    BY DEF Init, Accounts
  <2>2. debits \in Seq(Debits)
    BY DEF Init
  <2>3. IsFiniteSet(esc.signers)
    BY FS_EmptySet DEF Init
  <2>4. QED
    BY <2>1, <2>2, <2>3 DEF Init, TypeOK, Preimages
<1>2. QED
  BY <1>1, LocktimeType DEF Init, SwapInv, RefundBuilt, RedeemBuilt, RedeemAfterDone,
             BuildPhase, RefundAhead, CfgFresh, LiveConfig, RefundReserved

-----------------------------------------------------------------------------
(* The ledger's effect keeps an account well typed. *)
LEMMA AppliedType ==
    ASSUME NEW acct \in Accounts, NEW tx \in Txs,
           tx.op = "payment" => acct.bal >= 1
    PROVE  Applied(acct, tx) \in Accounts
<1>1. CASE tx.op = "merge"
  BY <1>1 DEF Applied, Accounts, Txs
<1>2. CASE tx.op = "payment"
  <2>1. acct.bal - 1 \in Nat
    BY <1>2 DEF Accounts
  <2>2. {s \in acct.signers : ~(s.type = "preAuthTx" /\ s.key = tx)}
          \in SUBSET Signers
    BY DEF Accounts
  <2>3. QED
    BY <1>2, <2>1, <2>2 DEF Applied, Accounts, Txs
<1>3. QED
  BY <1>1, <1>2 DEF Txs

(* Apply keeps esc and debits well typed. *)
LEMMA ApplyType ==
    ASSUME TypeOK, NEW tx \in Txs,
           NEW keys \in SUBSET (Parties \cup {Holding}),
           NEW pres \in SUBSET Preimages,
           Valid(tx, keys, pres), Apply(tx, keys, pres)
    PROVE  esc' \in Accounts /\ debits' \in Seq(Debits) /\ IsFiniteSet(esc'.signers)
<1>1. tx.op = "payment" => esc.bal >= 1
  <2>1. Cardinality(esc.signers) \in Nat
    BY FS_CardinalityType DEF TypeOK
  <2>2. QED
    BY <2>1 DEF Valid, TxValid, MinBalance, TypeOK, Accounts
<1>2. esc' \in Accounts
  BY <1>1, AppliedType DEF Apply, TypeOK
<1>3. debits' \in Seq(Debits)
  BY DEF Apply, TypeOK, Debits
<1>4. IsFiniteSet(esc'.signers)
  <2>1. esc'.signers \subseteq esc.signers
    BY DEF Apply, Applied, TypeOK, Accounts
  <2>2. QED
    BY <2>1, FS_Subset DEF TypeOK
<1>5. QED
  BY <1>2, <1>3, <1>4

LEMMA HoldsKnows ==
    ASSUME NEW p \in Parties
    PROVE  Holds(p) \subseteq Parties \cup {Holding} /\ Knows(p) \subseteq Preimages
BY DEF Holds, Knows, Preimages

(* The three signers the configuration adds form a finite set of signers. *)
LEMMA SwapSignersType ==
    ASSUME refundTx \in Txs
    PROVE  SwapSigners \in SUBSET Signers /\ IsFiniteSet(SwapSigners)
<1>1. SwapSigners \in SUBSET Signers
  BY DEF SwapSigners, Signers, SignerTypes, Parties, Preimages
<1>2. IsFiniteSet(SwapSigners)
  <2> DEFINE a == [type |-> "ed25519", key |-> Recipient, weight |-> 1]
             b == [type |-> "hashX", key |-> Secret, weight |-> 1]
             c == [type |-> "preAuthTx", key |-> refundTx, weight |-> 2]
  <2>1. IsFiniteSet({a})
    BY FS_Singleton
  <2>2. IsFiniteSet({a} \cup {b})
    BY <2>1, FS_AddElement
  <2>3. IsFiniteSet(({a} \cup {b}) \cup {c})
    BY <2>2, FS_AddElement
  <2>4. QED
    BY <2>3 DEF SwapSigners
<1>3. QED
  BY <1>1, <1>2

-----------------------------------------------------------------------------
(* One lemma per action of the builder. *)

LEMMA FetchFundingStep == SwapInv /\ FetchFunding => SwapInv'
BY DEF SwapInv, FetchFunding, TypeOK, RefundBuilt, RedeemBuilt, RedeemAfterDone,
       BuildPhase, RefundAhead, CfgFresh, LiveConfig, RefundReserved,
       redeemVars

LEMMA SubmitCreateStep == SwapInv /\ SubmitCreate => SwapInv'
<1> SUFFICES ASSUME SwapInv, SubmitCreate PROVE SwapInv'
  OBVIOUS
<1>1. CASE CreateValid
         /\ fundSeq' = fundSeq + 1
         /\ esc' = [id |-> Holding, exists |-> TRUE, seq |-> NewAccountSeq,
                    bal |-> amount, master |-> 1, thr |-> 0, signers |-> {}]
         /\ pc' \in {"fetchForRefund", "failed"}
  <2>1. esc' \in Accounts /\ IsFiniteSet(esc'.signers)
    BY <1>1, FS_EmptySet DEF SwapInv, TypeOK, Accounts, NewAccountSeq
  <2>2. TypeOK'
    BY <1>1, <2>1 DEF SubmitCreate, SwapInv, TypeOK, redeemVars
  <2>3. QED
    BY <1>1, <2>2 DEF SubmitCreate, SwapInv, RefundBuilt, RedeemBuilt,
       RedeemAfterDone, BuildPhase, RefundAhead, CfgFresh, LiveConfig,
       RefundReserved, redeemVars
<1>2. CASE pc' = "failed" /\ UNCHANGED <<fundSeq, esc>>
  BY <1>2 DEF SubmitCreate, SwapInv, TypeOK, RefundBuilt, RedeemBuilt,
       RedeemAfterDone, BuildPhase, RefundAhead, CfgFresh, LiveConfig,
       RefundReserved, redeemVars
<1>3. QED
  BY <1>1, <1>2 DEF SubmitCreate

LEMMA FetchForRefundStep == SwapInv /\ FetchForRefund => SwapInv'
<1> SUFFICES ASSUME SwapInv, FetchForRefund PROVE SwapInv'
  OBVIOUS
<1>1. RefundTransaction(esc) \in Txs /\ RefundTransaction(esc).op = "merge"
  BY LocktimeType DEF RefundTransaction, Txs, Parties, SwapInv, TypeOK, Accounts
<1>2. QED
  BY <1>1 DEF FetchForRefund, SwapInv, TypeOK, RefundBuilt, RedeemBuilt,
       RedeemAfterDone, BuildPhase, RefundAhead, CfgFresh, LiveConfig,
       RefundReserved, redeemVars, RefundTransaction

LEMMA FetchForConfigStep == SwapInv /\ FetchForConfig => SwapInv'
BY DEF FetchForConfig, SwapInv, TypeOK, Accounts, RefundBuilt, RedeemBuilt,
       RedeemAfterDone, BuildPhase, RefundAhead, CfgFresh, LiveConfig,
       RefundReserved, redeemVars

LEMMA SubmitConfigStep == SwapInv /\ SubmitConfig => SwapInv'
<1> SUFFICES ASSUME SwapInv, SubmitConfig PROVE SwapInv'
  OBVIOUS
<1>1. CASE /\ esc.exists
           /\ ConfigTx.seq = esc.seq + 1
           /\ Authorized(esc, ConfigTx, {Holding}, {})
           /\ esc.bal >= MinBalance(Cardinality(esc.signers \cup ConfigTx.signers))
           /\ esc' = [esc EXCEPT !.seq = ConfigTx.seq, !.master = ConfigTx.master,
                       !.thr = ConfigTx.thr, !.signers = @ \cup ConfigTx.signers]
           /\ pc' \in {"done", "failed"}
  <2>1. refundTx \in Txs /\ esc.signers = {} /\ cfgSeq = esc.seq
        /\ refundTx.seq = esc.seq + 2
    BY DEF SwapInv, RefundBuilt, BuildPhase, CfgFresh, RefundAhead, SubmitConfig
  <2>2. esc'.signers = SwapSigners /\ esc'.master = 0 /\ esc'.thr = 2
        /\ esc'.seq = esc.seq + 1 /\ esc'.exists
    BY <1>1, <2>1 DEF ConfigTx
  <2>3. esc' \in Accounts /\ IsFiniteSet(esc'.signers)
    <3>1. SwapSigners \in SUBSET Signers /\ IsFiniteSet(SwapSigners)
      BY <2>1, SwapSignersType
    <3>2. esc.seq + 1 \in Nat
      BY DEF SwapInv, TypeOK, Accounts
    <3>3. QED
      BY <1>1, <2>2, <3>1, <3>2 DEF SwapInv, TypeOK, Accounts, ConfigTx
  <2>4. TypeOK'
    BY <2>3 DEF SubmitConfig, SwapInv, TypeOK, redeemVars
  <2>5. RefundBuilt' /\ RedeemBuilt' /\ RedeemAfterDone'
    BY <1>1 DEF SubmitConfig, SwapInv, RefundBuilt, RedeemBuilt, RedeemAfterDone,
       redeemVars
  <2>6. BuildPhase' /\ RefundAhead' /\ CfgFresh'
    BY <1>1 DEF BuildPhase, RefundAhead, CfgFresh
  <2>7. LiveConfig'
    BY <2>2 DEF SubmitConfig, LiveConfig, SwapSigners
  <2>8. RefundReserved'
    BY <2>1, <2>2 DEF SubmitConfig, RefundReserved, SwapInv, TypeOK, Accounts
  <2>9. QED
    BY <2>4, <2>5, <2>6, <2>7, <2>8 DEF SwapInv
<1>2. CASE pc' = "failed" /\ UNCHANGED esc
  BY <1>2 DEF SubmitConfig, SwapInv, TypeOK, RefundBuilt, RedeemBuilt,
       RedeemAfterDone, BuildPhase, RefundAhead, CfgFresh, LiveConfig,
       RefundReserved, redeemVars
<1>3. QED
  BY <1>1, <1>2 DEF SubmitConfig

-----------------------------------------------------------------------------
(* Nobody can spend from the holding account while the builder runs: the  *)
(* holding key is in the builder's memory and there is no other signer.   *)
LEMMA NoSpendDuringBuild ==
    ASSUME SwapInv, pc \in {"fetchForRefund", "fetchForConfig", "submitConfig"},
           NEW p \in Parties, NEW tx, NEW keys \in SUBSET Holds(p), NEW pres,
           Valid(tx, keys, pres)
    PROVE  FALSE
<1>1. esc.signers = {} /\ esc.master = 1 /\ esc.thr = 0 /\ esc.id = Holding
  BY DEF SwapInv, BuildPhase, TypeOK, Accounts
<1>2. keys = {}
  BY <1>1 DEF Valid, TxValid, NoExtraAuth, Holds
<1>3. Satisfied(esc, tx, keys, pres) = {}
  BY <1>1 DEF Satisfied
<1>4. AuthWeight(esc, tx, keys, pres) = 0
  BY <1>2, <1>3, WeightEmpty DEF AuthWeight
<1>5. QED
  BY <1>4 DEF Valid, TxValid, Authorized

(* Once configured, a payment from the holding account leaves its signers, *)
(* master weight and thresholds as they are.                               *)
LEMMA PaymentKeepsConfig ==
    ASSUME SwapInv, pc = "done", esc.exists,
           NEW tx \in Txs, tx.op = "payment", esc' = Applied(esc, tx)
    PROVE  /\ esc'.signers = esc.signers /\ esc'.master = esc.master
           /\ esc'.thr = esc.thr /\ esc'.exists
<1>1. esc.signers = SwapSigners /\ refundTx.op = "merge"
  BY DEF SwapInv, LiveConfig, RefundBuilt
<1>2. {s \in esc.signers : ~(s.type = "preAuthTx" /\ s.key = tx)} = esc.signers
  BY <1>1 DEF SwapSigners
<1>3. QED
  BY <1>2 DEF Applied, SwapInv, TypeOK, Accounts

(* Once configured, no payment from the holding account is valid without  *)
(* the secret among its preimages.                                         *)
LEMMA NoPaymentWithoutSecret ==
    ASSUME SwapInv, pc = "done", esc.exists,
           NEW tx \in Txs, tx.op = "payment", NEW keys, NEW pres,
           Secret \notin pres, Valid(tx, keys, pres)
    PROVE  FALSE
<1> DEFINE r == [type |-> "ed25519", key |-> Recipient, weight |-> 1]
<1>1. esc.signers = SwapSigners /\ esc.master = 0 /\ esc.thr = 2
      /\ refundTx.op = "merge"
  BY DEF SwapInv, LiveConfig, RefundBuilt
<1>2. Satisfied(esc, tx, keys, pres) \subseteq {r}
  BY <1>1 DEF Satisfied, SwapSigners
<1>3. Weight(Satisfied(esc, tx, keys, pres)) \in Nat
      /\ Weight(Satisfied(esc, tx, keys, pres)) <= 1
  BY <1>2, WeightAtMostOne
<1>4. AuthWeight(esc, tx, keys, pres) \in Nat
      /\ AuthWeight(esc, tx, keys, pres) <= 1
  BY <1>1, <1>3 DEF AuthWeight
<1>5. Authorized(esc, tx, keys, pres)
  BY DEF Valid, TxValid
<1>6. QED
  BY <1>1, <1>4, <1>5 DEF Authorized

-----------------------------------------------------------------------------
(* One lemma per action of the redeem and refund commands, the parties    *)
(* and the environment.                                                    *)

LEMMA RedeemFetchStep == SwapInv /\ RedeemFetch => SwapInv'
<1> SUFFICES ASSUME SwapInv, RedeemFetch PROVE SwapInv'
  OBVIOUS
<1>1. esc.seq + 1 \in Nat /\ Knows(Recipient) \subseteq Preimages
  BY DEF SwapInv, TypeOK, Accounts, Knows, Preimages
<1>2. QED
  BY <1>1 DEF RedeemFetch, SwapInv, TypeOK, Txs, Parties, RefundBuilt,
       RedeemBuilt, RedeemAfterDone, BuildPhase, RefundAhead, CfgFresh,
       LiveConfig, RefundReserved, builderVars, SwapSigners, Locktime

(* A merge applied from the holding account removes it. *)
LEMMA MergeRemoves ==
    ASSUME NEW tx, tx.op = "merge", esc' = Applied(esc, tx)
    PROVE  ~esc'.exists
BY DEF Applied

LEMMA RedeemSubmitStep == SwapInv /\ RedeemSubmit => SwapInv'
<1> SUFFICES ASSUME SwapInv, RedeemSubmit PROVE SwapInv'
  OBVIOUS
<1>1. pc = "done" /\ rtx \in Txs /\ rtx.op = "merge"
  BY DEF SwapInv, RedeemAfterDone, RedeemBuilt, RedeemSubmit
<1>2. CASE /\ Valid(rtx, {Recipient}, {rpre})
           /\ Apply(rtx, {Recipient}, {rpre})
           /\ revealed' = (revealed \/ rpre = Secret)
           /\ rpc' \in {"done", "failed"}
  <2>1. esc' \in Accounts /\ debits' \in Seq(Debits) /\ IsFiniteSet(esc'.signers)
    BY <1>1, <1>2, ApplyType DEF SwapInv, TypeOK, Parties
  <2>2. ~esc'.exists
    BY <1>1, <1>2, MergeRemoves DEF Apply
  <2>3. QED
    BY <1>1, <1>2, <2>1, <2>2 DEF RedeemSubmit, SwapInv, TypeOK,
       RefundBuilt, RedeemBuilt, RedeemAfterDone, BuildPhase, RefundAhead,
       CfgFresh, LiveConfig, RefundReserved, builderVars
<1>3. CASE rpc' = "failed" /\ UNCHANGED <<esc, debits, revealed>>
  BY <1>1, <1>3 DEF RedeemSubmit, SwapInv, TypeOK, RefundBuilt, RedeemBuilt,
       RedeemAfterDone, BuildPhase, RefundAhead, CfgFresh, LiveConfig,
       RefundReserved, builderVars, SwapSigners, Locktime
<1>4. QED
  BY <1>2, <1>3 DEF RedeemSubmit

LEMMA RefundStep == SwapInv /\ Refund => SwapInv'
<1> SUFFICES ASSUME SwapInv, Refund PROVE SwapInv'
  OBVIOUS
<1>1. pc = "done" /\ refundTx \in Txs /\ refundTx.op = "merge"
  BY DEF SwapInv, RefundBuilt, Refund
<1>2. esc' \in Accounts /\ debits' \in Seq(Debits) /\ IsFiniteSet(esc'.signers)
  BY <1>1, ApplyType DEF SwapInv, Refund
<1>3. ~esc'.exists
  BY <1>1, MergeRemoves DEF Apply, Refund
<1>4. QED
  BY <1>1, <1>2, <1>3 DEF Refund, SwapInv, TypeOK, RefundBuilt, RedeemBuilt,
     RedeemAfterDone, BuildPhase, RefundAhead, CfgFresh, LiveConfig,
     RefundReserved, builderVars, redeemVars

LEMMA SpendStep ==
    ASSUME SwapInv, NEW p \in Parties, Spend(p)
    PROVE  SwapInv'
<1>1. PICK op \in {"merge", "payment"}, dest \in Parties,
           keys \in SUBSET Holds(p), pres \in SUBSET Knows(p) :
        LET tx == [op |-> op, seq |-> esc.seq + 1, minTime |-> 0, dest |-> dest]
        IN  /\ Valid(tx, keys, pres)
            /\ Apply(tx, keys, pres)
            /\ revealed' = (revealed \/ Secret \in pres)
  BY DEF Spend
<1> DEFINE tx == [op |-> op, seq |-> esc.seq + 1, minTime |-> 0, dest |-> dest]
<1>2. tx \in Txs
  BY DEF SwapInv, TypeOK, Accounts, Txs
<1>3. UNCHANGED <<now, amount, fundSeq, pc, readFundSeq, refundTx, cfgSeq,
                  rpc, rtx, rpre>>
  BY DEF Spend, builderVars, redeemVars
<1>4. TypeOK'
  <2>1. esc' \in Accounts /\ debits' \in Seq(Debits) /\ IsFiniteSet(esc'.signers)
    BY <1>1, <1>2, HoldsKnows, ApplyType DEF SwapInv
  <2>2. QED
    BY <1>1, <1>3, <2>1 DEF SwapInv, TypeOK
<1>5. RefundBuilt' /\ RedeemBuilt' /\ RedeemAfterDone'
  BY <1>3 DEF SwapInv, RefundBuilt, RedeemBuilt, RedeemAfterDone
<1>6. pc \notin {"fetchForRefund", "fetchForConfig", "submitConfig"}
  BY <1>1, NoSpendDuringBuild
<1>7. BuildPhase' /\ RefundAhead' /\ CfgFresh'
  BY <1>3, <1>6 DEF BuildPhase, RefundAhead, CfgFresh
<1>8. LiveConfig' /\ RefundReserved'
  <2>1. CASE pc # "done"
    BY <1>3, <2>1 DEF LiveConfig, RefundReserved
  <2>2. CASE pc = "done" /\ op = "merge"
    <3>1. esc' = Applied(esc, tx) /\ tx.op = "merge"
      BY <1>1, <2>2 DEF Apply
    <3>2. ~esc'.exists
      BY <3>1, MergeRemoves
    <3>3. QED
      BY <3>2 DEF LiveConfig, RefundReserved
  <2>3. CASE pc = "done" /\ op = "payment" /\ Secret \in pres
    <3>1. esc.exists
      BY <1>1 DEF Valid, TxValid
    <3>2. /\ esc'.signers = esc.signers /\ esc'.master = esc.master
          /\ esc'.thr = esc.thr
      BY <1>1, <1>2, <2>3, <3>1, PaymentKeepsConfig DEF Apply
    <3>3. LiveConfig'
      BY <1>3, <2>3, <3>1, <3>2 DEF SwapInv, LiveConfig, SwapSigners
    <3>4. QED
      BY <1>1, <2>3, <3>3 DEF RefundReserved
  <2>4. CASE pc = "done" /\ op = "payment" /\ Secret \notin pres
    <3>5. esc.exists
      BY <1>1 DEF Valid, TxValid
    <3>6. QED
      BY <1>1, <1>2, <2>4, <3>5, NoPaymentWithoutSecret
  <2>5. QED
    BY <2>1, <2>2, <2>3, <2>4
<1>9. QED
  BY <1>4, <1>5, <1>7, <1>8 DEF SwapInv

LEMMA EnvStep == SwapInv /\ (FunderOtherTx \/ Reveal \/ Tick) => SwapInv'
<1> SUFFICES ASSUME SwapInv, FunderOtherTx \/ Reveal \/ Tick PROVE SwapInv'
  OBVIOUS
<1> USE DEF SwapInv, TypeOK, RefundBuilt, RedeemBuilt, RedeemAfterDone,
        BuildPhase, RefundAhead, CfgFresh, LiveConfig, builderVars,
        redeemVars, SwapSigners, Locktime
<1>1. CASE FunderOtherTx
  BY <1>1 DEF FunderOtherTx, RefundReserved
<1>2. CASE Reveal
  BY <1>2 DEF Reveal, RefundReserved
<1>3. CASE Tick
  BY <1>3 DEF Tick, RefundReserved
<1>4. QED
  BY <1>1, <1>2, <1>3

LEMMA StutterStep == SwapInv /\ UNCHANGED vars => SwapInv'
BY DEF vars, SwapInv, TypeOK, RefundBuilt, RedeemBuilt, RedeemAfterDone,
       BuildPhase, RefundAhead, CfgFresh, LiveConfig, RefundReserved,
       SwapSigners, Locktime

-----------------------------------------------------------------------------
(* The debits of the configured holding account.                          *)

(* With the swap's signers, master weight 0 and threshold 2, a            *)
(* transaction is authorised only by the recipient's signature together   *)
(* with the secret, or by being the pre-authorised refund transaction.    *)
LEMMA SwapAuth ==
    ASSUME esc.signers = SwapSigners, esc.master = 0, esc.thr = 2,
           NEW tx, NEW keys, NEW pres, tx # refundTx,
           Authorized(esc, tx, keys, pres)
    PROVE  Recipient \in keys /\ Secret \in pres
<1> DEFINE r == [type |-> "ed25519", key |-> Recipient, weight |-> 1]
           h == [type |-> "hashX", key |-> Secret, weight |-> 1]
<1> SUFFICES ASSUME ~(Recipient \in keys /\ Secret \in pres) PROVE FALSE
  OBVIOUS
<1>1. \E x \in {r, h} : Satisfied(esc, tx, keys, pres) \subseteq {x}
  BY DEF Satisfied, SwapSigners
<1>2. Weight(Satisfied(esc, tx, keys, pres)) \in Nat
      /\ Weight(Satisfied(esc, tx, keys, pres)) <= 1
  BY <1>1, WeightAtMostOne
<1>3. AuthWeight(esc, tx, keys, pres) \in Nat
      /\ AuthWeight(esc, tx, keys, pres) <= 1
  BY <1>2 DEF AuthWeight
<1>4. QED
  BY <1>3 DEF Authorized

(* A debit recorded by the ledger obeys the rules when it is live, and the *)
(* debits already recorded keep obeying them.                              *)
LEMMA ApplyDebits ==
    ASSUME IInv, NEW tx \in Txs, NEW keys \in SUBSET (Parties \cup {Holding}),
           NEW pres \in SUBSET Preimages,
           Valid(tx, keys, pres), Apply(tx, keys, pres),
           pc' = pc, refundTx' = refundTx
    PROVE  LiveAfterDone' /\ EscrowPaysOnlyByRules'
<1> DEFINE d == [tx |-> tx, keys |-> keys, pres |-> pres, at |-> now,
                 live |-> pc = "done"]
<1>1. d \in Debits /\ debits \in Seq(Debits) /\ debits' = Append(debits, d)
  BY DEF Debits, Apply, IInv, SwapInv, TypeOK
<1>2. /\ Len(debits') = Len(debits) + 1
      /\ \A i \in 1..Len(debits) : debits'[i] = debits[i]
      /\ debits'[Len(debits) + 1] = d
      /\ debits' \in Seq(Debits)
  BY <1>1, AppendProperties
<1>3. ASSUME pc = "done"
      PROVE  (Recipient \in keys /\ Secret \in pres)
             \/ (tx = refundTx /\ now >= Locktime)
  <2>1. esc.exists /\ Authorized(esc, tx, keys, pres) /\ tx.minTime <= now
    BY DEF Valid, TxValid
  <2>2. esc.signers = SwapSigners /\ esc.master = 0 /\ esc.thr = 2
        /\ refundTx.minTime = Locktime
    BY <1>3, <2>1 DEF IInv, SwapInv, LiveConfig, RefundBuilt
  <2>3. CASE tx = refundTx
    BY <2>1, <2>2, <2>3
  <2>4. CASE tx # refundTx
    BY <2>1, <2>2, <2>4, SwapAuth
  <2>5. QED
    BY <2>3, <2>4
<1>4. DOMAIN debits' = 1..Len(debits) + 1 /\ DOMAIN debits = 1..Len(debits)
  BY <1>1, <1>2
<1>5. ASSUME NEW i \in 1..Len(debits)
      PROVE  /\ debits'[i].live => pc' = "done"
             /\ debits'[i].live =>
                   \/ Recipient \in debits'[i].keys /\ Secret \in debits'[i].pres
                   \/ debits'[i].tx = refundTx' /\ debits'[i].at >= Locktime
  BY <1>2, <1>4 DEF IInv, LiveAfterDone, EscrowPaysOnlyByRules
<1>6. /\ debits'[Len(debits) + 1].live => pc' = "done"
      /\ debits'[Len(debits) + 1].live =>
            \/ Recipient \in debits'[Len(debits) + 1].keys
               /\ Secret \in debits'[Len(debits) + 1].pres
            \/ debits'[Len(debits) + 1].tx = refundTx'
               /\ debits'[Len(debits) + 1].at >= Locktime
  <2>1. debits'[Len(debits) + 1] = d
    BY <1>2
  <2>2. d.live = (pc = "done") /\ d.keys = keys /\ d.pres = pres
        /\ d.tx = tx /\ d.at = now
    OBVIOUS
  <2>3. pc = "done" => ((Recipient \in keys /\ Secret \in pres)
                         \/ (tx = refundTx /\ now >= Locktime))
    BY <1>3
  <2>4. QED
    BY <2>1, <2>2, <2>3
<1>7. QED
  <2>1. \A i \in DOMAIN debits' :
           i \in 1..Len(debits) \/ i = Len(debits) + 1
    BY <1>1, <1>4
  <2>2. QED
    BY <1>5, <1>6, <2>1 DEF LiveAfterDone, EscrowPaysOnlyByRules, Locktime

(* A step that records no debit keeps the rules, as long as it leaves     *)
(* the builder's outcome and refund transaction alone after success.      *)
LEMMA SameDebits ==
    ASSUME IInv, debits' = debits,
           pc = "done" => pc' = "done" /\ refundTx' = refundTx
    PROVE  LiveAfterDone' /\ EscrowPaysOnlyByRules'
BY DEF IInv, LiveAfterDone, EscrowPaysOnlyByRules, Locktime

-----------------------------------------------------------------------------
(* The inductive invariant. *)

LEMMA SwapInvStep == SwapInv /\ [Next]_vars => SwapInv'
<1> SUFFICES ASSUME SwapInv, [Next]_vars PROVE SwapInv'
  OBVIOUS
<1>1. CASE \E p \in Parties : Spend(p)
  BY <1>1, SpendStep
<1>2. QED
  BY <1>1, FetchFundingStep, SubmitCreateStep, FetchForRefundStep,
     FetchForConfigStep, SubmitConfigStep, RedeemFetchStep, RedeemSubmitStep,
     RefundStep, EnvStep, StutterStep DEF Next

LEMMA DebitsStep ==
    IInv /\ [Next]_vars => LiveAfterDone' /\ EscrowPaysOnlyByRules'
<1> SUFFICES ASSUME IInv, [Next]_vars
             PROVE  LiveAfterDone' /\ EscrowPaysOnlyByRules'
  OBVIOUS
<1>1. CASE FetchFunding \/ SubmitCreate \/ FetchForRefund \/ FetchForConfig
           \/ SubmitConfig
  BY <1>1, SameDebits DEF FetchFunding, SubmitCreate, FetchForRefund,
     FetchForConfig, SubmitConfig
<1>2. CASE RedeemFetch \/ FunderOtherTx \/ Reveal \/ Tick \/ UNCHANGED vars
  BY <1>2, SameDebits DEF RedeemFetch, FunderOtherTx, Reveal, Tick, vars,
     builderVars
<1>3. CASE RedeemSubmit
  <2>1. rtx \in Txs /\ rpre \in Preimages
    BY <1>3 DEF RedeemSubmit, IInv, SwapInv, RedeemBuilt, TypeOK
  <2>2. CASE Valid(rtx, {Recipient}, {rpre}) /\ Apply(rtx, {Recipient}, {rpre})
    BY <1>3, <2>1, <2>2, ApplyDebits DEF RedeemSubmit, builderVars, Parties
  <2>3. QED
    BY <1>3, <2>2, SameDebits DEF RedeemSubmit, builderVars
<1>4. CASE Refund
  <2>1. refundTx \in Txs
    BY <1>4 DEF Refund, IInv, SwapInv, RefundBuilt
  <2>2. QED
    BY <1>4, <2>1, ApplyDebits DEF Refund, builderVars
<1>5. CASE \E p \in Parties : Spend(p)
  <2>1. PICK p \in Parties : Spend(p)
    BY <1>5
  <2>2. PICK op \in {"merge", "payment"}, dest \in Parties,
             keys \in SUBSET Holds(p), pres \in SUBSET Knows(p) :
          LET tx == [op |-> op, seq |-> esc.seq + 1, minTime |-> 0,
                     dest |-> dest]
          IN  Valid(tx, keys, pres) /\ Apply(tx, keys, pres)
    BY <2>1 DEF Spend
  <2>3. [op |-> op, seq |-> esc.seq + 1, minTime |-> 0, dest |-> dest] \in Txs
    BY DEF IInv, SwapInv, TypeOK, Accounts, Txs
  <2>4. pc' = pc /\ refundTx' = refundTx
    BY <2>1 DEF Spend, builderVars
  <2>5. QED
    BY <2>2, <2>3, <2>4, HoldsKnows, ApplyDebits
<1>6. QED
  BY <1>1, <1>2, <1>3, <1>4, <1>5 DEF Next

THEOREM NextIInv == IInv /\ [Next]_vars => IInv'
BY SwapInvStep, DebitsStep DEF IInv

THEOREM InitIInv == Init => IInv
BY InitSwapInv DEF Init, IInv, LiveAfterDone, EscrowPaysOnlyByRules

(* IInv holds in every reachable state. *)
THEOREM IInvInvariant == Spec => []IInv
BY InitIInv, NextIInv, PTL DEF Spec

(* Every reachable state is well typed (TypeOK). *)
THEOREM TypeCorrect == Spec => []TypeOK
BY IInvInvariant, PTL DEF IInv, SwapInv

(* Once initiate or participate has returned the holding account, every  *)
(* debit of it is signed by the recipient with the secret, or is the      *)
(* refund transaction applied after the lock time (EscrowPaysOnlyByRules). *)
THEOREM EscrowSafe == Spec => []EscrowPaysOnlyByRules
BY IInvInvariant, PTL DEF IInv

(* While the secret is unrevealed, the refund transaction keeps the next  *)
(* sequence number of the configured holding account (RefundReserved).   *)
THEOREM RefundReservedThm == Spec => []RefundReserved
BY IInvInvariant, PTL DEF IInv, SwapInv

=============================================================================
