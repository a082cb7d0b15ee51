--------------------------- MODULE AtomicSwapLeg ---------------------------
(***************************************************************************)
(* One leg of a Stellar atomic swap, as built and spent by                 *)
(* cmd/stellaratomicswap/main.go.                                          *)
(*                                                                         *)
(* The builder is the `initiate` or `participate` command: it runs         *)
(* createAtomicSwapHoldingAccount, one network round-trip per action, and  *)
(* the ledger may change between two of them.  Next to it run the          *)
(* `redeem` command of the recipient (two round-trips), the `refund`       *)
(* command (one), and any party submitting any transaction sourced from    *)
(* the holding account with the keys and preimages it has.  The ledger's   *)
(* validation of a submitted transaction (sequence number, time bounds,    *)
(* signer weights against the threshold, reserve) is the part of Stellar   *)
(* the swap relies on and is modelled from the spec.                       *)
(*                                                                         *)
(* Amounts are in units of half a lumen, the base reserve.  Hashes are     *)
(* injective: the hash-x signer of a preimage holds the preimage, the      *)
(* pre-authorised-transaction signer holds the transaction.                *)
(***************************************************************************)
EXTENDS StellarLedger, Sequences

CONSTANTS
    Funder,      \* key pair of the funding account (initiator or participant)
    Recipient,   \* the counterparty's address
    Mallory,     \* any other party
    Holding,     \* key pair generated for the holding account
    Secret,      \* the swap secret; its hash is the hash-x signer
    Junk,        \* a preimage that is not the secret
    NoTx,        \* no refund transaction built yet
    Role,        \* "initiate" or "participate"
    Amounts,     \* amounts the command may be given
    LockTime,    \* timings.LockTime
    MaxTime,     \* bound on the ledger clock
    MaxFunderTxs, \* bound on other transactions of the funding account
    MaxSpends    \* bound on transactions of other parties from the holding account

Parties == {Funder, Recipient, Mallory}
Preimages == {Secret, Junk}

ASSUME KeysAssumption == Holding \notin Parties
ASSUME RoleAssumption == Role \in {"initiate", "participate"}
ASSUME AmountsAssumption == Amounts \subseteq Nat
ASSUME TimeAssumption == LockTime \in Nat /\ MaxTime \in Nat
ASSUME BoundsAssumption == MaxFunderTxs \in Nat /\ MaxSpends \in Nat

VARIABLES
    now,         \* close time of the last ledger
    revealed,    \* the secret is known outside its generator
    amount,      \* the amount argument of the command
    fundSeq,     \* sequence number of the funding account on the ledger
    esc,         \* the holding account on the ledger
    debits,      \* the ledger's history of debits of the holding account
    pc,          \* where createAtomicSwapHoldingAccount is
    readFundSeq, \* funding account sequence read by createHoldingAccount
    refundTx,    \* the refund transaction built by createRefundTransaction
    cfgSeq,      \* holding account sequence read by setHoldingAccountSigningOptions
    rpc,         \* where the redeem command is
    rtx,         \* the redeem transaction it built
    rpre         \* the secret argument of the redeem command

vars == <<now, revealed, amount, fundSeq, esc, debits, pc, readFundSeq,
          refundTx, cfgSeq, rpc, rtx, rpre>>

-----------------------------------------------------------------------------
(* Types of the ledger data the swap touches. *)

Txs == [op : {"merge", "payment"}, seq : Nat, minTime : Nat, dest : Parties]

SignerTypes == {"ed25519", "hashX", "preAuthTx"}

Signers == [type : SignerTypes, key : Parties \cup Preimages \cup Txs,
            weight : Nat]

Accounts == [id : {Holding}, exists : BOOLEAN, seq : Nat, bal : Nat,
             master : Nat, thr : Nat, signers : SUBSET Signers]

Debits == [tx : Txs, keys : SUBSET (Parties \cup {Holding}),
           pres : SUBSET Preimages, at : Nat, live : BOOLEAN]

\* The lock time computed by initiate (line 492) and participate (538).
Locktime == IF Role = "initiate" THEN LockTime ELSE LockTime \div 2

\* The ledger accepts tx, sourced from the holding account.
Valid(tx, keys, pres) == TxValid(esc, now, tx, keys, pres)

\* The ledger applies tx and records the debit.
Apply(tx, keys, pres) ==
    /\ esc' = Applied(esc, tx)
    /\ debits' = Append(debits, [tx |-> tx, keys |-> keys, pres |-> pres,
                                 at |-> now, live |-> pc = "done"])

\* What each party can sign with and knows.  The holding key pair lives in
\* the builder's memory; once the command returned, a funder who kept it
\* may sign with it.
Holds(p) == IF p = Funder /\ pc \in {"done", "failed"}
            THEN {Funder, Holding} ELSE {p}
Knows(p) == {Junk} \cup IF revealed \/ (p = Funder /\ Role = "initiate")
                        THEN {Secret} ELSE {}

-----------------------------------------------------------------------------
Init ==
    /\ now = 0
    /\ revealed = FALSE
    /\ amount \in Amounts
    /\ fundSeq = 0
    /\ esc = [id |-> Holding, exists |-> FALSE, seq |-> 0, bal |-> 0,
              master |-> 0, thr |-> 0, signers |-> {}]
    /\ debits = <<>>
    /\ pc = "fetchFunding"
    /\ readFundSeq = 0
    /\ refundTx = NoTx
    /\ cfgSeq = 0
    /\ rpc = "idle"
    /\ rtx = NoTx
    /\ rpre = Junk

builderVars == <<pc, readFundSeq, refundTx, cfgSeq>>
redeemVars == <<rpc, rtx, rpre>>

(* createHoldingAccount: GetAccount(funding account). *)
FetchFunding ==
    /\ pc = "fetchFunding"
    /\ \/ pc' = "submitCreate" /\ readFundSeq' = fundSeq
       \/ pc' = "failed" /\ UNCHANGED readFundSeq
    /\ UNCHANGED <<now, revealed, amount, fundSeq, esc, debits, refundTx,
                   cfgSeq, redeemVars>>

(* createHoldingAccount: build, sign and submit the CreateAccount. *)
CreateValid == readFundSeq = fundSeq /\ amount >= MinBalance(0)

SubmitCreate ==
    /\ pc = "submitCreate"
    /\ \/ /\ CreateValid
          /\ fundSeq' = fundSeq + 1
          /\ esc' = [id |-> Holding, exists |-> TRUE, seq |-> NewAccountSeq,
                     bal |-> amount, master |-> 1, thr |-> 0, signers |-> {}]
          /\ pc' \in {"fetchForRefund", "failed"}
       \/ /\ pc' = "failed"
          /\ UNCHANGED <<fundSeq, esc>>
    /\ UNCHANGED <<now, revealed, amount, debits, readFundSeq, refundTx,
                   cfgSeq, redeemVars>>

\* Mutant: the sequence number is incremented once only.
RefundTransactionOnce(acct) ==
    [op |-> "merge", seq |-> acct.seq + 1, minTime |-> Locktime, dest |-> Funder]

\* createRefundTransaction on the holding account as read: the merge to the
\* funding account, lower time bound the lock time, no upper bound.  The
\* sequence number is incremented by IncrementSequenceNumber and again by
\* Build.
RefundTransaction(acct) ==
    [op |-> "merge", seq |-> acct.seq + 2, minTime |-> Locktime, dest |-> Funder]

(* createRefundTransaction: GetAccount(holding account), build. *)
FetchForRefund ==
    /\ pc = "fetchForRefund"
    /\ \/ /\ esc.exists
          /\ refundTx' = RefundTransaction(esc)
          /\ pc' = "fetchForConfig"
       \/ pc' = "failed" /\ UNCHANGED refundTx
    /\ UNCHANGED <<now, revealed, amount, fundSeq, esc, debits, readFundSeq,
                   cfgSeq, redeemVars>>

(* setHoldingAccountSigningOptions: GetAccount(holding account). *)
FetchForConfig ==
    /\ pc = "fetchForConfig"
    /\ \/ esc.exists /\ pc' = "submitConfig" /\ cfgSeq' = esc.seq
       \/ pc' = "failed" /\ UNCHANGED cfgSeq
    /\ UNCHANGED <<now, revealed, amount, fundSeq, esc, debits, readFundSeq,
                   refundTx, redeemVars>>

\* The four SetOptions of createHoldingAccountSigningTransaction.
SwapSigners ==
    {[type |-> "ed25519", key |-> Recipient, weight |-> 1],
     [type |-> "hashX", key |-> Secret, weight |-> 1],
     [type |-> "preAuthTx", key |-> refundTx, weight |-> 2]}

\* Mutant: the master key keeps its weight.
ConfigTxMasterLive == [seq |-> cfgSeq + 1, master |-> 1, thr |-> 2,
                       signers |-> SwapSigners]

ConfigTx == [seq |-> cfgSeq + 1, master |-> 0, thr |-> 2,
             signers |-> SwapSigners]

(* setHoldingAccountSigningOptions: sign with the holding key, submit. *)
SubmitConfig ==
    /\ pc = "submitConfig"
    /\ \/ /\ esc.exists
          /\ ConfigTx.seq = esc.seq + 1
          /\ Authorized(esc, ConfigTx, {Holding}, {})
          /\ esc.bal >= MinBalance(Cardinality(esc.signers \cup ConfigTx.signers))
          /\ esc' = [esc EXCEPT !.seq = ConfigTx.seq, !.master = ConfigTx.master,
                       !.thr = ConfigTx.thr, !.signers = @ \cup ConfigTx.signers]
          /\ pc' \in {"done", "failed"}
       \/ /\ pc' = "failed"
          /\ UNCHANGED esc
    /\ UNCHANGED <<now, revealed, amount, fundSeq, debits, readFundSeq,
                   refundTx, cfgSeq, redeemVars>>

(* redeemCmd.runCommand: GetAccount(holding account), build the merge to
   the receiver with no time bounds.  The receiver runs it once the
   holding account address is published. *)
RedeemFetch ==
    /\ rpc = "idle"
    /\ pc = "done"
    /\ \/ /\ esc.exists
          /\ rtx' = [op |-> "merge", seq |-> esc.seq + 1, minTime |-> 0,
                     dest |-> Recipient]
          /\ rpre' \in Knows(Recipient)
          /\ rpc' = "fetched"
       \/ rpc' = "failed" /\ UNCHANGED <<rtx, rpre>>
    /\ UNCHANGED <<now, revealed, amount, fundSeq, esc, debits, builderVars>>

(* redeemCmd.runCommand: SignHashX(secret), Sign(receiver), submit. *)
RedeemSubmit ==
    /\ rpc = "fetched"
    /\ \/ /\ Valid(rtx, {Recipient}, {rpre})
          /\ Apply(rtx, {Recipient}, {rpre})
          /\ revealed' = (revealed \/ rpre = Secret)
          /\ rpc' \in {"done", "failed"}
       \/ /\ rpc' = "failed"
          /\ UNCHANGED <<esc, debits, revealed>>
    /\ UNCHANGED <<now, amount, fundSeq, builderVars, rtx, rpre>>

(* refundCmd.runCommand: submit the refund transaction as it is.  Its
   bytes are printed only when the builder finished. *)
Refund ==
    /\ pc = "done"
    /\ Valid(refundTx, {}, {})
    /\ Apply(refundTx, {}, {})
    /\ UNCHANGED <<now, revealed, amount, fundSeq, builderVars, redeemVars>>

(* Any party submits a transaction sourced from the holding account,
   signed with keys it holds and preimages it knows. *)
Spend(p) ==
    /\ Len(debits) < MaxSpends
    /\ \E op \in {"merge", "payment"}, dest \in Parties,
       keys \in SUBSET Holds(p), pres \in SUBSET Knows(p) :
        LET tx == [op |-> op, seq |-> esc.seq + 1, minTime |-> 0, dest |-> dest]
        IN  /\ Valid(tx, keys, pres)
            /\ Apply(tx, keys, pres)
            /\ revealed' = (revealed \/ Secret \in pres)
    /\ UNCHANGED <<now, amount, fundSeq, builderVars, redeemVars>>

(* The funding account submits a transaction of its own. *)
FunderOtherTx ==
    /\ fundSeq < MaxFunderTxs
    /\ fundSeq' = fundSeq + 1
    /\ UNCHANGED <<now, revealed, amount, esc, debits, builderVars, redeemVars>>

(* The secret is revealed on the other chain. *)
Reveal ==
    /\ ~revealed
    /\ revealed' = TRUE
    /\ UNCHANGED <<now, amount, fundSeq, esc, debits, builderVars, redeemVars>>

(* A ledger closes. *)
Tick ==
    /\ now < MaxTime
    /\ now' = now + 1
    /\ UNCHANGED <<revealed, amount, fundSeq, esc, debits, builderVars,
                   redeemVars>>

Next ==
    \/ FetchFunding \/ SubmitCreate \/ FetchForRefund \/ FetchForConfig
    \/ SubmitConfig
    \/ RedeemFetch \/ RedeemSubmit \/ Refund
    \/ \E p \in Parties : Spend(p)
    \/ FunderOtherTx \/ Reveal \/ Tick

Spec == Init /\ [][Next]_vars

-----------------------------------------------------------------------------
(* Properties *)

TypeOK ==
    /\ now \in Nat
    /\ revealed \in BOOLEAN
    /\ amount \in Amounts
    /\ fundSeq \in Nat
    /\ esc \in Accounts
    /\ IsFiniteSet(esc.signers)
    /\ debits \in Seq(Debits)
    /\ pc \in {"fetchFunding", "submitCreate", "fetchForRefund",
               "fetchForConfig", "submitConfig", "done", "failed"}
    /\ readFundSeq \in Nat
    /\ refundTx \in Txs \cup {NoTx}
    /\ cfgSeq \in Nat
    /\ rpc \in {"idle", "fetched", "done", "failed"}
    /\ rtx \in Txs \cup {NoTx}
    /\ rpre \in Preimages

(* Once initiate/participate has returned the holding account, its funds
   leave it only by a transaction the recipient signed together with the
   secret, or by the refund transaction once the lock time has passed. *)
EscrowPaysOnlyByRules ==
    \A i \in DOMAIN debits :
        LET d == debits[i] IN
        d.live =>
            \/ Recipient \in d.keys /\ Secret \in d.pres
            \/ d.tx = refundTx /\ d.at >= Locktime

(* While the secret is unrevealed, the refund transaction built before
   the signing options keeps the next sequence number of the configured
   holding account, so nobody can make it unsubmittable. *)
RefundReserved ==
    (pc = "done" /\ esc.exists /\ ~revealed) => refundTx.seq = esc.seq + 1

(* When initiate/participate returns, success or error, no holding account
   exists that holds funds and is not configured: its key pair is lost. *)
NoStrandedEscrow ==
    pc \in {"done", "failed"} => (esc.exists => esc.thr = 2 /\ esc.master = 0)

\* Ledgers keep closing, and a funder whose refund is valid submits it.
LiveSpec == Spec /\ WF_vars(Tick) /\ WF_vars(Refund)

(* The refund path: after a successful set-up, while the secret stays     *)
(* unpublished, the holding account does not stay open: with ledgers     *)
(* closing and the funder running `refund` after the lock time, it is     *)
(* merged back (or the secret comes out, and the recipient may claim).    *)
RefundLive ==
    (pc = "done" /\ esc.exists /\ ~revealed) ~> (~esc.exists \/ revealed)

-----------------------------------------------------------------------------
(* The inductive strengthening of TypeOK and RefundReserved, conjunct by  *)
(* conjunct.                                                               *)

\* The transactions the commands hold are built.
RefundBuilt ==
    pc \in {"fetchForConfig", "submitConfig", "done"} =>
        refundTx \in Txs /\ refundTx.op = "merge" /\ refundTx.minTime = Locktime
RedeemBuilt == rpc = "fetched" => rtx \in Txs /\ rtx.op = "merge"

\* The redeem command starts after the builder returned success.
RedeemAfterDone == rpc # "idle" => pc = "done"

\* While the builder runs, the holding account exists, unconfigured.
BuildPhase ==
    pc \in {"fetchForRefund", "fetchForConfig", "submitConfig"} =>
        /\ esc.exists /\ esc.master = 1 /\ esc.thr = 0 /\ esc.signers = {}

\* The refund transaction is two sequence numbers ahead until the signing
\* options are submitted, and the sequence read for them is current.
RefundAhead ==
    pc \in {"fetchForConfig", "submitConfig"} => refundTx.seq = esc.seq + 2
CfgFresh == pc = "submitConfig" => cfgSeq = esc.seq

\* After success the holding account has exactly the swap's signers.
LiveConfig ==
    pc = "done" /\ esc.exists =>
        /\ esc.master = 0 /\ esc.thr = 2 /\ esc.signers = SwapSigners

\* Debits counted against the rules happen after success only.
LiveAfterDone == \A i \in DOMAIN debits : debits[i].live => pc = "done"

SwapInv ==
    /\ TypeOK /\ RefundBuilt /\ RedeemBuilt /\ RedeemAfterDone
    /\ BuildPhase /\ RefundAhead /\ CfgFresh /\ LiveConfig
    /\ RefundReserved

IInv == SwapInv /\ LiveAfterDone /\ EscrowPaysOnlyByRules
=============================================================================
