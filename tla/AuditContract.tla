---------------------------- MODULE AuditContract ----------------------------
(***************************************************************************)
(* auditcontract: the counterparty's check of a holding account and the    *)
(* refund transaction it was handed (auditContractCmd.runCommand).  The    *)
(* holding account is an arbitrary one, as a dishonest funder may have     *)
(* configured it: any thresholds, any master weight, any set of signers.   *)
(* The command reads it from Horizon, whose signer list holds the master  *)
(* key with its weight next to the added signers, and walks that list in  *)
(* whatever order Horizon returns it, stopping at the first error.        *)
(***************************************************************************)
EXTENDS StellarLedger, Sequences

CONSTANTS
    Holding,          \* the holding account's address (its master key)
    Keys,             \* ed25519 keys other than Holding
    Preimages,        \* hash-x preimages (a hash-x key is its preimage)
    Candidates,       \* signer records a funder may add
    MasterWeights,    \* weights the master key may keep
    ThresholdChoices, \* [low, med, high] records the account may have
    RefundTxs,        \* refund transactions the counterparty may be handed
    MaxSigners,       \* at most this many added signers
    None              \* an unset variable (the empty string, a nil slice)

ASSUME AuditAssumption ==
    /\ None \notin Keys \cup {Holding} \cup Preimages \cup RefundTxs
    /\ MaxSigners \in Nat
    /\ MasterWeights \subseteq Nat

\* Horizon returns signers as [type, key, weight] with a non-empty strkey
\* and a weight in 0..255, and stellar-core refuses the account's own
\* master key as an added signer (SET_OPTIONS_BAD_SIGNER).
ASSUME CandidatesAssumption ==
    /\ Candidates \subseteq [type : STRING, key : Keys \cup Preimages \cup RefundTxs,
                             weight : Nat]
    /\ \A c \in Candidates : ~(c.type = "ed25519" /\ c.key = Holding)

VARIABLES
    acct,          \* the holding account as Horizon returns it
    refundTx,      \* the refund transaction passed on the command line
    pc,            \* "fetch", "thresholds", "signers", "final", or the exits
                   \* "ok", "error" and "unreachable" (Horizon failed)
    todo,          \* signers of the list not yet visited
    recipient,     \* recipientAddress
    refundHash,    \* refundTxHashFromSigningConditions
    secretHash,    \* secretHash
    lockTime,      \* the reported lock time
    refundAddress  \* the reported refund address

vars == <<acct, refundTx, pc, todo, recipient, refundHash, secretHash,
          lockTime, refundAddress>>

\* Horizon's signer list: the added signers and the master key.
HorizonSigners(a) ==
    a.signers \cup {[type |-> "ed25519", key |-> a.id, weight |-> a.master]}

Init ==
    /\ \E m \in MasterWeights, th \in ThresholdChoices,
          sig \in {S \in SUBSET Candidates : Cardinality(S) <= MaxSigners} :
          acct = [id |-> Holding, master |-> m, thresholds |-> th,
                  signers |-> sig]
    /\ refundTx \in RefundTxs
    /\ pc = "fetch"
    /\ todo = {}
    /\ recipient = None /\ refundHash = None /\ secretHash = None
    /\ lockTime = None /\ refundAddress = None

(* AccountDetail and GetNativeBalance, which may fail. *)
FetchAccount ==
    /\ pc = "fetch"
    /\ pc' \in {"thresholds", "unreachable"}
    /\ UNCHANGED <<acct, refundTx, todo, recipient, refundHash, secretHash,
                   lockTime, refundAddress>>

(* The three thresholds must all be 2. *)
CheckThresholds ==
    /\ pc = "thresholds"
    /\ \/ /\ \E l \in {"low", "med", "high"} : acct.thresholds[l] # 2
          /\ pc' = "error" /\ UNCHANGED todo
       \/ /\ \A l \in {"low", "med", "high"} : acct.thresholds[l] = 2
          /\ pc' = "signers" /\ todo' = HorizonSigners(acct)
    /\ UNCHANGED <<acct, refundTx, recipient, refundHash, secretHash,
                   lockTime, refundAddress>>

\* Mutant: the weight is not checked.
SlotAnyWeight(var, s, w) ==
    \/ var # None /\ pc' = "error" /\ UNCHANGED var
    \/ var = None /\ var' = s.key /\ UNCHANGED pc

\* One case of the switch: a second signer of the kind is an error;
\* otherwise the signer is recorded, then its weight must be w.
Slot(var, s, w) ==
    \/ var # None /\ pc' = "error" /\ UNCHANGED var
    \/ var = None /\ var' = s.key /\ pc' = IF s.weight = w THEN pc ELSE "error"

\* Mutant: signers of weight 0 are not skipped.
VisitSignerNoSkip ==
    /\ pc = "signers"
    /\ \E s \in todo :
        /\ todo' = todo \ {s}
        /\ \/ /\ s.type = "ed25519"
              /\ Slot(recipient, s, 1) /\ UNCHANGED <<refundHash, secretHash>>
           \/ /\ s.type = "preAuthTx"
              /\ Slot(refundHash, s, 2) /\ UNCHANGED <<recipient, secretHash>>
           \/ /\ s.type = "hashX"
              /\ Slot(secretHash, s, 1) /\ UNCHANGED <<recipient, refundHash>>
    /\ UNCHANGED <<acct, refundTx, lockTime, refundAddress>>

(* One iteration of the loop over the signers.  A signer of weight 0 (the *)
(* master key once disabled) is skipped.                                   *)
VisitSigner ==
    /\ pc = "signers"
    /\ \E s \in todo :
        /\ todo' = todo \ {s}
        /\ \/ s.weight = 0 /\ UNCHANGED <<pc, recipient, refundHash, secretHash>>
           \/ /\ s.weight # 0 /\ s.type = "ed25519"
              /\ Slot(recipient, s, 1) /\ UNCHANGED <<refundHash, secretHash>>
           \/ /\ s.weight # 0 /\ s.type = "preAuthTx"
              /\ Slot(refundHash, s, 2) /\ UNCHANGED <<recipient, secretHash>>
           \/ /\ s.weight # 0 /\ s.type = "hashX"
              /\ Slot(secretHash, s, 1) /\ UNCHANGED <<recipient, refundHash>>
           \/ /\ s.weight # 0 /\ s.type \notin {"ed25519", "preAuthTx", "hashX"}
              /\ pc' = "error" /\ UNCHANGED <<recipient, refundHash, secretHash>>
    /\ UNCHANGED <<acct, refundTx, lockTime, refundAddress>>

EndOfSigners ==
    /\ pc = "signers" /\ todo = {}
    /\ pc' = "final"
    /\ UNCHANGED <<acct, refundTx, todo, recipient, refundHash, secretHash,
                   lockTime, refundAddress>>

\* The checks after the loop: all three signers present, the pre-authorised
\* hash is the passed transaction's, which has one operation, an account
\* merge from the holding account.
RefundMatches ==
    /\ refundHash # None /\ secretHash # None /\ recipient # None
    /\ refundHash = refundTx
    /\ Len(refundTx.ops) = 1
    /\ refundTx.ops[1].type = "merge"
    /\ refundTx.ops[1].src = Holding

FinalCheck ==
    /\ pc = "final"
    /\ \/ /\ RefundMatches
          /\ pc' = "ok"
          /\ lockTime' = refundTx.minTime
          /\ refundAddress' = refundTx.ops[1].dest
       \/ ~RefundMatches /\ pc' = "error" /\ UNCHANGED <<lockTime, refundAddress>>
    /\ UNCHANGED <<acct, refundTx, todo, recipient, refundHash, secretHash>>

Next ==
    \/ FetchAccount \/ CheckThresholds \/ VisitSigner \/ EndOfSigners
    \/ FinalCheck

Spec == Init /\ [][Next]_vars

-----------------------------------------------------------------------------
(* Properties *)

Levels == {"low", "med", "high"}

\* The ledger's view of the account for an operation of threshold level lvl.
AuthorizedAt(lvl, tx, keys, pres) ==
    Authorized([id |-> acct.id, master |-> acct.master,
                thr |-> acct.thresholds[lvl], signers |-> acct.signers],
               tx, keys, pres)

(* When the audit succeeds, no operation of any threshold level on the     *)
(* holding account can be authorised except by the reported recipient     *)
(* together with the preimage of the reported secret hash, or by the       *)
(* refund transaction that was audited: the funder keeps no other way in. *)
AuditSound ==
    pc = "ok" =>
        \A lvl \in Levels, tx \in RefundTxs \cup {None},
           keys \in SUBSET (Keys \cup {Holding}), pres \in SUBSET Preimages :
            AuthorizedAt(lvl, tx, keys, pres) =>
                \/ recipient \in keys /\ secretHash \in pres
                \/ tx = refundTx

\* The account setHoldingAccountSigningOptions leaves, for recipient r,
\* secret p and the refund transaction the counterparty was handed.
HonestAccount(r, p) ==
    [id |-> Holding, master |-> 0,
     thresholds |-> [l \in Levels |-> 2],
     signers |-> {[type |-> "ed25519", key |-> r, weight |-> 1],
                  [type |-> "hashX", key |-> p, weight |-> 1],
                  [type |-> "preAuthTx", key |-> refundTx, weight |-> 2]}]

\* A refund transaction as createRefundTransaction builds it.
HonestRefund ==
    Len(refundTx.ops) = 1 /\ refundTx.ops[1].type = "merge"
    /\ refundTx.ops[1].src = Holding

(* An honestly built holding account, audited with its own refund         *)
(* transaction, never fails the audit's checks, and the audit reports the *)
(* recipient and secret hash it was built with.                           *)
AuditComplete ==
    \A r \in Keys, p \in Preimages :
        acct = HonestAccount(r, p) /\ HonestRefund =>
            /\ pc # "error"
            /\ pc = "ok" => recipient = r /\ secretHash = p

(* Spec 8.2: a holding account whose master key kept a positive weight is *)
(* rejected by the audit (the loop only skips signers of weight 0).      *)
AuditRejectsLiveMaster == pc = "ok" => acct.master = 0
-----------------------------------------------------------------------------
(* The inductive invariant behind AuditSound and AuditComplete. *)

\* The signers the loop has gone past.
Visited == HorizonSigners(acct) \ todo

\* What the loop keeps of a visited signer of positive weight: its key in
\* the variable of its kind, and the weight that kind must have.
Recorded(s) ==
    \/ s.type = "ed25519" /\ recipient = s.key /\ s.weight = 1
    \/ s.type = "hashX" /\ secretHash = s.key /\ s.weight = 1
    \/ s.type = "preAuthTx" /\ refundHash = s.key /\ s.weight = 2

\* A set variable holds the key of a visited signer of its kind.
SlotFrom(var, t) ==
    var # None => \E s \in Visited : s.weight # 0 /\ s.type = t /\ s.key = var

AuditTypeOK ==
    /\ acct.id = Holding /\ acct.master \in MasterWeights
    /\ acct.signers \subseteq Candidates
    /\ refundTx \in RefundTxs
    /\ pc \in {"fetch", "thresholds", "signers", "final", "ok", "error",
               "unreachable"}
    /\ todo \subseteq HorizonSigners(acct)

AuditInv ==
    /\ AuditTypeOK
    /\ pc \in {"fetch", "thresholds"} =>
          recipient = None /\ refundHash = None /\ secretHash = None
    /\ pc \in {"signers", "final", "ok"} =>
          /\ \A l \in Levels : acct.thresholds[l] = 2
          /\ \A s \in Visited : s.weight # 0 => Recorded(s)
          /\ SlotFrom(recipient, "ed25519")
          /\ SlotFrom(secretHash, "hashX")
          /\ SlotFrom(refundHash, "preAuthTx")
    /\ pc \in {"final", "ok"} => todo = {}
    /\ pc = "ok" => RefundMatches
=============================================================================
