------------------------- MODULE AuditContractProofs -------------------------
(***************************************************************************)
(* Proofs about AuditContract, for every value of its constants: the loop  *)
(* invariant AuditInv, and from it AuditSound and AuditComplete.           *)
(***************************************************************************)
EXTENDS AuditContract, FiniteSetTheorems, TLAPS

USE AuditAssumption, CandidatesAssumption

\* The master key's entry of Horizon's signer list.
MasterSigner == [type |-> "ed25519", key |-> Holding, weight |-> acct.master]

(* Every entry of Horizon's signer list has a key other than None and a   *)
(* weight in Nat.                                                        *)
LEMMA SignerFacts ==
    ASSUME AuditTypeOK, NEW s \in HorizonSigners(acct)
    PROVE  /\ s.key # None /\ s.weight \in Nat
           /\ s.type = "ed25519" /\ s.key = Holding => s = MasterSigner
<1>1. CASE s \in acct.signers
  BY <1>1 DEF AuditTypeOK
<1>2. CASE s = MasterSigner
  BY <1>2 DEF AuditTypeOK, MasterSigner
<1>3. QED
  BY <1>1, <1>2 DEF HorizonSigners, MasterSigner, AuditTypeOK

-----------------------------------------------------------------------------
LEMMA InitAuditInv == Init => AuditInv
<1> SUFFICES ASSUME Init PROVE AuditInv
  OBVIOUS
<1>1. AuditTypeOK
  BY DEF Init, AuditTypeOK
<1>2. QED
  BY <1>1 DEF Init, AuditInv

LEMMA TypeStep == AuditTypeOK /\ [Next]_vars => AuditTypeOK'
<1> SUFFICES ASSUME AuditTypeOK, [Next]_vars PROVE AuditTypeOK'
  OBVIOUS
<1>1. UNCHANGED <<acct, refundTx>>
  BY DEF Next, vars, FetchAccount, CheckThresholds, VisitSigner, EndOfSigners,
     FinalCheck
<1>2. todo' \subseteq HorizonSigners(acct)
  BY DEF Next, vars, FetchAccount, CheckThresholds, VisitSigner, EndOfSigners,
     FinalCheck, AuditTypeOK
<1>3. pc' \in {"fetch", "thresholds", "signers", "final", "ok", "error",
               "unreachable"}
  BY DEF Next, vars, FetchAccount, CheckThresholds, VisitSigner, Slot,
     EndOfSigners, FinalCheck, AuditTypeOK
<1>4. QED
  BY <1>1, <1>2, <1>3 DEF AuditTypeOK, HorizonSigners

(* A step into the error exit keeps AuditInv: only its type part speaks *)
(* of that state.                                                        *)
LEMMA ErrorStep ==
    ASSUME AuditTypeOK', pc' \in {"error", "unreachable"}
    PROVE  AuditInv'
BY DEF AuditInv

(* One iteration of the loop, when it visits a signer s and stays in the *)
(* loop.                                                                  *)
LEMMA VisitStep ==
    ASSUME AuditInv, pc = "signers", NEW s \in todo, todo' = todo \ {s},
           pc' = "signers",
           UNCHANGED <<acct, refundTx, lockTime, refundAddress>>,
           \/ s.weight = 0 /\ UNCHANGED <<recipient, refundHash, secretHash>>
           \/ /\ s.type = "ed25519" /\ recipient = None
              /\ recipient' = s.key /\ s.weight = 1
              /\ UNCHANGED <<refundHash, secretHash>>
           \/ /\ s.type = "preAuthTx" /\ refundHash = None
              /\ refundHash' = s.key /\ s.weight = 2
              /\ UNCHANGED <<recipient, secretHash>>
           \/ /\ s.type = "hashX" /\ secretHash = None
              /\ secretHash' = s.key /\ s.weight = 1
              /\ UNCHANGED <<recipient, refundHash>>
    PROVE  AuditInv'
<1>1. AuditTypeOK'
  BY DEF AuditInv, AuditTypeOK
<1>2. Visited' = Visited \cup {s}
  BY DEF Visited, AuditInv, AuditTypeOK
<1>3. s \in HorizonSigners(acct) /\ s.key # None
  BY SignerFacts DEF AuditInv, AuditTypeOK
<1>4. \A t \in Visited : t.weight # 0 => Recorded(t)
  BY DEF AuditInv
<1>5. \A t \in Visited' : t.weight # 0 => Recorded(t)'
  <2>1. CASE s.weight = 0 /\ UNCHANGED <<recipient, refundHash, secretHash>>
    BY <1>2, <1>4, <2>1 DEF Recorded
  <2>2. CASE /\ s.type = "ed25519" /\ recipient = None
             /\ recipient' = s.key /\ s.weight = 1
             /\ UNCHANGED <<refundHash, secretHash>>
    <3>1. \A t \in Visited : t.weight # 0 => t.type # "ed25519"
      BY <2>2, <1>4, SignerFacts DEF Recorded, AuditInv, AuditTypeOK, Visited
    <3>2. QED
      BY <1>2, <1>4, <2>2, <3>1 DEF Recorded
  <2>3. CASE /\ s.type = "preAuthTx" /\ refundHash = None
             /\ refundHash' = s.key /\ s.weight = 2
             /\ UNCHANGED <<recipient, secretHash>>
    <3>1. \A t \in Visited : t.weight # 0 => t.type # "preAuthTx"
      BY <2>3, <1>4, SignerFacts DEF Recorded, AuditInv, AuditTypeOK, Visited
    <3>2. QED
      BY <1>2, <1>4, <2>3, <3>1 DEF Recorded
  <2>4. CASE /\ s.type = "hashX" /\ secretHash = None
             /\ secretHash' = s.key /\ s.weight = 1
             /\ UNCHANGED <<recipient, refundHash>>
    <3>1. \A t \in Visited : t.weight # 0 => t.type # "hashX"
      BY <2>4, <1>4, SignerFacts DEF Recorded, AuditInv, AuditTypeOK, Visited
    <3>2. QED
      BY <1>2, <1>4, <2>4, <3>1 DEF Recorded
  <2>5. QED
    BY <2>1, <2>2, <2>3, <2>4
<1>6. /\ SlotFrom(recipient, "ed25519")'
      /\ SlotFrom(secretHash, "hashX")'
      /\ SlotFrom(refundHash, "preAuthTx")'
  <2>1. /\ SlotFrom(recipient, "ed25519")
        /\ SlotFrom(secretHash, "hashX")
        /\ SlotFrom(refundHash, "preAuthTx")
    BY DEF AuditInv
  <2>2. QED
    BY <1>2, <2>1 DEF SlotFrom
<1>7. \A l \in Levels : acct'.thresholds[l] = 2
  BY DEF AuditInv
<1>8. QED
  BY <1>1, <1>5, <1>6, <1>7 DEF AuditInv

(* A step that changes none of what the loop keeps carries the loop's   *)
(* conjuncts of AuditInv over.                                         *)
LEMMA LoopFactsSame ==
    ASSUME AuditInv,
           UNCHANGED <<acct, refundTx, todo, recipient, refundHash, secretHash>>
    PROVE  /\ \A l \in Levels : acct'.thresholds[l] = acct.thresholds[l]
           /\ (\A t \in Visited : t.weight # 0 => Recorded(t)) =>
                 \A t \in Visited' : t.weight # 0 => Recorded(t)'
           /\ SlotFrom(recipient, "ed25519") => SlotFrom(recipient, "ed25519")'
           /\ SlotFrom(secretHash, "hashX") => SlotFrom(secretHash, "hashX")'
           /\ SlotFrom(refundHash, "preAuthTx") =>
                 SlotFrom(refundHash, "preAuthTx")'
           /\ RefundMatches = RefundMatches'
<1>1. Visited' = Visited
  BY DEF Visited, HorizonSigners
<1>2. QED
  BY <1>1 DEF Recorded, SlotFrom, RefundMatches

LEMMA NextAuditInv == AuditInv /\ [Next]_vars => AuditInv'
<1> SUFFICES ASSUME AuditInv, [Next]_vars PROVE AuditInv'
  OBVIOUS
<1>1. AuditTypeOK'
  BY TypeStep DEF AuditInv
<1>2. CASE FetchAccount
  BY <1>1, <1>2 DEF FetchAccount, AuditInv
<1>3. CASE CheckThresholds
  <2>1. CASE pc' = "error"
    BY <1>1, <2>1, ErrorStep
  <2>2. CASE pc' = "signers"
    <3>1. Visited' = {}
      BY <1>3, <2>2 DEF CheckThresholds, Visited
    <3>2. QED
      BY <1>1, <1>3, <2>2, <3>1 DEF CheckThresholds, AuditInv, SlotFrom, Levels
  <2>3. QED
    BY <1>3, <2>1, <2>2 DEF CheckThresholds
<1>4. CASE VisitSigner
  <2>1. PICK s \in todo :
          /\ todo' = todo \ {s}
          /\ \/ s.weight = 0 /\ UNCHANGED <<pc, recipient, refundHash, secretHash>>
             \/ /\ s.weight # 0 /\ s.type = "ed25519"
                /\ Slot(recipient, s, 1) /\ UNCHANGED <<refundHash, secretHash>>
             \/ /\ s.weight # 0 /\ s.type = "preAuthTx"
                /\ Slot(refundHash, s, 2) /\ UNCHANGED <<recipient, secretHash>>
             \/ /\ s.weight # 0 /\ s.type = "hashX"
                /\ Slot(secretHash, s, 1) /\ UNCHANGED <<recipient, refundHash>>
             \/ /\ s.weight # 0
                /\ s.type \notin {"ed25519", "preAuthTx", "hashX"}
                /\ pc' = "error" /\ UNCHANGED <<recipient, refundHash, secretHash>>
    BY <1>4 DEF VisitSigner
  <2>2. CASE pc' = "error"
    BY <1>1, <2>2, ErrorStep
  <2>3. CASE pc' # "error"
    <3>1. pc = "signers" /\ pc' = "signers"
      BY <1>4, <2>1, <2>3 DEF VisitSigner, Slot
    <3>2. UNCHANGED <<acct, refundTx, lockTime, refundAddress>>
      BY <1>4 DEF VisitSigner
    <3>3. \/ s.weight = 0 /\ UNCHANGED <<recipient, refundHash, secretHash>>
          \/ /\ s.type = "ed25519" /\ recipient = None
             /\ recipient' = s.key /\ s.weight = 1
             /\ UNCHANGED <<refundHash, secretHash>>
          \/ /\ s.type = "preAuthTx" /\ refundHash = None
             /\ refundHash' = s.key /\ s.weight = 2
             /\ UNCHANGED <<recipient, secretHash>>
          \/ /\ s.type = "hashX" /\ secretHash = None
             /\ secretHash' = s.key /\ s.weight = 1
             /\ UNCHANGED <<recipient, refundHash>>
      BY <2>1, <2>3 DEF Slot
    <3>4. QED
      BY <2>1, <3>1, <3>2, <3>3, VisitStep
  <2>4. QED
    BY <2>2, <2>3
<1>5. CASE EndOfSigners
  <2>1. pc = "signers" /\ pc' = "final" /\ todo = {}
    BY <1>5 DEF EndOfSigners
  <2>2. UNCHANGED <<acct, refundTx, todo, recipient, refundHash, secretHash>>
    BY <1>5 DEF EndOfSigners
  <2>3. QED
    BY <1>1, <2>1, <2>2, LoopFactsSame DEF AuditInv
<1>6. CASE FinalCheck
  <2>1. CASE pc' = "error"
    BY <1>1, <2>1, ErrorStep
  <2>2. CASE pc' = "ok"
    <3>1. pc = "final" /\ RefundMatches
      BY <1>6, <2>2 DEF FinalCheck
    <3>2. UNCHANGED <<acct, refundTx, todo, recipient, refundHash, secretHash>>
      BY <1>6 DEF FinalCheck
    <3>3. QED
      BY <1>1, <2>2, <3>1, <3>2, LoopFactsSame DEF AuditInv
  <2>3. QED
    BY <1>6, <2>1, <2>2 DEF FinalCheck
<1>7. CASE UNCHANGED vars
  <2>1. UNCHANGED <<acct, refundTx, todo, recipient, refundHash, secretHash>>
        /\ pc' = pc
    BY <1>7 DEF vars
  <2>2. QED
    BY <1>1, <2>1, LoopFactsSame DEF AuditInv
<1>8. QED
  BY <1>2, <1>3, <1>4, <1>5, <1>6, <1>7 DEF Next

(* AuditInv holds in every reachable state of the audit. *)
THEOREM AuditInvariant == Spec => []AuditInv
BY InitAuditInv, NextAuditInv, PTL DEF Spec
-----------------------------------------------------------------------------
(* Weights of sets of signers. *)

(* Signers whose positive weights all belong to one signer r of weight 1 *)
(* weigh at most 1.                                                        *)
LEMMA WeightOneNonZero ==
    ASSUME NEW S, NEW r, r.weight = 1,
           \A t \in S : t.weight \in Nat /\ (t.weight # 0 => t = r)
    PROVE  Weight(S) \in Nat /\ Weight(S) <= 1
<1> DEFINE U == UNION {{<<t, i>> : i \in 1..t.weight} : t \in S}
<1>1. U \subseteq {<<r, 1>>}
  OBVIOUS
<1>2. IsFiniteSet({<<r, 1>>}) /\ Cardinality({<<r, 1>>}) = 1
  BY FS_Singleton
<1>3. IsFiniteSet(U) /\ Cardinality(U) <= 1
  BY <1>1, <1>2, FS_Subset
<1>4. QED
  BY <1>3, FS_CardinalityType DEF Weight

(* Signers all of weight 0 weigh nothing. *)
LEMMA WeightZero ==
    ASSUME NEW S, \A t \in S : t.weight = 0
    PROVE  Weight(S) = 0
<1>1. UNION {{<<t, i>> : i \in 1..t.weight} : t \in S} = {}
  OBVIOUS
<1>2. QED
  BY <1>1, FS_EmptySet DEF Weight

-----------------------------------------------------------------------------
(* Once the audit has succeeded, a transaction is authorised at any level *)
(* only with the reported recipient's signature and the reported secret,  *)
(* or by being the audited refund.                                        *)
LEMMA SoundFromInv == AuditInv => AuditSound
<1> SUFFICES ASSUME AuditInv, pc = "ok",
                    NEW lvl \in Levels, NEW tx \in RefundTxs \cup {None},
                    NEW keys \in SUBSET (Keys \cup {Holding}),
                    NEW pres \in SUBSET Preimages,
                    AuthorizedAt(lvl, tx, keys, pres),
                    ~(recipient \in keys /\ secretHash \in pres),
                    tx # refundTx
             PROVE  FALSE
  BY DEF AuditSound
<1> DEFINE A == [id |-> acct.id, master |-> acct.master,
                 thr |-> acct.thresholds[lvl], signers |-> acct.signers]
           Sat == Satisfied(A, tx, keys, pres)
<1>1. A.thr = 2 /\ todo = {} /\ refundHash = refundTx /\ AuditTypeOK
  BY DEF AuditInv, RefundMatches
<1>2. \A t \in acct.signers : t.weight # 0 => Recorded(t)
  BY <1>1 DEF AuditInv, Visited, HorizonSigners
<1>3. \A t \in Sat : t.weight \in Nat /\ t.key # None
      /\ ~(t.type = "ed25519" /\ t.key = Holding)
  BY <1>1 DEF Satisfied, AuditTypeOK
<1>4. acct.master \in Nat /\ acct.id = Holding
  BY <1>1 DEF AuditTypeOK
<1>5. acct.master # 0 => recipient = Holding /\ acct.master = 1
  <2>1. MasterSigner \in Visited
    BY <1>1, <1>4 DEF Visited, HorizonSigners, MasterSigner
  <2>2. QED
    BY <2>1 DEF AuditInv, Recorded, MasterSigner
<1>6. \A t \in Sat : t.weight # 0 =>
         \/ t.type = "ed25519" /\ t.key = recipient /\ recipient \in keys
            /\ t.weight = 1
         \/ t.type = "hashX" /\ t.key = secretHash /\ secretHash \in pres
            /\ t.weight = 1
  BY <1>1, <1>2 DEF Satisfied, Recorded
<1>7. \A t \in Sat : t \in [type : STRING, key : Keys \cup Preimages \cup RefundTxs,
                             weight : Nat]
  BY <1>1 DEF Satisfied, AuditTypeOK
<1>8. CASE recipient \in keys
  <2>1. secretHash \notin pres
    BY <1>8
  <2>2. \A t \in Sat : t.weight # 0 =>
           t = [type |-> "ed25519", key |-> recipient, weight |-> 1]
    BY <1>6, <1>7, <2>1
  <2>3. CASE Holding \in keys /\ acct.master # 0
    <3>1. recipient = Holding /\ acct.master = 1
      BY <2>3, <1>5
    <3>2. \A t \in Sat : t.weight = 0
      BY <1>3, <2>2, <3>1
    <3>3. Weight(Sat) = 0
      BY <3>2, WeightZero
    <3>4. AuthWeight(A, tx, keys, pres) = 1
      BY <1>4, <2>3, <3>1, <3>3 DEF AuthWeight
    <3>5. QED
      BY <1>1, <3>4 DEF AuthorizedAt, Authorized
  <2>4. CASE ~(Holding \in keys /\ acct.master # 0)
    <3> DEFINE R == [type |-> "ed25519", key |-> recipient, weight |-> 1]
    <3>0. R.weight = 1 /\ \A t \in Sat : t.weight \in Nat /\ (t.weight # 0 => t = R)
      BY <1>3, <2>2
    <3>1. Weight(Sat) \in Nat /\ Weight(Sat) <= 1
      BY <3>0, WeightOneNonZero
    <3>2. AuthWeight(A, tx, keys, pres) \in Nat /\ AuthWeight(A, tx, keys, pres) <= 1
      BY <1>4, <2>4, <3>1 DEF AuthWeight
    <3>3. QED
      BY <1>1, <3>2 DEF AuthorizedAt, Authorized
  <2>5. QED
    BY <2>3, <2>4
<1>9. CASE recipient \notin keys
  <2>1. \A t \in Sat : t.weight # 0 =>
           t = [type |-> "hashX", key |-> secretHash, weight |-> 1]
    BY <1>6, <1>7, <1>9
  <2> DEFINE H == [type |-> "hashX", key |-> secretHash, weight |-> 1]
  <2>0. H.weight = 1 /\ \A t \in Sat : t.weight \in Nat /\ (t.weight # 0 => t = H)
    BY <1>3, <2>1
  <2>2. Weight(Sat) \in Nat /\ Weight(Sat) <= 1
    BY <2>0, WeightOneNonZero
  <2>3. ~(Holding \in keys /\ acct.master # 0)
    BY <1>5, <1>9
  <2>4. AuthWeight(A, tx, keys, pres) \in Nat /\ AuthWeight(A, tx, keys, pres) <= 1
    BY <1>4, <2>2, <2>3 DEF AuthWeight
  <2>5. QED
    BY <1>1, <2>4 DEF AuthorizedAt, Authorized
<1>10. QED
  BY <1>8, <1>9

(* AuditSound: whenever the audit succeeds, nobody but the reported      *)
(* recipient holding the reported secret, or the audited refund, can     *)
(* authorise a transaction on the holding account.                       *)
THEOREM AuditSoundThm == Spec => []AuditSound
BY AuditInvariant, SoundFromInv, PTL
-----------------------------------------------------------------------------
(* The signers of the honest account, in Horizon's list. *)
LEMMA HonestSigners ==
    ASSUME NEW r \in Keys, NEW p \in Preimages, acct = HonestAccount(r, p)
    PROVE  \A t \in HorizonSigners(acct) :
              \/ t = [type |-> "ed25519", key |-> r, weight |-> 1]
              \/ t = [type |-> "hashX", key |-> p, weight |-> 1]
              \/ t = [type |-> "preAuthTx", key |-> refundTx, weight |-> 2]
              \/ t = [type |-> "ed25519", key |-> Holding, weight |-> 0]
BY DEF HorizonSigners, HonestAccount

(* The audit of an honest account with its own refund never errs, and    *)
(* what it reports at the end is what the account was built with.       *)
LEMMA CompleteStep ==
    AuditInv /\ AuditComplete /\ [Next]_vars => AuditComplete'
<1> SUFFICES ASSUME AuditInv, AuditComplete, [Next]_vars,
                    NEW r \in Keys, NEW p \in Preimages,
                    acct' = HonestAccount(r, p)', HonestRefund'
             PROVE  pc' # "error" /\ (pc' = "ok" => recipient' = r /\ secretHash' = p)
  BY DEF AuditComplete
<1>1. UNCHANGED <<acct, refundTx>>
  BY DEF Next, vars, FetchAccount, CheckThresholds, VisitSigner, EndOfSigners,
     FinalCheck
<1>2. acct = HonestAccount(r, p) /\ HonestRefund
  BY <1>1 DEF HonestAccount, HonestRefund
<1>3. pc # "error" /\ (pc = "ok" => recipient = r /\ secretHash = p)
  BY <1>2 DEF AuditComplete
<1> DEFINE ER == [type |-> "ed25519", key |-> r, weight |-> 1]
           HP == [type |-> "hashX", key |-> p, weight |-> 1]
           PR == [type |-> "preAuthTx", key |-> refundTx, weight |-> 2]
           MS == [type |-> "ed25519", key |-> Holding, weight |-> 0]
<1>4. \A t \in HorizonSigners(acct) : t \in {ER, HP, PR, MS}
  BY <1>2, HonestSigners
<1>5. CASE FetchAccount
  BY <1>5 DEF FetchAccount
<1>6. CASE CheckThresholds
  BY <1>2, <1>6 DEF CheckThresholds, HonestAccount, Levels
<1>7. CASE VisitSigner
  <2>1. pc = "signers" /\ todo \subseteq HorizonSigners(acct)
    BY <1>7 DEF VisitSigner, AuditInv, AuditTypeOK
  <2>2. PICK t \in todo :
          /\ \/ t.weight = 0 /\ UNCHANGED <<pc, recipient, refundHash, secretHash>>
             \/ /\ t.weight # 0 /\ t.type = "ed25519"
                /\ Slot(recipient, t, 1)
             \/ /\ t.weight # 0 /\ t.type = "preAuthTx"
                /\ Slot(refundHash, t, 2)
             \/ /\ t.weight # 0 /\ t.type = "hashX"
                /\ Slot(secretHash, t, 1)
             \/ /\ t.weight # 0
                /\ t.type \notin {"ed25519", "preAuthTx", "hashX"}
                /\ pc' = "error"
    BY <1>7 DEF VisitSigner
  <2>3. t \in {ER, HP, PR, MS}
    BY <1>4, <2>1
  <2>4. \A v \in Visited : v.weight # 0 => v # t
    BY <2>1 DEF Visited
  <2>5. recipient # None => \E v \in Visited : v.weight # 0 /\ v.type = "ed25519"
                                              /\ v.key = recipient
    BY <2>1 DEF AuditInv, SlotFrom
  <2>6. secretHash # None => \E v \in Visited : v.weight # 0 /\ v.type = "hashX"
    BY <2>1 DEF AuditInv, SlotFrom
  <2>7. refundHash # None => \E v \in Visited : v.weight # 0 /\ v.type = "preAuthTx"
    BY <2>1 DEF AuditInv, SlotFrom
  <2>8. CASE t = MS
    BY <2>2, <2>1, <2>8
  <2>9. CASE t = ER
    <3>1. recipient = None
      BY <1>4, <2>3, <2>4, <2>5, <2>9 DEF Visited
    <3>2. QED
      BY <2>1, <2>2, <2>9, <3>1 DEF Slot
  <2>10. CASE t = HP
    <3>1. secretHash = None
      BY <1>4, <2>3, <2>4, <2>6, <2>10 DEF Visited
    <3>2. QED
      BY <2>1, <2>2, <2>10, <3>1 DEF Slot
  <2>11. CASE t = PR
    <3>1. refundHash = None
      BY <1>4, <2>3, <2>4, <2>7, <2>11 DEF Visited
    <3>2. QED
      BY <2>1, <2>2, <2>11, <3>1 DEF Slot
  <2>12. QED
    BY <2>3, <2>8, <2>9, <2>10, <2>11
<1>8. CASE EndOfSigners
  BY <1>8 DEF EndOfSigners
<1>9. CASE FinalCheck
  <2>1. pc = "final" /\ todo = {}
    BY <1>9 DEF FinalCheck, AuditInv
  <2>2. {ER, HP, PR} \subseteq Visited
    BY <1>2, <2>1 DEF Visited, HorizonSigners, HonestAccount
  <2>3. recipient = r /\ secretHash = p /\ refundHash = refundTx
    BY <2>1, <2>2 DEF AuditInv, Recorded
  <2>4. RefundMatches
    BY <1>2, <2>3 DEF RefundMatches, HonestRefund, AuditInv, AuditTypeOK
  <2>5. QED
    BY <1>9, <2>3, <2>4 DEF FinalCheck
<1>10. CASE UNCHANGED vars
  BY <1>3, <1>10 DEF vars
<1>11. QED
  BY <1>5, <1>6, <1>7, <1>8, <1>9, <1>10 DEF Next

(* AuditComplete: an account set up as setHoldingAccountSigningOptions   *)
(* does, audited with its own refund, never fails the audit, and the     *)
(* audit reports the recipient and secret hash it was built with.       *)
THEOREM AuditCompleteThm == Spec => []AuditComplete
<1>1. Init => AuditComplete
  BY DEF Init, AuditComplete
<1>2. QED
  BY <1>1, InitAuditInv, NextAuditInv, CompleteStep, PTL DEF Spec
=============================================================================
