----------------------- MODULE SecretExtractionProofs -----------------------
(***************************************************************************)
(* Proofs about SecretExtraction, for every value of its constants:        *)
(* ExtractSound always, and ExtractRecovers when the first page is longer  *)
(* than the payments anyone may make into the holding account and the     *)
(* hash argument is written in lower case.                                 *)
(***************************************************************************)
EXTENDS SecretExtraction, AtomicSwapLegProofs

USE ExtractAssumption, SignaturesAssumption

Effects == {"account_debited", "account_credited"}

\* The positions of the effects of kind k in a sequence s.
Pos(s, k) == {i \in DOMAIN s : s[i] = k}

-----------------------------------------------------------------------------
(* Positions of effects in a sequence. *)

LEMMA PosFinite ==
    ASSUME NEW S, NEW s \in Seq(S), NEW k
    PROVE  /\ IsFiniteSet(Pos(s, k))
           /\ Pos(s, k) \subseteq 1..Len(s)
<1>1. Pos(s, k) \subseteq 1..Len(s)
  BY DEF Pos
<1>2. IsFiniteSet(1..Len(s))
  BY FS_Interval
<1>3. QED
  BY <1>1, <1>2, FS_Subset

(* Appending an effect adds its position to the positions of its kind   *)
(* and leaves the others.                                                *)
LEMMA PosAppend ==
    ASSUME NEW S, NEW s \in Seq(S), NEW e \in S, NEW k
    PROVE  /\ e = k => Pos(Append(s, e), k) = Pos(s, k) \cup {Len(s) + 1}
           /\ e # k => Pos(Append(s, e), k) = Pos(s, k)
           /\ Len(s) + 1 \notin Pos(s, k)
BY AppendProperties DEF Pos

(* The number of effects of kind k after an append. *)
LEMMA CardAppend ==
    ASSUME NEW S, NEW s \in Seq(S), NEW e \in S, NEW k
    PROVE  Cardinality(Pos(Append(s, e), k)) =
               IF e = k THEN Cardinality(Pos(s, k)) + 1 ELSE Cardinality(Pos(s, k))
<1>1. IsFiniteSet(Pos(s, k)) /\ Len(s) + 1 \notin Pos(s, k)
  BY PosFinite, PosAppend
<1>2. CASE e = k
  BY <1>1, <1>2, PosAppend, FS_AddElement
<1>3. CASE e # k
  BY <1>3, PosAppend
<1>4. QED
  BY <1>2, <1>3

(* A history of debits and credits is as long as its debits and credits. *)
LEMMA LenSplit ==
    ASSUME NEW s \in Seq(Effects)
    PROVE  Len(s) = Cardinality(Pos(s, "account_debited"))
                      + Cardinality(Pos(s, "account_credited"))
<1> DEFINE D == Pos(s, "account_debited")
           C == Pos(s, "account_credited")
<1>1. IsFiniteSet(D) /\ IsFiniteSet(C)
  BY PosFinite
<1>2. D \cup C = 1..Len(s) /\ D \cap C = {}
  <2>1. \A i \in 1..Len(s) : s[i] \in Effects
    BY ElementOfSeq
  <2>2. QED
    BY <2>1 DEF Pos, Effects
<1>3. Cardinality(D \cup C) = Cardinality(D) + Cardinality(C) - Cardinality(D \cap C)
  BY <1>1, FS_Union
<1>4. Cardinality(1..Len(s)) = Len(s) /\ Cardinality({}) = 0
  <2>1. Len(s) \in Nat
    BY LenProperties
  <2>2. Cardinality(1..Len(s)) = IF 1 > Len(s) THEN 0 ELSE Len(s) - 1 + 1
    BY <2>1, FS_Interval
  <2>3. QED
    BY <2>1, <2>2, FS_EmptySet
<1>5. Cardinality(D) \in Nat /\ Cardinality(C) \in Nat
  BY <1>1, FS_CardinalityType
<1>6. Cardinality(D \cap C) = 0 /\ Cardinality(D \cup C) = Len(s)
  BY <1>2, <1>4
<1>7. QED
  BY <1>3, <1>5, <1>6

-----------------------------------------------------------------------------
(* The leg only ever appends to its history of debits. *)
LEMMA DebitsGrow ==
    ASSUME [Next]_vars
    PROVE  \/ debits' = debits
           \/ \E d : debits' = Append(debits, d)
<1>1. CASE FetchFunding \/ SubmitCreate \/ FetchForRefund \/ FetchForConfig
           \/ SubmitConfig \/ RedeemFetch \/ FunderOtherTx \/ Reveal \/ Tick
           \/ UNCHANGED vars
  BY <1>1 DEF FetchFunding, SubmitCreate, FetchForRefund, FetchForConfig,
     SubmitConfig, RedeemFetch, FunderOtherTx, Reveal, Tick, vars
<1>2. CASE RedeemSubmit \/ Refund
  BY <1>2 DEF RedeemSubmit, Refund, Apply
<1>3. CASE \E p \in Parties : Spend(p)
  BY <1>3 DEF Spend, Apply
<1>4. QED
  BY <1>1, <1>2, <1>3 DEF Next
-----------------------------------------------------------------------------
LEMMA InitExtractInv == ExtractInit => ExtractInv
<1> SUFFICES ASSUME ExtractInit PROVE ExtractInv
  OBVIOUS
<1>1. IInv
  BY InitIInv DEF ExtractInit
<1>2. Positions("account_debited") = {} /\ Positions("account_credited") = {}
  BY DEF ExtractInit, Positions
<1>3. Cardinality(Positions("account_debited")) = Len(debits)
      /\ Cardinality(Positions("account_credited")) <= MaxCredits
  <2>1. debits = <<>>
    BY DEF ExtractInit, Init
  <2>2. Cardinality(Positions("account_debited")) = 0
        /\ Cardinality(Positions("account_credited")) = 0
    BY <1>2, FS_EmptySet
  <2>3. QED
    BY <2>1, <2>2
<1>4. feed \in Seq({"account_debited", "account_credited"})
  BY DEF ExtractInit
<1>5. /\ xpc \in {"idle", "failed"} \cup Outcomes /\ xarg.hash \in Preimages
      /\ xseen \in 0..Len(debits)
      /\ xpc = "found" => xseen >= 1
      /\ ExtractSound
  BY DEF ExtractInit, Init, ExtractSound, Preimages
<1>6. QED
  BY <1>1, <1>3, <1>4, <1>5 DEF ExtractInv

(* The debits the command counts on the first page are among the debits *)
(* of the ledger.                                                        *)
LEMMA PageBound ==
    ASSUME ExtractInv
    PROVE  DebitedInPage \in Nat /\ DebitedInPage <= Len(debits)
<1>1. {i \in 1..FirstPageLen : IsDebited(feed[i])} \subseteq Pos(feed, "account_debited")
  BY DEF FirstPageLen, IsDebited, Pos, ExtractInv
<1>2. IsFiniteSet(Pos(feed, "account_debited"))
  BY PosFinite DEF ExtractInv
<1>3. Cardinality(Pos(feed, "account_debited")) = Len(debits)
  BY DEF ExtractInv, Positions, Pos
<1>4. QED
  BY <1>1, <1>2, <1>3, FS_Subset, FS_CardinalityType DEF DebitedInPage

(* A step of the leg keeps ExtractInv. *)
LEMMA LegStepInv == ExtractInv /\ LegStep => ExtractInv'
<1> SUFFICES ASSUME ExtractInv, LegStep PROVE ExtractInv'
  OBVIOUS
<1>1. IInv'
  BY NextIInv DEF LegStep, ExtractInv
<1>2. debits \in Seq(Debits) /\ feed \in Seq(Effects)
  BY DEF ExtractInv, IInv, SwapInv, TypeOK, Effects
<1>3. UNCHANGED <<xpc, xarg, xval, xseen>>
  BY DEF LegStep, extractVars
<1>4. CASE debits' = debits
  <2>1. feed' = feed
    BY <1>4 DEF LegStep
  <2>2. QED
    BY <1>1, <1>3, <1>4, <2>1 DEF ExtractInv, Positions, ExtractSound
<1>5. CASE \E d : debits' = Append(debits, d)
  <2>1. PICK d : debits' = Append(debits, d)
    BY <1>5
  <2>2. \/ Len(debits') = Len(debits) + 1 /\ debits'[1] = debits[1]
        \/ Len(debits) = 0
    BY <1>2, <2>1
  <2>3. Len(debits') = Len(debits) + 1
    BY <1>2, <2>1
  <2>4. feed' = Append(feed, "account_debited")
    BY <1>2, <2>3 DEF LegStep
  <2>5. /\ feed' \in Seq(Effects)
        /\ Cardinality(Pos(feed', "account_debited"))
             = Cardinality(Pos(feed, "account_debited")) + 1
        /\ Cardinality(Pos(feed', "account_credited"))
             = Cardinality(Pos(feed, "account_credited"))
    BY <1>2, <2>4, CardAppend, AppendProperties DEF Effects
  <2>6. xseen >= 1 => debits'[1] = debits[1]
    BY <1>2, <2>1 DEF ExtractInv
  <2>7. QED
    BY <1>1, <1>3, <2>3, <2>5, <2>6 DEF ExtractInv, Positions, Pos, Effects,
       ExtractSound
<1>6. QED
  BY <1>4, <1>5, DebitsGrow DEF LegStep

(* A payment into the holding account keeps ExtractInv. *)
LEMMA CreditInv == ExtractInv /\ Credit => ExtractInv'
<1> SUFFICES ASSUME ExtractInv, Credit PROVE ExtractInv'
  OBVIOUS
<1>1. IInv'
  BY NextIInv DEF Credit, ExtractInv, legVars
<1>2. feed \in Seq(Effects)
  BY DEF ExtractInv, Effects
<1>3. /\ feed' \in Seq(Effects)
      /\ Cardinality(Pos(feed', "account_debited"))
           = Cardinality(Pos(feed, "account_debited"))
      /\ Cardinality(Pos(feed', "account_credited"))
           = Cardinality(Pos(feed, "account_credited")) + 1
  BY <1>2, CardAppend, AppendProperties DEF Credit, Effects
<1>4. Cardinality(Pos(feed, "account_credited")) < MaxCredits
  BY DEF Credit, Pos
<1>5. UNCHANGED <<debits, xpc, xarg, xval, xseen>>
  BY DEF Credit, legVars, vars, extractVars
<1>6. Cardinality(Positions("account_debited"))' = Len(debits')
      /\ Cardinality(Positions("account_credited"))' <= MaxCredits
  <2>1. Cardinality(Pos(feed, "account_credited")) \in Nat
    BY <1>2, PosFinite, FS_CardinalityType
  <2>2. QED
    BY <1>3, <1>4, <1>5, <2>1 DEF ExtractInv, Positions, Pos
<1>7. QED
  BY <1>1, <1>3, <1>5, <1>6 DEF ExtractInv, ExtractSound, Effects
(* A value that matches the argument is the argument's preimage and, when *)
(* it is a signature of a debit, one of that debit's preimages.           *)
LEMMA MatchIsPreimage ==
    ASSUME NEW arg \in HashArgs, NEW d \in Debits, NEW v \in Signatures(d),
           Matches(v, arg)
    PROVE  v = arg.hash /\ v \in d.pres
<1>1. v = arg.hash
  BY DEF Matches, HexSha256, HashArgs
<1>2. arg.hash \in Preimages
  BY DEF HashArgs
<1>3. v \notin d.keys
  BY <1>1, <1>2 DEF Debits
<1>4. QED
  BY <1>1, <1>3 DEF Signatures

(* The extraction command's step keeps ExtractInv. *)
LEMMA ExtractStepInv == ExtractInv /\ Extract => ExtractInv'
<1> SUFFICES ASSUME ExtractInv, Extract PROVE ExtractInv'
  OBVIOUS
<1>1. UNCHANGED <<legVars, feed>>
  BY DEF Extract
<1>2. IInv'
  BY <1>1, NextIInv DEF ExtractInv, legVars
<1>3. n == DebitedInPage
<1>4. n \in Nat /\ n <= Len(debits)
  BY PageBound
<1>5. PICK arg \in HashArgs :
        LET found == {v \in Signatures(debits[1]) : Matches(v, arg)}
        IN  /\ xarg' = arg
            /\ xseen' = Len(debits)
            /\ \/ xpc' = "failed" /\ UNCHANGED xval
               \/ n = 0 /\ xpc' = "notRedeemed" /\ UNCHANGED xval
               \/ n > 1 /\ xpc' = "ambiguous" /\ UNCHANGED xval
               \/ n = 1 /\ found = {} /\ xpc' = "notFound" /\ UNCHANGED xval
               \/ n = 1 /\ found # {} /\ xpc' = "found"
                  /\ xval' = CHOOSE v \in found : TRUE
  BY DEF Extract
<1>6. arg.hash \in Preimages /\ Len(debits) \in Nat
  BY DEF HashArgs, ExtractInv, IInv, SwapInv, TypeOK
<1>7. debits \in Seq(Debits)
  BY DEF ExtractInv, IInv, SwapInv, TypeOK
<1>8. xpc' = "found" => xval' = xarg'.hash /\ xval' \in debits[1].pres /\ xseen' >= 1
  <2> SUFFICES ASSUME xpc' = "found" PROVE xval' = arg.hash /\ xval' \in debits[1].pres
                                          /\ Len(debits) >= 1
    BY <1>5
  <2>1. n = 1 /\ {v \in Signatures(debits[1]) : Matches(v, arg)} # {}
        /\ xval' = CHOOSE v \in {v \in Signatures(debits[1]) : Matches(v, arg)} : TRUE
    BY <1>5
  <2>2. Len(debits) >= 1
    BY <1>4, <2>1
  <2>3. debits[1] \in Debits
    BY <1>7, <2>2, ElementOfSeq
  <2>4. xval' \in Signatures(debits[1]) /\ Matches(xval', arg)
    BY <2>1
  <2>5. QED
    BY <2>2, <2>3, <2>4, MatchIsPreimage
<1>9. xpc' = "ambiguous" => xseen' >= 2
  BY <1>4, <1>5
<1>10. QED
  BY <1>1, <1>2, <1>5, <1>6, <1>8, <1>9
     DEF ExtractInv, Positions, ExtractSound, legVars, vars, Outcomes

LEMMA NextExtractInv == ExtractInv /\ [ExtractNext]_allVars => ExtractInv'
<1> SUFFICES ASSUME ExtractInv, [ExtractNext]_allVars PROVE ExtractInv'
  OBVIOUS
<1>1. CASE UNCHANGED allVars
  <2>1. IInv'
    BY <1>1, NextIInv DEF ExtractInv, allVars, legVars, vars
  <2>2. QED
    BY <1>1, <2>1 DEF ExtractInv, allVars, legVars, vars, extractVars, Positions,
       ExtractSound
<1>2. QED
  BY <1>1, LegStepInv, CreditInv, ExtractStepInv DEF ExtractNext

(* ExtractSound: whatever the other parties do to the holding account    *)
(* and whenever extractsecret runs, a secret it prints is the preimage of *)
(* the hash it was given and was carried by the account's first debit,   *)
(* and it reports AmbiguousSpend only when two debits had settled.       *)
THEOREM ExtractSoundThm == ExtractSpec => []ExtractSound
<1>1. ExtractInv => ExtractSound
  BY DEF ExtractInv
<1>2. QED
  BY <1>1, InitExtractInv, NextExtractInv, PTL DEF ExtractSpec
=============================================================================
