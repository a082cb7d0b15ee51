--------------------------- MODULE MC_AuditContract ---------------------------
(* A small instance of AuditContract: two ed25519 keys besides the        *)
(* holding account's, two preimages, four refund transactions (the       *)
(* honest one, one with no lock time, one with a second operation, one     *)
(* merging another account), signers of right and wrong weights and one *)
(* of a type the audit does not know.                                      *)
EXTENDS AuditContract

CONSTANTS Recipient, Funder, S1, S2

MC_Keys == {Recipient, Funder}
MC_Preimages == {S1, S2}

Merge(src) == [type |-> "merge", src |-> src, dest |-> Funder]
GoodRefund == [ops |-> <<Merge(Holding)>>, minTime |-> 2]
EarlyRefund == [ops |-> <<Merge(Holding)>>, minTime |-> 0]
TwoOpsRefund == [ops |-> <<Merge(Holding),
                          [type |-> "payment", src |-> Holding, dest |-> Funder]>>,
                 minTime |-> 2]
ForeignRefund == [ops |-> <<Merge(Funder)>>, minTime |-> 2]
MC_RefundTxs == {GoodRefund, EarlyRefund, TwoOpsRefund, ForeignRefund}

Sig(t, k, w) == [type |-> t, key |-> k, weight |-> w]
MC_Candidates ==
    {Sig("ed25519", Recipient, 1), Sig("ed25519", Recipient, 2),
     Sig("ed25519", Funder, 1),
     Sig("hashX", S1, 1), Sig("hashX", S2, 1), Sig("hashX", S1, 2),
     Sig("preAuthTx", GoodRefund, 2), Sig("preAuthTx", GoodRefund, 1),
     Sig("preAuthTx", EarlyRefund, 2), Sig("preAuthTx", TwoOpsRefund, 2),
     Sig("preAuthTx", ForeignRefund, 2), Sig("signedPayload", Recipient, 1)}

Thr(l, m, h) == [low |-> l, med |-> m, high |-> h]
MC_ThresholdChoices == {Thr(2, 2, 2), Thr(2, 1, 2), Thr(1, 2, 2), Thr(2, 2, 1)}
=============================================================================
