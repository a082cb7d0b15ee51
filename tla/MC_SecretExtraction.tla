------------------------ MODULE MC_SecretExtraction ------------------------
(* Small instances of SecretExtraction for TLC, in the participant's leg, *)
(* where the funder does not know the secret and must extract it.         *)
EXTENDS SecretExtraction

MC_Amounts == {6}
MC_LockTime == 2
MC_MaxTime == 3
=============================================================================
