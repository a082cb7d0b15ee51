CONSTANTS
    Holding = Holding
    Recipient = Recipient
    Funder = Funder
    S1 = S1
    S2 = S2
    None = None
    Keys <- MC_Keys
    Preimages <- MC_Preimages
    Candidates <- MC_Candidates
    RefundTxs <- MC_RefundTxs
    ThresholdChoices <- MC_ThresholdChoices
    MasterWeights = {0, 1}
    MaxSigners = 4
SPECIFICATION Spec
INVARIANT AuditRejectsLiveMaster
CHECK_DEADLOCK FALSE
