CONSTANTS
    Funder = Funder
    Recipient = Recipient
    Mallory = Mallory
    Holding = Holding
    Secret = Secret
    Junk = Junk
    NoTx = NoTx
    Role = "participate"
    Amounts <- MC_Amounts
    LockTime <- MC_LockTime
    MaxTime <- MC_MaxTime
    MaxFunderTxs = 0
    MaxSpends = 1
    HexCases = {"lower", "upper"}
    Page = 3
    MaxCredits = 0
INIT ExtractInit
NEXT ExtractNext
CHECK_DEADLOCK FALSE
INVARIANT
    ExtractRecovers
