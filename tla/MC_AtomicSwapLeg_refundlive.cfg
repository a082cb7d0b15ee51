CONSTANTS
    Funder = Funder
    Recipient = Recipient
    Mallory = Mallory
    Holding = Holding
    Secret = Secret
    Junk = Junk
    NoTx = NoTx
    Role = "participate"
    Amounts <- MC_Amounts
    LockTime <- MC_LockTime
    MaxTime <- MC_MaxTime
    MaxFunderTxs = 1
    MaxSpends = 2
SPECIFICATION LiveSpec
CHECK_DEADLOCK FALSE
PROPERTY
    RefundLive
