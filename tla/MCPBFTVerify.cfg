SPECIFICATION FairSpec
CONSTANTS
    v1 = v1
    v2 = v2
    v3 = v3
    v4 = v4
    t1 = t1
    Validators <- MCFour
    Timers = {}
    DigestCovered = TRUE
    SenderIsSigner = FALSE
    MaxTxPerBlock = 1
    MaxSubmits = 1
    MaxView = 0
    MaxEvents = 6
PROPERTIES
    ProposalPrepared
CHECK_DEADLOCK FALSE
