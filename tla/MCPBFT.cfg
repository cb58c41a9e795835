SPECIFICATION Spec
CONSTANTS
    v1 = v1
    v2 = v2
    v3 = v3
    v4 = v4
    t1 = t1
    Validators <- MCTwo
    Timers = {t1}
    DigestCovered = FALSE
    SenderIsSigner = TRUE
    MaxTxPerBlock = 1
    MaxSubmits = 2
    MaxView = 2
    MaxEvents = 4
INVARIANTS
    TypeOK
    ViewKept
    OneCommit
CHECK_DEADLOCK FALSE
