SPECIFICATION FairSpec
CONSTANTS
    Workload <- AllTypes
    DoCleanup = TRUE
    CommitReadTxn = TRUE
    GridRow = "on"
    RetryLimit = 2
    FailoverLimit = 2
    RunNumTxn = 2
    LimitByTime = FALSE
    MaxTxn = 0
    MaxRows = 1
    OldRows = 1
    ChargeCents <- OneCharge
    TopUpCents = 10
    CommitInDoubt = FALSE
INVARIANTS
    TypeOK
    Ledger
    ReadyBetweenTxns
PROPERTIES
    Terminates
    ImplementsLedger
