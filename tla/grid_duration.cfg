SPECIFICATION FairSpec
CONSTANTS
    Workload <- AllTypes
    DoCleanup = FALSE
    CommitReadTxn = FALSE
    GridRow = "off"
    RetryLimit = 2
    FailoverLimit = 2
    RunNumTxn = 0
    LimitByTime = TRUE
    MaxTxn = 2
    MaxRows = 1
    OldRows = 1
    ChargeCents <- OneCharge
    TopUpCents = 10
    CommitInDoubt = TRUE
INVARIANTS
    Accounting
PROPERTIES
    SignalStops
