SPECIFICATION FairSpec
CONSTANTS
    Workload = {"authorize", "charge", "purge"}
    DoCleanup = TRUE
    RetryLimit = 2
    FailoverLimit = 2
    RunNumTxn = 2
    MaxDepth = 6
INVARIANTS
    Accounting
PROPERTY
    Ends
