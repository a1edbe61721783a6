SPECIFICATION FairWorkload
CONSTANTS
    NProc = 2
    Key = 2
    NumXacts = 2
    NElements = 2
    PopCommitIntvl = 3
    Args <- SafeArgs
    MaxErrors = 1
    Warnings = TRUE
    CtrlC = TRUE
INVARIANTS
    InsertsFresh
PROPERTIES
    Ends
