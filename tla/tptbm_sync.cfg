SPECIFICATION FairSpec
CONSTANTS
    NProc = 3
    Args <- SafeArgs
    NumXacts = 2
    MaxXacts = 2
    MaxErrors = 1
    CtrlC = TRUE
    Prompt = TRUE
INVARIANTS
    StartTogether
    ReportAfterAll
    WindowCounted
PROPERTIES
    Terminates
    InterruptEnds
