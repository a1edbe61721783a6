SPECIFICATION Spec
CONSTANTS
    Options <- MCOptions
    NumRuns = 2
    MaxErrors = 1
INVARIANTS
    StartedByParent
    ReportAfterAll
PROPERTIES
    Ends
CHECK_DEADLOCK FALSE
