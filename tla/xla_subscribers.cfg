SPECIFICATION FairSpec
CONSTANTS
    Programs <- AllPrograms
    BatchSize = 2
    MaxLog = 4
    MaxStarts = 2
INVARIANTS
    AtLeastOnce
PROPERTIES
    ImplementsFeed
    LogReleased
    StopsCleanly
