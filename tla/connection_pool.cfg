SPECIFICATION FairPoolSpec
CONSTANTS
    NInserters = 3
    NFetchers = 1
    NConn = 2
    Inserts = 2
    LoopCount = 0
    Iterations = 1
    MaxInvalid = 1
INVARIANTS
    AllReturned
PROPERTY
    Ends
