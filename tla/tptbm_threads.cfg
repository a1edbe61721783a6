SPECIFICATION FairSpec
CONSTANTS
    NumThreads = 2
    Key = 2
    Xacts = 2
    OpsInXact = 2
    Modes = {"xact", "sec", "ramp"}
    MaxCount = 2
INVARIANTS
    ExecuteTogether
    InsertsDisjoint
PROPERTY
    Terminates
