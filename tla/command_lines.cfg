SPECIFICATION BenchSpec
CONSTANTS
    TokenOrder <- MCTokenOrder
    Chars <- MCChars
    Lower <- MCLower
    NumVal <- MCNumVal
    RealWords <- MCRealWords
    Refused <- MCRefused
    Wrap = 256
    LongMax = 32767
    MaxMsgs = 2
    SimpleInts <- MCSimpleInts
    MaxLenDsn = 30
    MinRptInterval = 10
    MaxLenMix = 19
    Inputs <- MCInputs
    Programs <- MCPrograms
    MaxFaults = 1
    NumRuns = 2
    TellersPerBranch = 2
    AccountsPerBranch = 2
    Deltas <- MCDeltas
    SmallRows = 2
    PrimeRows = 1
    BigRows = 4
    Repeats = 4
    Generators <- MCGenerators
    Worked <- MCWorked
INVARIANTS
    ConnectsAsTold
    FindsTheOption
    ChosenPrepared
    RowsLoadedInOrder
    BranchesBalance
    TablesLeft
