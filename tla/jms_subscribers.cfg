SPECIFICATION FairSpec
CONSTANTS
    Styles = {"async", "sync"}
    MaxLog = 3
    MaxStarts = 3
INVARIANTS
    LostMessages
PROPERTIES
    ShutdownEnds
