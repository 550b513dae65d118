SPECIFICATION FairSpec
CONSTANTS
    Targets = {h1, h2}
    Client = browser
    MaxEvents = 2
    MaxTicks = 1
INVARIANTS
    TypeOK
    ClosedForCause
    DeadNeverBlocksReaders
    NobodyLeftOpen
PROPERTIES
    MergesInOrder
    StopHeeded
    ReadersSettle
CHECK_DEADLOCK FALSE
