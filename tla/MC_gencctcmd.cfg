SPECIFICATION FairSpec
CONSTANTS
    W = 2
    Clusters = 2
    Boards = 2
    FirstAlloc = 2
    MaxOptions = 4
    Options <- Calls
INVARIANTS
    TypeOK
    RowsAsInFile
    DeviceOfCluster
    BoardsAsAsked
    AbortsWithReason
PROPERTY
    AlwaysEnds
CHECK_DEADLOCK FALSE
