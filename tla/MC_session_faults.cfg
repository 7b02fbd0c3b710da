SPECIFICATION FairSpec
CONSTANTS
    MinLen = 3
    Clients = {c1, c2}
    None = None
    c1 = c1
    c2 = c2
    Scripts <- AnyScripts
    CmdSize <- Sizes
    Cap = 5
    RandFail = FALSE
    MayTimeout = TRUE
    MaxStarts = 2
INVARIANTS TypeOK BusyWhileOpen
PROPERTIES ServesExclusively DeviceReleased
CHECK_DEADLOCK FALSE
