SPECIFICATION Spec
CONSTANTS
    MinLen = 3
    Clients = {c1, c2}
    None = None
    c1 = c1
    c2 = c2
    Scripts <- AnyScripts
    CmdSize <- Sizes
    Cap = 5
    RandFail = FALSE
    MayTimeout = TRUE
    MaxStarts = 1
INVARIANTS BufferOfThisConnection
CHECK_DEADLOCK FALSE
