SPECIFICATION Spec
CONSTANTS
    MinLen = 3
    Clients = {c1, c2}
    None = None
    c1 = c1
    c2 = c2
    Scripts <- Writes
    CmdSize <- Sizes
    Cap = 5
    RandFail = FALSE
    MayTimeout = FALSE
    MaxStarts = 1
INVARIANTS FreeMeansServing
CHECK_DEADLOCK FALSE
