SPECIFICATION Spec
CONSTANTS
    MinLen = 3
    Clients = {c1}
    None = None
    c1 = c1
    Scripts <- SleepScripts
    CmdSize <- Sizes
    Cap = 5
    RandFail = FALSE
    MayTimeout = FALSE
    MaxStarts = 1
INVARIANTS CountsRequestsSent
CHECK_DEADLOCK FALSE
