SPECIFICATION LosslessSpec
CONSTANTS
    MinLen = 3
    Clients = {c1, c2}
    None = None
    c1 = c1
    c2 = c2
    Scripts <- FittingScripts
    CmdSize <- Sizes
    Cap = 5
    RandFail = TRUE
    MayTimeout = FALSE
    MaxStarts = 1
INVARIANTS DoneMeansExecuted OneResponsePerCommand NobodyKilled
PROPERTIES ServedClientFinishes
CHECK_DEADLOCK FALSE
