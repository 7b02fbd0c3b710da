SPECIFICATION Spec
CONSTANTS
    Ops <- PlainOps
    Lines <- NoLines
    Sequels <- FewOps
    SzBuf = 100
    Fills = {0, 205}
    OutInit = 37
    Damages = {}
    RandFail = FALSE
    MaxFrames = 1
INVARIANTS RepliesReadable
CHECK_DEADLOCK FALSE
