SPECIFICATION Spec
CONSTANTS
    Ops <- AllOps
    Lines <- ScriptLines
    Sequels <- FewOps
    SzBuf = 100
    Fills = {0, 205}
    OutInit = 37
    Damages = {0, 1, 255}
    RandFail = TRUE
    MaxFrames = 3
INVARIANTS TypeOK NeverWaitsTooLong AcceptsWhatIsBuilt DamageRefused ReadsStayInside ShortRepliesMatch
CHECK_DEADLOCK FALSE
