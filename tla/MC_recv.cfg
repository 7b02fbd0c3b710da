SPECIFICATION FairSpec
CONSTANTS
    MinLen = 3
    Roles = {"sim", "cli"}
    Cap = 6
    Contents <- Mix
    OutInit = 2
    Requests = 2
    MaxPackets = 3
INVARIANTS TypeOK InSync NothingLeftBehind StallIsHopeless RejectBlocks
PROPERTIES ImplementsPipe EveryPacketHandled CallbackReturns
CHECK_DEADLOCK FALSE
