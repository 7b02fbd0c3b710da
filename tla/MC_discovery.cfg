SPECIFICATION Spec
CONSTANTS
    d1 = d1
    d2 = d2
    Devices <- Both
    RandFail <- Silent
    MayTimeout = TRUE
INVARIANTS HearsEveryDevice
CHECK_DEADLOCK FALSE
