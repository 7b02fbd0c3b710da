SPECIFICATION Spec
CONSTANTS
    W = 4
    Requests <- Calls
INVARIANTS
    TypeOK
    HoldsWhatWasSet
    LatchesClosed
    CombinedValueSet
    PowerAsAsked
PROPERTIES
    ChangesAsAsked
    PowerSwitchedAtOnce
