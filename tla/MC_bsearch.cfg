SPECIFICATION FairSpec
CHECK_DEADLOCK FALSE
CONSTANTS
    SizeT = 16
    MaxLen = 6
    Keys = {1, 2, 3, 4}
INVARIANTS
    TypeOK
    ComparesElements
PROPERTIES
    ImplementsSortedList
    Halves
    SearchEnds
