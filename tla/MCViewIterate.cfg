SPECIFICATION FairSpec
CONSTANTS
    MaxEntries = 4
    Uint32Max = 5
INVARIANTS
    TypeOK
    OnlyPageIsCalled
    PageIsComplete
PROPERTIES
    InViewOrder
    Terminates
