SPECIFICATION Spec
CONSTANTS
    MaxEntries = 4
    Uint32Max = 5
INVARIANTS
    OffsetMovesPage
