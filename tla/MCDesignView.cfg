SPECIFICATION Spec
CONSTANTS
    Codes = {c1, c2}
    DocNumber = c1
    CallerNames <- MCCallerNames
    Sortings <- MCSortings
    MaxColumns = 2
    MaxCalls = 7
    NoCode = NoCode
    NoItem = NoItem
    NoDesign = NoDesign
CHECK_DEADLOCK FALSE
INVARIANTS
    TypeOK
    GeneratedNamesDiffer
    StoredBelongsTogether
