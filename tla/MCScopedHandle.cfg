CONSTANTS
    Threads = {t1, t2}
    Wrappers = {w1, w2, w3}
    Handles = {h1, h2, h3}
    NoThread = NoThread
    NoHandle = NoHandle
SPECIFICATION Spec
SYMMETRY Symmetric
CHECK_DEADLOCK FALSE
INVARIANTS
    TypeOK
    SingleOwner
    OwnerIsOpener
    NothingLost
PROPERTY
    ImplementsOwnership
