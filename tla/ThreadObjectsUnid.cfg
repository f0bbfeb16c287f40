CONSTANTS
    Threads = {t1, t2}
    Dbs = {d1, d2}
    Notes = {n1}
    Handles = {h1, h2, h3}
    NoThread = NoThread
    NoHandle = NoHandle
    NoDb = NoDb
SPECIFICATION Spec
SYMMETRY Symmetric
CHECK_DEADLOCK FALSE
INVARIANT
    EveryOpenHandleRemembered
