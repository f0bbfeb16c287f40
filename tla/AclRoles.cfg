SPECIFICATION Spec
CONSTANTS
    Managers = {m1}
    Objects = {e1, e2}
    Names = {n1, n2}
    Levels = {reader, editor}
    RoleNames = {r1, r2}
    Capacity = 2
    NoRole = NoRole
    NoEntry = NoEntry
    NoAcl = NoAcl
    NoManager = NoManager
SYMMETRY Symmetry
CONSTRAINT StoredHasNoEntry
PROPERTIES
    UnknownRolesRefused
