SPECIFICATION Spec
CONSTANTS
    o1 = o1  o2 = o2
    b1 = b1  b2 = b2  b3 = b3  b4 = b4
    e1 = e1  e2 = e2
    s1 = s1  s2 = s2  f1 = f1
    r1 = r1  r2 = r2
    Objects <- MCObjects
    Blocks = {b1, b2, b3, b4}
    NoBlock = NoBlock
    Emails = {e1, e2}
    Scripts = {s1, s2}
    Formulas = {f1}
    Rrvs = {r1, r2}
    Nothing = Nothing
SYMMETRY MCSymmetry
INVARIANTS
    TypeOK
    NoMisuse
    OneKeeper
    RecipientsNamed
    RunInfoKept
    ScriptsCompiled
PROPERTIES
    LocksReturned
    ImplementsDelivery

