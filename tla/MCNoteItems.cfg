SPECIFICATION Spec
CONSTANTS
    t1 = t1  t2 = t2
    a = a  b = b
    Threads = {t1, t2}
    Keys = {"k"}
    Values <- MCValues
    MaxVersion = 3
    None = None
    Erased = Erased
SYMMETRY MCSymmetry
INVARIANTS
    TypeOK
    ValuesPinned
    ReadsBack
    OpensSavedNotes
PROPERTIES
    UnforcedSaveMerges
