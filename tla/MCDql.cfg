SPECIFICATION Spec
CONSTANTS
    Fields = {"a"}
    Relations = {"="}
    Words = {"0", "1e-7"}
    SixDecimals <- MCSixDecimals
    Texts <- MCTexts
    Documents <- MCDocuments
    MaxTerms = 3
    MaxJoins = 2
INVARIANT MeaningKept
CHECK_DEADLOCK FALSE
