CONSTANTS
    MaxDistinct = 17
    MaxRepeated = 5
SPECIFICATION Spec
CHECK_DEADLOCK FALSE
INVARIANTS
    RootIsRFC6962
    RootNamesTheBatch
    VerdictIsRight
