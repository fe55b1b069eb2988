SPECIFICATION Spec
CONSTANTS
    Old = 2
    Recs <- MCRecs
    Opened <- MCOpened
    Limit = 3
    MaxExports = 1
    MaxDeletions = 1
INVARIANTS
    TypeOK
    FallbackAlone
PROPERTIES
    VerdictTellsTheFile
    CancelEnds
    LogOutlivesFiles
    SweepGoesOn
CHECK_DEADLOCK FALSE
