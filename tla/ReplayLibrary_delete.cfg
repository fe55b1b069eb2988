SPECIFICATION Spec
CONSTANTS
    Old = 1
    Recs <- MCRecs
    Opened <- MCOpened
    Limit = 4
    MaxExports = 1
    MaxDeletions = 2
PROPERTIES
    DeletionTakesClips
CHECK_DEADLOCK FALSE
