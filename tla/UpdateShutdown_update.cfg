SPECIFICATION FairSpec
CONSTANTS
    MaxWorkers <- MCWorkers
    MaxInstalls = 1
    MaxLaunches = 2
INVARIANTS
    TypeOK
    NotStuckClosing
    OnlyDroppedOutlive
PROPERTIES
    ProceedOnlyWhenQuiet UpdateDecides
CHECK_DEADLOCK FALSE
