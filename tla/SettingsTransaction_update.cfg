SPECIFICATION FairSpec
CONSTANTS
    f1 = f1
    f2 = f2
    a = a
    b = b
    Absent = Absent
    Partial = Partial
    Gone = Gone
    Files <- ConstFiles
    Contents <- ConstContents
    MaxWrites = 2
    MaxFaults = 1
    MaxCrashes = 2
INVARIANTS
    Recoverability
    StopOnlyPrepared
PROPERTIES
    ForeignContentsKept
    ImplementsAtomic
    PendingResolved
