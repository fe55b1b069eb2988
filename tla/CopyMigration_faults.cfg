SPECIFICATION Spec
CONSTANTS
    Procs = {p, q}
    Nobody = Nobody
    NSources = 2
    exe = exe
    lib = lib
    ini = ini
    old = old
    new = new
    Files <- MCFiles
    Exe = exe
    Managed = {ini}
    Contents = {old, new}
    Absent = Absent
    Desired = new
    NoJournal = NoJournal
    Torn = Torn
    Changed = Changed
    InitSources <- MCSources
    InitDestinations <- MCDestinations
    MaxEdits = 1
    MaxMishaps = 2
INVARIANTS
    RunsOnWhole
PROPERTIES
    ImplementsContract
    PendingResolved
CHECK_DEADLOCK FALSE
