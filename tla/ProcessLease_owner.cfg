SPECIFICATION Spec
CONSTANTS
    Apps = {a, b}
    Pids = {p, q}
    Nobody = Nobody
    NoLease = NoLease
    MaxBirths = 2
    MaxFaults = 1
    MaxCrashes = 1
    ByHand = TRUE
INVARIANTS
    TemporaryIsTheHolders
    EveryObsIsOwned
PROPERTIES
    ImplementsContract
    SignalsOnlyOurs
CHECK_DEADLOCK FALSE
SYMMETRY Symmetric
