SPECIFICATION Spec
CONSTANTS
    Apps = {a}
    Pids = {p}
    Nobody = Nobody
    NoLease = NoLease
    MaxBirths = 1
    MaxFaults = 0
    MaxCrashes = 0
    ByHand = FALSE
PROPERTIES
    UpdateNeverForces
CHECK_DEADLOCK FALSE
