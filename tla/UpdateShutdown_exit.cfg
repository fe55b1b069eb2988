SPECIFICATION Spec
CONSTANTS
    MaxWorkers = 2
    MaxInstalls = 0
    MaxLaunches = 1
INVARIANTS
    ExitStopsRecorder
CHECK_DEADLOCK FALSE
