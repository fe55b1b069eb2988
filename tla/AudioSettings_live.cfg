SPECIFICATION FairSpec
CONSTANTS
    m1 = m1
    m2 = m2
    Mics <- ConstMics
    MaxChoices = 3
    MaxVisits = 3
INVARIANTS
    LastChoiceWins
    RecorderKeepsObs
    OnlyLiveWhileRecording
PROPERTIES
    PageRests
CHECK_DEADLOCK FALSE
