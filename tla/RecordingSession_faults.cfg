SPECIFICATION FairSpec
CONSTANTS
    MaxGames <- MCTwoGames
    Faults = TRUE
INVARIANTS
    TypeOK
    StopSentOnce
    CompletedIsWhole
    NoSilentLoss
PROPERTIES
    ImplementsContract
    StopEnds
