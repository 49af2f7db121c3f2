SPECIFICATION TrainerFairSpec
CONSTANTS
    MaxChildren = 3
    Chunks = {0, 2}
    TokenFile = {TRUE, FALSE}
INVARIANTS
    TrainerSafety
PROPERTIES
    StopSpawnsNothing
    RunningEnds
CHECK_DEADLOCK FALSE
