SPECIFICATION Spec
CONSTANTS
    NLayer = 2
    NHead = 2
    NSeq = 3
    MaxSteps = 3
    BatchSize = 2
    SaveEvery = 2
    Lengths = {"tiny", "full"}
INVARIANTS
    GradientsMatchCPU
    ViewsSafe
    SavedIsRecent
    EvenCoverage
CHECK_DEADLOCK FALSE
