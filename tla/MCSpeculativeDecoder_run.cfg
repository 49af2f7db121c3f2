SPECIFICATION FairSpec
CONSTANTS
    a = a
    b = b
    nl = nl
    Tokens <- MCTokens
    Newline = nl
    Zero = a
    MainChoices <- AnyToken
    K = 2
    MaxSeq = 5
    MaxNew = 4
    PromptLens = {0, 1, 3}
    Strict = TRUE
    MaxStops = 1
INVARIANTS
    RoundSafety
PROPERTIES
    RunEnds
CHECK_DEADLOCK FALSE
