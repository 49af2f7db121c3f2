SPECIFICATION SessionFairSpec
CONSTANTS
    c1 = c1
    c2 = c2
    l1 = l1
    l2 = l2
    Clients <- OneClient
    Layers <- TwoLayers
    Prompts = {0, 1, 3}
    MaxNew = 3
    MaxSeq = 3
    WordSize = 16
    MaxCalls = 2

    
PROPERTIES
    PipeSpec
    SessionEnds
CHECK_DEADLOCK FALSE
