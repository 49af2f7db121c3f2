SPECIFICATION Spec
CONSTANTS
    NLayers = 2
    Prompt = 3
    Steps = 2
    CmdRing = 2
INVARIANTS
    
    BarriersHold
    
CHECK_DEADLOCK FALSE
