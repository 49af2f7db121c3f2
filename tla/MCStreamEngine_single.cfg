SPECIFICATION FairSpec
CONSTANTS
    NumLayers = 1
    Stream <- OneLayer
    Workers = {w1}
    RingSize = 2
    GenLen = 2
    Infer = Infer
    Main = Main
    NoOne = NoOne

    
    
PROPERTIES
    GenerateReturns
CHECK_DEADLOCK FALSE
