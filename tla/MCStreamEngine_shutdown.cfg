SPECIFICATION FairSpec
CONSTANTS
    NumLayers = 1
    Stream <- TwoTiles
    Workers = {w1}
    RingSize = 1
    GenLen = 0
    Infer = Infer
    Main = Main
    NoOne = NoOne
PROPERTIES
    ShutdownReturns
CHECK_DEADLOCK FALSE
