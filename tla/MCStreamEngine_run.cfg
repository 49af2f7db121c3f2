SPECIFICATION Spec
CONSTANTS
    NumLayers = 2
    Stream <- TwoLayers
    Workers = {w1, w2}
    RingSize = 1
    GenLen = 0
    Infer = Infer
    Main = Main
    NoOne = NoOne
SYMMETRY Symmetry
INVARIANTS
    TypeOK
    ChunksAccounted
    SlotAccounting
    RegionsDisjoint
PROPERTIES
    PipelineSpec
CHECK_DEADLOCK FALSE
