SPECIFICATION Spec
CONSTANTS
    Callers = {c1, c2}
    Workers = {w1, w2}
    plain = plain
    batch = batch
    Tools = {plain, batch}
    BatchTools = {batch}
    HelpTools = {plain}
    Limit = 1
    Batches <- OneBatch
    Files <- OneFile
    MaxOps = 2
    MaxWindows = 1
    Nobody = Nobody
    NumChunks = 4
    ModelLayers = 2
    MaxRows = 3
    Width = 1
    PromptSizes = {0, 1, 3}
    MaxTokens = 3
    MaxGens = 2
    NHeads = 4
    Passes = 2
    StepCounts = {1, 2, 3, 8}
INVARIANTS
    ToolSafety
    InferSafety
    
    TileSafety
    MeshSafety
PROPERTIES
    GpuPipeSpec
    
CHECK_DEADLOCK FALSE
