SPECIFICATION SyncSpec
CONSTANTS
    t1 = t1
    t2 = t2
    s1 = s1
    s2 = s2
    Uploaders <- Both
    Generators <- None
    Slots <- TwoSlots
    CmdRing = 2
    MaxOps = 2
INVARIANTS
    StagingIdle
CHECK_DEADLOCK FALSE
