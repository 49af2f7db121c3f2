SPECIFICATION SyncFairSpec
CONSTANTS
    t1 = t1
    t2 = t2
    s1 = s1
    s2 = s2
    Uploaders <- One
    Generators <- One
    Slots <- TwoSlots
    CmdRing = 2
    MaxOps = 5
INVARIANTS
    ReuseSafety

    
CHECK_DEADLOCK FALSE
