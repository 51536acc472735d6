SPECIFICATION FairSpec
CONSTANTS
    Banks = 3
    Quoted = {0, 2}
    MaxBroken = 1
    NarrowWarm = 2
    WideWarm = 3
    MaxSlot = 2
    MaxNotifiers = 2
    Promotion = 2
    MaxQueue = 2
    MaxFaults = 2
    MaxLayout = 1
    o = o
    s1 = s1
    s2 = s2
    r1 = r1
    w1 = w1
    NoIntent = NoIntent
INVARIANTS
    ServedOnWatch
PROPERTIES
    HotBankGetsItsTurn
    NoReaderIsStuck
    
