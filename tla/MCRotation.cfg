SPECIFICATION FairSpec
CONSTANTS
    Banks = 3
    Warm = 2
    Quoted = {0, 2}
    MaxBroken = 1
PROPERTIES
    EveryHotBankGetsItsTurn
