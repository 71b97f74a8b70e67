SPECIFICATION FairSpec
CONSTANTS
    N = 2
    hall = hall
    mill = mill
    Deeds = {hall, mill}
    NoDeed = NoDeed
    Dealt <- MCDealt
    MaxChanges = 2
    MaxLevel = 1
    MaxBreaks = 1
INVARIANTS
    TypeOK
    TurnShown
    
    HandStacked
    ClaimRestored
PROPERTIES
    
    HolderTold
CHECK_DEADLOCK FALSE
