SPECIFICATION FairSpec
CONSTANTS
    ann = ann
    bob = bob
    cat = cat
    hall = hall
    mill = mill
    dam = dam
    Players = {ann, bob, cat}
    Market = Market
    Deeds = {hall, mill, dam}
    NoDeed = NoDeed
    Dealt <- MCDealt
    Fines = {1, 2}
    MaxFlows = 3
INVARIANTS
    TypeOK
    
    IncomeExact
    MinersPaid
    RegisteredOnce
PROPERTIES
    OwnerIsPaid
    
CHECK_DEADLOCK FALSE
