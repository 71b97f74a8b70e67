SPECIFICATION Spec
CONSTANTS
    ann = ann
    bob = bob
    cat = cat
    hal = hal
    len = len
    Creator = ann
    Guests = {bob, cat}
    Names = {hal, len}
    NoName = NoName
    Blank = Blank
    MaxPlayers = 3
    MaxFaults = 1
    MaxChanges = 2
INVARIANTS
    TypeOK
    NamesDiffer
    VoucherCounted
    RosterShown
    StartWaits
    
    StartOffered
SYMMETRY Interchangeable
CHECK_DEADLOCK FALSE
