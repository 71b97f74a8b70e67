SPECIFICATION FairSpec
CONSTANTS
    alice = alice
    bob = bob
    fare = fare
    bounty = bounty
    remote = remote
    None = None
    Wallets = {alice, bob}
    Own = {bounty}
    Remote = {remote}
    Payers = {p1}
    Checkers = {k1}
    Owner <- MCOwner
    Amount <- MCAmount
    Funds <- MCFunds
    FeeReserve = 1
    NodeFee = 0
    Polled = {remote, bounty}
    Expirable = {}
    Reattempts = FALSE
    MaxCrashes = 1
PROPERTIES
    SentPaymentsResolve
    
CHECK_DEADLOCK FALSE
