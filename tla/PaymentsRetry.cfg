SPECIFICATION Spec
CONSTANTS
    alice = alice
    bob = bob
    fare = fare
    bounty = bounty
    remote = remote
    None = None
    Wallets = {alice, bob}
    Own = {}
    Remote = {remote}
    Payers = {p1}
    Checkers = {k1}
    Owner <- MCOwner
    Amount <- MCAmount
    Funds <- MCFunds
    FeeReserve = 1
    NodeFee = 0
    Polled = {remote}
    Expirable = {}
    Reattempts = TRUE
    MaxCrashes = 0
INVARIANT PaidIsDebited
CHECK_DEADLOCK FALSE
