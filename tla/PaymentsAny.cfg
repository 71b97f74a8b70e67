SPECIFICATION Spec
CONSTANTS
    alice = alice
    bob = bob
    fare = fare
    bounty = bounty
    remote = remote
    None = None
    Wallets = {alice, bob}
    Own = {fare}
    Remote = {remote}
    Payers = {p1, p2}
    Checkers = {k1}
    Owner <- MCOwner
    Amount <- MCAmount
    Funds <- MCFundsAgain
    FeeReserve = 1
    NodeFee = 1
    Polled = {fare, remote}
    Expirable = {fare}
    Reattempts = TRUE
    MaxCrashes = 1
SYMMETRY Symmetry
INVARIANTS
    TypeOK
    CreditBacked
CHECK_DEADLOCK FALSE
