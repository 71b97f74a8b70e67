SPECIFICATION Spec
CONSTANTS
    alice = alice
    bob = bob
    fare = fare
    bounty = bounty
    remote = remote
    None = None
    Wallets = {alice, bob}
    Own = {fare, bounty}
    Remote = {remote}
    Payers = {p1, p2}
    Checkers = {k1}
    Owner <- MCOwner
    Amount <- MCAmount
    Funds <- MCFunds
    FeeReserve = 1
    NodeFee = 0
    Polled = {remote, bounty}
    Expirable = {fare}
    Reattempts = FALSE
    MaxCrashes = 1
SYMMETRY Symmetry
INVARIANTS
    NonNegative
    PaidIsDebited
    InternalDebitSettles
PROPERTIES
    RefinesCustody
CHECK_DEADLOCK FALSE
