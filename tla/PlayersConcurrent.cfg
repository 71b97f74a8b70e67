SPECIFICATION Spec
CONSTANTS
    NoClient = NoClient
    Requests = {r1, r2}
    Clients = {host, ann, bob}
    Creator = host
    MaxPlayers = 2
    MaxRows = 4
    NotifyMayFail = TRUE
    OrderlyLobby = FALSE
SYMMETRY Symmetry
INVARIANTS
    TypeOK
    TurnRegistered
    WalletHasPlayer
    OvershootBounded
