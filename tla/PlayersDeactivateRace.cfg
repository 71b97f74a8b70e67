SPECIFICATION Spec
CONSTANTS
    NoClient = NoClient
    Requests = {r1, r2}
    Clients = {host, ann}
    Creator = host
    MaxPlayers = 2
    MaxRows = 2
    NotifyMayFail = FALSE
    OrderlyLobby = TRUE
PROPERTY DeactivationKeepsTurn
