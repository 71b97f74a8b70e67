SPECIFICATION CardsSpec
CONSTANTS
    NoClient = NoClient
    Requests = {r1}
    Clients = {host, ann}
    Creator = host
    MaxPlayers = 2
    MaxRows = 2
    NotifyMayFail = FALSE
    OrderlyLobby = TRUE
    Pickers = {k1}
    CardCount = 2
    MaxDecks = 1
    Patient = TRUE
INVARIANT EveryPickShows
