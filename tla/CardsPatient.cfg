SPECIFICATION CardsSpec
CONSTANTS
    NoClient = NoClient
    Requests = {r1}
    Clients = {host, ann, bob}
    Creator = host
    MaxPlayers = 3
    MaxRows = 3
    NotifyMayFail = FALSE
    OrderlyLobby = TRUE
    Pickers = {k1}
    CardCount = 2
    MaxDecks = 2
    Patient = TRUE
SYMMETRY Symmetry
INVARIANTS
    CardsTypeOK
    OneCardPerTurn
    DrawRightRestored
    TurnHolderCanPlay
    IndexHasOneWallet
PROPERTIES
    DeactivationKeepsTurn
    RefinesTurnOrder
