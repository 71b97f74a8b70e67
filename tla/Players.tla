------------------------------ MODULE Players ------------------------------
(***************************************************************************)
(* The roster and the turn of one game of the `play` extension: joining,   *)
(* starting, passing the turn and deactivating a player.                   *)
(*                                                                         *)
(* Every db.fetchone, db.fetchall and db.execute of the extension opens a  *)
(* transaction of its own, so a request handler is a sequence of atomic    *)
(* database accesses and other handlers run between any two of them.  A    *)
(* request in flight is a slot of `req` whose pc names its next access.    *)
(***************************************************************************)
EXTENDS Naturals, Sequences, FiniteSets

CONSTANTS
    Requests,       \* slots for requests in flight at the same time
    Clients,        \* the LNbits accounts that take part, one wallet each
    NoClient,       \* "this request concerns no account"
    Creator,        \* the account that created the game and plays as "1"
    MaxPlayers,     \* games.max_players_count
    MaxRows,        \* BOUND: length of the players table
    NotifyMayFail,  \* whether send_text may raise on a dead websocket
    OrderlyLobby    \* what people are assumed to do when all goes well: an account
                    \* joins once and before the start, the creator starts the
                    \* game once and deactivates players other than the creator,
                    \* after the start only; the server checks none of it

ASSUME RequestsAssumption == IsFiniteSet(Requests) /\ Requests # {}
ASSUME ClientsAssumption  == Creator \in Clients /\ NoClient \notin Clients
ASSUME LimitsAssumption   ==
    /\ MaxPlayers \in Nat \ {0}
    /\ MaxRows \in Nat \ {0}
    /\ NotifyMayFail \in BOOLEAN
    /\ OrderlyLobby \in BOOLEAN

VARIABLES
    players,    \* the players table, in insertion order; it has no key
    wallets,    \* player_index of each account's row in wallets, 0 if none
    started,    \* games.started
    turn,       \* games.player_turn; 0, the free market, before the start
    req         \* the request each slot is serving

vars == <<players, wallets, started, turn, req>>

-----------------------------------------------------------------------------
PlayerRow == [player_index : Nat, active : BOOLEAN,
              technology_card_picked : BOOLEAN,
              black_swan_card_picked : BOOLEAN,
              pow_provided : BOOLEAN]

JoinPCs == {"join_insert", "join_wallet"}
TurnPCs == {"read_rows", "read_turn", "write_turn", "reset_technology",
            "reset_black_swan", "reset_pow", "notify"}

PCs == {"idle", "start_write", "deactivate"} \cup JoinPCs \cup TurnPCs

Request == [pc : PCs,
            player : Nat,                     \* data.player_index
            client : Clients \cup {NoClient}, \* who joins
            next : Nat,                       \* the turn to write, 0 if none
            deactivating : BOOLEAN]           \* turn passed by deactivate_player

Idle == [pc |-> "idle", player |-> 0, client |-> NoClient, next |-> 0,
         deactivating |-> FALSE]

TypeOK ==
    /\ players \in Seq(PlayerRow)
    /\ wallets \in [Clients -> Nat]
    /\ started \in BOOLEAN
    /\ turn \in Nat
    /\ req \in [Requests -> Request]

NewPlayer(index) == [player_index |-> index, active |-> TRUE,
                     technology_card_picked |-> FALSE,
                     black_swan_card_picked |-> FALSE,
                     pow_provided |-> FALSE]

\* SELECT ... WHERE active: the rows, by position in the table.
ActiveRows == {i \in DOMAIN players : players[i].active}

PlayerIndexes == {players[i].player_index : i \in DOMAIN players}

\* is_active_player: the first row that has the index decides.
IsActivePlayer(p) ==
    \E i \in DOMAIN players :
        /\ players[i].player_index = p
        /\ \A j \in 1 .. i - 1 : players[j].player_index # p
        /\ players[i].active

\* The key of the wallet registered for the index, of a player still active.
Authorized(p) == /\ \E c \in Clients : wallets[c] = p
                 /\ IsActivePlayer(p)

\* The loop over the active rows: it stops at the first one of player p and
\* takes the row after it, or the first row when there is none after it.
FirstActiveRowOf(p, i) ==
    /\ i \in ActiveRows
    /\ players[i].player_index = p
    /\ \A k \in ActiveRows : k < i => players[k].player_index # p

\* Mutant of RowAfter: any later active row, not the nearest.
RowAfterAny(i, j) ==
    /\ j \in ActiveRows
    /\ \/ j > i
       \/ /\ \A k \in ActiveRows : k <= i
          /\ \A k \in ActiveRows : j <= k

RowAfter(i, j) ==
    /\ j \in ActiveRows
    /\ \/ j > i /\ \A k \in ActiveRows : k > i => j <= k
       \/ /\ \A k \in ActiveRows : k <= i
          /\ \A k \in ActiveRows : j <= k

\* The indexes the turn may pass to from player p: 0 when p is not active.
NextTurns(p) ==
    LET found == {i \in ActiveRows : FirstActiveRowOf(p, i)}
    IN  IF found = {} THEN {0}
        ELSE {players[j].player_index :
                j \in {k \in ActiveRows : \E i \in found : RowAfter(i, k)}}

\* UPDATE players SET column = FALSE WHERE player_index = p: every such row.
Cleared(p, column) ==
    [i \in DOMAIN players |->
        IF players[i].player_index = p
        THEN [players[i] EXCEPT ![column] = FALSE]
        ELSE players[i]]

Goto(r, pc) == req' = [req EXCEPT ![r].pc = pc]
Done(r)     == req' = [req EXCEPT ![r] = Idle]

-----------------------------------------------------------------------------
\* The game is created and its creator is player "1".
Init ==
    /\ players = <<NewPlayer(1)>>
    /\ wallets = [c \in Clients |-> IF c = Creator THEN 1 ELSE 0]
    /\ started = FALSE
    /\ turn = 0
    /\ req = [r \in Requests |-> Idle]

\* Mutant of RoomLeft: the limit off by one.
RoomLeftInclusive == Cardinality(ActiveRows) <= MaxPlayers
RoomLeft == Cardinality(ActiveRows) < MaxPlayers

\* Mutant of NextIndex: the count itself.
NextIndexSame == Cardinality(ActiveRows)
NextIndex == Cardinality(ActiveRows) + 1

\* join-game counts the active players and derives the new index from it.
JoinCheck(r, c) ==
    /\ req[r].pc = "idle"
    /\ RoomLeft
    /\ Len(players) < MaxRows
    /\ OrderlyLobby => ~started /\ wallets[c] = 0
    /\ req' = [req EXCEPT ![r] = [Idle EXCEPT
                  !.pc = "join_insert", !.client = c, !.player = NextIndex]]
    /\ UNCHANGED <<players, wallets, started, turn>>

\* create_player inserts the row, then notifies the other players.
JoinInsert(r) ==
    /\ req[r].pc = "join_insert"
    /\ players' = Append(players, NewPlayer(req[r].player))
    /\ Goto(r, "join_wallet")
    /\ UNCHANGED <<wallets, started, turn>>

\* Mutants of RegisteredIndex: the account in the index column, and the index
\* computed again after the row was inserted.
RegisteredAccount(r) == req[r].client
RegisteredRecount(r) == NextIndex

RegisteredIndex(r) == req[r].player

\* wallets.id is a primary key: a second row for the account is refused.
JoinWallet(r) ==
    /\ req[r].pc = "join_wallet"
    /\ wallets' = IF wallets[req[r].client] = 0
                  THEN [wallets EXCEPT ![req[r].client] = RegisteredIndex(r)]
                  ELSE wallets
    /\ Done(r)
    /\ UNCHANGED <<players, started, turn>>

\* A notification raises: the rest of the handler is not executed.
NotifyFails(r) ==
    /\ NotifyMayFail
    /\ req[r].pc \in {"join_wallet", "notify"}
    /\ Done(r)
    /\ UNCHANGED <<players, wallets, started, turn>>

\* start_game draws one of the active rows; there is no check of `started`.
StartRead(r) ==
    /\ req[r].pc = "idle"
    /\ OrderlyLobby => ~started /\ \A q \in Requests : req[q].pc # "start_write"
    /\ \E i \in ActiveRows :
          req' = [req EXCEPT ![r] = [Idle EXCEPT
                     !.pc = "start_write", !.next = players[i].player_index]]
    /\ UNCHANGED <<players, wallets, started, turn>>

StartWrite(r) ==
    /\ req[r].pc = "start_write"
    /\ started' = TRUE
    /\ turn' = req[r].next
    /\ Done(r)
    /\ UNCHANGED <<players, wallets>>

\* next_player_turn: the key and the active flag are checked first.
NextAuth(r, p) ==
    /\ req[r].pc = "idle"
    /\ Authorized(p)
    /\ req' = [req EXCEPT ![r] = [Idle EXCEPT !.pc = "read_rows", !.player = p]]
    /\ UNCHANGED <<players, wallets, started, turn>>

\* increment_player_turn reads the active rows and, separately, the turn.
ReadRows(r) ==
    /\ req[r].pc = "read_rows"
    /\ \E q \in NextTurns(req[r].player) :
          req' = [req EXCEPT ![r].pc = "read_turn", ![r].next = q]
    /\ UNCHANGED <<players, wallets, started, turn>>

\* Mutant of MayPass: the turn is written although no active row was found.
MayPassUnbound(r) == turn = req[r].player
MayPass(r) == turn = req[r].player /\ req[r].next # 0

\* Otherwise the assertion fails, or next_player_turn is unbound: the request ends.
ReadTurn(r) ==
    /\ req[r].pc = "read_turn"
    /\ IF MayPass(r) THEN Goto(r, "write_turn") ELSE Done(r)
    /\ UNCHANGED <<players, wallets, started, turn>>

WriteTurn(r) ==
    /\ req[r].pc = "write_turn"
    /\ turn' = req[r].next
    /\ Goto(r, "reset_technology")
    /\ UNCHANGED <<players, wallets, started>>

\* Three updates, three transactions, after the turn has already moved.
ResetFlag(r, pc, column, pc2) ==
    /\ req[r].pc = pc
    /\ players' = Cleared(req[r].next, column)
    /\ Goto(r, pc2)
    /\ UNCHANGED <<wallets, started, turn>>

ResetTechnology(r) ==
    ResetFlag(r, "reset_technology", "technology_card_picked", "reset_black_swan")

\* Mutant of ResetBlackSwan: the column of the update before.
ResetBlackSwanAgain(r) ==
    ResetFlag(r, "reset_black_swan", "technology_card_picked", "reset_pow")

ResetBlackSwan(r) ==
    ResetFlag(r, "reset_black_swan", "black_swan_card_picked", "reset_pow")
ResetPow(r) == ResetFlag(r, "reset_pow", "pow_provided", "notify")

\* The others are told; deactivate_player then goes on.
Notify(r) ==
    /\ req[r].pc = "notify"
    /\ IF req[r].deactivating THEN Goto(r, "deactivate") ELSE Done(r)
    /\ UNCHANGED <<players, wallets, started, turn>>

\* Mutants of MustPass: the turn is never passed, or passed when the player
\* does not hold it.
MustPassNever(p) == FALSE
MustPassOthers(p) == turn # p

MustPass(p) == turn = p

\* deactivate_player passes the turn on when the player holds it now.
DeactivateRead(r, p) ==
    /\ req[r].pc = "idle"
    /\ OrderlyLobby => started /\ p # 1
    /\ req' = [req EXCEPT ![r] = [Idle EXCEPT
                  !.pc = IF MustPass(p) THEN "read_rows" ELSE "deactivate",
                  !.player = p, !.deactivating = TRUE]]
    /\ UNCHANGED <<players, wallets, started, turn>>

DeactivateWrite(r) ==
    /\ req[r].pc = "deactivate"
    /\ players' = Cleared(req[r].player, "active")
    /\ Done(r)
    /\ UNCHANGED <<wallets, started, turn>>

Proceed(r) ==
    \/ JoinInsert(r) \/ JoinWallet(r) \/ NotifyFails(r)
    \/ StartWrite(r)
    \/ ReadRows(r) \/ ReadTurn(r) \/ WriteTurn(r)
    \/ ResetTechnology(r) \/ ResetBlackSwan(r) \/ ResetPow(r) \/ Notify(r)
    \/ DeactivateWrite(r)

Arrive(r) ==
    \/ \E c \in Clients : JoinCheck(r, c)
    \/ StartRead(r)
    \/ \E p \in PlayerIndexes : NextAuth(r, p) \/ DeactivateRead(r, p)

Next == \E r \in Requests : Arrive(r) \/ Proceed(r)

Spec == Init /\ [][Next]_vars

-----------------------------------------------------------------------------
\* The turn is always the free market's "0" before the start, and afterwards
\* the index of a player that joined: no interleaving of start_game,
\* next_player_turn and deactivate_player makes it an index nobody has.
TurnRegistered ==
    /\ turn \in PlayerIndexes \cup {0}
    /\ started <=> turn # 0

\* join_game inserts the player before the wallet and never undoes it: an
\* account that is registered as a player of the game is in the players table.
WalletHasPlayer ==
    \A c \in Clients : wallets[c] # 0 => wallets[c] \in PlayerIndexes

\* The count of active players is compared with max_players_count in one
\* transaction and the row inserted in another: the limit can be exceeded,
\* but by no more than the requests that can overlap, minus one.
Joining == {r \in Requests : req[r].pc = "join_insert"}

OvershootBounded ==
    Cardinality(ActiveRows) + Cardinality(Joining)
        < MaxPlayers + Cardinality(Requests)

\* The index identifies the account whose key require_player_index_invoice_key
\* asks for: no two accounts are registered under one index.
IndexHasOneWallet ==
    \A c, d \in Clients : wallets[c] # 0 /\ wallets[c] = wallets[d] => c = d

\* "Pass turn to next active player if needed": when a player is deactivated
\* while the turn is with an active player, it still is afterwards.
IsActiveIndex(p) == \E i \in ActiveRows : players[i].player_index = p

DeactivationKeepsTurn ==
    [][ (\E i \in ActiveRows : ~players'[i].active) /\ IsActiveIndex(turn)
            => IsActiveIndex(turn)' ]_vars

\* Between two requests of a started game the turn is with an active player
\* whose account can pass it on.
TurnHolderCanPlay ==
    started /\ (\A r \in Requests : req[r].pc = "idle") => Authorized(turn)

\* Served one at a time in an orderly lobby, the handlers implement the turn
\* order of module TurnOrder: the steps between the database accesses are hidden.
TurnOrder == INSTANCE TurnOrder WITH
    roster <- [i \in DOMAIN players |->
                 [player_index |-> players[i].player_index,
                  active |-> players[i].active]],
    holder <- turn

RefinesTurnOrder == TurnOrder!Spec
=============================================================================
