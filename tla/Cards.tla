-------------------------------- MODULE Cards --------------------------------
(***************************************************************************)
(* The two decks of a game and pick_card, played by the requests of module *)
(* Players: the turn they pass clears the flags that pick_card checks and  *)
(* sets.  A pick is five or six statements, each a transaction.            *)
(*                                                                         *)
(* A deck is a shuffled list of card ids, drawn in turn; a card is its     *)
(* position in the list.                                                   *)
(***************************************************************************)
EXTENDS Players

CONSTANTS
    Pickers,    \* slots for pick_card calls in progress
    CardCount,  \* max_index: the number of ids in a deck
    MaxDecks,   \* BOUND: rows in the cards table for each type
    Patient     \* what players do when all goes well: they pick in their turn,
                \* once told of it, await the answer before asking for more, and
                \* are not removed from the game while they pick

ASSUME CardsAssumption ==
    /\ CardCount \in Nat \ {0} /\ MaxDecks \in Nat \ {0}
    /\ Patient \in BOOLEAN

VARIABLES
    cards,  \* card_index in each row of the cards table, by type
    pick,   \* the pick_card calls in progress
    shown   \* HISTORY: <<player, type, card>>: what picks of a player have shown
            \* since their turn last began; CardCount when the lookup raised

cardVars == <<cards, pick, shown>>

-----------------------------------------------------------------------------
CardTypes == {"technology", "black_swan"}

\* The column of the players table.
Picked(t) == IF t = "technology" THEN "technology_card_picked"
                                 ELSE "black_swan_card_picked"

PickCall == [pc : {"other", "same", "get", "flag", "index", "show"},
             player : Nat, type : CardTypes,
             index : 0 .. CardCount]    \* the card_index that was read
NoPick == [pc |-> "idle"]

\* get_player_card_picked: the first row that has the player's index.
HasPicked(p, t) ==
    \E i \in DOMAIN players :
        /\ players[i].player_index = p
        /\ \A j \in 1 .. i - 1 : players[j].player_index # p
        /\ players[i][Picked(t)]

\* The set of player p's picks in progress.
Picks(p) == {k \in Pickers : pick[k].pc # "idle" /\ pick[k].player = p}

PickGoto(k, pc) == pick' = [pick EXCEPT ![k].pc = pc]
PickDone(k)     == pick' = [pick EXCEPT ![k] = NoPick]

-----------------------------------------------------------------------------
CardsInit ==
    /\ Init
    /\ cards = [t \in CardTypes |-> <<>>]
    /\ pick = [k \in Pickers |-> NoPick]
    /\ shown = {}

\* initialize_cards inserts a row for the technology deck, then one for the
\* black swans, and does not ask whether there are any.
InsertDeck(t) ==
    /\ Len(cards[t]) < (IF t = "technology" THEN MaxDecks
                                            ELSE Len(cards["technology"]))
    /\ cards' = [cards EXCEPT ![t] = Append(@, 0)]
    /\ UNCHANGED <<vars, pick, shown>>

\* The key and the active flag are checked, as for every request of a player.
PickBegin(k, p, t) ==
    /\ pick[k].pc = "idle"
    /\ Authorized(p)
    /\ Patient => /\ started /\ turn = p /\ Picks(p) = {}
                  /\ \A r \in Requests : req[r].pc \notin TurnPCs
    /\ pick' = [pick EXCEPT ![k] = [pc |-> "other", player |-> p, type |-> t,
                                    index |-> 0]]
    /\ UNCHANGED <<vars, cards, shown>>

\* Mutant of PickOther: the other deck is not looked at.
PickOtherUnchecked(k) ==
    /\ pick[k].pc = "other"
    /\ PickGoto(k, "same")
    /\ UNCHANGED <<vars, cards, shown>>

\* "already_picked" when the player has a card of the other type.
PickOther(k) ==
    /\ pick[k].pc = "other"
    /\ IF \E t \in CardTypes \ {pick[k].type} : HasPicked(pick[k].player, t)
       THEN PickDone(k) ELSE PickGoto(k, "same")
    /\ UNCHANGED <<vars, cards, shown>>

\* A card of this type that was picked before is shown again.
PickSame(k) ==
    /\ pick[k].pc = "same"
    /\ PickGoto(k, IF HasPicked(pick[k].player, pick[k].type) THEN "show" ELSE "get")
    /\ UNCHANGED <<vars, cards, shown>>

\* get_card reads the first row; the assertion fails when there is none.
PickGet(k) ==
    LET deck == cards[pick[k].type]
    IN  /\ pick[k].pc = "get"
        /\ IF deck = <<>> THEN PickDone(k)
           ELSE pick' = [pick EXCEPT ![k].pc = "flag", ![k].index = deck[1]]
        /\ UNCHANGED <<vars, cards, shown>>

PickFlag(k) ==
    /\ pick[k].pc = "flag"
    /\ players' = [i \in DOMAIN players |->
            IF players[i].player_index = pick[k].player
            THEN [players[i] EXCEPT ![Picked(pick[k].type)] = TRUE]
            ELSE players[i]]
    /\ PickGoto(k, "index")
    /\ UNCHANGED <<wallets, started, turn, req, cards, shown>>

\* Mutant of NextCard: the deck never starts again.
NextCardOnly(i) == i + 1

NextCard(i) == IF i >= CardCount THEN 0 ELSE i + 1

\* The index that was read, moved on, is written to all rows of the type.
PickIndex(k) ==
    LET t == pick[k].type
    IN  /\ pick[k].pc = "index"
        /\ cards' = [cards EXCEPT ![t] =
                        [d \in DOMAIN @ |-> NextCard(pick[k].index)]]
        /\ PickGoto(k, "show")
        /\ UNCHANGED <<vars, shown>>

\* The index is read again.  The deck has the ids below CardCount: for CardCount
\* the lookup raises.
PickShow(k) ==
    LET t == pick[k].type
    IN  /\ pick[k].pc = "show"
        /\ shown' = shown \cup {<<pick[k].player, t, cards[t][1]>>}
        /\ PickDone(k)
        /\ UNCHANGED <<vars, cards>>

Pick(k) ==
    \/ PickOther(k) \/ PickSame(k) \/ PickGet(k)
    \/ PickFlag(k) \/ PickIndex(k) \/ PickShow(k)

\* A turn begins when it is written.
TurnBegins ==
    \E r \in Requests : /\ req[r].pc \in {"start_write", "write_turn"}
                        /\ req'[r].pc # req[r].pc

\* The player who is picking passes the turn on or is being removed.
PassesPicking ==
    \E r \in Requests : /\ req[r].pc = "idle"
                        /\ req'[r].pc \in {"read_rows", "deactivate"}
                        /\ Picks(req'[r].player) # {}

GameStep ==
    /\ Next
    /\ Patient => ~PassesPicking
    /\ shown' = IF TurnBegins THEN {s \in shown : s[1] # turn'} ELSE shown
    /\ UNCHANGED <<cards, pick>>

CardsNext ==
    \/ GameStep
    \/ \E t \in CardTypes : InsertDeck(t)
    \/ \E k \in Pickers, p \in PlayerIndexes, t \in CardTypes : PickBegin(k, p, t)
    \/ \E k \in Pickers : Pick(k)

CardsSpec == CardsInit /\ [][CardsNext]_<<vars, cardVars>>

-----------------------------------------------------------------------------
CardsTypeOK ==
    /\ TypeOK
    /\ cards \in [CardTypes -> Seq(0 .. CardCount)]
    /\ pick \in [Pickers -> PickCall \cup {NoPick}]
    /\ shown \subseteq Nat \X CardTypes \X (0 .. CardCount)

\* "Player already picked a card in this turn": nobody who waits for the answers
\* sees a second card, of either deck, before the turn has gone round, however
\* picks interleave with other joins, removals and decks being inserted.
CardsShown == {s \in shown : s[3] < CardCount}

OneCardPerTurn == \A s, z \in CardsShown : s[1] = z[1] => s = z

\* The flags of earlier turns do not cost a player the card of this one: when
\* nothing is in progress, a flag of the player whose turn it is comes with a
\* pick of that type in this turn.
DrawRightRestored ==
    /\ started
    /\ \A r \in Requests : req[r].pc = "idle"
    /\ \A k \in Pickers : pick[k].pc = "idle"
    => \A t \in CardTypes :
          HasPicked(turn, t) => \E s \in shown : s[1] = turn /\ s[2] = t

\* "Get card id": a pick that was granted shows a card.
EveryPickShows == shown = CardsShown
=============================================================================
