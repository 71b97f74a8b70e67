---------------------------- MODULE CardsProofs ----------------------------
(***************************************************************************)
(* Theorems about Cards, for every number of requests, accounts, players,  *)
(* picks in progress, cards and decks.                                     *)
(***************************************************************************)
EXTENDS Cards, PlayersProofs

CardColumns == {"technology_card_picked", "black_swan_card_picked"}

\* PickFlag's UPDATE: every row of player p is marked in one column.
Marked(p, column) ==
    [i \in DOMAIN players |->
        IF players[i].player_index = p
        THEN [players[i] EXCEPT ![column] = TRUE]
        ELSE players[i]]

LEMMA PickedColumns ==
    ASSUME NEW t \in CardTypes PROVE Picked(t) \in CardColumns
  BY DEF CardTypes, Picked, CardColumns

\* The UPDATE keeps the table a table with the same indexes.
LEMMA MarkedRows ==
    ASSUME players \in Seq(PlayerRow), NEW p, NEW column \in CardColumns
    PROVE  Marked(p, column) \in Seq(PlayerRow)
<1> DEFINE t == Marked(p, column)
<1>1. DOMAIN players = 1 .. Len(players) /\ Len(players) \in Nat
  OBVIOUS
<1>2. ASSUME NEW i \in DOMAIN players PROVE t[i] \in PlayerRow
  <2>1. players[i] \in PlayerRow
    BY <1>1
  <2>2. t[i] = IF players[i].player_index = p
               THEN [players[i] EXCEPT ![column] = TRUE] ELSE players[i]
    BY DEF Marked
  <2>3. CASE column = "technology_card_picked"
    BY <2>1, <2>2, <2>3 DEF PlayerRow
  <2>4. CASE column = "black_swan_card_picked"
    BY <2>1, <2>2, <2>4 DEF PlayerRow
  <2> QED BY <2>3, <2>4 DEF CardColumns
<1>3. t = [i \in 1 .. Len(players) |-> t[i]]
  BY <1>1 DEF Marked
<1> QED BY <1>1, <1>2, <1>3

\* The first row of a table, if it has one, and an UPDATE of all rows.
LEMMA FirstRow ==
    ASSUME NEW S, NEW s \in Seq(S), s # <<>>
    PROVE  s[1] \in S
<1>1. Len(s) \in Nat /\ Len(s) # 0
  BY EmptySeq
<1>2. 1 \in 1 .. Len(s)
  BY <1>1
<1> QED BY <1>2, ElementOfSeq

LEMMA UpdatedRows ==
    ASSUME NEW S, NEW x \in S, NEW s \in Seq(S)
    PROVE  LET t == [d \in DOMAIN s |-> x]
           IN  t \in Seq(S) /\ (s # <<>> => t # <<>>)
<1> DEFINE t == [d \in DOMAIN s |-> x]
<1>1. DOMAIN s = 1 .. Len(s) /\ Len(s) \in Nat
  OBVIOUS
<1>2. t = [d \in 1 .. Len(s) |-> x]
  BY <1>1
<1>3. t \in Seq(S)
  BY <1>1, <1>2
<1>4. s # <<>> => 1 \in DOMAIN t
  BY <1>1, EmptySeq
<1>5. DOMAIN << >> = {}
  OBVIOUS
<1> QED BY <1>3, <1>4, <1>5

-----------------------------------------------------------------------------
\* A column that is set belongs to a type whose deck is there: only a pick that
\* has read a deck sets one, and decks are never deleted.  A pick that goes on
\* has such a deck, so the lookup at the end has a row to read.
DeckBehindFlags ==
    /\ \A t \in CardTypes, i \in DOMAIN players :
          players[i][Picked(t)] => cards[t] # <<>>
    /\ \A k \in Pickers :
          pick[k].pc \in {"flag", "index", "show"} => cards[pick[k].type] # <<>>

CardsInv == CardsTypeOK /\ DeckBehindFlags

LEMMA NextCardInRange ==
    ASSUME NEW i \in 0 .. CardCount PROVE NextCard(i) \in 0 .. CardCount
  BY CardsAssumption DEF NextCard

LEMMA PickMoves ==
    ASSUME pick \in [Pickers -> PickCall \cup {NoPick}], NEW k \in Pickers,
           pick[k].pc # "idle",
           NEW pc \in {"other", "same", "get", "flag", "index", "show"}
    PROVE  /\ pick[k] \in PickCall
           /\ PickGoto(k, pc) => pick' \in [Pickers -> PickCall \cup {NoPick}]
           /\ PickDone(k) => pick' \in [Pickers -> PickCall \cup {NoPick}]
<1>1. pick[k] \in PickCall
  BY DEF NoPick
<1>2. [pick[k] EXCEPT !.pc = pc] \in PickCall
  BY <1>1 DEF PickCall
<1> QED BY <1>1, <1>2 DEF PickGoto, PickDone

\* The handlers of Players clear flags and never set one.
LEMMA FlagsOnlyCleared ==
    ASSUME TypeOK, Next, NEW i \in DOMAIN players', NEW c \in CardColumns,
           players'[i][c]
    PROVE  i \in DOMAIN players /\ players[i][c]
<1>1. PICK r \in Requests : Arrive(r) \/ Proceed(r)
  BY DEF Next
<1>2. CASE players' = players
  BY <1>2
<1>3. ASSUME NEW p, NEW column \in Columns, players' = Cleared(p, column)
      PROVE  i \in DOMAIN players /\ players[i][c]
  <2>1. i \in DOMAIN players /\ players[i] \in PlayerRow
    BY <1>3 DEF Cleared, TypeOK
  <2>2. players'[i] = IF players[i].player_index = p
                      THEN [players[i] EXCEPT ![column] = FALSE]
                      ELSE players[i]
    BY <1>3, <2>1 DEF Cleared
  <2> QED BY <2>1, <2>2 DEF PlayerRow, CardColumns
<1>4. CASE JoinInsert(r)
  <2> DEFINE new == NewPlayer(req[r].player)
  <2>1. players' = Append(players, new) /\ players \in Seq(PlayerRow)
    BY <1>4 DEF JoinInsert, TypeOK
  <2>2. ~new[c]
    BY DEF NewPlayer, CardColumns
  <2> HIDE DEF new
  <2>3. /\ DOMAIN players' = 1 .. Len(players) + 1
        /\ players'[Len(players) + 1] = new
        /\ \A j \in 1 .. Len(players) : players'[j] = players[j]
        /\ DOMAIN players = 1 .. Len(players) /\ Len(players) \in Nat
    BY <2>1
  <2> QED BY <2>2, <2>3
<1>5. CASE Arrive(r)
  BY <1>2, <1>5 DEF Arrive, JoinCheck, StartRead, NextAuth, DeactivateRead
<1>6. CASE ResetTechnology(r) \/ ResetBlackSwan(r) \/ ResetPow(r) \/ DeactivateWrite(r)
  BY <1>3, <1>6 DEF ResetTechnology, ResetBlackSwan, ResetPow, ResetFlag,
                    DeactivateWrite, Columns
<1>7. CASE \/ JoinWallet(r) \/ NotifyFails(r) \/ StartWrite(r) \/ ReadRows(r)
           \/ ReadTurn(r) \/ WriteTurn(r) \/ Notify(r)
  BY <1>2, <1>7 DEF JoinWallet, NotifyFails, StartWrite, ReadRows, ReadTurn,
                    WriteTurn, Notify
<1> QED BY <1>1, <1>4, <1>5, <1>6, <1>7 DEF Proceed

LEMMA GameStepKeeps == CardsInv /\ GameStep => CardsInv'
<1> SUFFICES ASSUME CardsInv, GameStep PROVE CardsInv'
  OBVIOUS
<1>1. TypeOK'
  BY TypeStep DEF CardsInv, CardsTypeOK, GameStep
<1>2. CardsTypeOK'
  BY <1>1 DEF CardsInv, CardsTypeOK, GameStep
<1>3. ASSUME NEW t \in CardTypes, NEW i \in DOMAIN players', players'[i][Picked(t)]
      PROVE  cards[t] # <<>>
  BY <1>3, FlagsOnlyCleared, PickedColumns
     DEF CardsInv, CardsTypeOK, DeckBehindFlags, GameStep
<1> QED BY <1>2, <1>3 DEF CardsInv, DeckBehindFlags, GameStep

\* A statement that only moves a pick on, when the deck it needs is there.
LEMMA OnlyPick ==
    ASSUME CardsInv, NEW k \in Pickers, NEW v \in PickCall \cup {NoPick},
           pick' = [pick EXCEPT ![k] = v], UNCHANGED <<vars, cards>>,
           shown' \subseteq Nat \X CardTypes \X (0 .. CardCount),
           v.pc \in {"flag", "index", "show"} => cards[v.type] # <<>>
    PROVE  CardsInv'
<1>1. /\ UNCHANGED <<players, wallets, started, turn, req, cards>>
      /\ CardsTypeOK /\ DeckBehindFlags
  BY DEF vars, CardsInv
<1>2. TypeOK'
  BY <1>1 DEF CardsTypeOK, TypeOK
<1>3. pick \in [Pickers -> PickCall \cup {NoPick}]
  BY <1>1 DEF CardsTypeOK
<1>4. /\ pick' \in [Pickers -> PickCall \cup {NoPick}]
      /\ \A j \in Pickers : pick'[j] = IF j = k THEN v ELSE pick[j]
  BY <1>3
<1>5. CardsTypeOK'
  BY <1>1, <1>2, <1>4 DEF CardsTypeOK
<1>6. ASSUME NEW j \in Pickers, pick'[j].pc \in {"flag", "index", "show"}
      PROVE  cards[pick'[j].type] # <<>>
  BY <1>1, <1>4, <1>6 DEF DeckBehindFlags
<1>7. DeckBehindFlags'
  BY <1>1, <1>6 DEF DeckBehindFlags
<1> QED BY <1>5, <1>7 DEF CardsInv

\* Each statement of a pick keeps the types and the decks behind the flags.
LEMMA PickKeeps == ASSUME CardsInv, NEW k \in Pickers, Pick(k) PROVE CardsInv'
<1> DEFINE t == pick[k].type
<1>0. /\ TypeOK /\ DeckBehindFlags
      /\ cards \in [CardTypes -> Seq(0 .. CardCount)]
      /\ pick \in [Pickers -> PickCall \cup {NoPick}]
      /\ shown \subseteq Nat \X CardTypes \X (0 .. CardCount)
  BY DEF CardsInv, CardsTypeOK
<1>1. pick[k].pc # "idle"
  BY DEF Pick, PickOther, PickSame, PickGet, PickFlag, PickIndex, PickShow
<1>2. pick[k] \in PickCall /\ t \in CardTypes
  BY <1>0, <1>1, PickMoves DEF PickCall
<1>3. cards[t] \in Seq(0 .. CardCount)
  BY <1>0, <1>2
<1>4. cards[t] # <<>> => cards[t][1] \in 0 .. CardCount
  BY <1>3, FirstRow
<1>11. NoPick.pc = "idle"
  BY DEF NoPick
<1>5. CASE PickOther(k)
  <2> DEFINE new == [pick[k] EXCEPT !.pc = "same"]
  <2>1. new \in PickCall /\ new.pc = "same"
    BY <1>2 DEF PickCall
  <2>2. \/ pick' = [pick EXCEPT ![k] = new]
        \/ pick' = [pick EXCEPT ![k] = NoPick]
    BY <1>5 DEF PickOther, PickGoto, PickDone
  <2>3. UNCHANGED <<vars, cards, shown>>
    BY <1>5 DEF PickOther
  <2> HIDE DEF new
  <2> QED BY <1>0, <1>11, <2>1, <2>2, <2>3, OnlyPick
<1>6. CASE PickSame(k)
  <2>1. HasPicked(pick[k].player, t) => cards[t] # <<>>
    BY <1>0, <1>2 DEF HasPicked, DeckBehindFlags
  <2>2. PICK pc \in {"show", "get"} :
            /\ pick' = [pick EXCEPT ![k].pc = pc]
            /\ pc = "show" => cards[t] # <<>>
    BY <1>6, <2>1 DEF PickSame, PickGoto
  <2> DEFINE new == [pick[k] EXCEPT !.pc = pc]
  <2>3. new \in PickCall /\ new.pc = pc /\ new.type = t
    BY <1>2 DEF PickCall
  <2>4. pick' = [pick EXCEPT ![k] = new] /\ UNCHANGED <<vars, cards, shown>>
    BY <1>6, <2>2 DEF PickSame
  <2> HIDE DEF new
  <2> QED BY <1>0, <2>2, <2>3, <2>4, OnlyPick
<1>7. CASE PickGet(k)
  <2>1. CASE cards[t] = <<>>
    BY <1>0, <1>7, <1>11, <2>1, OnlyPick DEF PickGet, PickDone
  <2>2. CASE cards[t] # <<>>
    <3> DEFINE new == [pick[k] EXCEPT !.pc = "flag", !.index = cards[t][1]]
    <3>1. new \in PickCall /\ new.type = t
      BY <1>2, <1>4, <2>2 DEF PickCall
    <3>2. pick' = [pick EXCEPT ![k] = new] /\ UNCHANGED <<vars, cards, shown>>
      BY <1>7, <2>2 DEF PickGet
    <3> HIDE DEF new
    <3> QED BY <1>0, <2>2, <3>1, <3>2, OnlyPick
  <2> QED BY <2>1, <2>2
<1>8. CASE PickFlag(k)
  <2>1. players' = Marked(pick[k].player, Picked(t))
    BY <1>8 DEF PickFlag, Marked
  <2>2. players' \in Seq(PlayerRow)
    BY <1>0, <1>2, <2>1, MarkedRows, PickedColumns DEF TypeOK
  <2>3. CardsTypeOK'
    BY <1>0, <1>1, <1>8, <2>2, PickMoves DEF PickFlag, CardsTypeOK, TypeOK
  <2>4. cards[t] # <<>>
    BY <1>0, <1>8 DEF PickFlag, DeckBehindFlags
  <2>5. ASSUME NEW s \in CardTypes, NEW i \in DOMAIN players',
               players'[i][Picked(s)], s # t
        PROVE  cards[s] # <<>>
    <3>1. i \in DOMAIN players /\ players[i] \in PlayerRow
      BY <1>0, <2>1 DEF Marked, TypeOK
    <3>2. Picked(s) # Picked(t)
      BY <1>2, <2>5 DEF CardTypes, Picked
    <3>3. players'[i] = IF players[i].player_index = pick[k].player
                        THEN [players[i] EXCEPT ![Picked(t)] = TRUE]
                        ELSE players[i]
      BY <2>1, <3>1 DEF Marked
    <3>4. players[i][Picked(s)]
      BY <2>5, <3>1, <3>2, <3>3, PickedColumns DEF PlayerRow, CardColumns
    <3> QED BY <1>0, <3>1, <3>4 DEF DeckBehindFlags
  <2> QED BY <1>0, <1>8, <2>3, <2>4, <2>5
          DEF PickFlag, PickGoto, CardsInv, DeckBehindFlags
<1>9. CASE PickIndex(k)
  <2> DEFINE next == [d \in DOMAIN cards[t] |-> NextCard(pick[k].index)]
  <2>1. NextCard(pick[k].index) \in 0 .. CardCount
    BY <1>2, NextCardInRange DEF PickCall
  <2>2. next \in Seq(0 .. CardCount) /\ (cards[t] # <<>> => next # <<>>)
    <3> DEFINE deck == cards[t]
               x == NextCard(pick[k].index)
    <3>1. deck \in Seq(0 .. CardCount) /\ x \in 0 .. CardCount
      BY <1>3, <2>1
    <3>2. next = [d \in DOMAIN deck |-> x]
      OBVIOUS
    <3> HIDE DEF deck, x, next
    <3>3. next \in Seq(0 .. CardCount) /\ (deck # <<>> => next # <<>>)
      BY <3>1, <3>2, UpdatedRows
    <3> QED BY <3>3 DEF deck
  <2>4. cards' = [cards EXCEPT ![t] = next]
    BY <1>9 DEF PickIndex
  <2> HIDE DEF next
  <2>5. CardsTypeOK'
    BY <1>0, <1>1, <1>9, <2>2, <2>4, PickMoves
       DEF PickIndex, CardsTypeOK, TypeOK, vars
  <2>6. \A s \in CardTypes : cards[s] # <<>> => cards'[s] # <<>>
    BY <1>0, <2>2, <2>4
  <2>7. ASSUME NEW j \in Pickers, pick'[j].pc \in {"flag", "index", "show"}
        PROVE  cards[pick'[j].type] # <<>> /\ pick'[j].type \in CardTypes
    <3>1. /\ pick'[j].type = pick[j].type
          /\ pick[j].pc \in {"flag", "index", "show"}
      BY <1>0, <1>9, <2>7 DEF PickIndex, PickGoto
    <3>2. pick[j] \in PickCall
      BY <1>0, <3>1 DEF NoPick
    <3> QED BY <1>0, <3>1, <3>2 DEF DeckBehindFlags, PickCall
  <2> QED BY <1>0, <1>9, <2>5, <2>6, <2>7
          DEF PickIndex, CardsInv, DeckBehindFlags, vars
<1>10. CASE PickShow(k)
  <2>1. cards[t][1] \in 0 .. CardCount
    BY <1>0, <1>4, <1>10 DEF PickShow, DeckBehindFlags
  <2>2. shown' \subseteq Nat \X CardTypes \X (0 .. CardCount)
    BY <1>0, <1>2, <1>10, <2>1 DEF PickShow, PickCall
  <2>3. pick' = [pick EXCEPT ![k] = NoPick] /\ UNCHANGED <<vars, cards>>
    BY <1>10 DEF PickShow, PickDone
  <2> QED BY <1>11, <2>2, <2>3, OnlyPick
<1> QED BY <1>5, <1>6, <1>7, <1>8, <1>9, <1>10 DEF Pick

\* A row added to a deck starts at the first card.
LEMMA InsertKeeps ==
    ASSUME CardsInv, NEW t \in CardTypes, InsertDeck(t) PROVE CardsInv'
<1> DEFINE deck == cards[t]
           more == Append(deck, 0)
<1>1. /\ UNCHANGED <<players, wallets, started, turn, req, pick, shown>>
      /\ cards' = [cards EXCEPT ![t] = more]
      /\ CardsTypeOK /\ DeckBehindFlags
  BY DEF InsertDeck, vars, CardsInv
<1>2. 0 \in 0 .. CardCount
  BY CardsAssumption
<1>3. deck \in Seq(0 .. CardCount)
  BY <1>1 DEF CardsTypeOK
<1> HIDE DEF deck
<1>4. more \in Seq(0 .. CardCount) /\ more # <<>>
  <2>1. more \in Seq(0 .. CardCount) /\ Len(more) = Len(deck) + 1
    BY <1>2, <1>3
  <2>2. Len(deck) \in Nat /\ Len(<< >>) = 0
    BY <1>3, EmptySeq
  <2> QED BY <2>1, <2>2
<1> HIDE DEF more
<1>5. cards \in [CardTypes -> Seq(0 .. CardCount)]
  BY <1>1 DEF CardsTypeOK
<1>6. /\ cards' \in [CardTypes -> Seq(0 .. CardCount)]
      /\ \A s \in CardTypes : cards'[s] = IF s = t THEN more ELSE cards[s]
  BY <1>1, <1>4, <1>5
<1>7. TypeOK'
  BY <1>1 DEF CardsTypeOK, TypeOK
<1>8. CardsTypeOK'
  BY <1>1, <1>6, <1>7 DEF CardsTypeOK
<1>9. ASSUME NEW k \in Pickers, pick[k].pc \in {"flag", "index", "show"}
      PROVE  cards'[pick[k].type] # <<>>
  <2>1. pick[k] \in PickCall /\ pick[k].type \in CardTypes
    BY <1>1, <1>9 DEF CardsTypeOK, NoPick, PickCall
  <2> QED BY <1>1, <1>4, <1>6, <1>9, <2>1 DEF DeckBehindFlags
<1>10. DeckBehindFlags'
  BY <1>1, <1>4, <1>6, <1>9 DEF DeckBehindFlags
<1> QED BY <1>8, <1>10 DEF CardsInv

LEMMA BeginKeeps ==
    ASSUME CardsInv, NEW k \in Pickers, NEW p \in PlayerIndexes,
           NEW t \in CardTypes, PickBegin(k, p, t)
    PROVE  CardsInv'
<1> DEFINE new == [pc |-> "other", player |-> p, type |-> t, index |-> 0]
<1>1. p \in Nat
  BY IndexesAreNumbers DEF CardsInv, CardsTypeOK, TypeOK
<1>2. new \in PickCall /\ new.pc = "other"
  BY <1>1, CardsAssumption DEF PickCall
<1>3. pick' = [pick EXCEPT ![k] = new] /\ UNCHANGED <<vars, cards, shown>>
  BY DEF PickBegin
<1>4. shown \subseteq Nat \X CardTypes \X (0 .. CardCount)
  BY DEF CardsInv, CardsTypeOK
<1> HIDE DEF new
<1> QED BY <1>2, <1>3, <1>4, OnlyPick

-----------------------------------------------------------------------------
\* No card has been picked.
LEMMA CardsInitially == CardsInit => CardsInv
<1> SUFFICES ASSUME CardsInit PROVE CardsInv
  OBVIOUS
<1>1. TypeOK
  BY InitTypeOK DEF CardsInit
<1>2. CardsTypeOK
  BY <1>1, EmptySeq DEF CardsInit, CardsTypeOK
<1>3. \A t \in CardTypes, i \in DOMAIN players : ~players[i][Picked(t)]
  BY PickedColumns DEF CardsInit, Init, NewPlayer, CardColumns
<1>4. \A k \in Pickers : pick[k].pc = "idle"
  BY DEF CardsInit, NoPick
<1> QED BY <1>2, <1>3, <1>4 DEF CardsInv, DeckBehindFlags

\* Every step of a handler, of a pick or of initialize_cards keeps the invariant.
LEMMA CardsStep == CardsInv /\ [CardsNext]_<<vars, cardVars>> => CardsInv'
<1>1. CardsInv /\ UNCHANGED <<vars, cardVars>> => CardsInv'
  BY DEF CardsInv, CardsTypeOK, TypeOK, DeckBehindFlags, vars, cardVars
<1> QED BY <1>1, GameStepKeeps, InsertKeeps, BeginKeeps, PickKeeps DEF CardsNext

LEMMA CardsInvariant == CardsSpec => []CardsInv
  BY CardsInitially, CardsStep, PTL DEF CardsSpec

\* However picks, decks and the handlers of Players interleave, everything stays
\* well typed: in particular the index of a deck goes at most one past its last
\* card (pick_card, the update of card_index).
THEOREM CardsTypeCorrect == CardsSpec => []CardsTypeOK
<1>1. CardsInv => CardsTypeOK
  BY DEF CardsInv
<1> QED BY <1>1, CardsInvariant, PTL

\* "Card couldn't be retrieved" cannot come of the last lookup of a pick: who
\* has a flag set, or is past the first lookup, has a deck to look at.
THEOREM PicksFindTheirDeck == CardsSpec => []DeckBehindFlags
<1>1. CardsInv => DeckBehindFlags
  BY DEF CardsInv
<1> QED BY <1>1, CardsInvariant, PTL

-----------------------------------------------------------------------------
\* The handlers of Players cannot tell a table from one with other cards picked.
LEMMA PicksAreUnseen ==
    ASSUME TypeOK, [CardsNext]_<<vars, cardVars>>, ~GameStep,
           pick \in [Pickers -> PickCall \cup {NoPick}]
    PROVE  /\ UNCHANGED <<wallets, started, turn, req>>
           /\ DOMAIN players' = DOMAIN players
           /\ \A i \in DOMAIN players : /\ players'[i].player_index = players[i].player_index
                                        /\ players'[i].active <=> players[i].active
<1>1. CASE UNCHANGED vars
  BY <1>1 DEF vars
<1>2. ASSUME NEW k \in Pickers, PickFlag(k)
      PROVE  /\ UNCHANGED <<wallets, started, turn, req>>
             /\ DOMAIN players' = DOMAIN players
             /\ \A i \in DOMAIN players : /\ players'[i].player_index = players[i].player_index
                                          /\ players'[i].active <=> players[i].active
  <2> DEFINE column == Picked(pick[k].type)
  <2>1. pick[k] \in PickCall
    BY <1>2 DEF PickFlag, NoPick
  <2>2. column \in CardColumns
    BY <2>1, PickedColumns DEF PickCall
  <2>3. DOMAIN players' = DOMAIN players
    BY <1>2 DEF PickFlag
  <2>4. ASSUME NEW i \in DOMAIN players
        PROVE  players'[i].player_index = players[i].player_index
               /\ (players'[i].active <=> players[i].active)
    <3>1. players[i] \in PlayerRow
      BY DEF TypeOK
    <3>2. players'[i] = IF players[i].player_index = pick[k].player
                        THEN [players[i] EXCEPT ![column] = TRUE] ELSE players[i]
      BY <1>2 DEF PickFlag
    <3> HIDE DEF column
    <3> QED BY <2>2, <3>1, <3>2 DEF PlayerRow, CardColumns
  <2> QED BY <1>2, <2>3, <2>4 DEF PickFlag
<1> QED BY <1>1, <1>2 DEF CardsNext, InsertDeck, PickBegin, Pick, PickOther, PickSame,
           PickGet, PickIndex, PickShow, cardVars

\* So the invariant of the handlers served one after the other is kept.
LEMMA SerialCardsStep ==
    ASSUME Serial, CardsInv, SerialInv, [CardsNext]_<<vars, cardVars>>
    PROVE  SerialInv'
<1>1. CardsInv'
  BY CardsStep
<1>2. TypeOK /\ TypeOK' /\ pick \in [Pickers -> PickCall \cup {NoPick}]
  BY <1>1 DEF CardsInv, CardsTypeOK
<1>3. CASE GameStep
  BY <1>2, <1>3, SerialStep DEF GameStep
<1>4. CASE ~GameStep
  BY <1>2, <1>4, PicksAreUnseen, SerialStays
<1> QED BY <1>3, <1>4

\* The invariants of the cards and of the handlers, together.
LEMMA SerialCards == ASSUME Serial PROVE CardsSpec => [](CardsInv /\ SerialInv)
<1>1. CardsInit => CardsInv /\ SerialInv
  BY CardsInitially, InitSerial DEF CardsInit
<1>2. CardsInv /\ SerialInv /\ [CardsNext]_<<vars, cardVars>> => CardsInv' /\ SerialInv'
  BY CardsStep, SerialCardsStep
<1> QED BY <1>1, <1>2, PTL DEF CardsSpec

\* The database gives every account its own index while players join one at a time,
\* whatever cards are picked (create_player and create_player_wallet).
THEOREM IndexesAreOwned == ASSUME Serial PROVE CardsSpec => []IndexHasOneWallet
<1>1. SerialInv => IndexHasOneWallet
  BY DEF SerialInv, RowsInv
<1> QED BY <1>1, SerialCards, PTL

\* When no notification fails, the player who has the turn is active and has an account
\* to pass it on with, between any two requests (next_player_turn).
THEOREM TurnHoldersPlay ==
    ASSUME Serial, ~NotifyMayFail PROVE CardsSpec => []TurnHolderCanPlay
<1>1. CardsInv /\ SerialInv => TurnHolderCanPlay
  <2> SUFFICES ASSUME CardsInv, SerialInv PROVE TurnHolderCanPlay
    OBVIOUS
  <2> QED BY HoldersPlay DEF CardsInv, CardsTypeOK
<1> QED BY <1>1, SerialCards, PTL

\* deactivate_player never leaves the turn with the player it removes.
THEOREM TurnsAreKept == ASSUME Serial PROVE CardsSpec => DeactivationKeepsTurn
<1> DEFINE Keeps == (\E i \in ActiveRows : ~players'[i].active) /\ IsActiveIndex(turn)
                        => IsActiveIndex(turn)'
<1>1. (CardsInv /\ SerialInv) /\ (CardsInv /\ SerialInv)' /\ [CardsNext]_<<vars, cardVars>>
        => [Keeps]_vars
  <2> SUFFICES ASSUME CardsInv, SerialInv, CardsInv', SerialInv',
                      [CardsNext]_<<vars, cardVars>>
               PROVE  Keeps
    OBVIOUS
  <2>1. TypeOK /\ TypeOK' /\ pick \in [Pickers -> PickCall \cup {NoPick}]
    BY DEF CardsInv, CardsTypeOK
  <2>2. CASE GameStep
    BY <2>1, <2>2, TurnStays DEF GameStep
  <2>3. CASE ~GameStep
    BY <2>1, <2>3, PicksAreUnseen DEF ActiveRows
  <2> QED BY <2>2, <2>3
<1> QED BY <1>1, SerialCards, PTL DEF CardsSpec, DeactivationKeepsTurn

\* The handlers implement the turn order (TurnOrderIsKept) whatever cards are picked in
\* between: pick_card changes no player's place and no turn.
THEOREM CardsKeepTurnOrder == ASSUME Serial PROVE CardsSpec => RefinesTurnOrder
<1>1. CardsInit => TurnOrder!Init
  BY StartsRefine DEF CardsInit
<1>2. (CardsInv /\ SerialInv) /\ (CardsInv /\ SerialInv)' /\ [CardsNext]_<<vars, cardVars>>
        => [TurnOrder!Next]_(TurnOrder!tvars)
  <2> SUFFICES ASSUME CardsInv, SerialInv, CardsInv', SerialInv',
                      [CardsNext]_<<vars, cardVars>>
               PROVE  [TurnOrder!Next]_(TurnOrder!tvars)
    OBVIOUS
  <2>1. TypeOK /\ TypeOK' /\ pick \in [Pickers -> PickCall \cup {NoPick}]
    BY DEF CardsInv, CardsTypeOK
  <2>2. CASE GameStep
    BY <2>1, <2>2, StepsRefine DEF GameStep, TurnOrder!tvars, Roster
  <2>3. CASE ~GameStep
    <3>1. UNCHANGED <<Roster, started, turn>>
      BY <2>1, <2>3, PicksAreUnseen, SameRoster
    <3> QED BY <3>1 DEF TurnOrder!tvars, Roster
  <2> QED BY <2>2, <2>3
<1> QED BY <1>1, <1>2, SerialCards, PTL DEF CardsSpec, RefinesTurnOrder, TurnOrder!Spec

-----------------------------------------------------------------------------
\* A flag of the player in row p.
Flag(p, t) == players[p][Picked(t)]

\* The request may write the turn, or has written it and not told the players yet.
Passing(q) ==
    \/ q.pc \in TurnPCs \ {"read_rows", "read_turn"}
    \/ q.pc \in {"read_rows", "read_turn"} /\ q.player = turn

\* What a pick of the player who has the turn has found in the flags.
PickWell(c) ==
    /\ c.pc # "other" => \A t \in CardTypes \ {c.type} : ~Flag(turn, t)
    /\ c.pc \in {"get", "flag"} => ~Flag(turn, c.type)
    /\ c.pc \in {"index", "show"} => Flag(turn, c.type)
    /\ c.pc = "index" => \A s \in shown : s[1] # turn

\* Only the player who has the turn picks, one card at a time, and does not pass.
PicksInv ==
    \A k \in Pickers : pick[k].pc # "idle" =>
        /\ started /\ pick[k].player = turn
        /\ \A j \in Pickers : pick[j].pc # "idle" => j = k
        /\ \A r \in Requests : ~Passing(req[r])
        /\ PickWell(pick[k])

\* The column of type t still is the one of an earlier turn.
Unreset(t) ==
    \E r \in Requests :
        \/ req[r].pc = "reset_technology"
        \/ req[r].pc = "reset_black_swan" /\ t = "black_swan"

\* The flags and what was shown.
ShownInv ==
    /\ ~started => shown = {} /\ \A i \in DOMAIN players, t \in CardTypes : ~Flag(i, t)
    /\ \A i \in DOMAIN players, t, u \in CardTypes : Flag(i, t) /\ Flag(i, u) => t = u
    /\ \A s \in shown : s[1] = turn => Flag(turn, s[2]) /\ s[3] = cards[s[2]][1]
    /\ \A s, z \in shown : s[1] = z[1] => s = z
    /\ \A t \in CardTypes : Unreset(t) => \A s \in shown : s[1] # turn
    /\ started => \A t \in CardTypes : Flag(turn, t) /\ ~Unreset(t) =>
          \/ \E s \in shown : s[1] = turn /\ s[2] = t
          \/ \E k \in Pickers : pick[k].pc \in {"index", "show"} /\ pick[k].type = t

PatientInv == PicksInv /\ ShownInv

PatientCardsInv == CardsInv /\ SerialInv /\ PatientInv

-----------------------------------------------------------------------------
\* What the program looks up is the flag of the row.
LEMMA FlagFound ==
    ASSUME TypeOK, RowsInv, NEW p \in DOMAIN players, NEW t
    PROVE  HasPicked(p, t) <=> Flag(p, t)
<1>1. \A i \in DOMAIN players : players[i].player_index = i
  BY DEF RowsInv
<1>2. p \in 1 .. Len(players) /\ Len(players) \in Nat /\ DOMAIN players = 1 .. Len(players)
  BY RowPositions
<1>3. \A j \in 1 .. p - 1 : players[j].player_index # p
  BY <1>1, <1>2
<1> QED BY <1>1, <1>2, <1>3 DEF HasPicked, Flag

\* The player who has the turn is in the table.
LEMMA TurnRow ==
    ASSUME TypeOK, RowsInv, started
    PROVE  turn \in DOMAIN players /\ turn # 0
  BY RowPositions DEF RowsInv

\* The rows a step of the handlers leaves alone, the new one, and the cleared ones.
LEMMA RowsKept ==
    ASSUME Serial, TypeOK, SerialInv, NEW r \in Requests, Arrive(r) \/ Proceed(r),
           req[r].pc \notin {"reset_technology", "reset_black_swan"}
    PROVE  \A i \in DOMAIN players, t \in CardTypes : Flag(i, t)' <=> Flag(i, t)
<1> SUFFICES ASSUME NEW i \in DOMAIN players, NEW t \in CardTypes
             PROVE  Flag(i, t)' <=> Flag(i, t)
  OBVIOUS
<1>1. Picked(t) \in CardColumns /\ players \in Seq(PlayerRow) /\ players[i] \in PlayerRow
  BY PickedColumns DEF TypeOK
<1>2. CASE players' = players
  BY <1>2 DEF Flag
<1>3. CASE JoinInsert(r)
  <2> DEFINE new == NewPlayer(req[r].player)
  <2>1. players' = Append(players, new)
    BY <1>3 DEF JoinInsert
  <2> HIDE DEF new
  <2>2. players'[i] = players[i]
    BY <1>1, <2>1
  <2> QED BY <2>2 DEF Flag
<1>4. ASSUME NEW p, NEW column \in {"active", "pow_provided"}, players' = Cleared(p, column)
      PROVE  Flag(i, t)' <=> Flag(i, t)
  <2>1. players'[i] = IF players[i].player_index = p
                      THEN [players[i] EXCEPT ![column] = FALSE] ELSE players[i]
    BY <1>4 DEF Cleared
  <2>2. players'[i][Picked(t)] = players[i][Picked(t)]
    BY <1>1, <2>1 DEF PlayerRow, CardColumns
  <2> QED BY <2>2 DEF Flag
<1>5. CASE ResetPow(r) \/ DeactivateWrite(r)
  BY <1>4, <1>5 DEF ResetPow, ResetFlag, DeactivateWrite
<1>6. CASE Arrive(r)
  BY <1>2, <1>6 DEF Arrive, JoinCheck, StartRead, NextAuth, DeactivateRead
<1>7. CASE \/ JoinWallet(r) \/ NotifyFails(r) \/ StartWrite(r) \/ ReadRows(r)
           \/ ReadTurn(r) \/ WriteTurn(r) \/ Notify(r)
  BY <1>2, <1>7 DEF JoinWallet, NotifyFails, StartWrite, ReadRows, ReadTurn,
                    WriteTurn, Notify
<1>8. ~ResetTechnology(r) /\ ~ResetBlackSwan(r)
  BY DEF ResetTechnology, ResetBlackSwan, ResetFlag
<1> QED BY <1>3, <1>5, <1>6, <1>7, <1>8 DEF Proceed

\* A flag that is set was set before, by the same player.
LEMMA NoFlagSet ==
    ASSUME TypeOK, Next
    PROVE  \A i \in DOMAIN players', t \in CardTypes :
              Flag(i, t)' => i \in DOMAIN players /\ Flag(i, t)
<1> SUFFICES ASSUME NEW i \in DOMAIN players', NEW t \in CardTypes, players'[i][Picked(t)]
             PROVE  i \in DOMAIN players /\ players[i][Picked(t)]
  BY DEF Flag
<1> QED BY FlagsOnlyCleared, PickedColumns

\* The turn begins: what was shown of the player is forgotten.
LEMMA TurnBeginsWell ==
    ASSUME Serial, PatientCardsInv, TypeOK', SerialInv', GameStep, NEW r \in Requests,
           StartWrite(r) \/ WriteTurn(r)
    PROVE  PatientInv'
<1>0. TypeOK /\ SerialInv /\ PicksInv /\ ShownInv
  BY DEF PatientCardsInv, CardsInv, CardsTypeOK, PatientInv
<1>1. ServedWell(req[r]) /\ req \in [Requests -> Request]
  BY <1>0 DEF SerialInv, TypeOK
<1>2. \A k \in Pickers : pick[k].pc = "idle"
  <2>1. CASE StartWrite(r)
    BY <1>0, <1>1, <2>1 DEF StartWrite, ServedWell, PicksInv
  <2>2. CASE WriteTurn(r)
    BY <1>0, <2>2 DEF WriteTurn, PicksInv, Passing, TurnPCs
  <2> QED BY <2>1, <2>2
<1>3. pick' = pick /\ cards' = cards /\ players' = players
  BY DEF GameStep, StartWrite, WriteTurn
<1>4. TurnBegins
  <2>1. CASE StartWrite(r)
    <3>1. req[r].pc = "start_write" /\ req'[r].pc = "idle"
      BY <1>1, <2>1 DEF StartWrite, Done, Idle
    <3> QED BY <3>1 DEF TurnBegins
  <2>2. CASE WriteTurn(r)
    <3>1. req[r].pc = "write_turn" /\ req'[r].pc = "reset_technology"
      BY <1>1, <2>2 DEF WriteTurn, Goto, Request
    <3> QED BY <3>1 DEF TurnBegins
  <2> QED BY <2>1, <2>2
<1>5. shown' = {s \in shown : s[1] # turn'}
  BY <1>4 DEF GameStep
<1>6. PicksInv'
  BY <1>2, <1>3 DEF PicksInv
<1>7. started'
  <2>1. WriteTurn(r) => started
    BY <1>1 DEF WriteTurn, ServedWell, PassesWell, TurnPCs
  <2> QED BY <2>1 DEF StartWrite, WriteTurn
<1>8. \A i \in DOMAIN players, t \in CardTypes : Flag(i, t)' <=> Flag(i, t)
  BY <1>3 DEF Flag
<1>9. ASSUME NEW t \in CardTypes, Flag(turn, t)', ~Unreset(t)' PROVE FALSE
  <2>1. CASE StartWrite(r)
    <3>1. ~started
      BY <1>1, <2>1 DEF StartWrite, ServedWell
    <3>2. turn' \in DOMAIN players
      BY <1>0, <1>1, <2>1, <1>7 DEF StartWrite, ServedWell, ActiveRows
    <3>3. ~Flag(turn', t)
      BY <1>0, <3>1, <3>2 DEF ShownInv
    <3> QED BY <1>3, <1>9, <3>3 DEF Flag
  <2>2. CASE WriteTurn(r)
    <3>1. req'[r].pc = "reset_technology"
      BY <1>1, <2>2 DEF WriteTurn, Goto
    <3> QED BY <1>9, <3>1 DEF Unreset
  <2> QED BY <2>1, <2>2
<1>10. ShownInv'
  BY <1>0, <1>3, <1>5, <1>7, <1>8, <1>9 DEF ShownInv
<1> QED BY <1>6, <1>10 DEF PatientInv

\* The flags of the player whose turn begins are cleared.
LEMMA ResetsWell ==
    ASSUME Serial, PatientCardsInv, GameStep, NEW r \in Requests,
           ResetTechnology(r) \/ ResetBlackSwan(r)
    PROVE  PatientInv'
<1>0. TypeOK /\ SerialInv /\ PicksInv /\ ShownInv
  BY DEF PatientCardsInv, CardsInv, CardsTypeOK, PatientInv
<1>1. ServedWell(req[r]) /\ req \in [Requests -> Request] /\ RowsInv
  BY <1>0 DEF SerialInv, TypeOK
<1>2. /\ \A k \in Pickers : pick[k].pc = "idle"
      /\ \A s \in shown : s[1] # turn
      /\ started /\ turn = req[r].next
  <2>1. req[r].pc \in {"reset_technology", "reset_black_swan"}
    BY DEF ResetTechnology, ResetBlackSwan, ResetFlag
  <2>2. PassesWell(req[r]) /\ Passing(req[r]) /\ Unreset("black_swan")
    BY <1>1, <2>1 DEF ServedWell, TurnPCs, Passing, Unreset
  <2> QED BY <1>0, <2>1, <2>2 DEF PicksInv, ShownInv, PassesWell, TurnPCs, CardTypes
<1>3. /\ pick' = pick /\ cards' = cards /\ UNCHANGED <<wallets, started, turn>>
  BY DEF GameStep, ResetTechnology, ResetBlackSwan, ResetFlag
<1>4. ~TurnBegins
  <2>1. \A q \in Requests : req[q].pc \in {"reset_technology", "reset_black_swan"}
    BY DEF ResetTechnology, ResetBlackSwan, ResetFlag, Serial
  <2> QED BY <2>1 DEF TurnBegins
<1>5. shown' = shown
  BY <1>4 DEF GameStep
<1>6. PicksInv'
  BY <1>2, <1>3 DEF PicksInv
<1>7. /\ DOMAIN players' = DOMAIN players
      /\ \A i \in DOMAIN players, t \in CardTypes : Flag(i, t)' => Flag(i, t)
  BY <1>0, NoFlagSet, ResetSerial DEF GameStep
<1>8. ASSUME NEW t \in CardTypes, ~Unreset(t)' PROVE ~Flag(turn, t)'
  <2> DEFINE row == players[turn]
  <2>1. turn \in DOMAIN players /\ row.player_index = turn /\ row \in PlayerRow
    BY <1>0, <1>1, <1>2, TurnRow DEF RowsInv, TypeOK
  <2>2. CASE ResetTechnology(r)
    <3>1. req'[r].pc = "reset_black_swan"
      BY <1>1, <2>2 DEF ResetTechnology, ResetFlag, Goto
    <3>2. t = "technology"
      BY <1>8, <3>1 DEF Unreset, CardTypes
    <3>3. players'[turn] = [row EXCEPT !["technology_card_picked"] = FALSE]
      BY <1>2, <2>1, <2>2 DEF ResetTechnology, ResetFlag, Cleared
    <3> HIDE DEF row
    <3>4. ~players'[turn]["technology_card_picked"]
      BY <2>1, <3>3 DEF PlayerRow
    <3> QED BY <1>3, <3>2, <3>4 DEF Flag, Picked
  <2>3. CASE ResetBlackSwan(r)
    <3>1. players'[turn] = [row EXCEPT !["black_swan_card_picked"] = FALSE]
      BY <1>2, <2>1, <2>3 DEF ResetBlackSwan, ResetFlag, Cleared
    <3>2. req[r].pc = "reset_black_swan"
      BY <2>3 DEF ResetBlackSwan, ResetFlag
    <3> HIDE DEF row
    <3>3. CASE t = "black_swan"
      <4>1. ~players'[turn]["black_swan_card_picked"]
        BY <2>1, <3>1 DEF PlayerRow
      <4> QED BY <1>3, <3>3, <4>1 DEF Flag, Picked
    <3>4. CASE t = "technology"
      <4>1. ~Unreset(t)
        BY <3>2, <3>4 DEF Unreset, Serial
      <4>2. ~Flag(turn, t)
        BY <1>0, <1>2, <4>1 DEF ShownInv
      <4> QED BY <1>3, <1>7, <2>1, <4>2
    <3> QED BY <3>3, <3>4 DEF CardTypes
  <2> QED BY <2>2, <2>3
<1>9. ShownInv'
  BY <1>0, <1>2, <1>3, <1>5, <1>7, <1>8 DEF ShownInv
<1> QED BY <1>6, <1>9 DEF PatientInv

\* A step after which the picks and what was shown are what they were, and so are the
\* flags of the player who has the turn.
LEMMA NothingPicked ==
    ASSUME PatientCardsInv, UNCHANGED <<cards, pick, shown, started, turn>>,
           \A i \in DOMAIN players', t \in CardTypes :
              Flag(i, t)' => i \in DOMAIN players /\ Flag(i, t),
           started => \A t \in CardTypes : Flag(turn, t)' <=> Flag(turn, t),
           \A r \in Requests : Passing(req[r])' =>
              (\E q \in Requests : Passing(req[q])) \/ \A k \in Pickers : pick[k].pc = "idle",
           \A t \in CardTypes : Unreset(t)' <=> Unreset(t)
    PROVE  PatientInv'
<1>1. PicksInv /\ ShownInv /\ CardsTypeOK
  BY DEF PatientCardsInv, PatientInv, CardsInv
<1>2. PicksInv'
  <2> SUFFICES ASSUME NEW k \in Pickers, pick[k].pc # "idle"
               PROVE  /\ started /\ pick[k].player = turn
                      /\ \A j \in Pickers : pick[j].pc # "idle" => j = k
                      /\ \A r \in Requests : ~Passing(req[r])'
                      /\ PickWell(pick[k])'
    BY DEF PicksInv
  <2>1. /\ started /\ pick[k].player = turn /\ PickWell(pick[k])
        /\ \A j \in Pickers : pick[j].pc # "idle" => j = k
        /\ \A r \in Requests : ~Passing(req[r])
    BY <1>1 DEF PicksInv
  <2>2. pick[k].type \in CardTypes
    BY <1>1 DEF CardsTypeOK, PickCall, NoPick
  <2>3. PickWell(pick[k])'
    BY <2>1, <2>2 DEF PickWell
  <2> QED BY <2>1, <2>3
<1>3. ShownInv'
  <2>1. /\ \A s \in shown : s[2] \in CardTypes
        /\ shown' = shown /\ cards' = cards /\ pick' = pick
        /\ started' = started /\ turn' = turn
    BY <1>1 DEF CardsTypeOK
  <2>2. ~started' => shown' = {} /\ \A i \in DOMAIN players', t \in CardTypes : ~Flag(i, t)'
    BY <1>1, <2>1 DEF ShownInv
  <2>3. \A i \in DOMAIN players', t, u \in CardTypes : Flag(i, t)' /\ Flag(i, u)' => t = u
    BY <1>1 DEF ShownInv
  <2>4. ASSUME NEW s \in shown, s[1] = turn
        PROVE  Flag(turn, s[2])' /\ s[3] = cards[s[2]][1]
    <3>1. Flag(turn, s[2]) /\ s[3] = cards[s[2]][1] /\ started
      BY <1>1, <2>4 DEF ShownInv
    <3>2. ASSUME NEW t \in CardTypes, t = s[2] PROVE Flag(turn, t)'
      BY <3>1, <3>2
    <3> QED BY <2>1, <3>1, <3>2 DEF Flag
  <2>5. \A s, z \in shown : s[1] = z[1] => s = z
    BY <1>1 DEF ShownInv
  <2>6. \A t \in CardTypes : Unreset(t)' => \A s \in shown : s[1] # turn
    BY <1>1 DEF ShownInv
  <2>7. started => \A t \in CardTypes : Flag(turn, t)' /\ ~Unreset(t)' =>
          \/ \E s \in shown : s[1] = turn /\ s[2] = t
          \/ \E k \in Pickers : pick[k].pc \in {"index", "show"} /\ pick[k].type = t
    BY <1>1 DEF ShownInv
  <2> QED BY <2>1, <2>2, <2>3, <2>4, <2>5, <2>6, <2>7 DEF ShownInv
<1> QED BY <1>2, <1>3 DEF PatientInv

\* The other steps of the handlers.
LEMMA OthersWell ==
    ASSUME Serial, Patient, PatientCardsInv, TypeOK', GameStep, NEW r \in Requests,
           Arrive(r) \/ Proceed(r),
           req[r].pc \notin {"start_write", "write_turn", "reset_technology",
                             "reset_black_swan"}
    PROVE  PatientInv'
<1>0. TypeOK /\ SerialInv /\ PicksInv /\ ShownInv /\ CardsTypeOK
  BY DEF PatientCardsInv, CardsInv, CardsTypeOK, PatientInv
<1>1. ~TurnBegins /\ shown' = shown /\ cards' = cards /\ pick' = pick
  BY DEF TurnBegins, GameStep, Serial
<1>2. UNCHANGED <<started, turn>>
  BY DEF Arrive, Proceed, JoinCheck, StartRead, NextAuth, DeactivateRead, JoinInsert,
     JoinWallet, NotifyFails, StartWrite, ReadRows, ReadTurn, WriteTurn, ResetTechnology,
     ResetBlackSwan, ResetPow, ResetFlag, Notify, DeactivateWrite
<1>3. \A i \in DOMAIN players', t \in CardTypes :
              Flag(i, t)' => i \in DOMAIN players /\ Flag(i, t)
  BY <1>0, NoFlagSet DEF GameStep
<1>4. started => \A t \in CardTypes : Flag(turn, t)' <=> Flag(turn, t)
  <2> SUFFICES ASSUME started, NEW t \in CardTypes PROVE Flag(turn, t)' <=> Flag(turn, t)
    OBVIOUS
  <2>1. PICK p : p = turn
    OBVIOUS
  <2>2. p \in DOMAIN players
    BY <1>0, <2>1, TurnRow DEF SerialInv
  <2>3. Flag(p, t)' <=> Flag(p, t)
    BY <1>0, <2>2, RowsKept
  <2> QED BY <1>2, <2>1, <2>3 DEF Flag
<1>5. /\ \A q \in Requests : q = r
      /\ req \in [Requests -> Request] /\ req' \in [Requests -> Request]
  BY <1>0 DEF Serial, TypeOK
<1>6. /\ req'[r].pc \notin {"reset_technology", "reset_black_swan"}
      /\ Passing(req[r])' => Passing(req[r]) \/ \A k \in Pickers : pick[k].pc = "idle"
  <2>1. ASSUME NEW p, NextAuth(r, p) \/ DeactivateRead(r, p)
        PROVE  /\ req'[r].player = p /\ req[r].pc = "idle"
               /\ req'[r].pc \in {"read_rows", "deactivate"}
    BY <1>5, <2>1 DEF NextAuth, DeactivateRead, Idle
  <2>2. CASE \E p : NextAuth(r, p) \/ DeactivateRead(r, p)
    <3>1. PICK p : NextAuth(r, p) \/ DeactivateRead(r, p)
      BY <2>2
    <3>2. Picks(p) = {}
      BY <2>1, <3>1 DEF GameStep, PassesPicking
    <3>3. p = turn => \A k \in Pickers : pick[k].pc = "idle"
      BY <1>0, <3>2 DEF Picks, PicksInv
    <3> QED BY <1>2, <2>1, <3>1, <3>3 DEF Passing, TurnPCs
  <2>3. CASE (\E c \in Clients : JoinCheck(r, c)) \/ StartRead(r)
    <3>1. req'[r].pc \in {"join_insert", "start_write"}
      BY <1>5, <2>3 DEF JoinCheck, StartRead, Idle
    <3> QED BY <3>1 DEF Passing, TurnPCs
  <2>4. CASE JoinInsert(r) \/ JoinWallet(r) \/ NotifyFails(r) \/ DeactivateWrite(r)
    <3>1. req'[r].pc \in {"join_wallet", "idle"}
      BY <1>5, <2>4 DEF JoinInsert, JoinWallet, NotifyFails, DeactivateWrite, Goto, Done, Idle,
         Request
    <3> QED BY <3>1 DEF Passing, TurnPCs
  <2>5. CASE ReadRows(r)
    <3>1. req'[r].pc = "read_turn" /\ req'[r].player = req[r].player /\ req[r].pc = "read_rows"
      BY <1>5, <2>5 DEF ReadRows, Request
    <3> QED BY <1>2, <3>1 DEF Passing, TurnPCs
  <2>6. CASE ReadTurn(r)
    <3>1. \/ req'[r].pc = "idle"
          \/ req'[r].pc = "write_turn" /\ req[r].pc = "read_turn" /\ req[r].player = turn
      BY <1>5, <2>6 DEF ReadTurn, MayPass, Goto, Done, Idle, Request
    <3> QED BY <3>1 DEF Passing, TurnPCs
  <2>7. CASE ResetPow(r)
    <3>1. req'[r].pc = "notify" /\ req[r].pc = "reset_pow"
      BY <1>5, <2>7 DEF ResetPow, ResetFlag, Goto, Request
    <3> QED BY <3>1 DEF Passing, TurnPCs
  <2>8. CASE Notify(r)
    <3>1. req'[r].pc \in {"deactivate", "idle"}
      BY <1>5, <2>8 DEF Notify, Goto, Done, Idle, Request
    <3> QED BY <3>1 DEF Passing, TurnPCs
  <2>9. ~StartWrite(r) /\ ~WriteTurn(r) /\ ~ResetTechnology(r) /\ ~ResetBlackSwan(r)
    BY DEF StartWrite, WriteTurn, ResetTechnology, ResetBlackSwan, ResetFlag
  <2> QED BY <2>2, <2>3, <2>4, <2>5, <2>6, <2>7, <2>8, <2>9 DEF Arrive, Proceed
<1>7. \A t \in CardTypes : ~Unreset(t) /\ ~Unreset(t)'
  BY <1>5, <1>6 DEF Unreset
<1>8. \A q \in Requests : Passing(req[q])' =>
              (\E z \in Requests : Passing(req[z])) \/ \A k \in Pickers : pick[k].pc = "idle"
  <2> SUFFICES ASSUME NEW q \in Requests, Passing(req[q])'
               PROVE  Passing(req[r]) \/ \A k \in Pickers : pick[k].pc = "idle"
    OBVIOUS
  <2>1. q = r
    BY <1>5
  <2>2. Passing(req[r])'
    BY <2>1
  <2> QED BY <1>6, <2>2
<1> QED BY <1>1, <1>2, <1>3, <1>4, <1>7, <1>8, NothingPicked

\* Every step of the handlers.
LEMMA GameWell ==
    ASSUME Serial, Patient, PatientCardsInv, TypeOK', SerialInv', GameStep
    PROVE  PatientInv'
<1>1. PICK r \in Requests : Arrive(r) \/ Proceed(r)
  BY DEF GameStep, Next
<1>2. CASE StartWrite(r) \/ WriteTurn(r)
  BY <1>2, TurnBeginsWell
<1>3. CASE ResetTechnology(r) \/ ResetBlackSwan(r)
  BY <1>3, ResetsWell
<1>4. CASE ~StartWrite(r) /\ ~WriteTurn(r) /\ ~ResetTechnology(r) /\ ~ResetBlackSwan(r)
  <2>1. req[r].pc \notin {"start_write", "write_turn", "reset_technology", "reset_black_swan"}
    BY <1>1, <1>4 DEF Arrive, Proceed, JoinCheck, StartRead, NextAuth, DeactivateRead,
       JoinInsert, JoinWallet, NotifyFails, ReadRows, ReadTurn, ResetPow, ResetFlag, Notify,
       DeactivateWrite
  <2> QED BY <1>1, <2>1, OthersWell
<1> QED BY <1>2, <1>3, <1>4

\* A row added to a deck leaves the card on top where it was.
LEMMA InsertWell ==
    ASSUME PatientCardsInv, NEW t \in CardTypes, InsertDeck(t)
    PROVE  PatientInv'
<1>1. PicksInv /\ ShownInv /\ CardsTypeOK /\ DeckBehindFlags
  BY DEF PatientCardsInv, PatientInv, CardsInv
<1>2. UNCHANGED <<players, wallets, started, turn, req, pick, shown>>
  BY DEF InsertDeck, vars
<1>3. ASSUME NEW u \in CardTypes, cards[u] # <<>> PROVE cards'[u][1] = cards[u][1]
  <2>1. cards[u] \in Seq(0 .. CardCount) /\ cards' = [cards EXCEPT ![t] = Append(cards[t], 0)]
    BY <1>1 DEF CardsTypeOK, InsertDeck
  <2>2. cards'[u] = IF u = t THEN Append(cards[u], 0) ELSE cards[u]
    BY <1>1, <2>1 DEF CardsTypeOK
  <2>3. Append(cards[u], 0)[1] = cards[u][1]
    <3> DEFINE deck == cards[u]
    <3>1. deck \in Seq(0 .. CardCount) /\ deck # <<>>
      BY <1>3, <2>1
    <3> HIDE DEF deck
    <3>2. Len(deck) \in Nat /\ Len(deck) # 0
      BY <3>1, EmptySeq
    <3>3. 1 \in 1 .. Len(deck)
      BY <3>2
    <3> QED BY <3>1, <3>3 DEF deck
  <2> QED BY <2>2, <2>3
<1>4. ASSUME NEW s \in shown, s[1] = turn PROVE s[3] = cards'[s[2]][1]
  <2>1. Flag(turn, s[2]) /\ s[3] = cards[s[2]][1] /\ s[2] \in CardTypes /\ started
    BY <1>1, <1>4 DEF ShownInv, CardsTypeOK
  <2>2. turn \in DOMAIN players
    BY <2>1, TurnRow DEF PatientCardsInv, SerialInv, CardsInv, CardsTypeOK
  <2>3. cards[s[2]] # <<>>
    BY <1>1, <2>1, <2>2 DEF DeckBehindFlags, Flag
  <2> QED BY <1>3, <2>1, <2>3
<1>5. ShownInv'
  BY <1>1, <1>2, <1>4 DEF ShownInv, Flag, Unreset
<1>6. PicksInv'
  BY <1>1, <1>2 DEF PicksInv, PickWell, Passing, Flag
<1> QED BY <1>5, <1>6 DEF PatientInv

\* A pick begins when there is no other.
LEMMA BeginWell ==
    ASSUME Patient, PatientCardsInv, NEW k \in Pickers, NEW p, NEW t \in CardTypes,
           PickBegin(k, p, t)
    PROVE  PatientInv'
<1> DEFINE new == [pc |-> "other", player |-> p, type |-> t, index |-> 0]
<1>1. PicksInv /\ ShownInv /\ CardsTypeOK
  BY DEF PatientCardsInv, PatientInv, CardsInv
<1>2. /\ UNCHANGED <<players, wallets, started, turn, req, cards, shown>>
      /\ pick' = [pick EXCEPT ![k] = new] /\ started /\ turn = p /\ Picks(p) = {}
      /\ \A r \in Requests : req[r].pc \notin TurnPCs
  BY DEF PickBegin, vars
<1>3. \A j \in Pickers : pick[j].pc = "idle"
  BY <1>1, <1>2 DEF Picks, PicksInv
<1>4. new.pc = "other" /\ new.player = p
  OBVIOUS
<1> HIDE DEF new
<1>5. \A j \in Pickers : pick'[j] = IF j = k THEN new ELSE pick[j]
  BY <1>1, <1>2 DEF CardsTypeOK
<1>6. PickWell(new)'
  BY <1>4 DEF PickWell
<1>7. PicksInv'
  <2> SUFFICES ASSUME NEW j \in Pickers, pick'[j].pc # "idle"
               PROVE  /\ started /\ pick'[j].player = turn
                      /\ \A i \in Pickers : pick'[i].pc # "idle" => i = j
                      /\ \A r \in Requests : ~Passing(req[r])'
                      /\ PickWell(pick[j])'
    BY <1>2 DEF PicksInv
  <2>1. j = k /\ pick'[j] = new
    BY <1>3, <1>5
  <2>2. PickWell(pick[j])'
    BY <2>1, <1>4 DEF PickWell
  <2>3. \A r \in Requests : ~Passing(req[r])'
    BY <1>2 DEF Passing, TurnPCs
  <2> QED BY <1>2, <1>3, <1>4, <1>5, <2>1, <2>2, <2>3
<1>8. ShownInv'
  BY <1>1, <1>2, <1>3 DEF ShownInv, Flag, Unreset
<1> QED BY <1>7, <1>8 DEF PatientInv

\* The pick in progress, and what is known of it.
LEMMA ThePick ==
    ASSUME PatientCardsInv, NEW k \in Pickers, pick[k].pc # "idle"
    PROVE  /\ pick[k] \in PickCall /\ pick[k].type \in CardTypes /\ pick[k].player = turn
           /\ started /\ turn \in DOMAIN players /\ turn # 0
           /\ \A j \in Pickers : pick[j].pc # "idle" => j = k
           /\ \A r \in Requests : ~Passing(req[r])
           /\ \A t \in CardTypes : ~Unreset(t)
           /\ \A t \in CardTypes : HasPicked(turn, t) <=> Flag(turn, t)
           /\ PickWell(pick[k])
<1>0. TypeOK /\ RowsInv /\ PicksInv /\ CardsTypeOK
  BY DEF PatientCardsInv, CardsInv, CardsTypeOK, PatientInv, SerialInv
<1>1. pick[k] \in PickCall
  BY <1>0 DEF CardsTypeOK, NoPick
<1>2. /\ pick[k].player = turn /\ started
      /\ \A j \in Pickers : pick[j].pc # "idle" => j = k
      /\ \A r \in Requests : ~Passing(req[r])
      /\ PickWell(pick[k])
  BY <1>0 DEF PicksInv
<1>3. turn \in DOMAIN players /\ turn # 0
  BY <1>0, <1>2, TurnRow
<1>4. \A t \in CardTypes : HasPicked(turn, t) <=> Flag(turn, t)
  BY <1>0, <1>3, FlagFound
<1>5. \A t \in CardTypes : ~Unreset(t)
  BY <1>2 DEF Unreset, Passing, TurnPCs
<1> QED BY <1>1, <1>2, <1>3, <1>4, <1>5 DEF PickCall

\* The pick goes on, knowing what the flags say, or ends.
LEMMA PickGoesOn ==
    ASSUME PatientCardsInv, NEW k \in Pickers, pick[k].pc # "idle", NEW v,
           pick' = [pick EXCEPT ![k] = v], UNCHANGED <<started, turn, req>>,
           v.pc = "idle" \/ (v.player = turn /\ PickWell(v)')
    PROVE  PicksInv'
<1>1. /\ started /\ \A j \in Pickers : pick[j].pc # "idle" => j = k
      /\ \A r \in Requests : ~Passing(req[r])
  BY ThePick
<1>2. \A j \in Pickers : pick'[j] = IF j = k THEN v ELSE pick[j]
  BY DEF PatientCardsInv, CardsInv, CardsTypeOK
<1> SUFFICES ASSUME NEW j \in Pickers, pick'[j].pc # "idle"
             PROVE  /\ started /\ pick'[j].player = turn
                    /\ \A i \in Pickers : pick'[i].pc # "idle" => i = j
                    /\ \A r \in Requests : ~Passing(req[r])'
                    /\ PickWell(pick[j])'
  BY DEF PicksInv
<1>3. j = k /\ pick'[j] = v /\ v.player = turn /\ PickWell(v)'
  BY <1>1, <1>2
<1>4. PickWell(pick[j])'
  BY <1>3 DEF PickWell
<1>5. \A r \in Requests : ~Passing(req[r])'
  BY <1>1 DEF Passing
<1> QED BY <1>1, <1>2, <1>3, <1>4, <1>5

\* The statements that only read.
LEMMA ReadsWell ==
    ASSUME PatientCardsInv, NEW k \in Pickers, PickOther(k) \/ PickSame(k) \/ PickGet(k)
    PROVE  PatientInv'
<1> DEFINE c == pick[k]
<1>1. c.pc # "idle" /\ UNCHANGED <<players, wallets, started, turn, req, cards, shown>>
  BY DEF PickOther, PickSame, PickGet, vars
<1>2. /\ c \in PickCall /\ c.type \in CardTypes /\ c.player = turn /\ PickWell(c)
      /\ \A t \in CardTypes : HasPicked(turn, t) <=> Flag(turn, t)
      /\ \A t \in CardTypes : ~Unreset(t)
  BY <1>1, ThePick
<1>3. PICK v : /\ pick' = [pick EXCEPT ![k] = v]
               /\ v.pc = "idle" \/ (v.player = turn /\ PickWell(v))
               /\ c.pc \notin {"index", "show"}
  <2> DEFINE To(pc) == [c EXCEPT !.pc = pc]
  <2>1. CASE PickOther(k)
    <3>1. CASE pick' = [pick EXCEPT ![k] = NoPick]
      BY <2>1, <3>1 DEF NoPick, PickOther
    <3>2. CASE pick' # [pick EXCEPT ![k] = NoPick]
      <4> DEFINE v == To("same")
      <4>1. pick' = [pick EXCEPT ![k] = v] /\ \A t \in CardTypes \ {c.type} : ~HasPicked(turn, t)
        BY <1>2, <2>1, <3>2 DEF PickOther, PickDone, PickGoto
      <4>2. v.pc = "same" /\ v.player = turn /\ v.type = c.type
        BY <1>2 DEF PickCall
      <4> HIDE DEF v
      <4>3. PickWell(v)
        BY <1>2, <4>1, <4>2 DEF PickWell
      <4> QED BY <2>1, <4>1, <4>2, <4>3 DEF PickOther
    <3> QED BY <3>1, <3>2
  <2>2. CASE PickSame(k)
    <3> DEFINE v == To(IF HasPicked(turn, c.type) THEN "show" ELSE "get")
    <3>1. pick' = [pick EXCEPT ![k] = v] /\ c.pc = "same"
      BY <1>2, <2>2 DEF PickSame, PickGoto
    <3>2. /\ v.pc = (IF HasPicked(turn, c.type) THEN "show" ELSE "get")
          /\ v.player = turn /\ v.type = c.type
      BY <1>2 DEF PickCall
    <3> HIDE DEF v
    <3>3. PickWell(v)
      BY <1>2, <3>1, <3>2 DEF PickWell
    <3> QED BY <3>1, <3>2, <3>3
  <2>3. CASE PickGet(k)
    <3>1. CASE pick' = [pick EXCEPT ![k] = NoPick]
      BY <2>3, <3>1 DEF NoPick, PickGet
    <3>2. CASE pick' # [pick EXCEPT ![k] = NoPick]
      <4> DEFINE v == [c EXCEPT !.pc = "flag", !.index = cards[c.type][1]]
      <4>1. pick' = [pick EXCEPT ![k] = v] /\ c.pc = "get"
        BY <2>3, <3>2 DEF PickGet, PickDone
      <4>2. v.pc = "flag" /\ v.player = turn /\ v.type = c.type
        BY <1>2 DEF PickCall
      <4> HIDE DEF v
      <4>3. PickWell(v)
        BY <1>2, <4>1, <4>2 DEF PickWell
      <4> QED BY <4>1, <4>2, <4>3
    <3> QED BY <3>1, <3>2
  <2> QED BY <2>1, <2>2, <2>3
<1>4. PicksInv'
  <2>1. PickWell(v) => PickWell(v)'
    BY <1>1 DEF PickWell, Flag
  <2> QED BY <1>1, <1>3, <2>1, PickGoesOn
<1>5. \A j \in Pickers : pick[j].pc \in {"index", "show"} => pick'[j] = pick[j]
  BY <1>3 DEF PatientCardsInv, CardsInv, CardsTypeOK
<1>6. ShownInv /\ \A t \in CardTypes : ~Unreset(t)'
  BY <1>1, <1>2 DEF PatientCardsInv, PatientInv, Unreset
<1>7. started => \A t \in CardTypes : Flag(turn, t)' =>
          \/ \E s \in shown : s[1] = turn /\ s[2] = t
          \/ \E j \in Pickers : pick'[j].pc \in {"index", "show"} /\ pick'[j].type = t
  BY <1>1, <1>2, <1>5, <1>6 DEF ShownInv, Flag
<1>8. ShownInv'
  BY <1>1, <1>6, <1>7 DEF ShownInv, Flag
<1> QED BY <1>4, <1>8 DEF PatientInv

\* The flag of the player is set.
LEMMA FlagWell ==
    ASSUME PatientCardsInv, NEW k \in Pickers, PickFlag(k)
    PROVE  PatientInv'
<1> DEFINE c == pick[k]
           v == [c EXCEPT !.pc = "index"]
<1>0. TypeOK /\ RowsInv /\ ShownInv /\ CardsTypeOK
  BY DEF PatientCardsInv, CardsInv, CardsTypeOK, PatientInv, SerialInv
<1>1. c.pc = "flag" /\ UNCHANGED <<wallets, started, turn, req, cards, shown>>
  BY DEF PickFlag
<1>2. /\ c \in PickCall /\ c.type \in CardTypes /\ c.player = turn /\ PickWell(c)
      /\ started /\ turn \in DOMAIN players
      /\ \A j \in Pickers : pick[j].pc # "idle" => j = k
  BY <1>1, ThePick
<1>3. players' = Marked(turn, Picked(c.type))
  BY <1>2 DEF PickFlag, Marked
<1>4. /\ DOMAIN players' = DOMAIN players
      /\ \A i \in DOMAIN players :
            players'[i] = IF i = turn THEN [players[i] EXCEPT ![Picked(c.type)] = TRUE]
                          ELSE players[i]
  BY <1>0, <1>3 DEF Marked, RowsInv
<1>5. \A i \in DOMAIN players : players[i] \in PlayerRow
  BY <1>0 DEF TypeOK
<1>6. Picked(c.type) \in CardColumns /\ \A t \in CardTypes : Picked(t) \in CardColumns
  BY <1>2, PickedColumns
<1>8. \A i \in DOMAIN players, t \in CardTypes :
         players'[i][Picked(t)] <=> Flag(i, t) \/ (i = turn /\ t = c.type)
  <2> SUFFICES ASSUME NEW i \in DOMAIN players, NEW t \in CardTypes
               PROVE players'[i][Picked(t)] <=> Flag(i, t) \/ (i = turn /\ t = c.type)
    OBVIOUS
  <2>1. CASE i # turn
    BY <1>4, <2>1 DEF Flag
  <2>2. CASE i = turn /\ t = c.type
    BY <1>4, <1>5, <1>6, <2>2 DEF PlayerRow, CardColumns
  <2>3. CASE i = turn /\ t # c.type
    <3>1. Picked(t) # Picked(c.type)
      BY <1>2, <2>3 DEF CardTypes, Picked
    <3> QED BY <1>4, <1>5, <1>6, <2>3, <3>1 DEF PlayerRow, CardColumns, Flag
  <2> QED BY <2>1, <2>2, <2>3
<1>9. \A t \in CardTypes : ~Flag(turn, t)
  BY <1>1, <1>2 DEF PickWell
<1>10. \A s \in shown : s[1] # turn
  BY <1>0, <1>2, <1>9 DEF ShownInv, CardsTypeOK
<1>11. /\ pick' = [pick EXCEPT ![k] = v] /\ v.pc = "index" /\ v.player = turn
       /\ v.type = c.type
  BY <1>0, <1>2 DEF PickFlag, PickGoto, CardsTypeOK, PickCall
<1> HIDE DEF v
<1>12. PicksInv'
  <2>1. ASSUME NEW x, x = v PROVE PickWell(x)'
    <3>1. \A t \in CardTypes \ {x.type} : ~Flag(turn, t)'
      BY <1>1, <1>2, <1>8, <1>9, <1>11, <2>1 DEF Flag
    <3>2. Flag(turn, x.type)'
      <4>1. PICK t : t = x.type
        OBVIOUS
      <4>2. players'[turn][Picked(t)]
        BY <1>2, <1>8, <1>11, <2>1, <4>1
      <4> QED BY <1>1, <4>1, <4>2 DEF Flag
    <3> QED BY <1>1, <1>10, <1>11, <2>1, <3>1, <3>2 DEF PickWell
  <2>2. PICK x : x = v
    OBVIOUS
  <2> QED BY <1>1, <1>11, <2>1, <2>2, PickGoesOn
<1>13. ShownInv'
  <2>1. \A i \in DOMAIN players', t, u \in CardTypes : Flag(i, t)' /\ Flag(i, u)' => t = u
    BY <1>0, <1>4, <1>8, <1>9 DEF ShownInv, Flag
  <2>2. \A t \in CardTypes : Flag(turn, t)' => pick'[k].pc = "index" /\ pick'[k].type = t
    BY <1>0, <1>1, <1>2, <1>8, <1>9, <1>11 DEF Flag, CardsTypeOK
  <2>3. ShownInv
    BY <1>0
  <2> QED BY <1>1, <1>2, <1>10, <2>1, <2>2, <2>3 DEF ShownInv
<1> QED BY <1>12, <1>13 DEF PatientInv

\* The deck moves on, and nothing of it was shown to the player yet.
LEMMA IndexWell ==
    ASSUME PatientCardsInv, NEW k \in Pickers, PickIndex(k)
    PROVE  PatientInv'
<1> DEFINE c == pick[k]
           v == [c EXCEPT !.pc = "show"]
<1>0. ShownInv /\ CardsTypeOK
  BY DEF PatientCardsInv, CardsInv, PatientInv
<1>1. c.pc = "index" /\ UNCHANGED <<players, wallets, started, turn, req, shown>>
  BY DEF PickIndex, vars
<1>2. /\ c \in PickCall /\ c.type \in CardTypes /\ c.player = turn /\ PickWell(c) /\ started
      /\ \A j \in Pickers : pick[j].pc # "idle" => j = k
  BY <1>1, ThePick
<1>3. /\ pick' = [pick EXCEPT ![k] = v] /\ v.pc = "show" /\ v.player = turn
      /\ v.type = c.type
  BY <1>0, <1>2 DEF PickIndex, PickGoto, CardsTypeOK, PickCall
<1> HIDE DEF v
<1>4. PicksInv'
  <2>1. PICK x : x = v
    OBVIOUS
  <2>2. PickWell(x)'
    BY <1>1, <1>2, <1>3, <2>1 DEF PickWell, Flag
  <2> QED BY <1>1, <1>3, <2>1, <2>2, PickGoesOn
<1>5. \A s \in shown : s[1] # turn
  BY <1>1, <1>2 DEF PickWell
<1>6. \A t \in CardTypes : Unreset(t)' <=> Unreset(t)
  BY <1>1 DEF Unreset
<1>7. \A t \in CardTypes, j \in Pickers :
         pick[j].pc \in {"index", "show"} /\ pick[j].type = t =>
            pick'[j].pc \in {"index", "show"} /\ pick'[j].type = t
  BY <1>0, <1>1, <1>2, <1>3 DEF CardsTypeOK
<1>8. ShownInv'
  BY <1>0, <1>1, <1>5, <1>6, <1>7 DEF ShownInv, Flag
<1> QED BY <1>4, <1>8 DEF PatientInv

\* The card is shown, and it is the one that was shown before if there was one.
LEMMA ShowWell ==
    ASSUME PatientCardsInv, NEW k \in Pickers, PickShow(k)
    PROVE  PatientInv'
<1> DEFINE c == pick[k]
           new == <<turn, c.type, cards[c.type][1]>>
<1>0. ShownInv /\ CardsTypeOK
  BY DEF PatientCardsInv, CardsInv, PatientInv
<1>1. c.pc = "show" /\ UNCHANGED <<players, wallets, started, turn, req, cards>>
  BY DEF PickShow, vars
<1>2. /\ c \in PickCall /\ c.type \in CardTypes /\ c.player = turn /\ PickWell(c) /\ started
      /\ turn \in DOMAIN players /\ \A j \in Pickers : pick[j].pc # "idle" => j = k
      /\ \A t \in CardTypes : ~Unreset(t)
  BY <1>1, ThePick
<1>3. pick' = [pick EXCEPT ![k] = NoPick] /\ NoPick.pc = "idle" /\ shown' = shown \cup {new}
  BY <1>2 DEF PickShow, PickDone, NoPick
<1>4. PicksInv'
  BY <1>1, <1>3, PickGoesOn
<1>5. Flag(turn, c.type)
  BY <1>1, <1>2 DEF PickWell
<1>6. /\ new[1] = turn /\ new[2] = c.type /\ new[3] = cards[c.type][1]
      /\ \A s \in shown : s = <<s[1], s[2], s[3]>> /\ s[2] \in CardTypes
  BY <1>0 DEF CardsTypeOK
<1>7. \A s \in shown : s[1] = turn => s = new
  <2> SUFFICES ASSUME NEW s \in shown, s[1] = turn PROVE s = new
    OBVIOUS
  <2>1. Flag(turn, s[2]) /\ s[3] = cards[s[2]][1] /\ s[2] \in CardTypes
    BY <1>0, <1>6 DEF ShownInv
  <2>2. s[2] = c.type
    BY <1>0, <1>2, <1>5, <2>1 DEF ShownInv
  <2> QED BY <1>6, <2>1, <2>2
<1> HIDE DEF new
<1>8. \A s, z \in shown' : s[1] = z[1] => s = z
  BY <1>0, <1>3, <1>6, <1>7 DEF ShownInv
<1>9. \A s \in shown' : s[1] = turn => Flag(turn, s[2]) /\ s[3] = cards[s[2]][1]
  BY <1>0, <1>3, <1>5, <1>6 DEF ShownInv
<1>10. \A t \in CardTypes : Flag(turn, t) => \E s \in shown' : s[1] = turn /\ s[2] = t
  <2> SUFFICES ASSUME NEW t \in CardTypes, Flag(turn, t)
               PROVE  new[1] = turn /\ new[2] = t
    BY <1>3
  <2> QED BY <1>0, <1>2, <1>5, <1>6 DEF ShownInv
<1>11. \A t \in CardTypes : ~Unreset(t)'
  BY <1>1, <1>2 DEF Unreset
<1>12. ShownInv'
  BY <1>0, <1>1, <1>2, <1>8, <1>9, <1>10, <1>11 DEF ShownInv, Flag
<1> QED BY <1>4, <1>12 DEF PatientInv

-----------------------------------------------------------------------------
\* Every step keeps what the flags, the picks and the cards shown say of each other.
LEMMA PatientStep ==
    ASSUME Serial, Patient, PatientCardsInv, [CardsNext]_<<vars, cardVars>>
    PROVE  PatientCardsInv'
<1>0. TypeOK /\ SerialInv /\ CardsInv /\ PatientInv
  BY DEF PatientCardsInv, CardsInv, CardsTypeOK
<1>1. CardsInv'
  BY <1>0, CardsStep
<1>2. TypeOK'
  BY <1>1 DEF CardsInv, CardsTypeOK
<1>3. SerialInv'
  BY <1>0, SerialCardsStep
<1>4. PatientInv'
  <2>1. CASE GameStep
    BY <1>2, <1>3, <2>1, GameWell
  <2>2. CASE UNCHANGED <<vars, cardVars>>
    BY <1>0, <2>2 DEF PatientInv, PicksInv, ShownInv, PickWell, Passing, Unreset, Flag, vars,
       cardVars
  <2>3. CASE \E k \in Pickers : Pick(k)
    BY <2>3, ReadsWell, FlagWell, IndexWell, ShowWell DEF Pick
  <2> QED BY <2>1, <2>2, <2>3, InsertWell, BeginWell DEF CardsNext
<1> QED BY <1>1, <1>3, <1>4 DEF PatientCardsInv

\* All of it holds from the beginning.
LEMMA PatientInvariant ==
    ASSUME Serial, Patient PROVE CardsSpec => []PatientCardsInv
<1>1. CardsInit => CardsInv
  BY CardsInitially
<1>2. CardsInit => SerialInv
  BY InitSerial DEF CardsInit
<1>3. CardsInit => PatientInv
  <2> SUFFICES ASSUME CardsInit PROVE PatientInv
    OBVIOUS
  <2>1. \A k \in Pickers : pick[k].pc = "idle"
    BY DEF CardsInit, NoPick
  <2>2. \A i \in DOMAIN players, t \in CardTypes : ~Flag(i, t)
    BY PickedColumns DEF CardsInit, Init, NewPlayer, CardColumns, Flag
  <2>3. ~started /\ shown = {}
    BY DEF CardsInit, Init
  <2> QED BY <2>1, <2>2, <2>3 DEF PatientInv, PicksInv, ShownInv
<1>4. PatientCardsInv /\ [CardsNext]_<<vars, cardVars>> => PatientCardsInv'
  BY PatientStep
<1> QED BY <1>1, <1>2, <1>3, <1>4, PTL DEF CardsSpec, PatientCardsInv

\* When players are patient, whoever has the turn is shown one card of one deck until the
\* turn is theirs again, however often they pick (pick_card: "already_picked", and the
\* same card again).
THEOREM OneCardIsShown == ASSUME Serial, Patient PROVE CardsSpec => []OneCardPerTurn
<1>1. PatientCardsInv => OneCardPerTurn
  BY DEF PatientCardsInv, PatientInv, ShownInv, OneCardPerTurn, CardsShown
<1> QED BY <1>1, PatientInvariant, PTL

\* increment_player_turn gives the right to draw back: when nothing is in progress, a flag
\* of the player who has the turn comes with a card shown in this turn, never from an
\* earlier one.
THEOREM DrawRightsReturn == ASSUME Serial, Patient PROVE CardsSpec => []DrawRightRestored
<1>1. ASSUME PatientCardsInv PROVE DrawRightRestored
  <2> SUFFICES ASSUME started, \A r \in Requests : req[r].pc = "idle",
                      \A k \in Pickers : pick[k].pc = "idle",
                      NEW t \in CardTypes, HasPicked(turn, t)
               PROVE  \E s \in shown : s[1] = turn /\ s[2] = t
    BY DEF DrawRightRestored
  <2>1. TypeOK /\ RowsInv /\ ShownInv
    BY <1>1 DEF PatientCardsInv, CardsInv, CardsTypeOK, SerialInv, PatientInv
  <2>2. turn \in DOMAIN players
    BY <2>1, TurnRow
  <2>3. Flag(turn, t) /\ ~Unreset(t)
    BY <2>1, <2>2, FlagFound DEF Unreset
  <2> QED BY <2>1, <2>3 DEF ShownInv
<1> QED BY <1>1, PatientInvariant, PTL
=============================================================================
