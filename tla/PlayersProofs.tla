--------------------------- MODULE PlayersProofs ---------------------------
(***************************************************************************)
(* Theorems about Players, for every number of requests, accounts and      *)
(* players.                                                                *)
(***************************************************************************)
EXTENDS Players, FiniteSetTheorems, SequenceTheorems, TLAPS

Columns == {"active", "technology_card_picked", "black_swan_card_picked",
            "pow_provided"}

\* An UPDATE of one column keeps the table a table, with the same rows in the
\* same places under the same indexes (the four UPDATEs of the handlers).
LEMMA ClearedRows ==
    ASSUME players \in Seq(PlayerRow), NEW p, NEW column \in Columns
    PROVE  LET t == Cleared(p, column)
           IN  /\ t \in Seq(PlayerRow)
               /\ Len(t) = Len(players)
               /\ \A i \in DOMAIN players :
                     /\ t[i].player_index = players[i].player_index
                     /\ t[i].active => players[i].active
<1> DEFINE t == Cleared(p, column)
<1>1. DOMAIN players = 1 .. Len(players) /\ Len(players) \in Nat
  OBVIOUS
<1>2. ASSUME NEW i \in DOMAIN players
      PROVE  /\ t[i] \in PlayerRow
             /\ t[i].player_index = players[i].player_index
             /\ t[i].active => players[i].active
  <2>1. players[i] \in PlayerRow
    BY <1>1
  <2>2. t[i] = IF players[i].player_index = p
               THEN [players[i] EXCEPT ![column] = FALSE] ELSE players[i]
    BY DEF Cleared
  <2>3. CASE column = "active"
    BY <2>1, <2>2, <2>3 DEF PlayerRow
  <2>4. CASE column = "technology_card_picked"
    BY <2>1, <2>2, <2>4 DEF PlayerRow
  <2>5. CASE column = "black_swan_card_picked"
    BY <2>1, <2>2, <2>5 DEF PlayerRow
  <2>6. CASE column = "pow_provided"
    BY <2>1, <2>2, <2>6 DEF PlayerRow
  <2> QED BY <2>3, <2>4, <2>5, <2>6 DEF Columns
<1>3. t = [i \in 1 .. Len(players) |-> t[i]]
  BY <1>1 DEF Cleared
<1>4. t \in Seq(PlayerRow) /\ Len(t) = Len(players)
  BY <1>1, <1>2, <1>3
<1> QED BY <1>2, <1>4

\* The active rows are finitely many, so COUNT(*) is a number.
LEMMA ActiveRowsFinite ==
    ASSUME players \in Seq(PlayerRow)
    PROVE  IsFiniteSet(ActiveRows) /\ Cardinality(ActiveRows) \in Nat
<1>1. ActiveRows \subseteq 1 .. Len(players) /\ Len(players) \in Nat
  BY DEF ActiveRows
<1>2. IsFiniteSet(1 .. Len(players))
  BY <1>1, FS_Interval
<1> QED BY <1>1, <1>2, FS_Subset, FS_CardinalityType

\* What the loop of increment_player_turn finds is the index of a row, or 0.
LEMMA NextTurnsRegistered ==
    ASSUME players \in Seq(PlayerRow), NEW p, NEW q \in NextTurns(p)
    PROVE  q \in Nat /\ q \in PlayerIndexes \cup {0}
<1>1. CASE q = 0
  BY <1>1
<1>2. CASE q # 0
  <2>1. PICK j \in ActiveRows : q = players[j].player_index
    BY <1>2 DEF NextTurns
  <2>2. j \in DOMAIN players /\ players[j] \in PlayerRow
    BY <2>1 DEF ActiveRows
  <2> QED BY <2>1, <2>2 DEF PlayerIndexes, PlayerRow
<1> QED BY <1>1, <1>2

LEMMA IndexesAreNumbers ==
    ASSUME players \in Seq(PlayerRow)
    PROVE  PlayerIndexes \subseteq Nat
<1>1. \A i \in DOMAIN players : players[i] \in PlayerRow
  OBVIOUS
<1> QED BY <1>1 DEF PlayerIndexes, PlayerRow

\* A handler that goes to its next access, or ends, leaves well-formed requests.
LEMMA Moved ==
    ASSUME req \in [Requests -> Request], NEW r \in Requests, NEW pc \in PCs
    PROVE  /\ Goto(r, pc) => req' \in [Requests -> Request]
           /\ Done(r) => req' \in [Requests -> Request]
<1>1. Idle \in Request
  BY DEF Idle, Request, PCs
<1>2. [req[r] EXCEPT !.pc = pc] \in Request
  BY DEF Request
<1> QED BY <1>1, <1>2 DEF Goto, Done

-----------------------------------------------------------------------------
\* Every handler keeps the tables and its own request well formed.
LEMMA TypeStep == TypeOK /\ [Next]_vars => TypeOK'
<1> SUFFICES ASSUME TypeOK, [Next]_vars PROVE TypeOK'
  OBVIOUS
<1> USE DEF TypeOK
<1>0. CASE UNCHANGED vars
  BY <1>0 DEF vars
<1>1. ASSUME NEW r \in Requests, NEW c \in Clients, JoinCheck(r, c)
      PROVE  TypeOK'
  <2> DEFINE new == [Idle EXCEPT !.pc = "join_insert", !.client = c,
                                 !.player = NextIndex]
  <2>1. NextIndex \in Nat
    BY ActiveRowsFinite DEF NextIndex
  <2>2. new \in Request
    BY <2>1 DEF Idle, Request, PCs, JoinPCs
  <2>3. req' = [req EXCEPT ![r] = new]
    BY <1>1 DEF JoinCheck
  <2> HIDE DEF new
  <2> QED BY <1>1, <2>2, <2>3 DEF JoinCheck
<1>2. ASSUME NEW r \in Requests, JoinInsert(r) PROVE TypeOK'
  <2>1. req[r].player \in Nat
    BY DEF Request
  <2>2. NewPlayer(req[r].player) \in PlayerRow
    BY <2>1 DEF NewPlayer, PlayerRow
  <2>3. players' \in Seq(PlayerRow)
    BY <1>2, <2>2 DEF JoinInsert
  <2> QED BY <1>2, <2>3, Moved DEF JoinInsert, PCs, JoinPCs
<1>3. ASSUME NEW r \in Requests, JoinWallet(r) PROVE TypeOK'
  <2>1. req[r].player \in Nat
    BY DEF Request
  <2>2. Done(r) => req' \in [Requests -> Request]
    BY Moved DEF PCs
  <2> QED BY <1>3, <2>1, <2>2 DEF JoinWallet, RegisteredIndex
<1>4. ASSUME NEW r \in Requests, NotifyFails(r) PROVE TypeOK'
  BY <1>4, Moved DEF NotifyFails, PCs
<1>5. ASSUME NEW r \in Requests, StartRead(r) PROVE TypeOK'
  <2>1. PICK i \in ActiveRows :
          req' = [req EXCEPT ![r] = [Idle EXCEPT
                     !.pc = "start_write", !.next = players[i].player_index]]
    BY <1>5 DEF StartRead
  <2> DEFINE new == [Idle EXCEPT !.pc = "start_write",
                                 !.next = players[i].player_index]
  <2>2. players[i].player_index \in Nat
    BY IndexesAreNumbers DEF ActiveRows, PlayerIndexes
  <2>3. new \in Request
    BY <2>2 DEF Idle, Request, PCs
  <2>4. req' = [req EXCEPT ![r] = new]
    BY <2>1
  <2> HIDE DEF new
  <2> QED BY <1>5, <2>3, <2>4 DEF StartRead
<1>6. ASSUME NEW r \in Requests, StartWrite(r) PROVE TypeOK'
  <2>1. req[r].next \in Nat
    BY DEF Request
  <2> QED BY <1>6, <2>1, Moved DEF StartWrite, PCs
<1>7. ASSUME NEW r \in Requests, NEW p \in PlayerIndexes, NextAuth(r, p)
      PROVE  TypeOK'
  <2> DEFINE new == [Idle EXCEPT !.pc = "read_rows", !.player = p]
  <2>1. new \in Request
    BY IndexesAreNumbers DEF Idle, Request, PCs, TurnPCs
  <2>2. req' = [req EXCEPT ![r] = new]
    BY <1>7 DEF NextAuth
  <2> HIDE DEF new
  <2> QED BY <1>7, <2>1, <2>2 DEF NextAuth
<1>8. ASSUME NEW r \in Requests, ReadRows(r) PROVE TypeOK'
  <2>1. PICK q \in NextTurns(req[r].player) :
          req' = [req EXCEPT ![r].pc = "read_turn", ![r].next = q]
    BY <1>8 DEF ReadRows
  <2>2. q \in Nat
    BY NextTurnsRegistered
  <2>3. [req[r] EXCEPT !.pc = "read_turn", !.next = q] \in Request
    BY <2>2 DEF Request, PCs, TurnPCs
  <2>4. req' \in [Requests -> Request]
    BY <2>1, <2>3
  <2> QED BY <1>8, <2>4 DEF ReadRows
<1>9. ASSUME NEW r \in Requests, ReadTurn(r) PROVE TypeOK'
  BY <1>9, Moved DEF ReadTurn, MayPass, PCs, TurnPCs
<1>10. ASSUME NEW r \in Requests, WriteTurn(r) PROVE TypeOK'
  <2>1. req[r].next \in Nat
    BY DEF Request
  <2> QED BY <1>10, <2>1, Moved DEF WriteTurn, PCs, TurnPCs
<1>11. ASSUME NEW r \in Requests, ResetTechnology(r) PROVE TypeOK'
  BY <1>11, ClearedRows, Moved
     DEF ResetTechnology, ResetFlag, Columns, PCs, TurnPCs
<1>12. ASSUME NEW r \in Requests, ResetBlackSwan(r) PROVE TypeOK'
  BY <1>12, ClearedRows, Moved
     DEF ResetBlackSwan, ResetFlag, Columns, PCs, TurnPCs
<1>13. ASSUME NEW r \in Requests, ResetPow(r) PROVE TypeOK'
  BY <1>13, ClearedRows, Moved DEF ResetPow, ResetFlag, Columns, PCs, TurnPCs
<1>14. ASSUME NEW r \in Requests, Notify(r) PROVE TypeOK'
  BY <1>14, Moved DEF Notify, PCs
<1>15. ASSUME NEW r \in Requests, NEW p \in PlayerIndexes, DeactivateRead(r, p)
       PROVE  TypeOK'
  <2> DEFINE new == [Idle EXCEPT
                        !.pc = IF MustPass(p) THEN "read_rows" ELSE "deactivate",
                        !.player = p, !.deactivating = TRUE]
  <2>1. new \in Request
    BY IndexesAreNumbers DEF Idle, Request, PCs, TurnPCs
  <2>2. req' = [req EXCEPT ![r] = new]
    BY <1>15 DEF DeactivateRead
  <2> HIDE DEF new
  <2> QED BY <1>15, <2>1, <2>2 DEF DeactivateRead
<1>16. ASSUME NEW r \in Requests, DeactivateWrite(r) PROVE TypeOK'
  BY <1>16, ClearedRows, Moved DEF DeactivateWrite, Columns, PCs
<1> QED BY <1>0, <1>1, <1>2, <1>3, <1>4, <1>5, <1>6, <1>7, <1>8, <1>9, <1>10,
           <1>11, <1>12, <1>13, <1>14, <1>15, <1>16
        DEF Next, Arrive, Proceed

LEMMA InitTypeOK == ASSUME Init PROVE TypeOK
<1>1. NewPlayer(1) \in PlayerRow
  BY DEF NewPlayer, PlayerRow
<1>2. Idle \in Request
  BY DEF Idle, Request, PCs
<1>3. players \in Seq(PlayerRow)
  BY <1>1 DEF Init
<1>4. wallets \in [Clients -> Nat]
  BY DEF Init
<1>5. req \in [Requests -> Request]
  BY <1>2 DEF Init
<1> QED BY <1>3, <1>4, <1>5 DEF Init, TypeOK

\* The rows, the wallets, the turn and every request in flight stay well formed
\* whatever the interleaving of the handlers of views_api.py and crud.py.
THEOREM TypeCorrect == Spec => []TypeOK
  BY InitTypeOK, TypeStep, PTL DEF Spec

-----------------------------------------------------------------------------
\* The indexes of the table after an INSERT and after an UPDATE.
LEMMA InsertedIndexes ==
    ASSUME TypeOK, NEW r \in Requests, JoinInsert(r)
    PROVE  PlayerIndexes' = PlayerIndexes \cup {req[r].player}
<1> DEFINE row == NewPlayer(req[r].player)
<1>1. row.player_index = req[r].player
  BY DEF NewPlayer
<1>2. players' = Append(players, row) /\ players \in Seq(PlayerRow)
  BY DEF JoinInsert, TypeOK
<1> HIDE DEF row
<1>3. /\ Len(players) \in Nat
      /\ DOMAIN players = 1 .. Len(players)
      /\ DOMAIN players' = 1 .. Len(players) + 1
      /\ \A i \in 1 .. Len(players) : players'[i] = players[i]
      /\ players'[Len(players) + 1] = row
  BY <1>2
<1>4. \A i \in DOMAIN players' : players'[i].player_index
                                    \in PlayerIndexes \cup {req[r].player}
  BY <1>1, <1>3 DEF PlayerIndexes
<1>5. \A i \in DOMAIN players : players[i].player_index \in PlayerIndexes'
  BY <1>3 DEF PlayerIndexes
<1>6. req[r].player \in PlayerIndexes'
  BY <1>1, <1>3 DEF PlayerIndexes
<1> QED BY <1>4, <1>5, <1>6 DEF PlayerIndexes

LEMMA ClearedIndexes ==
    ASSUME TypeOK, NEW p, NEW column \in Columns, players' = Cleared(p, column)
    PROVE  PlayerIndexes' = PlayerIndexes /\ ActiveRows' \subseteq ActiveRows
<1>1. /\ players' \in Seq(PlayerRow)
      /\ Len(players') = Len(players)
      /\ \A i \in DOMAIN players :
            /\ players'[i].player_index = players[i].player_index
            /\ players'[i].active => players[i].active
  BY ClearedRows DEF TypeOK
<1>2. DOMAIN players' = DOMAIN players
  BY <1>1 DEF TypeOK
<1> QED BY <1>1, <1>2 DEF PlayerIndexes, ActiveRows

\* The inductive invariant: what a request in flight already knows of the
\* tables stays true while other handlers run between its accesses, because no
\* handler deletes a row of players or changes its index.
Knows(q, indexes, running) ==
    /\ q.next \in indexes \cup {0}
    /\ q.pc \notin {"idle", "start_write"} => q.player # 0
    /\ q.pc = "join_wallet" => q.player \in indexes
    /\ q.pc \in {"start_write", "write_turn"} => q.next # 0
    /\ q.pc = "write_turn" => running

RosterInv ==
    /\ 0 \notin PlayerIndexes
    /\ TurnRegistered
    /\ WalletHasPlayer
    /\ \A r \in Requests : Knows(req[r], PlayerIndexes, started)

\* A step of one request that leaves the tables alone.
LEMMA RequestMoves ==
    ASSUME TypeOK, RosterInv, UNCHANGED <<wallets, started, turn>>,
           PlayerIndexes' = PlayerIndexes, NEW r \in Requests,
           \E q : /\ req' = [req EXCEPT ![r] = q]
                  /\ Knows(q, PlayerIndexes, started)
    PROVE  RosterInv'
<1>1. \A s \in Requests : Knows(req'[s], PlayerIndexes, started)
  BY DEF TypeOK, RosterInv
<1> QED BY <1>1 DEF RosterInv, TurnRegistered, WalletHasPlayer

LEMMA IdleKnows == ASSUME NEW indexes, NEW running PROVE Knows(Idle, indexes, running)
  BY DEF Knows, Idle

\* A request that goes on to pc with what it knows.
LEMMA GotoMoves ==
    ASSUME TypeOK, NEW r \in Requests, NEW pc, Goto(r, pc),
           Knows([req[r] EXCEPT !.pc = pc], PlayerIndexes, started)
    PROVE  \E q : /\ req' = [req EXCEPT ![r] = q]
                  /\ Knows(q, PlayerIndexes, started)
  BY DEF Goto

LEMMA RosterStep == TypeOK /\ RosterInv /\ [Next]_vars => RosterInv'
<1> SUFFICES ASSUME TypeOK, RosterInv, [Next]_vars PROVE RosterInv'
  OBVIOUS
<1> DEFINE Moves(r) == \E q : /\ req' = [req EXCEPT ![r] = q]
                              /\ Knows(q, PlayerIndexes, started)
<1>t. /\ req \in [Requests -> Request]
      /\ wallets \in [Clients -> Nat]
      /\ \A r \in Requests : /\ req[r] \in Request
                             /\ Knows(req[r], PlayerIndexes, started)
  BY DEF TypeOK, RosterInv
<1>p. (players' = players) => PlayerIndexes' = PlayerIndexes
  BY DEF PlayerIndexes
<1>d. ASSUME NEW r \in Requests, Done(r) PROVE Moves(r)
  BY <1>d, IdleKnows DEF Done
<1>0. CASE UNCHANGED vars
  BY <1>0, <1>p DEF vars, RosterInv, TurnRegistered, WalletHasPlayer
<1>1. ASSUME NEW r \in Requests, NEW c \in Clients, JoinCheck(r, c)
      PROVE  RosterInv'
  <2>1. NextIndex # 0
    BY ActiveRowsFinite DEF TypeOK, NextIndex
  <2> DEFINE new == [Idle EXCEPT !.pc = "join_insert", !.client = c,
                                 !.player = NextIndex]
  <2>2. Knows(new, PlayerIndexes, started)
    BY <2>1 DEF Idle, Knows
  <2>3. req' = [req EXCEPT ![r] = new]
    BY <1>1 DEF JoinCheck
  <2>4. Moves(r)
    BY <2>2, <2>3
  <2> QED BY <1>1, <1>p, <2>4, RequestMoves DEF JoinCheck
<1>2. ASSUME NEW r \in Requests, JoinInsert(r) PROVE RosterInv'
  <2>1. PlayerIndexes' = PlayerIndexes \cup {req[r].player}
    BY <1>2, InsertedIndexes
  <2>2. req[r].player # 0
    BY <1>2, <1>t DEF JoinInsert, Knows
  <2>3. Knows([req[r] EXCEPT !.pc = "join_wallet"], PlayerIndexes', started')
    BY <1>2, <1>t, <2>1 DEF JoinInsert, Knows, Request
  <2>4. req' = [req EXCEPT ![r] = [req[r] EXCEPT !.pc = "join_wallet"]]
    BY <1>2, <1>t DEF JoinInsert, Goto
  <2>5. \A s \in Requests : Knows(req[s], PlayerIndexes', started')
    BY <1>2, <1>t, <2>1 DEF JoinInsert, Knows
  <2>6. \A s \in Requests : Knows(req'[s], PlayerIndexes', started')
    BY <1>t, <2>3, <2>4, <2>5
  <2> QED BY <1>2, <2>1, <2>2, <2>6
          DEF JoinInsert, RosterInv, TurnRegistered, WalletHasPlayer
<1>3. ASSUME NEW r \in Requests, JoinWallet(r) PROVE RosterInv'
  <2>1. req[r].player \in PlayerIndexes
    BY <1>3, <1>t DEF JoinWallet, Knows
  <2>2. \A c \in Clients : wallets'[c] # 0 => wallets'[c] \in PlayerIndexes
    BY <1>3, <1>t, <2>1 DEF JoinWallet, RegisteredIndex, RosterInv, WalletHasPlayer
  <2>3. \A s \in Requests : Knows(req'[s], PlayerIndexes, started)
    BY <1>3, <1>t, IdleKnows DEF JoinWallet, Done
  <2> QED BY <1>3, <1>p, <2>2, <2>3
          DEF JoinWallet, RosterInv, TurnRegistered, WalletHasPlayer
<1>4. ASSUME NEW r \in Requests, NotifyFails(r) PROVE RosterInv'
  BY <1>4, <1>p, <1>d, RequestMoves DEF NotifyFails
<1>5. ASSUME NEW r \in Requests, StartRead(r) PROVE RosterInv'
  <2>1. PICK i \in ActiveRows :
          req' = [req EXCEPT ![r] = [Idle EXCEPT
                     !.pc = "start_write", !.next = players[i].player_index]]
    BY <1>5 DEF StartRead
  <2>2. players[i].player_index \in PlayerIndexes /\ players[i].player_index # 0
    BY DEF ActiveRows, PlayerIndexes, RosterInv
  <2> DEFINE new == [Idle EXCEPT !.pc = "start_write",
                                 !.next = players[i].player_index]
  <2>3. Knows(new, PlayerIndexes, started)
    BY <2>2 DEF Idle, Knows
  <2>4. Moves(r)
    BY <2>1, <2>3
  <2> QED BY <1>5, <1>p, <2>4, RequestMoves DEF StartRead
<1>6. ASSUME NEW r \in Requests, StartWrite(r) PROVE RosterInv'
  <2>1. req[r].next \in PlayerIndexes /\ req[r].next # 0
    BY <1>6, <1>t DEF StartWrite, Knows
  <2>2. \A s \in Requests : Knows(req'[s], PlayerIndexes, started')
    BY <1>6, <1>t, IdleKnows DEF StartWrite, Done, Knows
  <2> QED BY <1>6, <1>p, <2>1, <2>2
          DEF StartWrite, RosterInv, TurnRegistered, WalletHasPlayer
<1>7. ASSUME NEW r \in Requests, NEW p \in PlayerIndexes, NextAuth(r, p)
      PROVE  RosterInv'
  <2> DEFINE new == [Idle EXCEPT !.pc = "read_rows", !.player = p]
  <2>1. Knows(new, PlayerIndexes, started)
    BY DEF Idle, Knows, RosterInv
  <2>2. req' = [req EXCEPT ![r] = new]
    BY <1>7 DEF NextAuth
  <2>3. Moves(r)
    BY <2>1, <2>2
  <2> QED BY <1>7, <1>p, <2>3, RequestMoves DEF NextAuth
<1>8. ASSUME NEW r \in Requests, ReadRows(r) PROVE RosterInv'
  <2>1. PICK q \in NextTurns(req[r].player) :
          req' = [req EXCEPT ![r].pc = "read_turn", ![r].next = q]
    BY <1>8 DEF ReadRows
  <2>2. q \in PlayerIndexes \cup {0}
    BY NextTurnsRegistered DEF TypeOK
  <2> DEFINE new == [req[r] EXCEPT !.pc = "read_turn", !.next = q]
  <2>3. Knows(new, PlayerIndexes, started)
    BY <1>8, <1>t, <2>2 DEF ReadRows, Knows, Request
  <2>4. req' = [req EXCEPT ![r] = new]
    BY <1>t, <2>1
  <2>5. Moves(r)
    BY <2>3, <2>4
  <2> QED BY <1>8, <1>p, <2>5, RequestMoves DEF ReadRows
<1>9. ASSUME NEW r \in Requests, ReadTurn(r) PROVE RosterInv'
  <2>1. CASE MayPass(r)
    <3>1. Goto(r, "write_turn")
      BY <1>9, <2>1 DEF ReadTurn
    <3>2. started
      BY <1>9, <1>t, <2>1 DEF ReadTurn, MayPass, Knows, RosterInv, TurnRegistered
    <3>3. Knows([req[r] EXCEPT !.pc = "write_turn"], PlayerIndexes, started)
      BY <1>9, <1>t, <2>1, <3>2 DEF ReadTurn, MayPass, Knows, Request
    <3>4. Moves(r)
      BY <3>1, <3>3, GotoMoves
    <3> QED BY <1>9, <1>p, <3>4, RequestMoves DEF ReadTurn
  <2>2. CASE ~MayPass(r)
    BY <1>9, <1>p, <1>d, <2>2, RequestMoves DEF ReadTurn
  <2> QED BY <2>1, <2>2
<1>10. ASSUME NEW r \in Requests, WriteTurn(r) PROVE RosterInv'
  <2>1. req[r].next \in PlayerIndexes /\ req[r].next # 0 /\ started
    BY <1>10, <1>t DEF WriteTurn, Knows
  <2>2. Knows([req[r] EXCEPT !.pc = "reset_technology"], PlayerIndexes, started)
    BY <1>10, <1>t DEF WriteTurn, Knows, Request
  <2>3. \A s \in Requests : Knows(req'[s], PlayerIndexes, started)
    BY <1>10, <1>t, <2>2 DEF WriteTurn, Goto
  <2> QED BY <1>10, <1>p, <2>1, <2>3
          DEF WriteTurn, RosterInv, TurnRegistered, WalletHasPlayer
<1>11. ASSUME NEW r \in Requests, NEW column \in Columns, NEW pc, NEW pc2,
              ResetFlag(r, pc, column, pc2),
              pc \in {"reset_technology", "reset_black_swan", "reset_pow"},
              pc2 \in {"reset_black_swan", "reset_pow", "notify"}
       PROVE  RosterInv'
  <2>1. PlayerIndexes' = PlayerIndexes
    BY <1>11, ClearedIndexes DEF ResetFlag
  <2>2. Knows([req[r] EXCEPT !.pc = pc2], PlayerIndexes, started)
    BY <1>11, <1>t DEF ResetFlag, Knows, Request
  <2>3. Moves(r)
    BY <1>11, <2>2, GotoMoves DEF ResetFlag
  <2> QED BY <1>11, <2>1, <2>3, RequestMoves DEF ResetFlag
<1>12. ASSUME NEW r \in Requests,
              ResetTechnology(r) \/ ResetBlackSwan(r) \/ ResetPow(r)
       PROVE  RosterInv'
  <2>1. ASSUME ResetTechnology(r) PROVE RosterInv'
    BY <1>11, <2>1 DEF ResetTechnology, Columns
  <2>2. ASSUME ResetBlackSwan(r) PROVE RosterInv'
    BY <1>11, <2>2 DEF ResetBlackSwan, Columns
  <2>3. ASSUME ResetPow(r) PROVE RosterInv'
    BY <1>11, <2>3 DEF ResetPow, Columns
  <2> QED BY <1>12, <2>1, <2>2, <2>3
<1>13. ASSUME NEW r \in Requests, Notify(r) PROVE RosterInv'
  <2>1. CASE req[r].deactivating
    <3>1. Knows([req[r] EXCEPT !.pc = "deactivate"], PlayerIndexes, started)
      BY <1>13, <1>t DEF Notify, Knows, Request
    <3>2. Moves(r)
      BY <1>13, <2>1, <3>1, GotoMoves DEF Notify
    <3> QED BY <1>13, <1>p, <3>2, RequestMoves DEF Notify
  <2>2. CASE ~req[r].deactivating
    BY <1>13, <1>p, <1>d, <2>2, RequestMoves DEF Notify
  <2> QED BY <2>1, <2>2
<1>14. ASSUME NEW r \in Requests, NEW p \in PlayerIndexes, DeactivateRead(r, p)
       PROVE  RosterInv'
  <2> DEFINE new == [Idle EXCEPT
                        !.pc = IF MustPass(p) THEN "read_rows" ELSE "deactivate",
                        !.player = p, !.deactivating = TRUE]
  <2>1. Knows(new, PlayerIndexes, started)
    BY DEF Idle, Knows, RosterInv
  <2>2. req' = [req EXCEPT ![r] = new]
    BY <1>14 DEF DeactivateRead
  <2>3. Moves(r)
    BY <2>1, <2>2
  <2> QED BY <1>14, <1>p, <2>3, RequestMoves DEF DeactivateRead
<1>15. ASSUME NEW r \in Requests, DeactivateWrite(r) PROVE RosterInv'
  <2>1. PlayerIndexes' = PlayerIndexes
    BY <1>15, ClearedIndexes DEF DeactivateWrite, Columns
  <2> QED BY <1>15, <1>d, <2>1, RequestMoves DEF DeactivateWrite
<1> QED BY <1>0, <1>1, <1>2, <1>3, <1>4, <1>5, <1>6, <1>7, <1>8, <1>9, <1>10,
           <1>12, <1>13, <1>14, <1>15
        DEF Next, Arrive, Proceed

LEMMA RosterInvariant == Spec => []RosterInv
<1>1. Init => RosterInv
  <2> SUFFICES ASSUME Init PROVE RosterInv
    OBVIOUS
  <2>1. PlayerIndexes = {1}
    BY DEF Init, PlayerIndexes, NewPlayer
  <2> QED BY <2>1, IdleKnows DEF Init, RosterInv, TurnRegistered, WalletHasPlayer
<1> QED BY <1>1, RosterStep, TypeCorrect, PTL DEF Spec

\* No interleaving of start_game, next_player_turn and deactivate_player makes
\* games.player_turn an index that no row of players has.
THEOREM TurnAlwaysRegistered == Spec => []TurnRegistered
<1>1. RosterInv => TurnRegistered
  BY DEF RosterInv
<1> QED BY <1>1, RosterInvariant, PTL

\* An account that join_game registered as a player is in the players table.
THEOREM WalletsHavePlayers == Spec => []WalletHasPlayer
<1>1. RosterInv => WalletHasPlayer
  BY DEF RosterInv
<1> QED BY <1>1, RosterInvariant, PTL

-----------------------------------------------------------------------------
\* A step that adds no active player and no request about to insert one.
LEMMA NoOvershoot ==
    ASSUME TypeOK, OvershootBounded, IsFiniteSet(Joining),
           ActiveRows' \subseteq ActiveRows, Joining' \subseteq Joining,
           IsFiniteSet(ActiveRows)
    PROVE  OvershootBounded'
<1>1. /\ Cardinality(ActiveRows') <= Cardinality(ActiveRows)
      /\ Cardinality(Joining') <= Cardinality(Joining)
  BY FS_Subset
<1>2. /\ Cardinality(ActiveRows) \in Nat /\ Cardinality(Joining) \in Nat
      /\ Cardinality(ActiveRows') \in Nat /\ Cardinality(Joining') \in Nat
      /\ Cardinality(Requests) \in Nat
  BY FS_CardinalityType, FS_Subset, RequestsAssumption
<1> QED BY <1>1, <1>2, LimitsAssumption DEF OvershootBounded

LEMMA OvershootStep ==
    TypeOK /\ OvershootBounded /\ [Next]_vars => OvershootBounded'
<1> SUFFICES ASSUME TypeOK, OvershootBounded, [Next]_vars
             PROVE  OvershootBounded'
  OBVIOUS
<1>f. /\ IsFiniteSet(ActiveRows) /\ IsFiniteSet(Joining) /\ IsFiniteSet(Joining')
      /\ Cardinality(ActiveRows) \in Nat
      /\ Cardinality(Joining) \in Nat /\ Cardinality(Joining') \in Nat
      /\ Cardinality(Requests) \in Nat
      /\ Cardinality(Joining') <= Cardinality(Requests)
  <2>1. Joining \subseteq Requests /\ Joining' \subseteq Requests
    BY DEF Joining
  <2> QED BY <2>1, ActiveRowsFinite, RequestsAssumption, FS_Subset,
             FS_CardinalityType DEF TypeOK
<1>r. req \in [Requests -> Request]
  BY DEF TypeOK
<1>p. (players' = players) => ActiveRows' = ActiveRows
  BY DEF ActiveRows
<1>1. ASSUME NEW r \in Requests, NEW c \in Clients, JoinCheck(r, c)
      PROVE  OvershootBounded'
  <2>1. Cardinality(ActiveRows) < MaxPlayers /\ ActiveRows' = ActiveRows
    BY <1>1, <1>p DEF JoinCheck, RoomLeft
  <2> QED BY <2>1, <1>f, LimitsAssumption DEF OvershootBounded
<1>2. ASSUME NEW r \in Requests, JoinInsert(r) PROVE OvershootBounded'
  <2> DEFINE n == Len(players) + 1
  <2>1. ActiveRows' = ActiveRows \cup {n} /\ n \notin ActiveRows
    <3> DEFINE row == NewPlayer(req[r].player)
    <3>1. row.active
      BY DEF NewPlayer
    <3>2. players' = Append(players, row) /\ players \in Seq(PlayerRow)
      BY <1>2 DEF JoinInsert, TypeOK
    <3> HIDE DEF row
    <3>3. /\ Len(players) \in Nat
          /\ DOMAIN players = 1 .. Len(players)
          /\ DOMAIN players' = 1 .. n
          /\ \A i \in 1 .. Len(players) : players'[i] = players[i]
          /\ players'[n] = row
      BY <3>2
    <3> QED BY <3>1, <3>3 DEF ActiveRows
  <2>2. Joining' = Joining \ {r} /\ r \in Joining
    BY <1>2, <1>r DEF JoinInsert, Joining, Goto
  <2>3. Cardinality(ActiveRows') = Cardinality(ActiveRows) + 1
    BY <2>1, <1>f, FS_AddElement
  <2>4. Cardinality(Joining') = Cardinality(Joining) - 1
    BY <2>2, <1>f, FS_RemoveElement
  <2> QED BY <2>3, <2>4, <1>f, LimitsAssumption DEF OvershootBounded
<1>3. ASSUME NEW r \in Requests, NEW column \in Columns, NEW p,
             players' = Cleared(p, column), Joining' \subseteq Joining
      PROVE  OvershootBounded'
  BY <1>3, <1>f, ClearedIndexes, NoOvershoot
<1>4. ASSUME players' = players, Joining' \subseteq Joining
      PROVE  OvershootBounded'
  BY <1>4, <1>f, <1>p, NoOvershoot
<1>5. ASSUME UNCHANGED vars PROVE OvershootBounded'
  BY <1>4, <1>5 DEF vars, Joining
<1>6. ASSUME NEW r \in Requests,
             \/ JoinWallet(r) \/ NotifyFails(r) \/ StartRead(r) \/ StartWrite(r)
             \/ ReadRows(r) \/ ReadTurn(r) \/ WriteTurn(r) \/ Notify(r)
             \/ \E p \in PlayerIndexes : NextAuth(r, p) \/ DeactivateRead(r, p)
      PROVE  OvershootBounded'
  <2>1. players' = players
    BY <1>6 DEF JoinWallet, NotifyFails, StartRead, StartWrite, ReadRows,
                ReadTurn, WriteTurn, Notify, NextAuth, DeactivateRead
  <2> DEFINE Moves == \E q : req' = [req EXCEPT ![r] = q] /\ q.pc # "join_insert"
  <2>2. Moves
    <3>1. ASSUME NEW pc, pc # "join_insert", Goto(r, pc) PROVE Moves
      <4>1. [req[r] EXCEPT !.pc = pc].pc # "join_insert"
        BY <3>1, <1>r DEF Request
      <4> QED BY <3>1, <4>1 DEF Goto
    <3>2. ASSUME Done(r) PROVE Moves
      <4>1. Idle.pc # "join_insert"
        BY DEF Idle
      <4> QED BY <3>2, <4>1 DEF Done
    <3>3. CASE JoinWallet(r) \/ NotifyFails(r) \/ StartWrite(r)
      BY <3>2, <3>3 DEF JoinWallet, NotifyFails, StartWrite
    <3>4. CASE StartRead(r)
      <4>1. PICK i \in ActiveRows :
              req' = [req EXCEPT ![r] = [Idle EXCEPT
                         !.pc = "start_write", !.next = players[i].player_index]]
        BY <3>4 DEF StartRead
      <4> DEFINE new == [Idle EXCEPT !.pc = "start_write",
                                     !.next = players[i].player_index]
      <4>2. new.pc # "join_insert"
        BY DEF Idle
      <4> QED BY <4>1, <4>2
    <3>5. CASE ReadRows(r)
      <4>1. PICK t \in NextTurns(req[r].player) :
              req' = [req EXCEPT ![r].pc = "read_turn", ![r].next = t]
        BY <3>5 DEF ReadRows
      <4> DEFINE new == [req[r] EXCEPT !.pc = "read_turn", !.next = t]
      <4>2. new.pc # "join_insert"
        BY <1>r DEF Request
      <4>3. req' = [req EXCEPT ![r] = new]
        BY <4>1, <1>r
      <4> QED BY <4>2, <4>3
    <3>6. CASE ReadTurn(r)
      BY <3>1, <3>2, <3>6 DEF ReadTurn
    <3>7. CASE WriteTurn(r)
      BY <3>1, <3>7 DEF WriteTurn
    <3>8. CASE Notify(r)
      BY <3>1, <3>2, <3>8 DEF Notify
    <3>9. ASSUME NEW p \in PlayerIndexes, NextAuth(r, p) PROVE Moves
      <4> DEFINE new == [Idle EXCEPT !.pc = "read_rows", !.player = p]
      <4>1. new.pc # "join_insert"
        BY DEF Idle
      <4>2. req' = [req EXCEPT ![r] = new]
        BY <3>9 DEF NextAuth
      <4> QED BY <4>1, <4>2
    <3>10. ASSUME NEW p \in PlayerIndexes, DeactivateRead(r, p) PROVE Moves
      <4> DEFINE new == [Idle EXCEPT
                            !.pc = IF MustPass(p) THEN "read_rows" ELSE "deactivate",
                            !.player = p, !.deactivating = TRUE]
      <4>1. new.pc # "join_insert"
        BY DEF Idle
      <4>2. req' = [req EXCEPT ![r] = new]
        BY <3>10 DEF DeactivateRead
      <4> QED BY <4>1, <4>2
    <3> QED BY <1>6, <3>3, <3>4, <3>5, <3>6, <3>7, <3>8, <3>9, <3>10
  <2>3. Joining' \subseteq Joining
    BY <2>2, <1>r DEF Joining
  <2> QED BY <1>4, <2>1, <2>3
<1>7. ASSUME NEW r \in Requests,
             \/ ResetTechnology(r) \/ ResetBlackSwan(r) \/ ResetPow(r)
             \/ DeactivateWrite(r)
      PROVE  OvershootBounded'
  <2>1. PICK p \in {req[r].player, req[r].next}, column \in Columns :
          players' = Cleared(p, column)
    <3>1. CASE ResetTechnology(r)
      BY <3>1 DEF ResetTechnology, ResetFlag, Columns
    <3>2. CASE ResetBlackSwan(r)
      BY <3>2 DEF ResetBlackSwan, ResetFlag, Columns
    <3>3. CASE ResetPow(r)
      BY <3>3 DEF ResetPow, ResetFlag, Columns
    <3>4. CASE DeactivateWrite(r)
      BY <3>4 DEF DeactivateWrite, Columns
    <3> QED BY <1>7, <3>1, <3>2, <3>3, <3>4
  <2>2. Joining' \subseteq Joining
    <3>1. PICK pc \in {"reset_black_swan", "reset_pow", "notify"} :
            Goto(r, pc) \/ Done(r)
      BY <1>7 DEF ResetTechnology, ResetBlackSwan, ResetPow, ResetFlag,
                  DeactivateWrite
    <3> QED BY <3>1, <1>r DEF Joining, Goto, Done, Idle, Request
  <2> QED BY <1>3, <2>1, <2>2
<1> QED BY <1>1, <1>2, <1>5, <1>6, <1>7 DEF Next, Arrive, Proceed

\* However join requests overlap, the active players exceed max_players_count
\* by fewer than the requests in flight: the count that join_game checks before
\* it inserts is stale by at most one row per other request.
THEOREM JoinsBounded == Spec => []OvershootBounded
<1>1. Init => OvershootBounded
  <2> SUFFICES ASSUME Init PROVE OvershootBounded
    OBVIOUS
  <2>1. ActiveRows = {1}
    BY DEF Init, ActiveRows, NewPlayer
  <2>2. Joining = {}
    BY DEF Init, Joining, Idle
  <2>3. Cardinality({1}) = 1 /\ Cardinality({}) = 0
    BY FS_Singleton, FS_EmptySet
  <2>4. Cardinality(Requests) \in Nat /\ Cardinality(Requests) # 0
    BY RequestsAssumption, FS_CardinalityType, FS_EmptySet
  <2>5. Cardinality(ActiveRows) = 1 /\ Cardinality(Joining) = 0
    BY <2>1, <2>2, <2>3
  <2> QED BY <2>4, <2>5, LimitsAssumption DEF OvershootBounded
<1> QED BY <1>1, OvershootStep, TypeCorrect, PTL DEF Spec

-----------------------------------------------------------------------------
\* The requests are served one after the other, in an orderly lobby.
Serial == OrderlyLobby /\ \A r, s \in Requests : r = s

\* The rows: a player's index is the row's position, the creator stays, and in a started
\* game the turn is with an active player.
RowsInv ==
    /\ \A i \in DOMAIN players : players[i].player_index = i
    /\ 1 \in ActiveRows
    /\ ~started => ActiveRows = DOMAIN players
    /\ IF started THEN turn \in ActiveRows ELSE turn = 0
    /\ \A c \in Clients : wallets[c] \in DOMAIN players \cup {0}
    /\ IndexHasOneWallet

\* What the request being served has read is what it would read again.
JoinsWell(q) ==
    /\ ~started /\ q.client \in Clients /\ wallets[q.client] = 0
    /\ IF q.pc = "join_insert"
       THEN q.player = Len(players) + 1 /\ RoomLeft
       ELSE q.player = Len(players) /\ \A c \in Clients : wallets[c] # q.player

PassesWell(q) ==
    /\ q.deactivating => started /\ q.player # 1
    /\ q.pc \in {"read_rows", "read_turn"} /\ q.deactivating => turn = q.player
    /\ q.pc = "read_turn" /\ q.deactivating => q.next # 0
    /\ q.pc \in {"read_turn", "write_turn"} /\ q.next # 0 =>
          q.player \in ActiveRows /\ RowAfter(q.player, q.next)
    /\ q.pc = "write_turn" => started /\ turn = q.player /\ q.next # 0
    /\ q.pc \in TurnPCs \ {"read_rows", "read_turn", "write_turn"} =>
          started /\ turn = q.next /\ (q.deactivating => q.next # q.player)
    /\ q.pc = "deactivate" => q.deactivating /\ turn # q.player

ServedWell(q) ==
    /\ q.pc \in JoinPCs => JoinsWell(q)
    /\ q.pc = "start_write" => ~started /\ q.next \in ActiveRows
    /\ q.pc \in TurnPCs \cup {"deactivate"} => PassesWell(q)

\* Every player's account is registered, but for the one who is just joining.
AllRegistered ==
    \A i \in DOMAIN players :
        \/ \E c \in Clients : wallets[c] = i
        \/ \E r \in Requests : req[r].pc = "join_wallet" /\ req[r].player = i

SerialInv == /\ RowsInv
             /\ \A r \in Requests : ServedWell(req[r])
             /\ ~NotifyMayFail => AllRegistered

\* The table as the handlers see it: where the rows are, and which are active.
LEMMA SameRows ==
    ASSUME TypeOK, TypeOK', RowsInv, UNCHANGED <<wallets, started, turn>>,
           DOMAIN players' = DOMAIN players,
           \A i \in DOMAIN players : /\ players'[i].player_index = players[i].player_index
                                     /\ players'[i].active <=> players[i].active
    PROVE  /\ RowsInv' /\ ActiveRows' = ActiveRows /\ Len(players') = Len(players)
           /\ \A q : ServedWell(q) => ServedWell(q)'
<1>1. ActiveRows' = ActiveRows
  BY DEF ActiveRows
<1>2. Len(players') = Len(players)
  BY DEF TypeOK
<1>3. \A i, j : RowAfter(i, j)' <=> RowAfter(i, j)
  BY <1>1 DEF RowAfter
<1>4. RowsInv'
  BY <1>1 DEF RowsInv, IndexHasOneWallet
<1>5. ASSUME NEW q, ServedWell(q) PROVE ServedWell(q)'
  BY <1>1, <1>2, <1>3, <1>5 DEF ServedWell, JoinsWell, PassesWell, RoomLeft
<1> QED BY <1>1, <1>2, <1>4, <1>5

\* One request is served.
LEMMA Served ==
    ASSUME Serial, TypeOK, NEW r \in Requests, NEW q, req' = [req EXCEPT ![r] = q],
           ServedWell(q)'
    PROVE  \A s \in Requests : req'[s] = q /\ ServedWell(req[s])'
<1>1. \A s \in Requests : req'[s] = q
  BY DEF Serial, TypeOK
<1>2. ASSUME NEW s \in Requests PROVE ServedWell(req[s])'
  BY <1>1 DEF ServedWell, JoinsWell, PassesWell
<1> QED BY <1>1, <1>2

\* Positions and indexes.
LEMMA RowPositions ==
    ASSUME TypeOK, RowsInv
    PROVE  /\ DOMAIN players = 1 .. Len(players) /\ Len(players) \in Nat
           /\ ActiveRows \subseteq DOMAIN players /\ PlayerIndexes = DOMAIN players
           /\ 0 \notin DOMAIN players
<1>1. DOMAIN players = 1 .. Len(players) /\ Len(players) \in Nat
  BY DEF TypeOK
<1>2. ActiveRows \subseteq DOMAIN players
  BY DEF ActiveRows
<1>3. PlayerIndexes = DOMAIN players
  BY DEF PlayerIndexes, RowsInv
<1> QED BY <1>1, <1>2, <1>3

\* The player whose turn is next, seen from an active one.
LEMMA NextRow ==
    ASSUME TypeOK, RowsInv, NEW p, NEW q \in NextTurns(p)
    PROVE  /\ q # 0 => p \in ActiveRows /\ RowAfter(p, q)
           /\ p \in ActiveRows => q # 0
<1> DEFINE found == {i \in ActiveRows : FirstActiveRowOf(p, i)}
<1>1. \A i \in ActiveRows : players[i].player_index = i /\ i # 0 /\ i \in Nat
  BY RowPositions DEF RowsInv
<1>2. \A i \in found : i = p /\ p \in ActiveRows
  BY <1>1 DEF FirstActiveRowOf
<1>3. p \in ActiveRows => p \in found
  <2>1. ASSUME p \in ActiveRows, NEW k \in ActiveRows, k < p PROVE players[k].player_index # p
    BY <1>1, <2>1
  <2> QED BY <1>1, <2>1 DEF FirstActiveRowOf
<1>4. CASE found = {}
  BY <1>3, <1>4 DEF NextTurns
<1>5. CASE found # {}
  <2>1. PICK j \in ActiveRows : (\E i \in found : RowAfter(i, j)) /\ q = players[j].player_index
    BY <1>5 DEF NextTurns
  <2> QED BY <1>1, <1>2, <2>1
<1> QED BY <1>4, <1>5

\* The next row is another one, unless the only active row is the first.
LEMMA OtherRow ==
    ASSUME TypeOK, RowsInv, NEW i, NEW j, RowAfter(i, j), i \in ActiveRows, i # 1
    PROVE  j # i /\ j \in ActiveRows
<1>1. i \in Nat /\ j \in Nat /\ i > 1 /\ j \in ActiveRows /\ 1 \in ActiveRows
  BY RowPositions DEF RowAfter, RowsInv
<1>2. CASE j > i
  BY <1>1, <1>2
<1>3. CASE \A k \in ActiveRows : j <= k
  BY <1>1, <1>3
<1> QED BY <1>1, <1>2, <1>3 DEF RowAfter

\* A request that has been answered knows nothing.
LEMMA IdleServed == ServedWell(Idle) /\ ServedWell(Idle)'
  BY DEF ServedWell, Idle, JoinPCs, TurnPCs

\* A step of the request that leaves the table as the handlers see it.
LEMMA SerialMoves ==
    ASSUME Serial, TypeOK, TypeOK', SerialInv, UNCHANGED <<wallets, started, turn>>,
           DOMAIN players' = DOMAIN players,
           \A i \in DOMAIN players : /\ players'[i].player_index = players[i].player_index
                                     /\ players'[i].active <=> players[i].active,
           NEW r \in Requests, req[r].pc = "join_wallet" => NotifyMayFail,
           \E q : req' = [req EXCEPT ![r] = q] /\ ServedWell(q)
    PROVE  SerialInv'
<1>1. PICK q : req' = [req EXCEPT ![r] = q] /\ ServedWell(q)
  OBVIOUS
<1>2. RowsInv' /\ ServedWell(q)'
  BY <1>1, SameRows DEF SerialInv
<1>3. \A s \in Requests : ServedWell(req[s])'
  BY <1>1, <1>2, Served
<1>4. ASSUME ~NotifyMayFail PROVE AllRegistered'
  <2>1. \A s \in Requests : req[s].pc # "join_wallet"
    BY <1>4 DEF Serial
  <2>2. \A i \in DOMAIN players : \E c \in Clients : wallets[c] = i
    BY <1>4, <2>1 DEF SerialInv, AllRegistered
  <2> QED BY <2>2 DEF AllRegistered
<1> QED BY <1>2, <1>3, <1>4 DEF SerialInv

\* A new player, the next one.
LEMMA JoinSerial ==
    ASSUME Serial, TypeOK, TypeOK', SerialInv, NEW r \in Requests, JoinInsert(r)
    PROVE  /\ SerialInv'
           /\ ~started /\ req[r].player = Len(players) + 1 /\ RoomLeft
           /\ ActiveRows = 1 .. Len(players)
           /\ players' = Append(players, NewPlayer(Len(players) + 1))
<1> DEFINE n == Len(players) + 1
           row == NewPlayer(n)
           q == [req[r] EXCEPT !.pc = "join_wallet"]
<1>1. RowsInv /\ JoinsWell(req[r]) /\ req[r] \in Request /\ req[r].pc = "join_insert"
  BY DEF JoinInsert, SerialInv, ServedWell, JoinPCs, TypeOK
<1>2. /\ ~started /\ req[r].player = n /\ RoomLeft /\ req[r].client \in Clients
      /\ wallets[req[r].client] = 0
  BY <1>1 DEF JoinsWell
<1>3. /\ players' = Append(players, row) /\ players \in Seq(PlayerRow)
      /\ req' = [req EXCEPT ![r] = q] /\ UNCHANGED <<wallets, started, turn>>
  BY <1>2 DEF JoinInsert, Goto, TypeOK
<1>4. row.player_index = n /\ row.active
  BY DEF NewPlayer
<1>5. q.pc = "join_wallet" /\ q.player = n /\ q.client = req[r].client
  BY <1>1, <1>2 DEF Request
<1> HIDE DEF row, q
<1>6. /\ Len(players) \in Nat /\ DOMAIN players = 1 .. Len(players)
      /\ Len(players') = n /\ DOMAIN players' = 1 .. n
      /\ \A i \in 1 .. Len(players) : players'[i] = players[i]
      /\ players'[n] = row
  BY <1>3
<1>7. ActiveRows = 1 .. Len(players)
  BY <1>1, <1>2, <1>6 DEF RowsInv
<1>8. ActiveRows' = 1 .. n
  BY <1>4, <1>6, <1>7 DEF ActiveRows
<1>9. RowsInv'
  <2>1. \A i \in DOMAIN players' : players'[i].player_index = i
    BY <1>1, <1>4, <1>6 DEF RowsInv
  <2>2. 1 \in ActiveRows' /\ \A c \in Clients : wallets'[c] \in DOMAIN players' \cup {0}
    BY <1>1, <1>3, <1>6, <1>8 DEF RowsInv
  <2>3. ~started' /\ turn' = 0 /\ ActiveRows' = DOMAIN players'
    BY <1>1, <1>2, <1>3, <1>6, <1>8 DEF RowsInv
  <2>4. IndexHasOneWallet'
    BY <1>1, <1>3 DEF RowsInv, IndexHasOneWallet
  <2> QED BY <2>1, <2>2, <2>3, <2>4 DEF RowsInv
<1>10. ASSUME NEW c \in Clients PROVE wallets[c] # n
  <2>1. wallets[c] \in 1 .. Len(players) \cup {0}
    BY <1>1, <1>6 DEF RowsInv
  <2> QED BY <1>6, <2>1
<1>11. \A s \in Requests : req'[s] = q /\ ServedWell(req[s])'
  <2>1. ASSUME NEW x, x = q PROVE ServedWell(x)'
    BY <1>2, <1>3, <1>5, <1>6, <1>10, <2>1 DEF ServedWell, JoinsWell, JoinPCs, TurnPCs
  <2> QED BY <1>3, <2>1, Served
<1>12. ASSUME ~NotifyMayFail PROVE AllRegistered'
  <2>1. \A i \in DOMAIN players : \E c \in Clients : wallets[c] = i
    BY <1>1, <1>12 DEF SerialInv, AllRegistered, Serial
  <2>2. \A i \in DOMAIN players' : i \in DOMAIN players \/ i = n
    BY <1>6
  <2>3. req'[r].pc = "join_wallet" /\ req'[r].player = n
    BY <1>5, <1>11
  <2> QED BY <1>3, <2>1, <2>2, <2>3 DEF AllRegistered
<1>13. SerialInv'
  BY <1>9, <1>11, <1>12 DEF SerialInv
<1> QED BY <1>2, <1>3, <1>7, <1>13 DEF row

\* The account of the new player.
LEMMA RegisterSerial ==
    ASSUME Serial, TypeOK, TypeOK', SerialInv, NEW r \in Requests, JoinWallet(r)
    PROVE  SerialInv'
<1> DEFINE b == req[r].client
           n == req[r].player
<1>1. /\ RowsInv /\ ~started /\ b \in Clients /\ wallets[b] = 0
      /\ n = Len(players) /\ \A c \in Clients : wallets[c] # n
  BY DEF JoinWallet, SerialInv, ServedWell, JoinsWell, JoinPCs
<1>2. /\ wallets' = [wallets EXCEPT ![b] = n] /\ UNCHANGED <<players, started, turn>>
      /\ req' = [req EXCEPT ![r] = Idle] /\ wallets \in [Clients -> Nat]
  BY <1>1 DEF JoinWallet, Done, RegisteredIndex, TypeOK
<1>3. n \in DOMAIN players
  BY <1>1, RowPositions DEF RowsInv
<1>4. wallets'[b] = n /\ \A c \in Clients \ {b} : wallets'[c] = wallets[c]
  BY <1>1, <1>2
<1>5. RowsInv'
  <2>1. IndexHasOneWallet'
    BY <1>1, <1>4 DEF RowsInv, IndexHasOneWallet
  <2>2. ActiveRows' = ActiveRows
    BY <1>2 DEF ActiveRows
  <2> QED BY <1>1, <1>2, <1>3, <1>4, <2>1, <2>2 DEF RowsInv
<1>6. \A s \in Requests : ServedWell(req[s])'
  BY <1>2, IdleServed, Served
<1>7. ASSUME ~NotifyMayFail PROVE AllRegistered'
  <2>1. ASSUME NEW i \in DOMAIN players, \A c \in Clients : wallets[c] # i PROVE i = n
    BY <1>7, <2>1 DEF SerialInv, AllRegistered, Serial
  <2>2. \A i \in DOMAIN players : \E c \in Clients : wallets'[c] = i
    BY <1>1, <1>3, <1>4, <2>1, RowPositions
  <2> QED BY <1>2, <2>2 DEF AllRegistered
<1> QED BY <1>5, <1>6, <1>7 DEF SerialInv

\* The turn is written: at the start, or passed on.
LEMMA TurnSerial ==
    ASSUME Serial, TypeOK, TypeOK', SerialInv, NEW r \in Requests, StartWrite(r) \/ WriteTurn(r)
    PROVE  SerialInv'
<1>1. /\ RowsInv /\ ServedWell(req[r]) /\ req[r] \in Request
      /\ req[r].pc \notin {"join_wallet", "idle"}
  BY DEF SerialInv, TypeOK, StartWrite, WriteTurn
<1>2. /\ UNCHANGED <<players, wallets>> /\ started' /\ turn' = req[r].next
      /\ req[r].next \in ActiveRows
      /\ StartWrite(r) \/ (started /\ req[r].deactivating => req[r].next # req[r].player)
  <2>1. CASE StartWrite(r)
    BY <1>1, <2>1 DEF StartWrite, ServedWell
  <2>2. CASE WriteTurn(r)
    <3>1. PassesWell(req[r])
      BY <1>1, <2>2 DEF WriteTurn, ServedWell, TurnPCs
    <3>2. started /\ req[r].next # 0
      BY <2>2, <3>1 DEF WriteTurn, PassesWell
    <3>3. req[r].player \in ActiveRows /\ RowAfter(req[r].player, req[r].next)
      BY <2>2, <3>1, <3>2 DEF WriteTurn, PassesWell
    <3>4. req[r].next \in ActiveRows
      BY <3>3 DEF RowAfter
    <3>5. req[r].deactivating => req[r].next # req[r].player
      BY <1>1, <3>1, <3>3, OtherRow DEF PassesWell
    <3> QED BY <2>2, <3>2, <3>4, <3>5 DEF WriteTurn
  <2> QED BY <2>1, <2>2
<1>3. RowsInv'
  <2>1. ActiveRows' = ActiveRows
    BY <1>2 DEF ActiveRows
  <2> QED BY <1>1, <1>2, <2>1 DEF RowsInv, IndexHasOneWallet
<1>4. \A s \in Requests : ServedWell(req[s])'
  <2>1. CASE StartWrite(r)
    BY <2>1, IdleServed, Served DEF StartWrite, Done
  <2>2. CASE WriteTurn(r)
    <3>1. PassesWell(req[r])
      BY <1>1, <2>2 DEF WriteTurn, ServedWell, TurnPCs
    <3> DEFINE q == [req[r] EXCEPT !.pc = "reset_technology"]
    <3>2. /\ q.pc = "reset_technology" /\ q.next = req[r].next /\ q.player = req[r].player
          /\ q.deactivating = req[r].deactivating /\ req' = [req EXCEPT ![r] = q]
      BY <1>1, <2>2 DEF WriteTurn, Goto, Request
    <3> HIDE DEF q
    <3>3. q.deactivating => q.player # 1 /\ q.next # q.player
      BY <1>1, <1>2, <2>2, <3>1, <3>2 DEF PassesWell, StartWrite, WriteTurn
    <3>4. ASSUME NEW x, x = q PROVE ServedWell(x)'
      BY <1>2, <3>2, <3>3, <3>4 DEF ServedWell, PassesWell, JoinPCs
    <3> QED BY <3>2, <3>4, Served
  <2> QED BY <2>1, <2>2
<1>5. ASSUME ~NotifyMayFail PROVE AllRegistered'
  <2>1. \A i \in DOMAIN players : \E c \in Clients : wallets[c] = i
    BY <1>1, <1>5 DEF SerialInv, AllRegistered, Serial
  <2> QED BY <1>2, <2>1 DEF AllRegistered
<1> QED BY <1>3, <1>4, <1>5 DEF SerialInv

\* A player other than the creator leaves, who does not hold the turn.
LEMMA DeactivateSerial ==
    ASSUME Serial, TypeOK, TypeOK', SerialInv, NEW r \in Requests, DeactivateWrite(r)
    PROVE  /\ SerialInv'
           /\ started /\ turn # req[r].player
           /\ \A i \in DOMAIN players :
                 players'[i] = IF i = req[r].player THEN [players[i] EXCEPT !.active = FALSE]
                               ELSE players[i]
           /\ DOMAIN players' = DOMAIN players
<1> DEFINE p == req[r].player
<1>1. RowsInv /\ PassesWell(req[r]) /\ req[r].pc = "deactivate"
  BY DEF SerialInv, DeactivateWrite, ServedWell
<1>2. started /\ p # 1 /\ turn # p
  BY <1>1 DEF PassesWell
<1>3. /\ UNCHANGED <<wallets, started, turn>> /\ req' = [req EXCEPT ![r] = Idle]
      /\ players' = Cleared(p, "active")
  BY DEF DeactivateWrite, Done
<1>4. /\ DOMAIN players' = DOMAIN players
      /\ \A i \in DOMAIN players :
            players'[i] = IF i = p THEN [players[i] EXCEPT !.active = FALSE] ELSE players[i]
  BY <1>1, <1>3 DEF Cleared, RowsInv
<1>5. \A i \in DOMAIN players : players[i] \in PlayerRow
  BY DEF TypeOK
<1>6. \A i \in DOMAIN players : /\ players'[i].player_index = i
                                /\ players'[i].active <=> players[i].active /\ i # p
  BY <1>1, <1>4, <1>5 DEF RowsInv, PlayerRow
<1>7. RowsInv'
  <2>1. ActiveRows' = ActiveRows \ {p}
    BY <1>4, <1>6 DEF ActiveRows
  <2> QED BY <1>1, <1>2, <1>3, <1>4, <1>6, <2>1 DEF RowsInv, IndexHasOneWallet
<1>8. \A s \in Requests : ServedWell(req[s])'
  BY <1>3, IdleServed, Served
<1>9. ASSUME ~NotifyMayFail PROVE AllRegistered'
  <2>1. \A i \in DOMAIN players : \E c \in Clients : wallets[c] = i
    BY <1>1, <1>9 DEF SerialInv, AllRegistered, Serial
  <2> QED BY <1>3, <1>4, <2>1 DEF AllRegistered
<1> QED BY <1>2, <1>4, <1>7, <1>8, <1>9 DEF SerialInv

\* One of the three flags is cleared: the handlers see the same table.
LEMMA FlagsUnseen ==
    ASSUME players \in Seq(PlayerRow), NEW p, NEW column \in Columns \ {"active"},
           players' = Cleared(p, column)
    PROVE  /\ DOMAIN players' = DOMAIN players
           /\ \A i \in DOMAIN players : /\ players'[i].player_index = players[i].player_index
                                        /\ players'[i].active <=> players[i].active
<1>1. DOMAIN players' = DOMAIN players
  BY DEF Cleared
<1>2. ASSUME NEW i \in DOMAIN players
      PROVE  players'[i].player_index = players[i].player_index
             /\ (players'[i].active <=> players[i].active)
  <2>1. players[i] \in PlayerRow
    OBVIOUS
  <2>2. players'[i] = IF players[i].player_index = p
                      THEN [players[i] EXCEPT ![column] = FALSE] ELSE players[i]
    BY DEF Cleared
  <2> QED BY <2>1, <2>2 DEF PlayerRow, Columns
<1> QED BY <1>1, <1>2

\* The check of a joining request counts the rows, which are all active.
LEMMA CheckSerial ==
    ASSUME TypeOK, RowsInv, OrderlyLobby, NEW r \in Requests, NEW c \in Clients,
           JoinCheck(r, c)
    PROVE  \E q : req' = [req EXCEPT ![r] = q] /\ ServedWell(q)
<1> DEFINE q == [Idle EXCEPT !.pc = "join_insert", !.client = c, !.player = NextIndex]
<1>1. ~started /\ wallets[c] = 0 /\ RoomLeft /\ req' = [req EXCEPT ![r] = q]
  BY DEF JoinCheck
<1>2. ActiveRows = 1 .. Len(players) /\ Len(players) \in Nat
  BY <1>1, RowPositions DEF RowsInv
<1>3. NextIndex = Len(players) + 1
  BY <1>2, FS_Interval DEF NextIndex
<1>4. q.pc = "join_insert" /\ q.client = c /\ q.player = Len(players) + 1
  BY <1>3 DEF Idle
<1> HIDE DEF q
<1>5. ServedWell(q)
  BY <1>1, <1>4 DEF ServedWell, JoinsWell, JoinPCs, TurnPCs
<1> QED BY <1>1, <1>5

\* A request goes on, or ends, without touching the tables.
LEMMA PassSerial ==
    ASSUME TypeOK, SerialInv, NEW r \in Requests,
           ReadRows(r) \/ ReadTurn(r) \/ Notify(r)
    PROVE  \E q : req' = [req EXCEPT ![r] = q] /\ ServedWell(q)
<1> DEFINE me == req[r]
<1>1. RowsInv /\ PassesWell(me) /\ me \in Request
  BY DEF SerialInv, ReadRows, ReadTurn, Notify, ServedWell, TurnPCs, TypeOK
<1>2. CASE ReadRows(r)
  <2>1. PICK n \in NextTurns(me.player) :
          req' = [req EXCEPT ![r].pc = "read_turn", ![r].next = n]
    BY <1>2 DEF ReadRows
  <2> DEFINE q == [me EXCEPT !.pc = "read_turn", !.next = n]
  <2>2. req' = [req EXCEPT ![r] = q]
    BY <2>1 DEF TypeOK
  <2>3. /\ q.pc = "read_turn" /\ q.next = n /\ q.player = me.player
        /\ q.deactivating = me.deactivating
    BY <1>1 DEF Request
  <2>4. me.deactivating => started /\ me.player # 1 /\ turn = me.player
    BY <1>1, <1>2 DEF PassesWell, ReadRows
  <2>5. /\ n # 0 => me.player \in ActiveRows /\ RowAfter(me.player, n)
        /\ me.player \in ActiveRows => n # 0
    BY <1>1, NextRow
  <2>6. me.deactivating => n # 0
    BY <1>1, <2>4, <2>5 DEF RowsInv
  <2> HIDE DEF q
  <2>7. ServedWell(q)
    BY <2>3, <2>4, <2>5, <2>6 DEF ServedWell, PassesWell, JoinPCs, TurnPCs
  <2> QED BY <2>2, <2>7
<1>3. CASE ReadTurn(r) /\ ~MayPass(r)
  BY <1>3, IdleServed DEF ReadTurn, Done
<1>4. CASE ReadTurn(r) /\ MayPass(r)
  <2> DEFINE q == [me EXCEPT !.pc = "write_turn"]
  <2>1. req' = [req EXCEPT ![r] = q] /\ me.pc = "read_turn" /\ turn = me.player /\ me.next # 0
    BY <1>4 DEF ReadTurn, Goto, TypeOK, MayPass
  <2>2. /\ q.pc = "write_turn" /\ q.next = me.next /\ q.player = me.player
        /\ q.deactivating = me.deactivating
    BY <1>1 DEF Request
  <2>3. me.player \in ActiveRows /\ RowAfter(me.player, me.next)
    BY <1>1, <2>1 DEF PassesWell
  <2>4. started
    BY <1>1, <2>1, <2>3, RowPositions DEF RowsInv
  <2>5. me.deactivating => me.player # 1
    BY <1>1 DEF PassesWell
  <2> HIDE DEF q
  <2>6. ServedWell(q)
    BY <2>1, <2>2, <2>3, <2>4, <2>5 DEF ServedWell, PassesWell, JoinPCs, TurnPCs
  <2> QED BY <2>1, <2>6
<1>5. CASE Notify(r) /\ ~me.deactivating
  BY <1>5, IdleServed DEF Notify, Done
<1>6. CASE Notify(r) /\ me.deactivating
  <2> DEFINE q == [me EXCEPT !.pc = "deactivate"]
  <2>1. req' = [req EXCEPT ![r] = q] /\ me.pc = "notify"
    BY <1>6 DEF Notify, Goto, TypeOK
  <2>2. /\ q.pc = "deactivate" /\ q.next = me.next /\ q.player = me.player
        /\ q.deactivating = me.deactivating
    BY <1>1 DEF Request
  <2>3. started /\ turn = me.next /\ me.next # me.player /\ me.player # 1
    BY <1>1, <1>6, <2>1 DEF PassesWell, TurnPCs
  <2> HIDE DEF q
  <2>4. ServedWell(q)
    BY <1>6, <2>2, <2>3 DEF ServedWell, PassesWell, JoinPCs, TurnPCs
  <2> QED BY <2>1, <2>4
<1> QED BY <1>2, <1>3, <1>4, <1>5, <1>6

\* The flags of the next player are cleared, one after the other.
LEMMA ResetSerial ==
    ASSUME TypeOK, SerialInv, NEW r \in Requests,
           ResetTechnology(r) \/ ResetBlackSwan(r) \/ ResetPow(r)
    PROVE  /\ \E q : req' = [req EXCEPT ![r] = q] /\ ServedWell(q)
           /\ UNCHANGED <<wallets, started, turn>>
           /\ DOMAIN players' = DOMAIN players
           /\ \A i \in DOMAIN players : /\ players'[i].player_index = players[i].player_index
                                        /\ players'[i].active <=> players[i].active
           /\ req[r].pc # "join_wallet"
<1> DEFINE me == req[r]
           Resets == {"reset_technology", "reset_black_swan", "reset_pow"}
<1>1. PICK column \in Columns \ {"active"}, pc \in {"reset_black_swan", "reset_pow", "notify"} :
        /\ players' = Cleared(me.next, column) /\ Goto(r, pc) /\ me.pc \in Resets
        /\ UNCHANGED <<wallets, started, turn>>
  BY DEF ResetTechnology, ResetBlackSwan, ResetPow, ResetFlag, Columns
<1>2. PassesWell(me) /\ me \in Request
  BY <1>1 DEF SerialInv, ServedWell, TurnPCs, TypeOK
<1> DEFINE q == [me EXCEPT !.pc = pc]
<1>3. req' = [req EXCEPT ![r] = q]
  BY <1>1 DEF Goto, TypeOK
<1>4. /\ q.pc = pc /\ q.next = me.next /\ q.player = me.player
      /\ q.deactivating = me.deactivating
  BY <1>2 DEF Request
<1>5. started /\ turn = me.next /\ (me.deactivating => me.next # me.player /\ me.player # 1)
  BY <1>1, <1>2 DEF PassesWell, TurnPCs
<1> HIDE DEF q
<1>6. ServedWell(q)
  BY <1>1, <1>4, <1>5 DEF ServedWell, PassesWell, JoinPCs
<1>7. players \in Seq(PlayerRow)
  BY DEF TypeOK
<1> QED BY <1>1, <1>3, <1>6, <1>7, FlagsUnseen

\* A request arrives.
LEMMA ArriveSerial ==
    ASSUME Serial, TypeOK, SerialInv, NEW r \in Requests, Arrive(r)
    PROVE  /\ \E q : req' = [req EXCEPT ![r] = q] /\ ServedWell(q)
           /\ UNCHANGED <<players, wallets, started, turn>> /\ req[r].pc = "idle"
<1>r. RowsInv /\ OrderlyLobby
  BY DEF SerialInv, Serial
<1>1. CASE \E c \in Clients : JoinCheck(r, c)
  BY <1>r, <1>1, CheckSerial DEF JoinCheck
<1>2. CASE StartRead(r)
  <2>1. PICK i \in ActiveRows : req' = [req EXCEPT ![r] = [Idle EXCEPT
                     !.pc = "start_write", !.next = players[i].player_index]]
    BY <1>2 DEF StartRead
  <2> DEFINE q == [Idle EXCEPT !.pc = "start_write", !.next = players[i].player_index]
  <2>2. q.pc = "start_write" /\ q.next = i
    BY <1>r DEF Idle, RowsInv, ActiveRows
  <2>3. ~started
    BY <1>r, <1>2 DEF StartRead
  <2>4. req' = [req EXCEPT ![r] = q]
    BY <2>1
  <2> HIDE DEF q
  <2>5. ServedWell(q)
    BY <2>1, <2>2, <2>3 DEF ServedWell, JoinPCs, TurnPCs
  <2> QED BY <1>2, <2>4, <2>5 DEF StartRead
<1>3. ASSUME NEW p, NextAuth(r, p)
      PROVE  \E q : req' = [req EXCEPT ![r] = q] /\ ServedWell(q)
  <2> DEFINE q == [Idle EXCEPT !.pc = "read_rows", !.player = p]
  <2>1. q.pc = "read_rows" /\ q.player = p /\ q.deactivating = FALSE
    BY DEF Idle
  <2>2. req' = [req EXCEPT ![r] = q]
    BY <1>3 DEF NextAuth
  <2> HIDE DEF q
  <2>3. ServedWell(q)
    BY <2>1 DEF ServedWell, PassesWell, JoinPCs, TurnPCs
  <2> QED BY <2>2, <2>3
<1>4. ASSUME NEW p, DeactivateRead(r, p)
      PROVE  \E q : req' = [req EXCEPT ![r] = q] /\ ServedWell(q)
  <2> DEFINE q == [Idle EXCEPT !.pc = IF MustPass(p) THEN "read_rows" ELSE "deactivate",
                               !.player = p, !.deactivating = TRUE]
  <2>1. /\ q.pc = IF turn = p THEN "read_rows" ELSE "deactivate"
        /\ q.player = p /\ q.deactivating = TRUE
    BY DEF Idle, MustPass
  <2>2. req' = [req EXCEPT ![r] = q] /\ started /\ p # 1
    BY <1>r, <1>4 DEF DeactivateRead
  <2> HIDE DEF q
  <2>3. ServedWell(q)
    BY <2>1, <2>2 DEF ServedWell, PassesWell, JoinPCs, TurnPCs
  <2> QED BY <2>2, <2>3
<1> QED BY <1>1, <1>2, <1>3, <1>4 DEF Arrive, StartRead, JoinCheck, NextAuth, DeactivateRead

\* A step of no request, which leaves the table as the handlers see it.
LEMMA SerialStays ==
    ASSUME TypeOK, TypeOK', SerialInv, UNCHANGED <<wallets, started, turn, req>>,
           DOMAIN players' = DOMAIN players,
           \A i \in DOMAIN players : /\ players'[i].player_index = players[i].player_index
                                     /\ players'[i].active <=> players[i].active
    PROVE  SerialInv'
<1>1. /\ RowsInv' /\ \A q : ServedWell(q) => ServedWell(q)'
  BY SameRows DEF SerialInv
<1>2. ASSUME NEW s \in Requests PROVE ServedWell(req[s])'
  <2>1. PICK q : q = req[s]
    OBVIOUS
  <2>2. ServedWell(q)'
    BY <1>1, <2>1 DEF SerialInv
  <2>3. q = req'[s]
    BY <2>1
  <2> QED BY <2>2, <2>3 DEF ServedWell, JoinsWell, PassesWell
<1>3. ~NotifyMayFail => AllRegistered'
  BY DEF SerialInv, AllRegistered
<1> QED BY <1>1, <1>2, <1>3 DEF SerialInv

\* Every step keeps the invariant, as long as requests are served one after the other.
LEMMA SerialStep ==
    ASSUME Serial, TypeOK, TypeOK', SerialInv, [Next]_vars
    PROVE  SerialInv'
<1>1. CASE UNCHANGED vars
  BY <1>1, SerialStays DEF vars
<1>2. ASSUME NEW r \in Requests, Arrive(r) \/ Proceed(r) PROVE SerialInv'
  <2>1. CASE Arrive(r)
    BY <2>1, ArriveSerial, SerialMoves
  <2>2. CASE JoinInsert(r)
    BY <2>2, JoinSerial
  <2>3. CASE JoinWallet(r)
    BY <2>3, RegisterSerial
  <2>4. CASE NotifyFails(r)
    BY <2>4, IdleServed, SerialMoves DEF NotifyFails, Done
  <2>5. CASE StartWrite(r) \/ WriteTurn(r)
    BY <2>5, TurnSerial
  <2>6. CASE ReadRows(r) \/ ReadTurn(r) \/ Notify(r)
    <3>1. UNCHANGED <<players, wallets, started, turn>> /\ req[r].pc # "join_wallet"
      BY <2>6 DEF ReadRows, ReadTurn, Notify
    <3> QED BY <2>6, <3>1, PassSerial, SerialMoves
  <2>7. CASE ResetTechnology(r) \/ ResetBlackSwan(r) \/ ResetPow(r)
    BY <2>7, ResetSerial, SerialMoves
  <2>8. CASE DeactivateWrite(r)
    BY <2>8, DeactivateSerial
  <2> QED BY <1>2, <2>1, <2>2, <2>3, <2>4, <2>5, <2>6, <2>7, <2>8 DEF Proceed
<1> QED BY <1>1, <1>2 DEF Next

\* The game as it is created.
LEMMA InitSerial == ASSUME Init PROVE SerialInv
<1> DEFINE row == NewPlayer(1)
<1>1. players = <<row>> /\ row.player_index = 1 /\ row.active
  BY DEF Init, NewPlayer
<1> HIDE DEF row
<1>2. DOMAIN players = {1} /\ players[1] = row
  BY <1>1
<1>3. ActiveRows = {1}
  BY <1>1, <1>2 DEF ActiveRows
<1>4. /\ Creator \in Clients /\ wallets[Creator] = 1
      /\ \A c \in Clients : wallets[c] = IF c = Creator THEN 1 ELSE 0
  BY ClientsAssumption DEF Init
<1>5. ~started /\ turn = 0 /\ \A r \in Requests : req[r] = Idle
  BY DEF Init
<1>6. RowsInv
  BY <1>1, <1>2, <1>3, <1>4, <1>5 DEF RowsInv, IndexHasOneWallet
<1>7. \A r \in Requests : ServedWell(req[r])
  BY <1>5, IdleServed
<1>8. AllRegistered
  BY <1>2, <1>4 DEF AllRegistered
<1> QED BY <1>6, <1>7, <1>8 DEF SerialInv

\* Between two requests the player who has the turn is active and has an account.
LEMMA HoldersPlay ==
    ASSUME TypeOK, SerialInv, ~NotifyMayFail PROVE TurnHolderCanPlay
<1> SUFFICES ASSUME started, \A r \in Requests : req[r].pc = "idle"
             PROVE  Authorized(turn)
  BY DEF TurnHolderCanPlay
<1>1. RowsInv /\ turn \in ActiveRows
  BY DEF SerialInv, RowsInv
<1>2. turn \in DOMAIN players /\ turn \in Nat /\ DOMAIN players = 1 .. Len(players)
      /\ Len(players) \in Nat /\ players[turn].active
  BY <1>1, RowPositions DEF ActiveRows
<1>3. \E c \in Clients : wallets[c] = turn
  BY <1>2 DEF SerialInv, AllRegistered
<1>4. \A j \in 1 .. turn - 1 : players[j].player_index # turn
  BY <1>1, <1>2 DEF RowsInv
<1>5. players[turn].player_index = turn
  BY <1>1, <1>2 DEF RowsInv
<1> QED BY <1>2, <1>3, <1>4, <1>5 DEF Authorized, IsActivePlayer

\* A turn that is with an active player stays with one.
LEMMA TurnStays ==
    ASSUME TypeOK, SerialInv, SerialInv', Next, IsActiveIndex(turn)
    PROVE  IsActiveIndex(turn)'
<1>1. RowsInv /\ RowsInv'
  BY DEF SerialInv
<1>2. started
  <2>1. PICK i \in ActiveRows : players[i].player_index = turn
    BY DEF IsActiveIndex
  <2> QED BY <1>1, <2>1, RowPositions DEF RowsInv
<1>3. started'
  BY <1>2 DEF Next, Arrive, Proceed, JoinCheck, StartRead, NextAuth, DeactivateRead,
       JoinInsert, JoinWallet, NotifyFails, StartWrite, ReadRows, ReadTurn, WriteTurn,
       ResetTechnology, ResetBlackSwan, ResetPow, ResetFlag, Notify, DeactivateWrite
<1>4. turn' \in ActiveRows' /\ players'[turn'].player_index = turn'
  BY <1>1, <1>3 DEF RowsInv, ActiveRows
<1> QED BY <1>4 DEF IsActiveIndex

\* The roster of the abstract specification.
Roster == [i \in DOMAIN players |-> [player_index |-> players[i].player_index,
                                     active |-> players[i].active]]

\* A step that leaves the roster and the turn alone.
LEMMA SameRoster ==
    ASSUME TypeOK, UNCHANGED <<started, turn>>, DOMAIN players' = DOMAIN players,
           \A i \in DOMAIN players : /\ players'[i].player_index = players[i].player_index
                                     /\ players'[i].active <=> players[i].active,
           TypeOK'
    PROVE  UNCHANGED <<Roster, started, turn>>
<1>1. ASSUME NEW i \in DOMAIN players PROVE players'[i].active = players[i].active
  <2>1. players'[i] \in PlayerRow /\ players[i] \in PlayerRow
    BY DEF TypeOK
  <2>2. players'[i].active \in BOOLEAN /\ players[i].active \in BOOLEAN
    BY <2>1 DEF PlayerRow
  <2> QED BY <2>2
<1>2. Roster' = Roster
  BY <1>1 DEF Roster
<1> QED BY <1>2

\* Counting in the instance is counting.
LEMMA SameCount == ASSUME NEW S PROVE TurnOrder!Cardinality(S) = Cardinality(S)
  BY DEF TurnOrder!Cardinality, Cardinality

\* A player inserted by join-game joins.
LEMMA JoinsRefine ==
    ASSUME Serial, TypeOK, TypeOK', SerialInv, NEW r \in Requests, JoinInsert(r)
    PROVE  TurnOrder!Join
<1> DEFINE n == Len(players) + 1
           row == NewPlayer(n)
           entry == [player_index |-> n, active |-> TRUE]
<1>1. /\ ~started /\ RoomLeft /\ ActiveRows = 1 .. Len(players)
      /\ players' = Append(players, row) /\ UNCHANGED <<started, turn>>
  BY JoinSerial DEF JoinInsert
<1>2. row.player_index = n /\ row.active = TRUE
  BY DEF NewPlayer
<1> HIDE DEF row
<1>3. /\ Len(players) \in Nat /\ DOMAIN players = 1 .. Len(players)
      /\ DOMAIN players' = 1 .. n /\ players'[n] = row
      /\ \A i \in 1 .. Len(players) : players'[i] = players[i]
  BY <1>1 DEF TypeOK
<1>4. TurnOrder!Active = ActiveRows
  BY DEF TurnOrder!Active, ActiveRows
<1>5. Cardinality(TurnOrder!Active) = Len(players)
  <2>1. \A m \in Nat : Cardinality(1 .. m) = m
    BY FS_Interval
  <2> QED BY <1>1, <1>3, <1>4, <2>1
<1>6. Len(players) < MaxPlayers
  BY <1>1, <1>4, <1>5 DEF RoomLeft
<1>7. \A i \in DOMAIN Roster : Roster[i].player_index # n
  BY <1>3 DEF SerialInv, RowsInv, Roster
<1>8. Roster' = Append(Roster, entry)
  <2> DEFINE Entry == [player_index : Nat, active : BOOLEAN]
             all == Append(Roster, entry)
  <2>1. \A i \in DOMAIN players : players[i].player_index \in Nat /\ players[i].active \in BOOLEAN
    <3>1. \A i \in DOMAIN players : players[i] \in PlayerRow
      BY DEF TypeOK
    <3> QED BY <3>1 DEF PlayerRow
  <2>2. Roster \in Seq(Entry) /\ Len(Roster) = Len(players)
    BY <1>3, <2>1 DEF Roster
  <2>3. entry \in Entry
    BY <1>3
  <2>4. all \in Seq(Entry) /\ Len(all) = n /\ all[n] = entry
        /\ \A i \in 1 .. Len(players) : all[i] = Roster[i]
    <3> HIDE DEF entry, Entry
    <3> QED BY <1>3, <2>2, <2>3
  <2> HIDE DEF all
  <2>5. ASSUME NEW i \in 1 .. n PROVE (Roster')[i] = all[i]
    <3>1. (Roster')[i] = [player_index |-> players'[i].player_index, active |-> players'[i].active]
      BY <1>3 DEF Roster
    <3>2. CASE i = n
      BY <1>2, <1>3, <2>4, <3>1, <3>2
    <3>3. CASE i # n
      <4>1. i \in 1 .. Len(players)
        BY <1>3, <3>3
      <4> QED BY <1>3, <2>4, <3>1, <4>1 DEF Roster
    <3> QED BY <3>2, <3>3
  <2>6. Roster' = [i \in 1 .. n |-> (Roster')[i]]
    BY <1>3 DEF Roster
  <2>7. all = [i \in 1 .. n |-> all[i]]
    BY <1>3, <2>4
  <2> QED BY <2>5, <2>6, <2>7 DEF all
<1>9. Cardinality(TurnOrder!Active) < MaxPlayers /\ Cardinality(TurnOrder!Active) + 1 = n
  BY <1>5, <1>6
<1>10. TurnOrder!Cardinality(TurnOrder!Active) = Cardinality(TurnOrder!Active)
  BY SameCount
<1> HIDE DEF n
<1> QED BY <1>1, <1>7, <1>8, <1>9, <1>10 DEF TurnOrder!Join, Roster

\* The turn passed on is the turn passed.
LEMMA PassesRefine ==
    ASSUME TypeOK, SerialInv, NEW r \in Requests, StartWrite(r) \/ WriteTurn(r)
    PROVE  TurnOrder!Start \/ TurnOrder!Pass
<1> DEFINE me == req[r]
<1>1. RowsInv /\ ServedWell(me)
  BY DEF SerialInv
<1>2. /\ TurnOrder!Active = ActiveRows
      /\ \A i \in ActiveRows : i \in DOMAIN players /\ Roster[i].player_index = i /\ i \in Nat
  <2>1. TurnOrder!Active = ActiveRows
    BY DEF TurnOrder!Active, ActiveRows
  <2>2. \A i \in ActiveRows : i \in DOMAIN players /\ i \in Nat
    BY <1>1, RowPositions
  <2> QED BY <1>1, <2>1, <2>2 DEF Roster, RowsInv
<1>3. players' = players => Roster' = Roster
  BY DEF Roster
<1>4. CASE StartWrite(r)
  <2>1. /\ ~started /\ me.next \in ActiveRows /\ started' = TRUE /\ turn' = me.next
        /\ players' = players
    BY <1>1, <1>4 DEF StartWrite, ServedWell
  <2>2. me.next \in TurnOrder!Active /\ turn' = Roster[me.next].player_index
    BY <1>2, <2>1
  <2>3. TurnOrder!Start
    BY <1>3, <2>1, <2>2 DEF TurnOrder!Start, Roster
  <2> QED BY <2>3
<1>5. CASE WriteTurn(r)
  <2>1. PassesWell(me) /\ me.pc = "write_turn"
    BY <1>1, <1>5 DEF WriteTurn, ServedWell, TurnPCs
  <2>2. started /\ turn = me.player /\ me.player \in ActiveRows /\ RowAfter(me.player, me.next)
    BY <2>1 DEF PassesWell
  <2>3. UNCHANGED <<players, started>> /\ turn' = me.next /\ me.next \in ActiveRows
    BY <1>5, <2>2 DEF WriteTurn, RowAfter
  <2>4. TurnOrder!Succeeds(me.player, me.next)
    <3>1. CASE \E k \in ActiveRows : k > me.player
      <4>1. me.next > me.player /\ \A k \in ActiveRows : k > me.player => me.next <= k
        BY <1>2, <2>2, <3>1 DEF RowAfter
      <4> QED BY <1>2, <2>3, <3>1, <4>1 DEF TurnOrder!Succeeds
    <3>2. CASE ~ \E k \in ActiveRows : k > me.player
      <4>1. \A k \in ActiveRows : me.next <= k
        BY <1>2, <2>2, <2>3, <3>2 DEF RowAfter
      <4> QED BY <1>2, <2>3, <3>2, <4>1 DEF TurnOrder!Succeeds
    <3> QED BY <3>1, <3>2
  <2>5. Roster[me.player].player_index = turn /\ Roster[me.next].player_index = turn'
    BY <1>2, <2>2, <2>3
  <2>6. TurnOrder!Pass
    BY <1>2, <1>3, <2>2, <2>3, <2>4, <2>5 DEF TurnOrder!Pass, Roster
  <2> QED BY <2>6
<1> QED BY <1>4, <1>5

\* A removal is a removal, or nothing when the player was removed before.
LEMMA RemovalsRefine ==
    ASSUME Serial, TypeOK, TypeOK', SerialInv, NEW r \in Requests, DeactivateWrite(r)
    PROVE  TurnOrder!Next \/ UNCHANGED <<Roster, started, turn>>
<1>p. PICK p : p = req[r].player
  OBVIOUS
<1>1. /\ started /\ turn # p /\ DOMAIN players' = DOMAIN players
      /\ \A i \in DOMAIN players :
            players'[i] = IF i = p THEN [players[i] EXCEPT !.active = FALSE] ELSE players[i]
  BY <1>p, DeactivateSerial
<1>2. UNCHANGED <<started, turn>>
  BY DEF DeactivateWrite
<1>3. \A i \in DOMAIN players : players[i] \in PlayerRow
  BY DEF TypeOK
<1>4. \A i \in DOMAIN players : players[i].player_index = i
  BY DEF SerialInv, RowsInv
<1>5. CASE p \in ActiveRows
  <2>1. p \in DOMAIN Roster /\ p \in TurnOrder!Active /\ Roster[p].player_index # turn
    BY <1>1, <1>4, <1>5 DEF ActiveRows, TurnOrder!Active, Roster
  <2> DEFINE removed == [Roster EXCEPT ![p].active = FALSE]
  <2>2. DOMAIN Roster = DOMAIN players /\ DOMAIN Roster' = DOMAIN players
    BY <1>1 DEF Roster
  <2>3. ASSUME NEW i \in DOMAIN players PROVE (Roster')[i] = removed[i]
    <3>1. (Roster')[i] = [player_index |-> players'[i].player_index, active |-> players'[i].active]
      BY <1>1 DEF Roster
    <3>2. Roster[i] = [player_index |-> players[i].player_index, active |-> players[i].active]
      BY DEF Roster
    <3>3. removed[i] = IF i = p THEN [Roster[i] EXCEPT !.active = FALSE] ELSE Roster[i]
      BY <2>2
    <3>4. CASE i = p
      <4>1. players'[i].player_index = players[i].player_index /\ players'[i].active = FALSE
        BY <1>1, <1>3, <3>4 DEF PlayerRow
      <4>2. removed[i] = [player_index |-> players[i].player_index, active |-> FALSE]
        <5> HIDE DEF removed
        <5>1. removed[i] = [Roster[i] EXCEPT !.active = FALSE]
          BY <3>3, <3>4
        <5> DEFINE Entry == [player_index : Nat, active : BOOLEAN]
        <5>2. Roster[i] \in Entry /\ Roster[i].player_index = players[i].player_index
          BY <1>3, <3>2 DEF PlayerRow
        <5>3. \A e \in Entry : /\ [e EXCEPT !.active = FALSE] \in Entry
                               /\ [e EXCEPT !.active = FALSE].player_index = e.player_index
                               /\ [e EXCEPT !.active = FALSE].active = FALSE
          OBVIOUS
        <5>4. /\ removed[i] \in Entry /\ removed[i].player_index = players[i].player_index
              /\ removed[i].active = FALSE
          BY <5>1, <5>2, <5>3
        <5> QED BY <5>4
      <4> QED BY <3>1, <4>1, <4>2
    <3>5. CASE i # p
      BY <1>1, <3>1, <3>2, <3>3, <3>5
    <3> QED BY <3>4, <3>5
  <2>4. Roster' = removed
    <3>1. Roster' = [i \in DOMAIN players |-> (Roster')[i]]
      BY <1>1 DEF Roster
    <3>2. removed = [i \in DOMAIN players |-> removed[i]]
      BY <2>2
    <3> QED BY <2>3, <3>1, <3>2
  <2>5. TurnOrder!Deactivate(p)
    BY <1>1, <1>2, <2>1, <2>4 DEF TurnOrder!Deactivate, Roster
  <2>6. \E i \in DOMAIN Roster : TurnOrder!Deactivate(i)
    BY <2>1, <2>5
  <2> QED BY <2>6 DEF TurnOrder!Next, Roster
<1>6. CASE p \notin ActiveRows
  <2>1. \A i \in DOMAIN players : /\ players'[i].player_index = players[i].player_index
                                  /\ players'[i].active <=> players[i].active
    BY <1>1, <1>3, <1>6 DEF PlayerRow, ActiveRows
  <2>2. UNCHANGED <<Roster, started, turn>>
    BY <1>1, <1>2, <2>1, SameRoster
  <2> QED BY <2>2
<1> QED BY <1>5, <1>6

\* Every other step is one the abstract specification does not see.
LEMMA StepsRefine ==
    ASSUME Serial, TypeOK, TypeOK', SerialInv, [Next]_vars
    PROVE  TurnOrder!Next \/ UNCHANGED <<Roster, started, turn>>
<1>0. players' = players => Roster' = Roster
  BY DEF Roster
<1>1. CASE UNCHANGED vars
  BY <1>0, <1>1 DEF vars
<1>2. ASSUME NEW r \in Requests, Arrive(r) \/ Proceed(r)
      PROVE  TurnOrder!Next \/ UNCHANGED <<Roster, started, turn>>
  <2>1. CASE Arrive(r)
    BY <1>0, <2>1, ArriveSerial
  <2>2. CASE JoinInsert(r)
    BY <2>2, JoinsRefine DEF TurnOrder!Next
  <2>3. CASE StartWrite(r) \/ WriteTurn(r)
    BY <2>3, PassesRefine DEF TurnOrder!Next
  <2>4. CASE DeactivateWrite(r)
    BY <2>4, RemovalsRefine
  <2>5. CASE ResetTechnology(r) \/ ResetBlackSwan(r) \/ ResetPow(r)
    BY <2>5, ResetSerial, SameRoster
  <2>6. CASE JoinWallet(r) \/ NotifyFails(r) \/ ReadRows(r) \/ ReadTurn(r) \/ Notify(r)
    BY <1>0, <2>6 DEF JoinWallet, NotifyFails, ReadRows, ReadTurn, Notify
  <2> QED BY <1>2, <2>1, <2>2, <2>3, <2>4, <2>5, <2>6 DEF Proceed
<1> QED BY <1>1, <1>2 DEF Next

\* The game as it is created is the game as it should be.
LEMMA StartsRefine == ASSUME Init PROVE TurnOrder!Init
<1> DEFINE row == NewPlayer(1)
           entry == [player_index |-> 1, active |-> TRUE]
<1>1. players = <<NewPlayer(1)>> /\ started = FALSE /\ turn = 0
  BY DEF Init
<1>2. Roster = <<entry>>
  <2>1. row.player_index = 1 /\ row.active = TRUE
    BY DEF NewPlayer
  <2> HIDE DEF row
  <2>2. DOMAIN players = 1 .. 1 /\ players[1] = row
    BY <1>1 DEF row
  <2>3. Roster = [i \in 1 .. 1 |-> entry]
    <3>1. \A i \in 1 .. 1 : i = 1
      OBVIOUS
    <3>2. \A i \in 1 .. 1 : [player_index |-> players[i].player_index,
                             active |-> players[i].active] = entry
      BY <2>1, <2>2, <3>1
    <3> HIDE DEF entry
    <3> QED BY <2>2, <3>2 DEF Roster
  <2> HIDE DEF entry
  <2> QED BY <2>3
<1> QED BY <1>1, <1>2 DEF TurnOrder!Init, Roster

\* Served one at a time in an orderly lobby, the handlers implement the turn order:
\* players join in order and within the limit, one of them is drawn, the turn passes from
\* its holder to the next active player, and nobody who has it is removed (join_game,
\* start_game, increment_player_turn, deactivate_player).
THEOREM TurnOrderIsKept == ASSUME Serial PROVE Spec => RefinesTurnOrder
<1>1. Init => SerialInv /\ TurnOrder!Init
  BY InitSerial, StartsRefine
<1>2. TypeOK /\ TypeOK' /\ SerialInv /\ [Next]_vars => SerialInv'
  BY SerialStep
<1>3. TypeOK /\ TypeOK' /\ SerialInv /\ [Next]_vars => [TurnOrder!Next]_(TurnOrder!tvars)
  <2> SUFFICES ASSUME TypeOK, TypeOK', SerialInv, [Next]_vars
               PROVE  [TurnOrder!Next]_(TurnOrder!tvars)
    OBVIOUS
  <2> QED BY StepsRefine DEF TurnOrder!tvars, Roster
<1> QED BY <1>1, <1>2, <1>3, TypeCorrect, PTL DEF Spec, RefinesTurnOrder, TurnOrder!Spec
=============================================================================
