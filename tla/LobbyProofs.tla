----------------------------- MODULE LobbyProofs -----------------------------
(***************************************************************************)
(* Theorems about Lobby, for every number of guests, names, failures,      *)
(* loads and deactivations.                                                *)
(***************************************************************************)
EXTENDS Lobby, FiniteSetTheorems, WellFoundedInduction, TLAPS

USE LobbyAssumption

\* The creator is not one of the guests, and there are finitely many people.
LEMMA PeopleAreFinite ==
    /\ IsFiniteSet(People) /\ Creator \in People /\ Guests \subseteq People
    /\ \A c \in Guests : c # Creator
BY FS_AddElement DEF People

\* The order of the numbers, as a relation.
Above == {ss \in Nat \X Nat : ss[1] < ss[2]}

\* Every set of numbers has a least one.
LEMMA AboveWellFounded == IsWellFoundedOn(Above, Nat)
  BY NatLessThanWellFounded DEF OpToRel, Above

\* The largest of some row numbers is one of them.
LEMMA MaxOfRows ==
    ASSUME NEW n \in Nat, NEW S \in SUBSET (1 .. n), S # {}
    PROVE  Max(S) \in S
<1> DEFINE T == {n - x : x \in S}
<1>1. T \subseteq Nat /\ T # {}
  <2>1. ASSUME NEW x \in S PROVE n - x \in Nat
    OBVIOUS
  <2> QED BY <2>1
<1>2. \E t \in T : \A u \in T : ~ (<<u, t>> \in Above)
  BY <1>1, AboveWellFounded, WFMin
<1>3. PICK t \in T : \A u \in T : ~ (u < t)
  BY <1>1, <1>2 DEF Above
<1>4. PICK x \in S : t = n - x
  BY <1>3
<1>5. \A y \in S : x >= y
  <2> SUFFICES ASSUME NEW y \in S PROVE x >= y
    OBVIOUS
  <2>1. x \in Int /\ y \in Int /\ n - y \in T
    OBVIOUS
  <2>2. ~ (n - y < n - x)
    BY <1>3, <1>4, <2>1
  <2> QED BY <2>1, <2>2
<1> QED BY <1>5 DEF Max

RosterRow == [who : People, index : Indexes, active : BOOLEAN, seated : BOOLEAN,
              balance : {0, 1}]
Memory    == [names : SUBSET Names, index : Nat, used : Nat]

\* The types, by what they are of.
PeopleTypes ==
    /\ at \in [People -> Stages] /\ mem \in [People -> Memory]
    /\ name \in [People -> Names \cup {NoName, Blank}] /\ wallet \in [People -> {0, 1}]

ServerTypes ==
    /\ names \subseteq Names /\ roster \in Seq(RosterRow)
    /\ link \in [state : {"none", "live", "deleted"}, used : 0 .. MaxPlayers]
    /\ cards \in Nat /\ started \in BOOLEAN

PageTypes ==
    /\ page \in Page /\ inbox \in Seq(Message) /\ paidq \in Seq(People)
    /\ shown \in BOOLEAN

CountTypes ==
    /\ faults \in 0 .. MaxFaults /\ loads \in 0 .. MaxChanges /\ gone \in 0 .. MaxChanges

HistoryTypes ==
    /\ given \subseteq Names
    /\ twins \in BOOLEAN /\ overlapped \in BOOLEAN /\ raced \in BOOLEAN
    /\ missed \in BOOLEAN /\ counted \in BOOLEAN /\ blind \in BOOLEAN

\* The player has been inserted.
HasRow(c) == \E i \in DOMAIN roster : roster[i].who = c

\* The stages that come after the insertion of one's row and before the payment.
Rowed == Claiming \cup {"seating", "paylink", "funding", "vouching", "registering"}

\* What requests know that have read and will write.
KnowsOf(c) ==
    /\ at[c] = "naming" => name[c] \in mem[c].names \cup {Blank}
    /\ at[c] = "inserting" => mem[c].index \in Indexes
    /\ at[c] \in Rowed => HasRow(c)
    /\ at[c] = "counting" => mem[c].used < MaxPlayers
    /\ at[c] \in {"paying", "undoing"} => mem[c].used <= MaxPlayers

\* Only players are paid.
PaidHaveRows == \A i \in DOMAIN paidq : HasRow(paidq[i])

Knows == PaidHaveRows /\ \A c \in People : KnowsOf(c)

\* The inductive invariant.
LobbyInv ==
    PeopleTypes /\ ServerTypes /\ PageTypes /\ CountTypes /\ HistoryTypes /\ Knows

\* What the invariant says of types is the type invariant.
LEMMA LobbyInvTypes == LobbyInv => TypeOK
BY DEF LobbyInv, TypeOK, PeopleTypes, ServerTypes, PageTypes, CountTypes, HistoryTypes,
       Memory, RosterRow

\* A function from indexes to balances is what a page may have, and only that.
LEMMA ShownAre ==
    /\ \A S \in SUBSET Indexes : \A f \in [S -> {0, 1, Unset}] : f \in Balances
    /\ \A f \in Balances : DOMAIN f \subseteq Indexes /\ f \in [DOMAIN f -> {0, 1, Unset}]
    /\ << >> \in Balances
<1>1. \A S \in SUBSET Indexes : \A f \in [S -> {0, 1, Unset}] : f \in Balances
  BY DEF Balances
<1>2. ASSUME NEW f \in Balances
      PROVE  DOMAIN f \subseteq Indexes /\ f \in [DOMAIN f -> {0, 1, Unset}]
  <2>1. PICK S \in SUBSET Indexes : f \in [S -> {0, 1, Unset}]
    BY DEF Balances
  <2> QED BY <2>1
<1>3. << >> \in [{} -> {0, 1, Unset}]
  OBVIOUS
<1>4. {} \in SUBSET Indexes
  OBVIOUS
<1> QED BY <1>1, <1>2, <1>3, <1>4

\* The players still in the game can be counted.
LEMMA ActiveIsFinite ==
    ASSUME ServerTypes
    PROVE  Cardinality(Active) \in Nat
<1>1. Len(roster) \in Nat /\ Active \subseteq 1 .. Len(roster)
  BY DEF ServerTypes, Active
<1>2. IsFiniteSet(1 .. Len(roster))
  BY <1>1, FS_Interval
<1> QED BY <1>1, <1>2, FS_Subset, FS_CardinalityType

\* The invariant holds before anything is requested.
LEMMA InitLobby == Init => LobbyInv
<1> SUFFICES ASSUME Init PROVE LobbyInv
  OBVIOUS
<1> USE DEF Init, Stages, Founding, Rowed, Claiming, Funding, Starting
<1>1. at \in [People -> Stages] /\ \A c \in People : at[c] \in {"new", "out"}
  OBVIOUS
<1>2. PeopleTypes
  <2>1. mem \in [People -> Memory]
    BY DEF Memory
  <2> QED BY <1>1, <2>1 DEF PeopleTypes
<1>3. ServerTypes
  <2>1. roster \in Seq(RosterRow) /\ cards \in Nat
    OBVIOUS
  <2>2. link \in [state : {"none", "live", "deleted"}, used : 0 .. MaxPlayers]
    OBVIOUS
  <2> QED BY <2>1, <2>2 DEF ServerTypes
<1>4. CountTypes
  BY DEF CountTypes
<1>8. HistoryTypes
  <2>1. /\ twins = FALSE /\ overlapped = FALSE /\ raced = FALSE /\ missed = FALSE
        /\ counted = FALSE /\ blind = FALSE /\ given = {}
    BY Zenon
  <2> QED BY <2>1, Zenon DEF HistoryTypes
<1>7. PageTypes
  <2>1. inbox \in Seq(Message) /\ paidq \in Seq(People)
    OBVIOUS
  <2>3. shown \in BOOLEAN
    BY Zenon
  <2>2. NoPage \in Page
    BY ShownAre DEF Page, NoPage
  <2> QED BY <2>1, <2>2, <2>3, Zenon DEF PageTypes
<1>6. Knows
  BY <1>1 DEF Knows, KnowsOf, PaidHaveRows
<1> QED BY <1>2, <1>3, <1>4, <1>6, <1>7, <1>8 DEF LobbyInv

-----------------------------------------------------------------------------
\* A request that fails uses up one of the failures there are.
LEMMA MetCounts ==
    ASSUME CountTypes, NEW fate \in Fate, Met(fate)
    PROVE  faults' \in 0 .. MaxFaults
BY DEF CountTypes, Fate, Met

\* Rows are never deleted and never change hands.
SameRows ==
    /\ DOMAIN roster \subseteq DOMAIN roster'
    /\ \A i \in DOMAIN roster : roster'[i].who = roster[i].who

\* Who has a row keeps one.
LEMMA RowsStay ==
    ASSUME SameRows, NEW c, HasRow(c)
    PROVE  HasRow(c)'
BY DEF SameRows, HasRow

\* A table that is left alone keeps its rows.
LEMMA UnchangedRows == roster' = roster => SameRows
BY DEF SameRows

\* What one person's request remembers.
LEMMA OneRemembers ==
    ASSUME PeopleTypes, NEW c \in People, NEW r \in Memory, mem' = [mem EXCEPT ![c] = r]
    PROVE  /\ mem' \in [People -> Memory] /\ mem'[c] = r
           /\ \A d \in People \ {c} : mem'[d] = mem[d]
BY DEF PeopleTypes

\* One person goes on, and what the others know stays true.
LEMMA OneMoves ==
    ASSUME Knows, PeopleTypes, SameRows, NEW c \in People, NEW s,
           at' = [at EXCEPT ![c] = s],
           \A d \in People \ {c} : mem'[d] = mem[d] /\ name'[d] = name[d],
           s = "naming" => name'[c] \in mem'[c].names \cup {Blank},
           s = "inserting" => mem'[c].index \in Indexes,
           s \in Rowed => HasRow(c)',
           s = "counting" => mem'[c].used < MaxPlayers,
           s \in {"paying", "undoing"} => mem'[c].used <= MaxPlayers,
           PaidHaveRows'
    PROVE  Knows'
<1>1. at'[c] = s
  BY DEF PeopleTypes
<1>2. ASSUME NEW d \in People, d # c
      PROVE  /\ at'[d] = at[d] /\ mem'[d] = mem[d] /\ name'[d] = name[d]
             /\ HasRow(d) => HasRow(d)'
  BY <1>2, RowsStay DEF PeopleTypes
<1>3. KnowsOf(c)'
  BY <1>1 DEF KnowsOf
<1>4. ASSUME NEW d \in People, d # c PROVE KnowsOf(d)'
  BY <1>2, <1>4 DEF Knows, KnowsOf, Rowed
<1>5. \A d \in People : KnowsOf(d)'
  BY <1>3, <1>4
<1> QED BY <1>5 DEF Knows

\* A queue with nobody new in it has only players who have rows.
LEMMA QueueStays ==
    ASSUME PaidHaveRows, SameRows,
           \A i \in DOMAIN paidq' : \E j \in DOMAIN paidq : paidq'[i] = paidq[j]
    PROVE  PaidHaveRows'
BY RowsStay DEF PaidHaveRows

\* Nobody goes on, and what they know stays true.
LEMMA NobodyMoves ==
    ASSUME Knows, SameRows, at' = at, mem' = mem, name' = name, PaidHaveRows'
    PROVE  Knows'
<1>1. ASSUME NEW d \in People PROVE KnowsOf(d)'
  BY RowsStay DEF Knows, KnowsOf, Rowed
<1> QED BY <1>1 DEF Knows

-----------------------------------------------------------------------------
\* The creator's requests before the game is funded, and those that issue the voucher.
LEMMA FoundingKeeps ==
    ASSUME LobbyInv, Create \/ MakePayLink \/ IssueVoucher
    PROVE  LobbyInv'
<1> USE PeopleAreFinite DEF LobbyInv
<1>1. PICK fate \in Fate : Met(fate)
  BY DEF Create, MakePayLink, IssueVoucher
<1>2. CountTypes'
  BY <1>1, MetCounts DEF Create, MakePayLink, IssueVoucher, CountTypes
<1>3. HistoryTypes' /\ SameRows /\ paidq' = paidq /\ mem' = mem /\ name' = name
  BY UnchangedRows DEF Create, MakePayLink, IssueVoucher, HistoryTypes, history, server
<1>4. PICK s \in Founding \cup Funding \cup {"in", "claiming"} :
        /\ at' = [at EXCEPT ![Creator] = s]
        /\ s \notin {"naming", "inserting", "counting", "paying", "undoing"}
        /\ s \in Rowed => at[Creator] \in Rowed
  BY DEF Create, MakePayLink, IssueVoucher, Go, Founding, Funding, Rowed, Claiming
<1>5. PeopleTypes'
  BY <1>3, <1>4 DEF PeopleTypes, Create, MakePayLink, IssueVoucher, Stages, Claiming
<1>6. ServerTypes'
  BY DEF ServerTypes, Create, MakePayLink, IssueVoucher, server
<1>7. PageTypes'
  BY DEF PageTypes, Page, Create, MakePayLink, IssueVoucher
<1>8. Knows'
  <2>1. s \in Rowed => HasRow(Creator)'
    BY <1>3, <1>4, RowsStay DEF Knows, KnowsOf
  <2>2. PaidHaveRows'
    BY <1>3, QueueStays DEF Knows
  <2> QED BY <1>3, <1>4, <2>1, <2>2, OneMoves
<1> QED BY <1>2, <1>3, <1>5, <1>6, <1>7, <1>8

\* Names: two statements, and the place on the list of the players.
LEMMA NamingKeeps ==
    ASSUME LobbyInv, NEW c \in People,
           ReadNames(c) \/ WriteNames(c) \/ (c \in Guests /\ CountPlayers(c))
    PROVE  LobbyInv'
<1> USE PeopleAreFinite DEF LobbyInv
<1>1. CountTypes' /\ PageTypes' /\ SameRows /\ PaidHaveRows'
  <2>1. SameRows /\ paidq' = paidq
    BY UnchangedRows DEF ReadNames, WriteNames, CountPlayers, server
  <2> QED BY <2>1, QueueStays
          DEF ReadNames, WriteNames, CountPlayers, bounds, CountTypes, PageTypes, Knows
<1>2. CASE ReadNames(c)
  <2> DEFINE r == [names |-> names, index |-> mem[c].index, used |-> mem[c].used]
  <2>1. PICK n \in names \cup {Blank} : name' = [name EXCEPT ![c] = n]
    BY <1>2 DEF ReadNames
  <2>2. r \in Memory /\ mem[c] \in Memory
    BY DEF Memory, PeopleTypes, ServerTypes
  <2>3. mem' = [mem EXCEPT ![c] = r]
    BY <1>2, <2>2 DEF ReadNames, Memory, PeopleTypes
  <2>4. /\ mem' \in [People -> Memory] /\ mem'[c] = r
        /\ \A d \in People \ {c} : mem'[d] = mem[d]
    BY <2>2, <2>3, OneRemembers
  <2>5. at' = [at EXCEPT ![c] = "naming"]
    BY <1>2 DEF ReadNames, Go
  <2>6. name'[c] \in mem'[c].names \cup {Blank} /\ \A d \in People \ {c} : name'[d] = name[d]
    BY <2>1, <2>4 DEF PeopleTypes
  <2>7. PeopleTypes'
    BY <1>2, <2>1, <2>4, <2>5 DEF ReadNames, PeopleTypes, ServerTypes, Stages, Funding
  <2>8. ServerTypes' /\ HistoryTypes'
    BY <1>2 DEF ReadNames, ServerTypes, HistoryTypes, server, history
  <2>9. Knows'
    BY <1>1, <2>4, <2>5, <2>6, OneMoves DEF Rowed, Claiming
  <2> QED BY <1>1, <2>7, <2>8, <2>9
<1>3. CASE WriteNames(c)
  <2> USE <1>3 DEF WriteNames
  <2> DEFINE r == [names |-> {}, index |-> 1, used |-> 0]
  <2>1. name' = [name EXCEPT ![c] = NoName]
    OBVIOUS
  <2>2. r \in Memory /\ mem[c] \in Memory
    BY DEF Memory, PeopleTypes
  <2>3. mem' = [mem EXCEPT ![c] = r]
    OBVIOUS
  <2>4. /\ mem' \in [People -> Memory] /\ mem'[c] = r
        /\ \A d \in People \ {c} : mem'[d] = mem[d]
    BY <2>2, <2>3, OneRemembers
  <2>5. PICK s \in {"inserting", "invited"} : at' = [at EXCEPT ![c] = s]
    BY DEF Go
  <2>6. PeopleTypes'
    BY <2>1, <2>4, <2>5 DEF PeopleTypes, Stages, Funding
  <2>7. ServerTypes'
    BY DEF ServerTypes, Without, PeopleTypes, Memory
  <2>8. HistoryTypes'
    <3>1. name[c] \in Names \cup {Blank}
      BY <2>2 DEF Knows, KnowsOf, Memory
    <3>2. given' \subseteq Names
      BY <3>1 DEF HistoryTypes
    <3>3. twins' \in BOOLEAN /\ overlapped' \in BOOLEAN
      BY DEF HistoryTypes
    <3> QED BY <3>2, <3>3 DEF HistoryTypes
  <2>9. mem'[c].index \in Indexes
    BY <2>4 DEF Indexes
  <2>10. Knows'
    BY <1>1, <2>1, <2>4, <2>5, <2>9, OneMoves DEF Rowed, Claiming, PeopleTypes
  <2> QED BY <1>1, <2>6, <2>7, <2>8, <2>10
<1>4. CASE c \in Guests /\ CountPlayers(c)
  <2> USE <1>4 DEF CountPlayers
  <2> DEFINE n == Cardinality(Active)
  <2>1. n \in Nat
    BY ActiveIsFinite
  <2>2. \/ /\ RoomFor(n) /\ mem' = [mem EXCEPT ![c].index = n + 1]
           /\ at' = [at EXCEPT ![c] = "inserting"]
        \/ mem' = mem /\ at' = [at EXCEPT ![c] = "stuck"]
    BY DEF Go
  <2> HIDE DEF n
  <2>3. PeopleTypes'
    BY <2>1, <2>2 DEF PeopleTypes, Memory, Stages, Funding
  <2>4. ServerTypes' /\ HistoryTypes'
    BY DEF ServerTypes, HistoryTypes, server, history
  <2>5. \A d \in People \ {c} : mem'[d] = mem[d] /\ name'[d] = name[d]
    BY <2>2 DEF PeopleTypes
  <2>6. CASE RoomFor(n) /\ mem' = [mem EXCEPT ![c].index = n + 1]
             /\ at' = [at EXCEPT ![c] = "inserting"]
    <3>1. mem'[c].index \in Indexes
      BY <2>1, <2>6 DEF PeopleTypes, Memory, RoomFor, Indexes
    <3>2. Knows'
      BY <1>1, <2>5, <2>6, <3>1, OneMoves DEF Rowed, Claiming
    <3> QED BY <1>1, <2>3, <2>4, <3>2
  <2>7. CASE mem' = mem /\ at' = [at EXCEPT ![c] = "stuck"]
    <3>1. Knows'
      BY <1>1, <2>7, OneMoves DEF Rowed, Claiming
    <3> QED BY <1>1, <2>3, <2>4, <3>1
  <2> QED BY <2>2, <2>6, <2>7
<1> QED BY <1>2, <1>3, <1>4

\* A message for the page.
LEMMA SentTypes ==
    ASSUME PageTypes, HistoryTypes, NEW msg \in Message, Send(msg)
    PROVE  inbox' \in Seq(Message) /\ missed' \in BOOLEAN
<1>1. inbox' \in Seq(Message)
  BY DEF PageTypes, Send
<1>2. missed' \in BOOLEAN
  BY DEF HistoryTypes, Send
<1> QED BY <1>1, <1>2

\* join_game inserts the row that its request has the index for.
LEMMA InsertKeeps ==
    ASSUME LobbyInv, NEW c \in People, InsertPlayer(c)
    PROVE  LobbyInv'
<1> USE PeopleAreFinite DEF LobbyInv
<1>0. mem' = [mem EXCEPT ![c].index = 0] /\ at[c] = "inserting"
  BY DEF InsertPlayer
<1> DEFINE row == [who |-> c, index |-> mem[c].index, active |-> TRUE,
                   seated |-> FALSE, balance |-> 0]
           r == [names |-> mem[c].names, index |-> 0, used |-> mem[c].used]
           msg == [type |-> "new", index |-> mem[c].index, balance |-> 0]
<1>1. mem[c] \in Memory /\ r \in Memory /\ mem[c].index \in Indexes
  <2>1. mem[c] \in Memory
    BY DEF PeopleTypes
  <2>2. mem[c].index \in Indexes
    BY <1>0 DEF Knows, KnowsOf
  <2> QED BY <2>1, <2>2 DEF Memory
<1>2. row \in RosterRow /\ msg \in Message
  BY <1>1 DEF RosterRow, Message
<1>3. roster' = Append(roster, row) /\ roster' \in Seq(RosterRow)
  BY <1>2 DEF ServerTypes, InsertPlayer
<1>4. SameRows /\ HasRow(c)'
  <2>1. /\ DOMAIN roster = 1 .. Len(roster) /\ Len(roster) \in Nat
        /\ DOMAIN roster' = 1 .. Len(roster) + 1
        /\ \A i \in 1 .. Len(roster) : roster'[i] = roster[i]
        /\ roster'[Len(roster) + 1] = row
    BY <1>2, <1>3 DEF ServerTypes
  <2>2. Len(roster) + 1 \in DOMAIN roster' /\ row.who = c
    BY <2>1
  <2> QED BY <2>1, <2>2 DEF SameRows, HasRow
<1>5. mem' = [mem EXCEPT ![c] = r]
  <2>1. mem \in [People -> Memory]
    BY DEF PeopleTypes
  <2>2. mem' = [mem EXCEPT ![c] = [mem[c] EXCEPT !.index = 0]]
    BY <1>0, <2>1
  <2>3. [mem[c] EXCEPT !.index = 0] = r
    BY <1>1 DEF Memory
  <2> QED BY <2>2, <2>3
<1> USE DEF InsertPlayer
<1>6. /\ mem' \in [People -> Memory] /\ mem'[c] = r
      /\ \A d \in People \ {c} : mem'[d] = mem[d]
  BY <1>1, <1>5, OneRemembers
<1>7. at' = [at EXCEPT ![c] = "seating"]
  BY DEF Go
<1>8. PeopleTypes'
  BY <1>6, <1>7 DEF PeopleTypes, Stages, Funding
<1>9. ServerTypes' /\ CountTypes'
  BY <1>3 DEF ServerTypes, CountTypes, bounds
<1>10. inbox' \in Seq(Message) /\ missed' \in BOOLEAN
  <2>1. CASE c = Creator
    BY <2>1 DEF PageTypes, HistoryTypes
  <2>2. CASE c # Creator
    BY <1>2, <2>2, SentTypes
  <2> QED BY <2>1, <2>2
<1>11. PageTypes' /\ HistoryTypes'
  BY <1>10 DEF PageTypes, HistoryTypes
<1>12. PaidHaveRows'
  BY <1>4, QueueStays DEF Knows
<1>13. Knows'
  BY <1>4, <1>6, <1>7, <1>12, OneMoves
<1> QED BY <1>8, <1>9, <1>11, <1>13

\* The last row of somebody who has one is a row.
LEMMA LastRowIsRow ==
    ASSUME ServerTypes, NEW c, HasRow(c)
    PROVE  LastRow(c) \in DOMAIN roster /\ roster[LastRow(c)] \in RosterRow
<1> DEFINE S == {i \in DOMAIN roster : roster[i].who = c}
<1>1. DOMAIN roster = 1 .. Len(roster) /\ Len(roster) \in Nat
  BY DEF ServerTypes
<1>2. S \in SUBSET (1 .. Len(roster)) /\ S # {}
  BY <1>1 DEF HasRow
<1>3. Max(S) \in S
  BY <1>1, <1>2, MaxOfRows
<1>4. LastRow(c) \in DOMAIN roster
  BY <1>3 DEF LastRow
<1> QED BY <1>1, <1>4 DEF ServerTypes

\* A table whose rows are changed but for whose they are.
LEMMA ChangedRows ==
    ASSUME ServerTypes, DOMAIN roster' = DOMAIN roster,
           roster' = [i \in DOMAIN roster' |-> roster'[i]],
           \A i \in DOMAIN roster : roster'[i] \in RosterRow /\ roster'[i].who = roster[i].who
    PROVE  roster' \in Seq(RosterRow) /\ SameRows
<1>1. DOMAIN roster = 1 .. Len(roster) /\ Len(roster) \in Nat
  BY DEF ServerTypes
<1>2. roster' = [i \in 1 .. Len(roster) |-> roster'[i]]
  BY <1>1
<1> QED BY <1>1, <1>2 DEF SameRows

\* A page with other players is a page.
LEMMA PageWith ==
    ASSUME NEW p \in Page, NEW f \in Balances, NEW n \in Int
    PROVE  /\ p.players \in Balances /\ p.count \in Int
           /\ [p EXCEPT !.players = f] \in Page
           /\ [p EXCEPT !.players = f, !.count = n] \in Page
<1>1. p.players \in Balances /\ p.count \in Int
  BY DEF Page
<1>2. [p EXCEPT !.players = f] \in Page
  BY DEF Page
<1>3. \A q \in Page : [q EXCEPT !.count = n] \in Page
  BY DEF Page
<1>4. [p EXCEPT !.players = f, !.count = n] = [[p EXCEPT !.players = f] EXCEPT !.count = n]
  OBVIOUS
<1> QED BY <1>1, <1>2, <1>3, <1>4

\* The wallet of the player, and what the page makes of the answer.
LEMMA SeatKeeps ==
    ASSUME LobbyInv, NEW c \in People, SeatPlayer(c)
    PROVE  LobbyInv'
<1> USE PeopleAreFinite DEF LobbyInv, SeatPlayer
<1> DEFINE l == LastRow(c)
<1>1. at[c] = "seating" /\ HasRow(c)
  BY DEF Knows, KnowsOf, Rowed
<1>2. l \in DOMAIN roster /\ roster[l] \in RosterRow
  BY <1>1, LastRowIsRow
<1>3. PICK fate \in Fate \ {"refused"} :
        /\ Met(fate)
        /\ IF c = Creator
           THEN /\ Go(c, IF fate = "ok" THEN "paylink" ELSE "unfunded")
                /\ page' = IF fate = "ok"
                           THEN [page EXCEPT !.players = Entered(@, 1), !.count = 1]
                           ELSE page
           ELSE Go(c, IF fate = "ok" THEN "claiming" ELSE "stuck") /\ UNCHANGED page
  BY Zenon
<1>4. CountTypes'
  BY <1>3, MetCounts DEF CountTypes
<1>5. roster' \in Seq(RosterRow) /\ SameRows
  <2>1. roster' = [roster EXCEPT ![l].seated = TRUE]
    OBVIOUS
  <2> HIDE DEF l
  <2>2. DOMAIN roster = 1 .. Len(roster) /\ \A i \in DOMAIN roster : roster[i] \in RosterRow
    BY DEF ServerTypes
  <2>3. ASSUME NEW i \in DOMAIN roster
        PROVE  roster'[i] \in RosterRow /\ roster'[i].who = roster[i].who
    <3>1. CASE i = l
      <4>1. roster'[i] = [roster[l] EXCEPT !.seated = TRUE]
        BY <1>2, <2>1, <3>1
      <4> QED BY <1>2, <3>1, <4>1 DEF RosterRow
    <3>2. CASE i # l
      <4>1. roster'[i] = roster[i]
        BY <2>1, <2>2, <3>2
      <4> QED BY <2>2, <4>1
    <3> QED BY <3>1, <3>2
  <2> QED BY <2>1, <2>3, ChangedRows
<1>6. ServerTypes' /\ HistoryTypes'
  BY <1>5 DEF ServerTypes, HistoryTypes, history
<1>7. PICK s \in {"paylink", "unfunded", "claiming", "stuck"} : at' = [at EXCEPT ![c] = s]
  BY <1>3 DEF Go
<1>8. PeopleTypes'
  BY <1>7 DEF PeopleTypes, Stages, Funding, Claiming
<1>9. page' \in Page
  <2>1. page \in Page /\ page.players \in Balances
    BY DEF PageTypes, Page
  <2>2. Entered(page.players, 1) \in Balances
    <3> DEFINE f == page.players
    <3>1. DOMAIN f \cup {1} \in SUBSET Indexes /\ f \in [DOMAIN f -> {0, 1, Unset}]
      BY <2>1, ShownAre DEF Indexes
    <3>2. Entered(f, 1) \in [DOMAIN f \cup {1} -> {0, 1, Unset}]
      BY <3>1 DEF Entered
    <3> QED BY <3>1, <3>2, ShownAre
  <2>3. \/ page' = page
        \/ page' = [page EXCEPT !.players = Entered(page.players, 1), !.count = 1]
    BY <1>3
  <2>4. [page EXCEPT !.players = Entered(page.players, 1), !.count = 1] \in Page
    <3> DEFINE g == Entered(page.players, 1)
    <3>1. page \in Page /\ g \in Balances /\ 1 \in Int
      BY <2>1, <2>2
    <3> HIDE DEF g
    <3>2. [page EXCEPT !.players = g, !.count = 1] \in Page
      BY <3>1, PageWith
    <3> QED BY <3>2 DEF g
  <2> QED BY <2>1, <2>3, <2>4
<1>10. PageTypes'
  BY <1>9 DEF PageTypes
<1>11. PaidHaveRows'
  BY <1>5, QueueStays DEF Knows
<1>12. HasRow(c)'
  BY <1>1, <1>5, RowsStay
<1>13. Knows'
  BY <1>5, <1>7, <1>11, <1>12, OneMoves
<1> QED BY <1>4, <1>6, <1>8, <1>10, <1>13

\* What one person's request remembers of the link.
LEMMA OneCounts ==
    ASSUME PeopleTypes, NEW c \in People, NEW u \in Nat, mem' = [mem EXCEPT ![c].used = u]
    PROVE  /\ mem' \in [People -> Memory] /\ mem'[c].used = u
           /\ \A d \in People \ {c} : mem'[d] = mem[d]
<1> DEFINE r == [mem[c] EXCEPT !.used = u]
<1>1. mem \in [People -> Memory] /\ mem[c] \in Memory
  BY DEF PeopleTypes
<1>2. r \in Memory /\ r.used = u
  BY <1>1 DEF Memory
<1>3. mem' = [mem EXCEPT ![c] = r]
  BY <1>1
<1> HIDE DEF r
<1> QED BY <1>2, <1>3, OneRemembers

\* The invitation is shown.
LEMMA ShowKeeps ==
    ASSUME LobbyInv, ShowInvite
    PROVE  LobbyInv'
<1> USE DEF LobbyInv, ShowInvite
<1>1. CountTypes' /\ HistoryTypes' /\ ServerTypes' /\ PeopleTypes' /\ SameRows /\ PaidHaveRows'
  BY UnchangedRows, QueueStays
     DEF CountTypes, HistoryTypes, ServerTypes, PeopleTypes, bounds, history, server, Knows
<1>2. PageTypes'
  BY DEF PageTypes
<1>3. Knows'
  BY <1>1, NobodyMoves
<1> QED BY <1>1, <1>2, <1>3

\* The callback of the link: look, count, pay, or take back.
LEMMA ClaimKeeps ==
    ASSUME LobbyInv, NEW c \in People, ReadLink(c) \/ CountUse(c) \/ PayOut(c) \/ UndoUse(c)
    PROVE  LobbyInv'
<1> USE PeopleAreFinite DEF LobbyInv
<1>1. /\ SameRows /\ HasRow(c) /\ HasRow(c)'
      /\ name' = name /\ inbox' = inbox /\ page' = page /\ shown' = shown /\ roster' = roster
  <2>1. SameRows /\ roster' = roster
    BY UnchangedRows DEF ReadLink, CountUse, PayOut, UndoUse, server
  <2>2. HasRow(c)
    BY DEF ReadLink, CountUse, PayOut, UndoUse, Knows, KnowsOf, Rowed, Claiming
  <2>3. HasRow(c)'
    BY <2>1, <2>2, RowsStay
  <2> QED BY <2>1, <2>2, <2>3 DEF ReadLink, CountUse, PayOut, UndoUse
<1>2. CountTypes' /\ HistoryTypes'
  <2>1. CASE PayOut(c)
    BY <2>1, MetCounts DEF PayOut, CountTypes, HistoryTypes, history
  <2>2. CASE ReadLink(c) \/ CountUse(c) \/ UndoUse(c)
    BY <2>2 DEF ReadLink, CountUse, UndoUse, CountTypes, HistoryTypes, history, bounds
  <2> QED BY <2>1, <2>2
<1>3. link \in [state : {"none", "live", "deleted"}, used : 0 .. MaxPlayers]
  BY DEF ServerTypes
<1>4. mem \in [People -> Memory] /\ mem[c].used \in Nat
  BY DEF PeopleTypes, Memory
<1>5. CASE ReadLink(c)
  <2> USE <1>5 DEF ReadLink
  <2>1. ServerTypes' /\ PageTypes'
    BY <1>1 DEF ServerTypes, PageTypes, server
  <2>2. PaidHaveRows'
    BY <1>1, QueueStays DEF Knows
  <2>3. \/ /\ link.used < MaxPlayers /\ mem' = [mem EXCEPT ![c].used = link.used]
           /\ at' = [at EXCEPT ![c] = "counting"]
        \/ mem' = mem /\ at' = [at EXCEPT ![c] = "in"]
    BY DEF Go
  <2>4. CASE /\ link.used < MaxPlayers /\ mem' = [mem EXCEPT ![c].used = link.used]
             /\ at' = [at EXCEPT ![c] = "counting"]
    <3>1. /\ mem' \in [People -> Memory] /\ mem'[c].used = link.used
          /\ \A d \in People \ {c} : mem'[d] = mem[d]
      <4>1. link.used \in Nat
        BY <1>3
      <4> QED BY <2>4, <4>1, OneCounts
    <3>2. PeopleTypes'
      BY <2>4, <3>1 DEF PeopleTypes, Stages, Claiming
    <3>3. Knows'
      BY <1>1, <2>2, <2>4, <3>1, OneMoves
    <3> QED BY <1>2, <2>1, <3>2, <3>3
  <2>5. CASE mem' = mem /\ at' = [at EXCEPT ![c] = "in"]
    <3>1. PeopleTypes'
      BY <2>5 DEF PeopleTypes, Stages
    <3>2. Knows'
      BY <1>1, <2>2, <2>5, OneMoves
    <3> QED BY <1>2, <2>1, <3>1, <3>2
  <2> QED BY <2>3, <2>4, <2>5
<1>6. CASE CountUse(c)
  <2> USE <1>6 DEF CountUse
  <2>1. mem[c].used < MaxPlayers /\ at' = [at EXCEPT ![c] = "paying"]
    BY DEF Knows, KnowsOf, Go
  <2>2. ServerTypes' /\ PageTypes'
    <3>1. link' = link \/ link' = [link EXCEPT !.used = mem[c].used + 1]
      BY DEF WriteUsed
    <3>2. mem[c].used + 1 \in 0 .. MaxPlayers
      BY <1>4, <2>1
    <3>3. link' \in [state : {"none", "live", "deleted"}, used : 0 .. MaxPlayers]
      BY <1>3, <3>1, <3>2
    <3>4. PageTypes'
      BY <1>1 DEF PageTypes
    <3> QED BY <1>1, <3>3, <3>4 DEF ServerTypes
  <2>3. PaidHaveRows'
    BY <1>1, QueueStays DEF Knows
  <2>4. PeopleTypes'
    BY <2>1 DEF PeopleTypes, Stages, Claiming
  <2>5. mem'[c].used <= MaxPlayers /\ \A d \in People \ {c} : mem'[d] = mem[d]
    BY <1>4, <2>1
  <2>6. Knows'
    BY <1>1, <2>1, <2>3, <2>5, OneMoves
  <2> QED BY <1>2, <2>2, <2>4, <2>6
<1>7. CASE PayOut(c)
  <2> USE <1>7 DEF PayOut
  <2>1. ServerTypes'
    BY DEF ServerTypes, server
  <2>2. \/ /\ wallet' = [wallet EXCEPT ![c] = 1] /\ paidq' = Append(paidq, c)
           /\ mem' = [mem EXCEPT ![c].used = 0] /\ at' = [at EXCEPT ![c] = "in"]
        \/ /\ wallet' = wallet /\ paidq' = paidq /\ mem' = mem
           /\ at' = [at EXCEPT ![c] = "undoing"]
    BY DEF Go
  <2>3. CASE /\ wallet' = [wallet EXCEPT ![c] = 1] /\ paidq' = Append(paidq, c)
             /\ mem' = [mem EXCEPT ![c].used = 0] /\ at' = [at EXCEPT ![c] = "in"]
    <3>1. /\ mem' \in [People -> Memory]
          /\ \A d \in People \ {c} : mem'[d] = mem[d]
      BY <2>3, OneCounts
    <3>2. PeopleTypes'
      BY <1>1, <2>3, <3>1 DEF PeopleTypes, Stages
    <3>3. PageTypes'
      BY <1>1, <2>3 DEF PageTypes
    <3>4. PaidHaveRows'
      <4>1. DOMAIN paidq = 1 .. Len(paidq) /\ Len(paidq) \in Nat
        BY DEF PageTypes
      <4>2. \A i \in DOMAIN paidq' : paidq'[i] = c \/ \E j \in DOMAIN paidq : paidq'[i] = paidq[j]
        <5>1. paidq \in Seq(People) /\ paidq' = Append(paidq, c)
          BY <2>3 DEF PageTypes
        <5>2. /\ DOMAIN paidq' = 1 .. Len(paidq) + 1 /\ paidq'[Len(paidq) + 1] = c
              /\ \A i \in 1 .. Len(paidq) : paidq'[i] = paidq[i]
          BY <5>1
        <5> QED BY <4>1, <5>2
      <4>3. \A d : HasRow(d) => \E j \in DOMAIN roster : roster[j].who = d
        BY DEF HasRow
      <4>4. \A i \in DOMAIN paidq' : \E j \in DOMAIN roster : roster[j].who = paidq'[i]
        BY <1>1, <4>2, <4>3 DEF Knows, PaidHaveRows
      <4> QED BY <1>1, <4>4 DEF PaidHaveRows, HasRow
    <3>5. Knows'
      BY <1>1, <2>3, <3>1, <3>4, OneMoves
    <3> QED BY <1>2, <2>1, <3>2, <3>3, <3>5
  <2>4. CASE /\ wallet' = wallet /\ paidq' = paidq /\ mem' = mem
             /\ at' = [at EXCEPT ![c] = "undoing"]
    <3>1. PeopleTypes' /\ PageTypes'
      BY <1>1, <2>4 DEF PeopleTypes, PageTypes, Stages, Claiming
    <3>2. PaidHaveRows'
      BY <1>1, <2>4, QueueStays DEF Knows
    <3>3. mem[c].used <= MaxPlayers
      BY DEF Knows, KnowsOf
    <3>4. Knows'
      BY <1>1, <2>4, <3>2, <3>3, OneMoves
    <3> QED BY <1>2, <2>1, <3>1, <3>4
  <2> QED BY <2>2, <2>3, <2>4
<1>8. CASE UndoUse(c)
  <2> USE <1>8 DEF UndoUse
  <2>1. mem[c].used <= MaxPlayers /\ at' = [at EXCEPT ![c] = "in"]
    BY DEF Knows, KnowsOf, Go
  <2>2. ServerTypes' /\ PageTypes'
    BY <1>1, <1>3, <1>4, <2>1 DEF ServerTypes, PageTypes, WriteUsed, Restored
  <2>3. PaidHaveRows'
    BY <1>1, QueueStays DEF Knows
  <2>4. /\ mem' \in [People -> Memory]
        /\ \A d \in People \ {c} : mem'[d] = mem[d]
    BY OneCounts
  <2>5. PeopleTypes'
    BY <2>1, <2>4 DEF PeopleTypes, Stages
  <2>6. Knows'
    BY <1>1, <2>1, <2>3, <2>4, OneMoves
  <2> QED BY <1>2, <2>2, <2>5, <2>6
<1> QED BY <1>5, <1>6, <1>7, <1>8

-----------------------------------------------------------------------------
\* A payment is reported: the balance in the rows of its index, and to the page.
LEMMA ReportKeeps ==
    ASSUME LobbyInv, ReportPaid
    PROVE  LobbyInv'
<1> USE DEF LobbyInv
<1> DEFINE c == Head(paidq)
           l == LastRow(c)
           x == roster[l].index
           msg == [type |-> "pay", index |-> x, balance |-> wallet[c]]
<1>1. /\ paidq \in Seq(People) /\ paidq # << >> /\ c \in People
      /\ paidq' \in Seq(People) /\ DOMAIN paidq = 1 .. Len(paidq)
      /\ \A i \in DOMAIN paidq' : i + 1 \in DOMAIN paidq /\ paidq'[i] = paidq[i + 1]
      /\ 1 \in DOMAIN paidq /\ c = paidq[1]
  <2>1. paidq \in Seq(People) /\ paidq # << >> /\ paidq' = Tail(paidq)
    BY DEF ReportPaid, PageTypes
  <2> QED BY <2>1
<1>2. HasRow(c)
  BY <1>1 DEF Knows, PaidHaveRows
<1>3. l \in DOMAIN roster /\ roster[l] \in RosterRow
  BY <1>2, LastRowIsRow
<1>4. x \in Indexes /\ wallet[c] \in {0, 1} /\ msg \in Message
  BY <1>1, <1>3 DEF RosterRow, PeopleTypes, Message
<1>5. Send(msg) /\ roster' = [i \in DOMAIN roster |->
                 IF roster[i].index = x /\ roster[i].seated
                 THEN [roster[i] EXCEPT !.balance = wallet[c]] ELSE roster[i]]
  BY DEF ReportPaid
<1> HIDE DEF x, msg, c, l
<1>6. roster' \in Seq(RosterRow) /\ SameRows
  <2>1. ASSUME NEW i \in DOMAIN roster
        PROVE  roster'[i] \in RosterRow /\ roster'[i].who = roster[i].who
    <3>1. roster[i] \in RosterRow
      BY DEF ServerTypes
    <3>2. [roster[i] EXCEPT !.balance = wallet[c]] \in RosterRow
      BY <1>4, <3>1 DEF RosterRow
    <3>3. [roster[i] EXCEPT !.balance = wallet[c]].who = roster[i].who
      BY <3>1 DEF RosterRow
    <3> QED BY <1>5, <3>1, <3>2, <3>3
  <2>2. DOMAIN roster' = DOMAIN roster /\ roster' = [i \in DOMAIN roster' |-> roster'[i]]
    BY <1>5
  <2> QED BY <2>1, <2>2, ChangedRows
<1>7. inbox' \in Seq(Message) /\ missed' \in BOOLEAN
  BY <1>4, <1>5, SentTypes
<1>8. PeopleTypes' /\ CountTypes' /\ ServerTypes'
  BY <1>6 DEF ReportPaid, PeopleTypes, CountTypes, ServerTypes, bounds
<1>9. PageTypes' /\ HistoryTypes'
  BY <1>1, <1>7 DEF ReportPaid, PageTypes, HistoryTypes
<1>10. PaidHaveRows'
  BY <1>1, <1>6, QueueStays DEF Knows
<1>11. Knows'
  BY <1>6, <1>10, NobodyMoves DEF ReportPaid
<1> QED BY <1>8, <1>9, <1>11

\* What the handlers of the page make of the players they know.
LEMMA PlayersHeard ==
    ASSUME NEW f \in Balances, NEW x \in Indexes
    PROVE  /\ Entered(f, x) \in Balances /\ Dropped(f, x) \in Balances
           /\ \A b \in {0, 1} : [y \in DOMAIN f |-> IF y = x THEN b ELSE f[y]] \in Balances
           /\ Poor(f) \subseteq Indexes
<1>1. DOMAIN f \subseteq Indexes /\ f \in [DOMAIN f -> {0, 1, Unset}]
  BY ShownAre
<1>2. /\ Entered(f, x) \in [DOMAIN f \cup {x} -> {0, 1, Unset}]
      /\ DOMAIN f \cup {x} \in SUBSET Indexes
  BY <1>1 DEF Entered
<1>3. /\ Dropped(f, x) \in [DOMAIN f \ {x} -> {0, 1, Unset}]
      /\ DOMAIN f \ {x} \in SUBSET Indexes
  BY <1>1 DEF Dropped
<1>4. \A b \in {0, 1} : [y \in DOMAIN f |-> IF y = x THEN b ELSE f[y]] \in [DOMAIN f -> {0, 1, Unset}]
  BY <1>1
<1>5. Poor(f) \subseteq Indexes
  BY <1>1 DEF Poor
<1> QED BY <1>1, <1>2, <1>3, <1>4, <1>5, ShownAre

\* A page whose flags are written is a page.
LEMMA PageFlagged ==
    ASSUME NEW p \in Page, NEW w \in SUBSET Indexes, NEW e \in BOOLEAN
    PROVE  [p EXCEPT !.waiting = w, !.enable = e, !.kept = TRUE] \in Page
<1>1. \A q \in Page : [q EXCEPT !.waiting = w] \in Page
  BY DEF Page
<1>2. \A q \in Page : [q EXCEPT !.enable = e] \in Page
  BY DEF Page
<1>3. \A q \in Page : [q EXCEPT !.kept = TRUE] \in Page
  BY DEF Page
<1>4. [p EXCEPT !.waiting = w, !.enable = e, !.kept = TRUE]
        = [[[p EXCEPT !.waiting = w] EXCEPT !.enable = e] EXCEPT !.kept = TRUE]
  OBVIOUS
<1> QED BY <1>1, <1>2, <1>3, <1>4

\* What the handlers leave is a page.
LEMMA PageHeard ==
    ASSUME PageTypes, NEW f \in Balances, NEW x \in Indexes
    PROVE  Counted(f) \in Page /\ NewHeard(x) \in Page /\ GoneHeard(x) \in Page
<1>1. /\ page \in Page /\ page.players \in Balances /\ page.count \in Int
      /\ page.waiting \subseteq Indexes
  BY DEF PageTypes, Page
<1>2. Counted(f) \in Page
  <2> DEFINE p == [page EXCEPT !.players = f]
  <2>1. p \in Page
    BY <1>1, PageWith
  <2>2. Poor(f) \in SUBSET Indexes /\ (Poor(f) = {}) \in BOOLEAN
    BY PlayersHeard
  <2>3. [page EXCEPT !.players = f, !.waiting = Poor(f), !.enable = Poor(f) = {}, !.kept = TRUE]
          = [p EXCEPT !.waiting = Poor(f), !.enable = Poor(f) = {}, !.kept = TRUE]
    OBVIOUS
  <2> HIDE DEF p
  <2>4. [p EXCEPT !.waiting = Poor(f), !.enable = Poor(f) = {}, !.kept = TRUE] \in Page
    BY <2>1, <2>2, PageFlagged
  <2> QED BY <2>1, <2>3, <2>4 DEF Counted, p
<1>3. NewHeard(x) \in Page
  <2> DEFINE g == Entered(page.players, x)
             p == [page EXCEPT !.count = @ + 1, !.players = g]
  <2>1. g \in Balances /\ page.count + 1 \in Int
    <3>1. g \in Balances
      BY <1>1, PlayersHeard
    <3>2. page.count + 1 \in Int
      BY <1>1
    <3> QED BY <3>1, <3>2
  <2>2. p = [page EXCEPT !.players = g, !.count = page.count + 1]
    BY <1>1
  <2>3. p \in Page
    <3> HIDE DEF g, p
    <3> QED BY <1>1, <2>1, <2>2, PageWith
  <2>4. NewHeard(x) = IF page.started THEN p
                      ELSE [p EXCEPT !.waiting = p.waiting \cup {x}, !.enable = FALSE,
                                     !.kept = TRUE]
    BY DEF NewHeard
  <2> HIDE DEF p
  <2>5. p.waiting \cup {x} \in SUBSET Indexes
    BY <2>3 DEF Page
  <2>6. [p EXCEPT !.waiting = p.waiting \cup {x}, !.enable = FALSE, !.kept = TRUE] \in Page
    BY <2>3, <2>5, PageFlagged
  <2> QED BY <2>3, <2>4, <2>6
<1>4. GoneHeard(x) \in Page
  <2> DEFINE g == Dropped(page.players, x)
             p == [page EXCEPT !.count = @ - 1, !.players = g]
             e == page.waiting \subseteq {x}
  <2>1. g \in Balances /\ page.count - 1 \in Int
    <3>1. g \in Balances
      BY <1>1, PlayersHeard
    <3>2. page.count - 1 \in Int
      BY <1>1
    <3> QED BY <3>1, <3>2
  <2>2. p = [page EXCEPT !.players = g, !.count = page.count - 1]
    BY <1>1
  <2>3. p \in Page
    <3> HIDE DEF g, p
    <3> QED BY <1>1, <2>1, <2>2, PageWith
  <2>4. GoneHeard(x) = IF ~MayCount THEN p
                       ELSE [p EXCEPT !.waiting = p.waiting \ {x}, !.enable = e, !.kept = TRUE]
    BY DEF GoneHeard
  <2>5. e \in BOOLEAN
    OBVIOUS
  <2> HIDE DEF p, e
  <2>6. p.waiting \ {x} \in SUBSET Indexes
    BY <2>3 DEF Page
  <2>7. [p EXCEPT !.waiting = p.waiting \ {x}, !.enable = e, !.kept = TRUE] \in Page
    BY <2>3, <2>5, <2>6, PageFlagged
  <2> QED BY <2>3, <2>4, <2>7
<1> QED BY <1>2, <1>3, <1>4

\* The page hears of a player or a payment, or counts anew.
LEMMA HearKeeps ==
    ASSUME LobbyInv, Deliver \/ HearMarket
    PROVE  LobbyInv'
<1> USE DEF LobbyInv
<1>1. /\ PeopleTypes' /\ CountTypes' /\ ServerTypes' /\ HistoryTypes'
      /\ SameRows /\ paidq' = paidq /\ at' = at /\ mem' = mem /\ name' = name
      /\ shown' = shown
  BY UnchangedRows
     DEF Deliver, HearMarket, PeopleTypes, CountTypes, ServerTypes, HistoryTypes, bounds,
         server
<1>2. page.players \in Balances
  BY DEF PageTypes, Page
<1>3. ASSUME HearMarket PROVE PageTypes'
  <2>1. Counted(page.players) \in Page
    <3>1. 1 \in Indexes
      BY DEF Indexes
    <3> QED BY <1>2, <3>1, PageHeard
  <2> QED BY <1>1, <1>3, <2>1 DEF HearMarket, PageTypes
<1>4. ASSUME Deliver PROVE PageTypes'
  <2>1. Head(inbox) \in Message /\ inbox' \in Seq(Message)
    BY <1>4 DEF Deliver, PageTypes
  <2> DEFINE m == Head(inbox)
             f == [x \in DOMAIN page.players |->
                     IF x = m.index THEN m.balance ELSE page.players[x]]
  <2>2. m.index \in Indexes /\ m.type \in {"new", "gone", "pay"}
        /\ (m.type = "pay" => m.balance \in {0, 1})
    BY <2>1 DEF Message
  <2>3. page' = Hear(m)
    BY <1>4 DEF Deliver
  <2> HIDE DEF m
  <2>4. m.type = "pay" => f \in Balances
    BY <1>2, <2>2, PlayersHeard
  <2>5. \/ page' = NewHeard(m.index) \/ page' = GoneHeard(m.index)
        \/ m.type = "pay" /\ page' = Counted(f)
    BY <2>2, <2>3 DEF Hear
  <2> HIDE DEF f
  <2>6. page' \in Page
    BY <1>2, <2>2, <2>4, <2>5, PageHeard
  <2> QED BY <1>1, <2>1, <2>6 DEF PageTypes
<1>5. PageTypes'
  BY <1>3, <1>4
<1>6. PaidHaveRows'
  BY <1>1, QueueStays DEF Knows
<1>7. Knows'
  BY <1>1, <1>6, NobodyMoves
<1> QED BY <1>1, <1>5, <1>7

\* The creator starts the game.
LEMMA StartKeeps ==
    ASSUME LobbyInv, PressStart \/ Start \/ DeleteAgain
    PROVE  LobbyInv'
<1> USE PeopleAreFinite DEF LobbyInv
<1>1. /\ SameRows /\ paidq' = paidq /\ mem' = mem /\ name' = name /\ wallet' = wallet
      /\ inbox' = inbox /\ shown' = shown
  BY UnchangedRows DEF PressStart, Start, DeleteAgain, server
<1>2. CountTypes'
  <2>1. CASE Start
    BY <2>1, MetCounts DEF Start, CountTypes
  <2>2. CASE PressStart \/ DeleteAgain
    BY <2>2 DEF PressStart, DeleteAgain, CountTypes, bounds
  <2> QED BY <2>1, <2>2
<1>3. HistoryTypes'
  BY DEF PressStart, Start, DeleteAgain, HistoryTypes, history
<1>4. PICK s \in Starting \cup {"in"} : at' = [at EXCEPT ![Creator] = s]
  BY DEF PressStart, Start, DeleteAgain, Go, After, Starting
<1>5. PeopleTypes'
  BY <1>1, <1>4 DEF PeopleTypes, Stages
<1>6. ServerTypes'
  <2>1. CASE PressStart \/ DeleteAgain
    BY <2>1 DEF ServerTypes, PressStart, DeleteAgain, server
  <2>2. CASE Start
    <3>1. names' = names /\ roster' = roster
      BY <2>2 DEF Start
    <3>2. \/ UNCHANGED <<link, cards, started>>
          \/ link' = [link EXCEPT !.state = "deleted"] /\ UNCHANGED <<cards, started>>
          \/ cards' = cards + 1 /\ UNCHANGED <<link, started>>
          \/ started' = TRUE /\ UNCHANGED <<link, cards>>
      BY <2>2 DEF Start
    <3>3. link' \in [state : {"none", "live", "deleted"}, used : 0 .. MaxPlayers]
      <4>1. link' = link \/ link' = [link EXCEPT !.state = "deleted"]
        BY <3>2
      <4> QED BY <4>1 DEF ServerTypes
    <3>4. cards' \in Nat
      <4>1. cards' = cards \/ cards' = cards + 1
        BY <3>2
      <4> QED BY <4>1 DEF ServerTypes
    <3>5. started' \in BOOLEAN
      <4>1. started' = started \/ started' = TRUE
        BY <3>2
      <4> QED BY <4>1 DEF ServerTypes
    <3> QED BY <3>1, <3>3, <3>4, <3>5 DEF ServerTypes
  <2> QED BY <2>1, <2>2
<1>7. PageTypes'
  BY <1>1 DEF PageTypes, Page, PressStart, Start, DeleteAgain
<1>8. PaidHaveRows'
  BY <1>1, QueueStays DEF Knows
<1>9. Knows'
  BY <1>1, <1>4, <1>8, OneMoves DEF Rowed, Claiming, Starting
<1> QED BY <1>2, <1>3, <1>5, <1>6, <1>7, <1>9

\* The creator takes a player off the table.
LEMMA DeactivateKeeps ==
    ASSUME LobbyInv, NEW x \in Indexes, Deactivate(x)
    PROVE  LobbyInv'
<1> USE DEF LobbyInv
<1>1. roster' \in Seq(RosterRow) /\ SameRows
  <2>1. roster' = [i \in DOMAIN roster |->
                    IF i \in RowsAt(x) THEN [roster[i] EXCEPT !.active = FALSE]
                    ELSE roster[i]]
    BY DEF Deactivate
  <2>2. ASSUME NEW i \in DOMAIN roster
        PROVE  roster'[i] \in RosterRow /\ roster'[i].who = roster[i].who
    <3>1. roster[i] \in RosterRow
      BY DEF ServerTypes
    <3>2. /\ [roster[i] EXCEPT !.active = FALSE] \in RosterRow
          /\ [roster[i] EXCEPT !.active = FALSE].who = roster[i].who
      BY <3>1 DEF RosterRow
    <3> QED BY <2>1, <3>1, <3>2
  <2>3. DOMAIN roster' = DOMAIN roster /\ roster' = [i \in DOMAIN roster' |-> roster'[i]]
    BY <2>1
  <2> QED BY <2>2, <2>3, ChangedRows
<1>2. inbox' \in Seq(Message) /\ missed' \in BOOLEAN
  <2>1. [type |-> "gone", index |-> x, balance |-> 0] \in Message
    BY DEF Message
  <2> QED BY <2>1, SentTypes DEF Deactivate
<1>3. CountTypes'
  BY DEF Deactivate, CountTypes
<1>4. PeopleTypes' /\ ServerTypes' /\ PageTypes' /\ HistoryTypes'
  BY <1>1, <1>2 DEF Deactivate, PeopleTypes, ServerTypes, PageTypes, HistoryTypes
<1>5. PaidHaveRows'
  BY <1>1, QueueStays DEF Knows, Deactivate
<1>6. Knows'
  BY <1>1, <1>5, NobodyMoves DEF Deactivate
<1> QED BY <1>3, <1>4, <1>6

\* The page is loaded: from where, and the three requests it makes.
LEMMA LoadKeeps ==
    ASSUME LobbyInv, (\E same \in BOOLEAN : Leave(same)) \/ FetchPlayers \/ FetchBalances \/ Connect
    PROVE  LobbyInv'
<1> USE DEF LobbyInv
<1>1. /\ PeopleTypes' /\ ServerTypes' /\ SameRows
      /\ paidq' = paidq /\ at' = at /\ mem' = mem /\ name' = name /\ shown' = shown
  BY UnchangedRows
     DEF Leave, FetchPlayers, FetchBalances, Connect, PeopleTypes, ServerTypes, server
<1>2. CountTypes' /\ HistoryTypes'
  <2>1. CASE FetchPlayers \/ FetchBalances \/ Connect
    BY <2>1 DEF FetchPlayers, FetchBalances, Connect, CountTypes, HistoryTypes, bounds, history
  <2>2. ASSUME NEW same \in BOOLEAN, Leave(same) PROVE CountTypes' /\ HistoryTypes'
    <3>1. CountTypes'
      BY <2>2 DEF Leave, CountTypes
    <3>2. /\ given' = given /\ twins' = twins /\ overlapped' = overlapped /\ raced' = raced
          /\ blind' = blind /\ counted' = FALSE /\ missed' \in BOOLEAN
      BY <2>2 DEF Leave
    <3>3. HistoryTypes'
      BY <3>2 DEF HistoryTypes
    <3> QED BY <3>1, <3>3
  <2> QED BY <2>1, <2>2
<1>3. page \in Page /\ page.players \in Balances /\ \A i \in DOMAIN roster : roster[i] \in RosterRow
  BY DEF PageTypes, Page, ServerTypes
<1>4. ASSUME NEW same \in BOOLEAN, Leave(same) PROVE PageTypes'
  <2>1. FromStorage \in Page
    BY <1>3 DEF FromStorage, Page
  <2>2. FromDatabase \in Page
    <3>1. NoPage \in Page
      BY ShownAre DEF Page, NoPage
    <3> QED BY <3>1 DEF FromDatabase, Page, ServerTypes
  <2>3. page' \in Page /\ inbox' = << >>
    BY <1>4, <2>1, <2>2 DEF Leave
  <2> QED BY <1>1, <2>3 DEF PageTypes
<1>5. ASSUME FetchPlayers PROVE PageTypes'
  <2>1. Merged(page.players) \in Balances
    <3> DEFINE f == page.players
               there == {roster[i].index : i \in Active}
    <3>1. DOMAIN f \subseteq Indexes /\ f \in [DOMAIN f -> {0, 1, Unset}]
      BY <1>3, ShownAre
    <3>2. there \subseteq Indexes
      BY <1>3 DEF Active, RosterRow
    <3>3. Merged(f) \in [DOMAIN f \cup there -> {0, 1, Unset}]
      BY <3>1 DEF Merged
    <3> HIDE DEF f, there
    <3> QED BY <3>1, <3>2, <3>3, ShownAre DEF f
  <2> DEFINE f == Merged(page.players)
             n == Cardinality(Active)
  <2>2. n \in Int
    BY ActiveIsFinite
  <2>3. page' = [[page EXCEPT !.players = f, !.count = n] EXCEPT !.load = "balances"]
    BY <1>5 DEF FetchPlayers
  <2>4. inbox' = inbox
    BY <1>5 DEF FetchPlayers
  <2> HIDE DEF f, n
  <2>5. [page EXCEPT !.players = f, !.count = n] \in Page
    BY <1>3, <2>1, <2>2, PageWith DEF f
  <2>6. \A q \in Page : [q EXCEPT !.load = "balances"] \in Page
    BY DEF Page
  <2> QED BY <1>1, <2>3, <2>4, <2>5, <2>6 DEF PageTypes
<1>6. ASSUME FetchBalances PROVE PageTypes'
  <2> DEFINE f == page.players
             rows(x) == {i \in RowsAt(x) : roster[i].seated}
             g == [x \in DOMAIN f |->
                     IF rows(x) = {} THEN f[x] ELSE roster[Max(rows(x))].balance]
  <2>1. DOMAIN f \subseteq Indexes /\ f \in [DOMAIN f -> {0, 1, Unset}]
    BY <1>3, ShownAre
  <2>2. ASSUME NEW x \in DOMAIN f, rows(x) # {}
        PROVE  roster[Max(rows(x))].balance \in {0, 1, Unset}
    <3>1. DOMAIN roster = 1 .. Len(roster) /\ Len(roster) \in Nat
      BY DEF ServerTypes
    <3>2. rows(x) \in SUBSET (1 .. Len(roster))
      BY <3>1 DEF RowsAt
    <3> HIDE DEF rows
    <3>3. Max(rows(x)) \in rows(x)
      BY <2>2, <3>1, <3>2, MaxOfRows
    <3> QED BY <1>3, <3>1, <3>2, <3>3 DEF RosterRow
  <2>3. g \in Balances
    <3> HIDE DEF rows
    <3>1. g \in [DOMAIN f -> {0, 1, Unset}]
      BY <2>1, <2>2
    <3> HIDE DEF f, g
    <3> QED BY <2>1, <3>1, ShownAre
  <2>4. page' = [page EXCEPT !.load = "connect", !.started = started, !.players = g]
    BY <1>6 DEF FetchBalances
  <2>5. page' = [[page EXCEPT !.players = g] EXCEPT !.load = "connect", !.started = started]
    BY <2>4
  <2>6. inbox' = inbox
    BY <1>6 DEF FetchBalances
  <2> HIDE DEF g
  <2>7. [page EXCEPT !.players = g] \in Page
    <3>1. 0 \in Int
      OBVIOUS
    <3> QED BY <1>3, <2>3, <3>1, PageWith
  <2>8. \A q \in Page : [q EXCEPT !.load = "connect", !.started = started] \in Page
    BY DEF Page, ServerTypes
  <2> QED BY <1>1, <2>5, <2>6, <2>7, <2>8 DEF PageTypes
<1>7. ASSUME Connect PROVE PageTypes'
  BY <1>1, <1>3, <1>7 DEF Connect, Page, PageTypes
<1>8. PageTypes'
  BY <1>4, <1>5, <1>6, <1>7
<1>9. PaidHaveRows'
  BY <1>1, QueueStays DEF Knows
<1>10. Knows'
  BY <1>1, <1>9, NobodyMoves
<1> QED BY <1>1, <1>2, <1>8, <1>10

\* Every step keeps the invariant.
LEMMA NextLobby == LobbyInv /\ [Next]_vars => LobbyInv'
<1> SUFFICES ASSUME LobbyInv, [Next]_vars PROVE LobbyInv'
  OBVIOUS
<1>1. CASE UNCHANGED vars
  BY <1>1 DEF vars, server, bounds, history, LobbyInv, PeopleTypes, ServerTypes, PageTypes,
     CountTypes, HistoryTypes, Knows, KnowsOf, PaidHaveRows, HasRow
<1>2. CASE Next
  BY <1>2, PeopleAreFinite, FoundingKeeps, NamingKeeps, InsertKeeps, SeatKeeps, ShowKeeps,
     ClaimKeeps, ReportKeeps, HearKeeps, StartKeeps, DeactivateKeeps, LoadKeeps DEF Next
<1> QED BY <1>1, <1>2

\* The invariant holds in every state of a lobby.
LEMMA LobbyInvHolds == Spec => []LobbyInv
<1>1. Init => LobbyInv
  BY InitLobby
<1>2. LobbyInv /\ [Next]_vars => LobbyInv'
  BY NextLobby
<1> QED BY <1>1, <1>2, PTL DEF Spec

\* The state has its types, whatever is refused, lost, loaded again or deactivated.
THEOREM TypeCorrect == Spec => []TypeOK
BY LobbyInvHolds, LobbyInvTypes, PTL

-----------------------------------------------------------------------------
\* Unless two names were picked from one list, no name that is left was given.
NamesInv == (~overlapped => given \cap names = {}) /\ NamesDiffer

\* Only the second statement of pick_player_name can give a name again, and it does so
\* only from a list that is not the one in the table any more.
LEMMA NamesStep == LobbyInv /\ NamesInv /\ [Next]_vars => NamesInv'
<1> SUFFICES ASSUME LobbyInv, NamesInv, [Next]_vars PROVE NamesInv'
  OBVIOUS
<1>1. ASSUME NEW c \in People, WriteNames(c) PROVE NamesInv'
  <2>1. /\ names' = mem[c].names \ {name[c]} /\ given' = given \cup ({name[c]} \ {Blank})
        /\ twins' = (twins \/ name[c] \in given)
        /\ overlapped' = (overlapped \/ names # mem[c].names)
        /\ name[c] \in mem[c].names \cup {Blank}
    BY <1>1 DEF WriteNames, Without, LobbyInv, Knows, KnowsOf
  <2>2. given \subseteq Names
    BY DEF LobbyInv, HistoryTypes
  <2>3. CASE overlapped'
    BY <2>3 DEF NamesInv, NamesDiffer
  <2>4. CASE ~overlapped'
    <3>1. names = mem[c].names /\ ~overlapped /\ given \cap names = {} /\ ~twins
      BY <2>1, <2>4 DEF NamesInv, NamesDiffer
    <3>2. name[c] \notin given
      BY <2>1, <2>2, <3>1
    <3> QED BY <2>1, <2>4, <3>1, <3>2 DEF NamesInv, NamesDiffer
  <2> QED BY <2>3, <2>4
<1>2. CASE UNCHANGED <<names, given, twins, overlapped>>
  BY <1>2 DEF NamesInv, NamesDiffer
<1>3. CASE Create \/ MakePayLink \/ IssueVoucher \/ ShowInvite \/ PressStart \/ Start \/ DeleteAgain
  BY <1>2, <1>3
     DEF Create, MakePayLink, IssueVoucher, ShowInvite, PressStart, Start, DeleteAgain,
         server, history
<1>4. ASSUME NEW c \in People,
             \/ ReadNames(c) \/ CountPlayers(c) \/ InsertPlayer(c) \/ SeatPlayer(c)
             \/ ReadLink(c) \/ CountUse(c) \/ PayOut(c) \/ UndoUse(c)
      PROVE  NamesInv'
  BY <1>2, <1>4
     DEF ReadNames, CountPlayers, InsertPlayer, SeatPlayer, ReadLink, CountUse, PayOut,
         UndoUse, server, history
<1>5. CASE \/ ReportPaid \/ Deliver \/ HearMarket \/ FetchPlayers \/ FetchBalances \/ Connect
           \/ (\E x \in Indexes : Deactivate(x)) \/ (\E same \in BOOLEAN : Leave(same))
  BY <1>2, <1>5
     DEF ReportPaid, Deliver, HearMarket, FetchPlayers, FetchBalances, Connect, Deactivate,
         Leave, server, history
<1>6. CASE UNCHANGED vars
  BY <1>2, <1>6 DEF vars, server, history
<1> QED BY <1>1, <1>3, <1>4, <1>5, <1>6, PeopleAreFinite DEF Next

\* No two players get one name unless their requests read one list: neither failures
\* nor invitations opened twice give a name again (pick_player_name).
THEOREM NamesStayDifferent == Spec => []NamesDiffer
<1>1. Init => NamesInv
  BY DEF Init, NamesInv, NamesDiffer
<1>2. LobbyInv /\ NamesInv /\ [Next]_vars => NamesInv'
  BY NamesStep
<1>3. NamesInv => NamesDiffer
  BY DEF NamesInv
<1> QED BY <1>1, <1>2, <1>3, LobbyInvHolds, PTL DEF Spec

-----------------------------------------------------------------------------
\* The creator has funded the game and told of it.
Later == Claiming \cup Starting \cup {"in"}

\* What is done already at each stage of the start.
StartInv ==
    /\ started \/ link.state = "deleted" => at[Creator] \in Later
    /\ started \/ at[Creator] \in {"dealing", "starting"} => blind \/ link.state # "live"
    /\ started \/ at[Creator] = "starting" => cards > 0

\* A step that leaves the creator's request where it is, and the start.
LEMMA StartUnmoved ==
    ASSUME StartInv, at'[Creator] = at[Creator], started' = started, cards' = cards,
           blind' = blind, link'.state = link.state
    PROVE  StartInv'
BY DEF StartInv

\* A step of the creator's that is not one of the start's, and makes no link.
LEMMA StartAside ==
    ASSUME StartInv, started' = started, cards' = cards, blind' = blind,
           link'.state = link.state, at'[Creator] \notin {"dealing", "starting"},
           at[Creator] \in Later => at'[Creator] \in Later
    PROVE  StartInv'
BY DEF StartInv

\* Every step keeps what is done at the stages of the start.
LEMMA StartStep == LobbyInv /\ StartInv /\ [Next]_vars => StartInv'
<1> SUFFICES ASSUME LobbyInv, StartInv, [Next]_vars PROVE StartInv'
  OBVIOUS
<1> USE PeopleAreFinite
<1>1. at \in [People -> Stages]
      /\ link \in [state : {"none", "live", "deleted"}, used : 0 .. MaxPlayers]
      /\ cards \in Nat /\ started \in BOOLEAN /\ blind \in BOOLEAN
  BY DEF LobbyInv, PeopleTypes, ServerTypes, HistoryTypes
<1>2. CASE UNCHANGED <<at, started, cards, blind, link>>
  BY <1>2, StartUnmoved
<1>3. CASE Create \/ MakePayLink
  <2>1. PICK s \in Founding \cup Funding : at' = [at EXCEPT ![Creator] = s]
    BY <1>3 DEF Create, MakePayLink, Go, Founding, Funding
  <2>2. at[Creator] \notin Later
    BY <1>3 DEF Create, MakePayLink, Founding, Later, Claiming, Starting
  <2>3. UNCHANGED <<started, cards, blind, link>>
    BY <1>3 DEF Create, MakePayLink, server, history
  <2> QED BY <1>1, <2>1, <2>2, <2>3, StartAside DEF Founding, Funding
<1>4. CASE IssueVoucher
  <2>1. at[Creator] \notin Later /\ at[Creator] \notin {"dealing", "starting"}
    BY <1>4 DEF IssueVoucher, Later, Claiming, Starting
  <2>2. ~started /\ link.state # "deleted"
    BY <2>1 DEF StartInv
  <2>3. at'[Creator] \in {"in", "vouching", "registering", "claiming"}
    BY <1>1, <1>4 DEF IssueVoucher, Go
  <2>4. started' = started /\ link'.state # "deleted"
    BY <1>1, <1>4, <2>2 DEF IssueVoucher
  <2> QED BY <2>2, <2>3, <2>4 DEF StartInv
<1>5. CASE PressStart
  <2>1. /\ at[Creator] = "in" /\ UNCHANGED <<started, cards, link>>
        /\ blind' = (blind \/ (~page.voucher /\ link.state = "live"))
        /\ at' = [at EXCEPT ![Creator] = IF page.voucher THEN "deleting" ELSE "dealing"]
    BY <1>5 DEF PressStart, Go, server
  <2>2. at'[Creator] = IF page.voucher THEN "deleting" ELSE "dealing"
    BY <1>1, <2>1
  <2>3. at[Creator] \in Later /\ at'[Creator] \in Later /\ at'[Creator] # "starting"
    BY <2>1, <2>2 DEF Later, Starting
  <2>4. at'[Creator] = "dealing" => blind' \/ link'.state # "live"
    <3>1. at'[Creator] = "dealing" => ~page.voucher
      BY <2>2
    <3>2. ~page.voucher /\ link.state = "live" => blind'
      BY <2>1, Zenon
    <3>3. link' = link
      BY <2>1
    <3> QED BY <3>1, <3>2, <3>3, Zenon
  <2>5. started => blind' \/ link'.state # "live"
    BY <2>1 DEF StartInv
  <2> QED BY <2>1, <2>3, <2>4, <2>5 DEF StartInv
<1>6. CASE Start
  <2>1. /\ at[Creator] \in Starting /\ blind' = blind
        /\ at'[Creator] \in {"in", After(at[Creator])}
    BY <1>1, <1>6 DEF Start, Go, history
  <2>2. /\ at'[Creator] \in Later /\ at'[Creator] # "deleting"
        /\ at'[Creator] = "dealing" => at[Creator] = "deleting"
        /\ at'[Creator] = "starting" => at[Creator] = "dealing"
    BY <2>1 DEF After, Starting, Later
  <2>3. PICK fate \in Fate :
        /\ at' = [at EXCEPT ![Creator] = IF fate = "ok" THEN After(at[Creator]) ELSE "in"]
        /\ IF fate = "refused" THEN UNCHANGED <<link, cards, started>>
           ELSE \/ /\ at[Creator] = "deleting"
                   /\ link' = [link EXCEPT !.state = "deleted"]
                   /\ UNCHANGED <<cards, started>>
                \/ /\ at[Creator] = "dealing"
                   /\ cards' = cards + 1 /\ UNCHANGED <<link, started>>
                \/ /\ at[Creator] = "starting"
                   /\ started' = TRUE /\ UNCHANGED <<link, cards>>
    BY <1>6 DEF Start, Go
  <2>4. CASE fate = "refused"
    <3>1. at'[Creator] = "in" /\ UNCHANGED <<link, cards, started>>
      BY <1>1, <2>3, <2>4
    <3> QED BY <2>1, <3>1, StartAside DEF Later
  <2>5. CASE fate # "refused" /\ at[Creator] = "deleting"
    <3>1. link'.state = "deleted" /\ UNCHANGED <<cards, started>>
      BY <1>1, <2>3, <2>5
    <3> QED BY <2>2, <2>5, <3>1 DEF StartInv
  <2>6. CASE fate # "refused" /\ at[Creator] = "dealing"
    <3>1. cards' = cards + 1 /\ cards' > 0 /\ UNCHANGED <<link, started>>
      BY <1>1, <2>3, <2>6
    <3> QED BY <2>1, <2>2, <2>6, <3>1 DEF StartInv
  <2>7. CASE fate # "refused" /\ at[Creator] = "starting"
    <3>1. UNCHANGED <<link, cards>>
      BY <2>3, <2>7
    <3> QED BY <2>1, <2>2, <2>7, <3>1 DEF StartInv
  <2> QED BY <2>1, <2>4, <2>5, <2>6, <2>7 DEF Starting
<1>7. CASE DeleteAgain
  <2>1. at'[Creator] = "in" /\ UNCHANGED <<started, cards, blind, link>>
    BY <1>1, <1>7 DEF DeleteAgain, Go, server, history
  <2> QED BY <2>1, StartAside DEF Later
<1>8. ASSUME NEW c \in People,
             \/ ReadNames(c) \/ WriteNames(c) \/ (c \in Guests /\ CountPlayers(c))
             \/ InsertPlayer(c) \/ SeatPlayer(c)
             \/ ReadLink(c) \/ CountUse(c) \/ PayOut(c) \/ UndoUse(c)
      PROVE  StartInv'
  <2>1. UNCHANGED <<started, cards, blind>> /\ link'.state = link.state
    BY <1>1, <1>8
       DEF ReadNames, WriteNames, CountPlayers, InsertPlayer, SeatPlayer, ReadLink, CountUse,
           PayOut, UndoUse, WriteUsed, server, history
  <2>2. PICK s \in Stages \ Starting : at' = [at EXCEPT ![c] = s]
                                       /\ (at[c] \in Later => s \in Later)
    BY <1>8
       DEF ReadNames, WriteNames, CountPlayers, InsertPlayer, SeatPlayer, ReadLink, CountUse,
           PayOut, UndoUse, Go, Stages, Starting, Funding, Founding, Claiming, Later,
           MayBeNamed
  <2>3. CASE c = Creator
    BY <1>1, <2>1, <2>2, <2>3, StartAside DEF Starting
  <2>4. CASE c # Creator
    BY <1>1, <2>1, <2>2, <2>4, StartUnmoved
  <2> QED BY <2>3, <2>4
<1>9. CASE \/ ShowInvite \/ ReportPaid \/ Deliver \/ HearMarket
           \/ FetchPlayers \/ FetchBalances \/ Connect
           \/ (\E x \in Indexes : Deactivate(x)) \/ (\E same \in BOOLEAN : Leave(same))
  BY <1>2, <1>9
     DEF ShowInvite, ReportPaid, Deliver, HearMarket, FetchPlayers, FetchBalances, Connect,
         Deactivate, Leave, server, history
<1>10. CASE UNCHANGED vars
  BY <1>2, <1>10 DEF vars, server, history
<1> QED BY <1>3, <1>4, <1>5, <1>6, <1>7, <1>8, <1>9, <1>10 DEF Next

\* A started game has its cards, and its voucher is deleted unless the page that started
\* it did not know of it: no answer that is lost gets past a request (startGame).
THEOREM StartIsTheLast == Spec => []StartIsLast
<1>1. Init => StartInv
  BY PeopleAreFinite DEF Init, StartInv
<1>2. LobbyInv /\ StartInv /\ [Next]_vars => StartInv'
  BY StartStep
<1>3. StartInv => StartIsLast
  BY DEF StartInv, StartIsLast
<1> QED BY <1>1, <1>2, <1>3, LobbyInvHolds, PTL DEF Spec

-----------------------------------------------------------------------------
\* Whose claim the link has to have counted.
Counts == {c \in People : wallet[c] = 1 \/ at[c] \in {"paying", "undoing"}}

\* The link counts the claims; who is paid is done with claiming; claims under way are
\* of a link there is.
ClaimInv ==
    /\ link.state # "deleted" /\ ~raced => link.used = Cardinality(Counts)
    /\ \A c \in People :
          /\ wallet[c] = 1 => at[c] \in Starting \cup {"in"}
          /\ at[c] \in Claiming \ {"claiming"} => link.state # "none"

\* The claims can be counted.
LEMMA CountsAreFinite == IsFiniteSet(Counts) /\ Cardinality(Counts) \in Nat
<1>1. Counts \subseteq People
  BY DEF Counts
<1> QED BY <1>1, PeopleAreFinite, FS_Subset, FS_CardinalityType

\* A step that changes neither the claims nor the link.
LEMMA ClaimsUnchanged ==
    ASSUME ClaimInv, link'.used = link.used, link'.state = link.state, raced' = raced,
           wallet' = wallet,
           \A c \in People : at'[c] = at[c]
                             \/ /\ {at[c], at'[c]} \cap {"counting", "paying", "undoing"} = {}
                                /\ at[c] \in Starting \cup {"in"} => at'[c] \in Starting \cup {"in"}
    PROVE  ClaimInv'
<1>1. Counts' = Counts
  BY DEF Counts
<1> QED BY <1>1 DEF ClaimInv, Claiming

\* Every step of a claim keeps the count, unless it writes what it should not.
LEMMA ClaimStep == LobbyInv /\ StartInv /\ ClaimInv /\ [Next]_vars => ClaimInv'
<1> SUFFICES ASSUME LobbyInv, StartInv, ClaimInv, [Next]_vars PROVE ClaimInv'
  OBVIOUS
<1> USE PeopleAreFinite
<1>1. /\ at \in [People -> Stages] /\ wallet \in [People -> {0, 1}] /\ mem \in [People -> Memory]
      /\ link \in [state : {"none", "live", "deleted"}, used : 0 .. MaxPlayers]
  BY DEF LobbyInv, PeopleTypes, ServerTypes
<1>2. CASE Create \/ MakePayLink \/ DeleteAgain \/ PressStart
  <2>1. /\ UNCHANGED <<wallet, raced>> /\ link' = link
    BY <1>2 DEF Create, MakePayLink, PressStart, DeleteAgain, server, history
  <2>2. PICK s \in Founding \cup Funding \cup Starting \cup {"in"} :
          /\ at' = [at EXCEPT ![Creator] = s]
          /\ at[Creator] \in Founding \cup Funding \cup Starting \cup {"in"}
          /\ at[Creator] \in Starting \cup {"in"} => s \in Starting \cup {"in"}
    BY <1>2 DEF Create, MakePayLink, PressStart, DeleteAgain, Go, Founding, Funding, Starting
  <2> QED BY <1>1, <2>1, <2>2, ClaimsUnchanged DEF Founding, Funding, Starting
<1>3. CASE Start
  <2>1. /\ UNCHANGED <<wallet, raced>> /\ at[Creator] \in Starting
        /\ at' = [at EXCEPT ![Creator] = at'[Creator]] /\ at'[Creator] \in Starting \cup {"in"}
    BY <1>1, <1>3 DEF Start, Go, After, Starting, history
  <2>2. link' = link \/ link' = [link EXCEPT !.state = "deleted"]
    BY <1>3 DEF Start
  <2>3. CASE link' = link
    BY <1>1, <2>1, <2>3, ClaimsUnchanged DEF Starting
  <2>4. CASE link' = [link EXCEPT !.state = "deleted"]
    <3>1. link'.state = "deleted"
      BY <1>1, <2>4
    <3>2. \A c \in People : at'[c] = at[c] \/ (c = Creator /\ at'[c] \in Starting \cup {"in"})
      BY <1>1, <2>1
    <3> QED BY <2>1, <3>1, <3>2 DEF ClaimInv, Claiming, Starting
  <2> QED BY <2>2, <2>3, <2>4
<1>4. CASE IssueVoucher
  <2>1. /\ UNCHANGED <<wallet, raced>> /\ at[Creator] \in {"funding", "vouching", "registering"}
        /\ at' = [at EXCEPT ![Creator] = at'[Creator]]
        /\ at'[Creator] \in {"in", "vouching", "registering", "claiming"}
    BY <1>1, <1>4 DEF IssueVoucher, Go, history
  <2>2. link' = link \/ link' = [link EXCEPT !.state = "live"]
    BY <1>4 DEF IssueVoucher
  <2>3. CASE link' = link
    BY <1>1, <2>1, <2>3, ClaimsUnchanged DEF Starting
  <2>4. CASE link' = [link EXCEPT !.state = "live"]
    <3>1. link'.state = "live" /\ link'.used = link.used
      BY <1>1, <2>4
    <3>2. link.state # "deleted"
      BY <2>1 DEF StartInv, Later, Claiming, Starting
    <3>3. \A c \in People : at'[c] = at[c]
                            \/ (c = Creator /\ at'[c] \in {"in", "vouching", "registering", "claiming"})
      BY <1>1, <2>1
    <3>4. Counts' = Counts
      BY <2>1, <3>3 DEF Counts
    <3>5. wallet[Creator] # 1
      BY <2>1 DEF ClaimInv, Starting
    <3> QED BY <2>1, <3>1, <3>2, <3>3, <3>4, <3>5 DEF ClaimInv, Claiming, Starting
  <2> QED BY <2>2, <2>3, <2>4
<1>5. ASSUME NEW c \in People,
             ReadNames(c) \/ WriteNames(c) \/ (c \in Guests /\ CountPlayers(c))
             \/ InsertPlayer(c) \/ SeatPlayer(c)
      PROVE  ClaimInv'
  <2>1. UNCHANGED <<wallet, raced, link>>
    BY <1>5 DEF ReadNames, WriteNames, CountPlayers, InsertPlayer, SeatPlayer, server, history
  <2>2. PICK s \in {"naming", "inserting", "invited", "stuck", "seating", "paylink", "unfunded",
                    "claiming"} :
          /\ at' = [at EXCEPT ![c] = s]
          /\ at[c] \in {"unfunded", "out", "naming", "invited", "inserting", "seating"}
    BY <1>5 DEF ReadNames, WriteNames, CountPlayers, InsertPlayer, SeatPlayer, Go, MayBeNamed
  <2> QED BY <1>1, <2>1, <2>2, ClaimsUnchanged DEF Starting
<1>6. ASSUME NEW c \in People, ReadLink(c) PROVE ClaimInv'
  <2>1. UNCHANGED <<wallet, raced, link>> /\ at[c] = "claiming"
    BY <1>6 DEF ReadLink, server, history
  <2>2. \/ at' = [at EXCEPT ![c] = "counting"] /\ link.state = "live"
        \/ at' = [at EXCEPT ![c] = "in"]
    BY <1>6 DEF ReadLink, Go
  <2>3. Counts' = Counts
    BY <1>1, <2>1, <2>2 DEF Counts
  <2>4. wallet[c] # 1
    BY <2>1 DEF ClaimInv, Starting
  <2> QED BY <1>1, <2>1, <2>2, <2>3, <2>4 DEF ClaimInv, Claiming
<1>7. ASSUME NEW c \in People, CountUse(c) PROVE ClaimInv'
  <2>1. /\ UNCHANGED <<wallet, mem>> /\ at[c] = "counting" /\ at' = [at EXCEPT ![c] = "paying"]
        /\ raced' = (raced \/ link.used # mem[c].used)
        /\ link' = IF link.state = "live" THEN [link EXCEPT !.used = mem[c].used + 1] ELSE link
    BY <1>7 DEF CountUse, WriteUsed, Go
  <2>2. wallet[c] # 1 /\ link.state # "none"
    BY <2>1 DEF ClaimInv, Claiming, Starting
  <2>3. Counts' = Counts \cup {c} /\ c \notin Counts
    BY <1>1, <2>1, <2>2 DEF Counts
  <2>4. Cardinality(Counts') = Cardinality(Counts) + 1
    BY <2>3, CountsAreFinite, FS_AddElement
  <2>5. link'.state = link.state /\ (link.state = "live" => link'.used = mem[c].used + 1)
    BY <1>1, <2>1
  <2>6. link'.state # "deleted" /\ ~raced' => link'.used = Cardinality(Counts')
    BY <1>1, <2>1, <2>2, <2>4, <2>5 DEF ClaimInv
  <2> QED BY <1>1, <2>1, <2>2, <2>5, <2>6 DEF ClaimInv, Claiming
<1>8. ASSUME NEW c \in People, PayOut(c) PROVE ClaimInv'
  <2>1. /\ UNCHANGED <<link, raced>> /\ at[c] = "paying"
        /\ \/ wallet' = [wallet EXCEPT ![c] = 1] /\ at' = [at EXCEPT ![c] = "in"]
           \/ wallet' = wallet /\ at' = [at EXCEPT ![c] = "undoing"]
    BY <1>8 DEF PayOut, Go, server, history
  <2>2. Counts' = Counts
    BY <1>1, <2>1 DEF Counts
  <2>3. wallet[c] # 1 /\ link.state # "none"
    BY <2>1 DEF ClaimInv, Claiming, Starting
  <2> QED BY <1>1, <2>1, <2>2, <2>3 DEF ClaimInv, Claiming
<1>9. ASSUME NEW c \in People, UndoUse(c) PROVE ClaimInv'
  <2>1. /\ wallet' = wallet /\ at[c] = "undoing" /\ at' = [at EXCEPT ![c] = "in"]
        /\ raced' = (raced \/ link.used # mem[c].used + 1)
        /\ link' = IF link.state = "live" THEN [link EXCEPT !.used = mem[c].used] ELSE link
    BY <1>9 DEF UndoUse, WriteUsed, Restored, Go
  <2>2. wallet[c] # 1 /\ link.state # "none"
    BY <2>1 DEF ClaimInv, Claiming, Starting
  <2>3. Counts' = Counts \ {c} /\ c \in Counts
    BY <1>1, <2>1, <2>2 DEF Counts
  <2>4. Cardinality(Counts') = Cardinality(Counts) - 1
    BY <2>3, CountsAreFinite, FS_RemoveElement
  <2>5. link'.state = link.state /\ (link.state = "live" => link'.used = mem[c].used)
    BY <1>1, <2>1
  <2>6. mem[c].used \in Nat
    BY <1>1 DEF Memory
  <2>7. link'.state # "deleted" /\ ~raced' => link'.used = Cardinality(Counts')
    <3> SUFFICES ASSUME link'.state # "deleted", ~raced'
                 PROVE  link'.used = Cardinality(Counts')
      OBVIOUS
    <3>1. link.used = mem[c].used + 1 /\ link.used = Cardinality(Counts) /\ link.state = "live"
      BY <1>1, <2>1, <2>2, <2>5 DEF ClaimInv
    <3>2. link'.used = mem[c].used
      BY <2>5, <3>1
    <3>3. Cardinality(Counts) - 1 = mem[c].used
      BY <2>6, <3>1
    <3> QED BY <2>4, <3>2, <3>3
  <2> QED BY <1>1, <2>1, <2>2, <2>5, <2>7 DEF ClaimInv, Claiming
<1>10. CASE \/ ShowInvite \/ ReportPaid \/ Deliver \/ HearMarket
            \/ FetchPlayers \/ FetchBalances \/ Connect
            \/ (\E x \in Indexes : Deactivate(x)) \/ (\E same \in BOOLEAN : Leave(same))
            \/ UNCHANGED vars
  <2>1. UNCHANGED <<wallet, at, raced, link>>
    BY <1>10
       DEF ShowInvite, ReportPaid, Deliver, HearMarket, FetchPlayers, FetchBalances, Connect,
           Deactivate, Leave, server, history, vars
  <2> QED BY <2>1, ClaimsUnchanged
<1> QED BY <1>2, <1>3, <1>4, <1>5, <1>6, <1>7, <1>8, <1>9, <1>10 DEF Next

\* As long as nobody wrote the link from a read that was no longer true, it has counted
\* exactly the claims that were paid and those under way (api_lnurl_callback).
THEOREM VoucherIsCounted == Spec => []VoucherCounted
<1>1. Init => StartInv /\ ClaimInv
  <2> SUFFICES ASSUME Init PROVE StartInv /\ ClaimInv
    OBVIOUS
  <2>1. \A c \in People : at[c] \in {"new", "out"} /\ wallet[c] = 0
    BY DEF Init
  <2>2. Counts = {}
    BY <2>1 DEF Counts
  <2>3. link.used = 0 /\ Cardinality(Counts) = 0
    BY <2>2, FS_EmptySet DEF Init
  <2> QED BY <2>1, <2>3, PeopleAreFinite DEF Init, StartInv, ClaimInv, Claiming
<1>2. LobbyInv /\ StartInv /\ ClaimInv /\ [Next]_vars => StartInv' /\ ClaimInv'
  BY StartStep, ClaimStep
<1>3. ClaimInv => VoucherCounted
  BY DEF ClaimInv, VoucherCounted, Counts
<1> QED BY <1>1, <1>2, <1>3, LobbyInvHolds, PTL DEF Spec

-----------------------------------------------------------------------------
(* The creator's page.  Guests come once the creator is in, and who is inserted   *)
(* stays in the table with the index it got.                                      *)

\* The stages in which the creator is entered in the page.
Seated == Later \cup {"paylink", "funding", "vouching", "registering"}

\* The step that enters the creator in the page.
Entering ==
    /\ at[Creator] = "seating" /\ at' = [at EXCEPT ![Creator] = "paylink"]
    /\ page' = [page EXCEPT !.players = Entered(page.players, 1), !.count = 1]

\* The creator does not go back behind being in, and is entered before.
LEMMA CreatorMoves ==
    ASSUME LobbyInv, [Next]_vars
    PROVE  /\ at[Creator] \in Later => at'[Creator] \in Later
           /\ at'[Creator] \in Seated => at[Creator] \in Seated \/ Entering
<1> USE PeopleAreFinite
<1> DEFINE Goal == /\ at[Creator] \in Later => at'[Creator] \in Later
                   /\ at'[Creator] \in Seated => at[Creator] \in Seated \/ Entering
<1>1. at \in [People -> Stages]
  BY DEF LobbyInv, PeopleTypes
<1>2. CASE at' = at
  BY <1>2
<1>3. ASSUME NEW s, at' = [at EXCEPT ![Creator] = s],
             at[Creator] \in Later => s \in Later,
             s \in Seated => at[Creator] \in Seated
      PROVE  Goal
  BY <1>1, <1>3
<1>4. CASE Create \/ MakePayLink
  <2>1. PICK s \in Founding \cup Funding :
          /\ at' = [at EXCEPT ![Creator] = s]
          /\ s \in Seated => at[Creator] = "paylink"
    BY <1>4 DEF Create, MakePayLink, Go, Founding, Funding, Seated, Later, Claiming, Starting
  <2>2. at[Creator] \notin Later
    BY <1>4 DEF Create, MakePayLink, Founding, Later, Claiming, Starting
  <2> QED BY <1>3, <2>1, <2>2 DEF Seated
<1>5. CASE IssueVoucher
  <2>1. at[Creator] \notin Later /\ at[Creator] \in Seated
    BY <1>5 DEF IssueVoucher, Later, Claiming, Starting, Seated
  <2> QED BY <2>1
<1>6. CASE PressStart \/ Start \/ DeleteAgain
  <2>1. PICK s \in Later : at' = [at EXCEPT ![Creator] = s]
    BY <1>6 DEF PressStart, Start, DeleteAgain, Go, After, Starting, Later
  <2>2. at[Creator] \in Seated
    BY <1>6 DEF PressStart, Start, DeleteAgain, Starting, Later, Seated
  <2> QED BY <1>3, <2>1, <2>2
<1>7. ASSUME NEW c \in People, c # Creator,
             \/ ReadNames(c) \/ WriteNames(c) \/ CountPlayers(c)
             \/ InsertPlayer(c) \/ SeatPlayer(c)
             \/ ReadLink(c) \/ CountUse(c) \/ PayOut(c) \/ UndoUse(c)
      PROVE  Goal
  <2>1. PICK s : at' = [at EXCEPT ![c] = s]
    BY <1>7
       DEF ReadNames, WriteNames, CountPlayers, InsertPlayer, SeatPlayer, ReadLink, CountUse,
           PayOut, UndoUse, Go
  <2>2. at'[Creator] = at[Creator]
    BY <1>1, <1>7, <2>1
  <2> QED BY <2>2
<1>8. CASE ReadNames(Creator) \/ WriteNames(Creator) \/ InsertPlayer(Creator)
  <2>1. PICK s \in {"naming", "inserting", "seating"} : at' = [at EXCEPT ![Creator] = s]
    BY <1>8 DEF ReadNames, WriteNames, InsertPlayer, Go
  <2>2. at[Creator] \notin Later
    BY <1>8 DEF ReadNames, MayBeNamed, WriteNames, InsertPlayer, Later, Claiming, Starting
  <2> QED BY <1>3, <2>1, <2>2 DEF Seated, Later, Claiming, Starting
<1>9. CASE SeatPlayer(Creator)
  <2>1. at[Creator] = "seating"
    BY <1>9 DEF SeatPlayer
  <2>2. \/ at' = [at EXCEPT ![Creator] = "unfunded"]
        \/ /\ at' = [at EXCEPT ![Creator] = "paylink"]
           /\ page' = [page EXCEPT !.players = Entered(@, 1), !.count = 1]
    BY <1>9 DEF SeatPlayer, Go
  <2>3. at[Creator] \notin Later
    BY <2>1 DEF Later, Claiming, Starting
  <2>4. CASE at' = [at EXCEPT ![Creator] = "unfunded"]
    BY <1>3, <2>3, <2>4 DEF Seated, Later, Claiming, Starting
  <2> QED BY <2>1, <2>2, <2>3, <2>4 DEF Entering
<1>10. CASE ReadLink(Creator) \/ CountUse(Creator) \/ PayOut(Creator) \/ UndoUse(Creator)
  <2>1. PICK s \in Later : at' = [at EXCEPT ![Creator] = s]
    BY <1>10 DEF ReadLink, CountUse, PayOut, UndoUse, Go, Later, Claiming
  <2>2. at[Creator] \in Seated
    BY <1>10 DEF ReadLink, CountUse, PayOut, UndoUse, Seated, Later, Claiming
  <2> QED BY <1>3, <2>1, <2>2
<1>11. CASE \/ ShowInvite \/ ReportPaid \/ Deliver \/ HearMarket
            \/ FetchPlayers \/ FetchBalances \/ Connect
            \/ (\E x \in Indexes : Deactivate(x)) \/ (\E same \in BOOLEAN : Leave(same))
  BY <1>2, <1>11
     DEF ShowInvite, ReportPaid, Deliver, HearMarket, FetchPlayers, FetchBalances, Connect,
         Deactivate, Leave
<1>12. CASE UNCHANGED vars
  BY <1>2, <1>12 DEF vars
<1> QED BY <1>4, <1>5, <1>6, <1>7, <1>8, <1>9, <1>10, <1>11, <1>12 DEF Next

\* The table is left as it is, but for who has a wallet.
SameRoster ==
    /\ DOMAIN roster' = DOMAIN roster
    /\ \A i \in DOMAIN roster : /\ roster'[i].who = roster[i].who
                                /\ roster'[i].index = roster[i].index
                                /\ roster'[i].active = roster[i].active
                                /\ roster'[i].balance = roster[i].balance

\* So is what the page shows of the players.
SamePage ==
    /\ page'.players = page.players /\ page'.count = page.count /\ page'.load = page.load
    /\ page'.waiting = page.waiting /\ page'.enable = page.enable
    /\ page.started => page'.started

Aside ==
    /\ SameRoster /\ SamePage
    /\ UNCHANGED <<wallet, inbox, paidq, loads, missed, counted>>

\* A wallet was made.
LEMMA SeatedRow ==
    ASSUME LobbyInv, NEW c \in People, SeatPlayer(c)
    PROVE  SameRoster
<1> USE PeopleAreFinite
<1>1. HasRow(c)
  BY DEF SeatPlayer, LobbyInv, Knows, KnowsOf, Rowed
<1>2. LastRow(c) \in DOMAIN roster /\ roster[LastRow(c)] \in RosterRow
  BY <1>1, LastRowIsRow DEF LobbyInv
<1>3. roster' = [roster EXCEPT ![LastRow(c)].seated = TRUE]
  BY DEF SeatPlayer
<1>4. PICK l : l = LastRow(c)
  OBVIOUS
<1>5. \A i \in DOMAIN roster : roster[i] \in RosterRow
  BY DEF LobbyInv, ServerTypes
<1>6. roster' = [roster EXCEPT ![l].seated = TRUE] /\ l \in DOMAIN roster
  BY <1>2, <1>3, <1>4
<1>7. DOMAIN roster' = DOMAIN roster
  BY <1>6
<1>8. ASSUME NEW i \in DOMAIN roster
      PROVE  roster'[i] = roster[i] \/ roster'[i] = [roster[i] EXCEPT !.seated = TRUE]
  BY <1>6
<1> QED BY <1>5, <1>7, <1>8 DEF SameRoster, RosterRow

\* The steps there are, for what the page shows.
LEMMA StepsAre ==
    ASSUME LobbyInv, [Next]_vars
    PROVE  \/ Aside
           \/ \E c \in People : InsertPlayer(c)
           \/ Entering /\ SameRoster /\ UNCHANGED <<wallet, inbox, paidq, loads, missed, counted>>
           \/ \E c \in People : PayOut(c) /\ wallet' = [wallet EXCEPT ![c] = 1]
                                          /\ paidq' = Append(paidq, c)
           \/ ReportPaid \/ Deliver \/ HearMarket
           \/ \E x \in Indexes : Deactivate(x)
           \/ \E same \in BOOLEAN : Leave(same)
           \/ FetchPlayers \/ FetchBalances \/ Connect
<1> USE PeopleAreFinite
<1>1. page \in Page
  BY DEF LobbyInv, PageTypes
<1>2. ASSUME UNCHANGED <<roster, page, wallet, inbox, paidq, loads, missed, counted>> PROVE Aside
  BY <1>2 DEF Aside, SameRoster, SamePage
<1>3. CASE Create \/ MakePayLink \/ ShowInvite \/ PressStart \/ DeleteAgain
  BY <1>2, <1>3
     DEF Create, MakePayLink, ShowInvite, PressStart, DeleteAgain, server, bounds, history
<1>4. CASE IssueVoucher
  <2>1. page' = [page EXCEPT !.voucher = page'.voucher]
    BY <1>1, <1>4 DEF IssueVoucher, Page
  <2>2. SamePage
    BY <1>1, <2>1 DEF Page, SamePage
  <2> QED BY <1>4, <2>2 DEF IssueVoucher, Aside, SameRoster, history
<1>5. CASE Start
  <2>1. \/ page' = page \/ page' = [page EXCEPT !.voucher = FALSE]
        \/ page' = [page EXCEPT !.started = TRUE]
    BY <1>5 DEF Start, Starting
  <2>2. SamePage
    BY <1>1, <2>1 DEF Page, SamePage
  <2> QED BY <1>5, <2>2 DEF Start, Aside, SameRoster, history
<1>6. ASSUME NEW c \in People, ReadNames(c) \/ WriteNames(c) \/ CountPlayers(c)
                               \/ ReadLink(c) \/ CountUse(c) \/ UndoUse(c)
      PROVE  Aside
  BY <1>2, <1>6
     DEF ReadNames, WriteNames, CountPlayers, ReadLink, CountUse, UndoUse, server, bounds,
         history
<1>7. ASSUME NEW c \in People, PayOut(c)
      PROVE  Aside \/ (/\ wallet' = [wallet EXCEPT ![c] = 1] /\ paidq' = Append(paidq, c))
  BY <1>2, <1>7 DEF PayOut, server, history
<1>8. ASSUME NEW c \in People, SeatPlayer(c)
      PROVE  \/ Aside
             \/ Entering /\ SameRoster /\ UNCHANGED <<wallet, inbox, paidq, loads, missed, counted>>
  <2>1. SameRoster /\ UNCHANGED <<wallet, inbox, paidq, loads, missed, counted>>
    BY <1>8, SeatedRow DEF SeatPlayer, history
  <2>2. page' = page \/ Entering
    BY <1>8 DEF SeatPlayer, Go, Entering
  <2>3. page' = page => SamePage
    BY DEF SamePage
  <2> QED BY <2>1, <2>2, <2>3 DEF Aside
<1>9. CASE UNCHANGED vars
  BY <1>2, <1>9 DEF vars, server, bounds, history
<1> QED BY <1>3, <1>4, <1>5, <1>6, <1>7, <1>8, <1>9 DEF Next

\* The stages of a guest before the insertion.
Fresh == {"out", "naming", "invited", "inserting"}

\* Guests come when the creator is in, and are inserted once; the creator is inserted
\* with index 1 and never deactivated.
GuestsInv ==
    /\ page.voucher \/ shown => at[Creator] \in Later
    /\ \A c \in Guests : /\ at[c] # "out" => shown
                         /\ at[c] \in Fresh => ~HasRow(c)
    /\ \A i, j \in DOMAIN roster : roster[i].who = roster[j].who
                                     => roster[i].index = roster[j].index
    /\ \A i \in DOMAIN roster : /\ roster[i].who = Creator => roster[i].index = 1
                                /\ roster[i].index = 1 => roster[i].active
    /\ at[Creator] = "inserting" => mem[Creator].index = 1

\* Guests do not go back behind the insertion, and come when they are invited.
LEMMA GuestMoves ==
    ASSUME LobbyInv, [Next]_vars, NEW c \in Guests
    PROVE  /\ at'[c] \in Fresh => at[c] \in Fresh \ {"inserting"} \/ at'[c] = at[c]
           /\ at'[c] # "out" => at[c] # "out" \/ shown
<1> USE PeopleAreFinite
<1> DEFINE Goal == /\ at'[c] \in Fresh => at[c] \in Fresh \ {"inserting"} \/ at'[c] = at[c]
                   /\ at'[c] # "out" => at[c] # "out" \/ shown
<1>1. at \in [People -> Stages] /\ c \in People /\ c # Creator
  BY LobbyAssumption DEF LobbyInv, PeopleTypes, People
<1>2. CASE at'[c] = at[c]
  BY <1>2
<1>3. ASSUME NEW d \in People, d # c, NEW s, at' = [at EXCEPT ![d] = s] PROVE Goal
  BY <1>1, <1>3
<1>4. CASE Create \/ MakePayLink \/ IssueVoucher \/ PressStart \/ Start \/ DeleteAgain
  <2>1. PICK s : at' = [at EXCEPT ![Creator] = s]
    BY <1>4 DEF Create, MakePayLink, IssueVoucher, PressStart, Start, DeleteAgain, Go
  <2> QED BY <1>1, <1>3, <2>1
<1>5. ASSUME NEW d \in People, d # c,
             \/ ReadNames(d) \/ WriteNames(d) \/ CountPlayers(d)
             \/ InsertPlayer(d) \/ SeatPlayer(d)
             \/ ReadLink(d) \/ CountUse(d) \/ PayOut(d) \/ UndoUse(d)
      PROVE  Goal
  <2>1. PICK s : at' = [at EXCEPT ![d] = s]
    BY <1>5
       DEF ReadNames, WriteNames, CountPlayers, InsertPlayer, SeatPlayer, ReadLink, CountUse,
           PayOut, UndoUse, Go
  <2> QED BY <1>3, <1>5, <2>1
<1>6. CASE ReadNames(c)
  BY <1>1, <1>6 DEF ReadNames, MayBeNamed, Go, Fresh
<1>7. CASE WriteNames(c) \/ CountPlayers(c)
  BY <1>1, <1>7 DEF WriteNames, CountPlayers, Go, Fresh
<1>8. CASE InsertPlayer(c) \/ SeatPlayer(c) \/ ReadLink(c) \/ CountUse(c) \/ PayOut(c) \/ UndoUse(c)
  <2>1. PICK s \in {"seating", "claiming", "stuck", "counting", "in", "paying", "undoing"} :
          at' = [at EXCEPT ![c] = s]
    BY <1>1, <1>8 DEF InsertPlayer, SeatPlayer, ReadLink, CountUse, PayOut, UndoUse, Go
  <2>2. at[c] # "out"
    BY <1>8 DEF InsertPlayer, SeatPlayer, ReadLink, CountUse, PayOut, UndoUse
  <2> QED BY <1>1, <2>1, <2>2 DEF Fresh
<1>9. CASE \/ ShowInvite \/ ReportPaid \/ Deliver \/ HearMarket
           \/ FetchPlayers \/ FetchBalances \/ Connect
           \/ (\E x \in Indexes : Deactivate(x)) \/ (\E same \in BOOLEAN : Leave(same))
  BY <1>2, <1>9
     DEF ShowInvite, ReportPaid, Deliver, HearMarket, FetchPlayers, FetchBalances, Connect,
         Deactivate, Leave
<1>10. CASE UNCHANGED vars
  BY <1>2, <1>10 DEF vars
<1> QED BY <1>4, <1>5, <1>6, <1>7, <1>8, <1>9, <1>10 DEF Next

\* Rows stay as they are but for wallets, balances and who is deactivated.
LEMMA RowsChange ==
    ASSUME LobbyInv, [Next]_vars, ~\E c \in People : InsertPlayer(c)
    PROVE  /\ DOMAIN roster' = DOMAIN roster
           /\ \A i \in DOMAIN roster : /\ roster'[i].who = roster[i].who
                                       /\ roster'[i].index = roster[i].index
           /\ \A i \in DOMAIN roster : roster[i].index = 1 => roster'[i].active = roster[i].active
<1> DEFINE Goal == /\ DOMAIN roster' = DOMAIN roster
                   /\ \A i \in DOMAIN roster : /\ roster'[i].who = roster[i].who
                                               /\ roster'[i].index = roster[i].index
                   /\ \A i \in DOMAIN roster :
                         roster[i].index = 1 => roster'[i].active = roster[i].active
<1>1. \A i \in DOMAIN roster : roster[i] \in RosterRow
  BY DEF LobbyInv, ServerTypes
<1>2. CASE roster' = roster
  BY <1>2
<1>3. CASE ReportPaid
  <2>1. PICK x, b : roster' = [i \in DOMAIN roster |->
                 IF roster[i].index = x /\ roster[i].seated
                 THEN [roster[i] EXCEPT !.balance = b] ELSE roster[i]]
    BY <1>3 DEF ReportPaid
  <2>2. \A i \in DOMAIN roster : \/ roster'[i] = roster[i]
                                 \/ roster'[i] = [roster[i] EXCEPT !.balance = b]
    BY <2>1
  <2>3. DOMAIN roster' = DOMAIN roster
    BY <2>1
  <2> QED BY <1>1, <2>2, <2>3 DEF RosterRow
<1>4. ASSUME NEW x \in Indexes, Deactivate(x) PROVE Goal
  <2>1. roster' = [i \in DOMAIN roster |->
                    IF i \in RowsAt(x) THEN [roster[i] EXCEPT !.active = FALSE]
                    ELSE roster[i]]
        /\ x # 1
    BY <1>4 DEF Deactivate
  <2>2. \A i \in DOMAIN roster :
           \/ roster'[i] = roster[i]
           \/ roster[i].index = x /\ roster'[i] = [roster[i] EXCEPT !.active = FALSE]
    BY <2>1 DEF RowsAt
  <2>3. DOMAIN roster' = DOMAIN roster
    BY <2>1
  <2> QED BY <1>1, <2>1, <2>2, <2>3 DEF RosterRow
<1>5. CASE Aside \/ SameRoster
  BY <1>5 DEF Aside, SameRoster
<1> QED BY <1>2, <1>3, <1>4, <1>5, StepsAre
        DEF PayOut, Deliver, HearMarket, Leave, FetchPlayers, FetchBalances, Connect, server

\* The row that a request inserts comes last.
LEMMA RowInserted ==
    ASSUME LobbyInv, NEW c \in People, InsertPlayer(c)
    PROVE  \E n : /\ n \notin DOMAIN roster /\ DOMAIN roster' = DOMAIN roster \cup {n}
                  /\ n = Len(roster) + 1
                  /\ \A i \in DOMAIN roster : roster'[i] = roster[i]
                  /\ roster'[n].who = c /\ roster'[n].index = mem[c].index
                  /\ roster'[n].active /\ roster'[n].balance = 0
                  /\ mem[c].index \in Indexes /\ at[c] = "inserting"
<1> DEFINE row == [who |-> c, index |-> mem[c].index, active |-> TRUE,
                   seated |-> FALSE, balance |-> 0]
           n == Len(roster) + 1
<1>1. at[c] = "inserting" /\ mem[c].index \in Indexes
  BY DEF InsertPlayer, LobbyInv, Knows, KnowsOf
<1>2. roster' = Append(roster, row) /\ roster \in Seq(RosterRow)
  BY DEF InsertPlayer, LobbyInv, ServerTypes
<1>3. row \in RosterRow
  BY <1>1 DEF RosterRow
<1>4. row.who = c /\ row.index = mem[c].index /\ row.active /\ row.balance = 0
  OBVIOUS
<1> HIDE DEF row
<1>5. /\ n \notin DOMAIN roster /\ DOMAIN roster' = DOMAIN roster \cup {n}
      /\ \A i \in DOMAIN roster : roster'[i] = roster[i]
      /\ roster'[n] = row
  BY <1>2, <1>3
<1> QED BY <1>1, <1>4, <1>5

\* The voucher is known to the page once the creator is in.
LEMMA VoucherKnown ==
    ASSUME LobbyInv, [Next]_vars
    PROVE  page'.voucher => page.voucher \/ at'[Creator] \in Later
<1>1. page \in Page /\ at \in [People -> Stages] /\ Creator \in People
  BY PeopleAreFinite DEF LobbyInv, PageTypes, PeopleTypes
<1>2. CASE page' = page
  BY <1>2
<1>3. CASE IssueVoucher
  <2>1. page'.voucher => at' = [at EXCEPT ![Creator] = "claiming"]
    BY <1>1, <1>3 DEF IssueVoucher, Page, Go
  <2> QED BY <1>1, <2>1 DEF Later, Claiming
<1>4. CASE Start
  <2>1. \/ page' = page \/ page' = [page EXCEPT !.voucher = FALSE]
        \/ page' = [page EXCEPT !.started = TRUE]
    BY <1>4 DEF Start, Starting
  <2> QED BY <1>1, <2>1 DEF Page
<1>5. ASSUME NEW c \in People, SeatPlayer(c) PROVE page'.voucher = page.voucher
  <2>1. page' = page \/ page' = [page EXCEPT !.players = Entered(page.players, 1), !.count = 1]
    BY <1>5 DEF SeatPlayer
  <2> QED BY <1>1, <2>1 DEF Page
<1>6. ASSUME NEW f PROVE Counted(f).voucher = page.voucher
  BY <1>1 DEF Counted, Page
<1>7. CASE Deliver
  <2>1. ASSUME NEW x PROVE NewHeard(x).voucher = page.voucher
    BY <1>1 DEF NewHeard, Page
  <2>2. ASSUME NEW x PROVE GoneHeard(x).voucher = page.voucher
    BY <1>1 DEF GoneHeard, Page
  <2>3. Head(inbox) \in Message
    BY <1>7 DEF Deliver, LobbyInv, PageTypes
  <2>4. \/ \E x : page' = NewHeard(x) \/ page' = GoneHeard(x)
        \/ \E f : page' = Counted(f)
    BY <1>7, <2>3 DEF Deliver, Hear, Message
  <2> QED BY <1>6, <2>1, <2>2, <2>4
<1>8. CASE HearMarket
  BY <1>6, <1>8 DEF HearMarket
<1>9. CASE (\E same \in BOOLEAN : Leave(same)) \/ FetchPlayers \/ FetchBalances \/ Connect
  BY <1>1, <1>9
     DEF Leave, FromStorage, FromDatabase, NoPage, FetchPlayers, FetchBalances, Connect, Page
<1> QED BY <1>2, <1>3, <1>4, <1>5, <1>7, <1>8, <1>9
        DEF Next, vars, Create, MakePayLink, ShowInvite, PressStart, DeleteAgain, CountPlayers,
            ReadNames, WriteNames, InsertPlayer, ReadLink, CountUse, PayOut, UndoUse,
            ReportPaid, Deactivate

\* The creator is inserted with index 1.
LEMMA CreatorIsFirst ==
    ASSUME LobbyInv, [Next]_vars, at[Creator] = "inserting" => mem[Creator].index = 1,
           at'[Creator] = "inserting"
    PROVE  mem'[Creator].index = 1
<1>1. /\ at \in [People -> Stages] /\ Creator \in People /\ mem \in [People -> Memory]
      /\ Creator \notin Guests
  BY PeopleAreFinite, LobbyAssumption DEF LobbyInv, PeopleTypes
<1>2. ASSUME at'[Creator] = at[Creator], mem'[Creator] = mem[Creator]
      PROVE  mem'[Creator].index = 1
  BY <1>2
<1>3. ASSUME NEW c \in People, c # Creator,
             \/ ReadNames(c) \/ WriteNames(c) \/ CountPlayers(c)
             \/ InsertPlayer(c) \/ SeatPlayer(c)
             \/ ReadLink(c) \/ CountUse(c) \/ PayOut(c) \/ UndoUse(c)
      PROVE  mem'[Creator].index = 1
  <2>1. at'[Creator] = at[Creator]
    <3>1. PICK s : at' = [at EXCEPT ![c] = s]
      BY <1>3
         DEF ReadNames, WriteNames, CountPlayers, InsertPlayer, SeatPlayer, ReadLink, CountUse,
             PayOut, UndoUse, Go
    <3> QED BY <1>1, <1>3, <3>1
  <2>2. mem'[Creator] = mem[Creator]
    BY <1>1, <1>3
       DEF ReadNames, WriteNames, CountPlayers, InsertPlayer, SeatPlayer, ReadLink, CountUse,
           PayOut, UndoUse
  <2> QED BY <1>2, <2>1, <2>2
<1>4. CASE WriteNames(Creator)
  BY <1>1, <1>4 DEF WriteNames
<1>5. ASSUME NEW s, s # "inserting", at' = [at EXCEPT ![Creator] = s] PROVE FALSE
  BY <1>1, <1>5
<1>6. CASE \/ Create \/ MakePayLink \/ IssueVoucher \/ PressStart \/ Start \/ DeleteAgain
           \/ ReadNames(Creator) \/ InsertPlayer(Creator) \/ SeatPlayer(Creator)
           \/ ReadLink(Creator) \/ CountUse(Creator) \/ PayOut(Creator) \/ UndoUse(Creator)
  BY <1>1, <1>5, <1>6
     DEF Create, MakePayLink, IssueVoucher, PressStart, Start, DeleteAgain, Go, After, Starting,
         ReadNames, InsertPlayer, SeatPlayer, ReadLink, CountUse, PayOut, UndoUse, Founding
<1>7. CASE \/ ShowInvite \/ ReportPaid \/ Deliver \/ HearMarket
           \/ FetchPlayers \/ FetchBalances \/ Connect
           \/ (\E x \in Indexes : Deactivate(x)) \/ (\E same \in BOOLEAN : Leave(same))
           \/ UNCHANGED vars
  BY <1>2, <1>7
     DEF ShowInvite, ReportPaid, Deliver, HearMarket, FetchPlayers, FetchBalances, Connect,
         Deactivate, Leave, vars
<1> QED BY <1>3, <1>4, <1>6, <1>7, PeopleAreFinite DEF Next

\* No step breaks that.
LEMMA GuestsStep == LobbyInv /\ GuestsInv /\ [Next]_vars => GuestsInv'
<1> SUFFICES ASSUME LobbyInv, GuestsInv, [Next]_vars PROVE GuestsInv'
  OBVIOUS
<1>1. Creator \in People /\ Guests \subseteq People /\ Creator \notin Guests
  BY PeopleAreFinite, LobbyAssumption DEF People
<1>2. page'.voucher \/ shown' => at'[Creator] \in Later
  <2>1. shown' => shown \/ page.voucher
    BY DEF Next, vars, Create, MakePayLink, IssueVoucher, ShowInvite, PressStart, Start,
           DeleteAgain, CountPlayers, ReadNames, WriteNames, InsertPlayer, SeatPlayer, ReadLink,
           CountUse, PayOut, UndoUse, ReportPaid, Deliver, HearMarket, Deactivate, Leave,
           FetchPlayers, FetchBalances, Connect
  <2> QED BY <2>1, VoucherKnown, CreatorMoves DEF GuestsInv
<1>3. shown => shown'
  BY DEF Next, vars, Create, MakePayLink, IssueVoucher, ShowInvite, PressStart, Start,
         DeleteAgain, CountPlayers, ReadNames, WriteNames, InsertPlayer, SeatPlayer, ReadLink,
         CountUse, PayOut, UndoUse, ReportPaid, Deliver, HearMarket, Deactivate, Leave,
         FetchPlayers, FetchBalances, Connect
<1>4. \A c \in Guests : at'[c] # "out" => shown'
  BY <1>3, GuestMoves DEF GuestsInv
<1>5. at'[Creator] = "inserting" => mem'[Creator].index = 1
  BY CreatorIsFirst DEF GuestsInv
<1>6. CASE ~\E c \in People : InsertPlayer(c)
  <2>1. \A c : HasRow(c)' => HasRow(c)
    BY <1>6, RowsChange DEF HasRow
  <2>2. \A c \in Guests : at'[c] \in Fresh => ~HasRow(c)'
    BY <2>1, GuestMoves DEF GuestsInv
  <2>3. /\ \A i, j \in DOMAIN roster' : roster'[i].who = roster'[j].who
                                          => roster'[i].index = roster'[j].index
        /\ \A i \in DOMAIN roster' : /\ roster'[i].who = Creator => roster'[i].index = 1
                                     /\ roster'[i].index = 1 => roster'[i].active
    BY <1>6, RowsChange DEF GuestsInv
  <2> QED BY <1>2, <1>4, <1>5, <2>2, <2>3 DEF GuestsInv
<1>7. ASSUME NEW c \in People, InsertPlayer(c) PROVE GuestsInv'
  <2>1. PICK n : /\ n \notin DOMAIN roster /\ DOMAIN roster' = DOMAIN roster \cup {n}
                 /\ \A i \in DOMAIN roster : roster'[i] = roster[i]
                 /\ roster'[n].who = c /\ roster'[n].index = mem[c].index
                 /\ roster'[n].active /\ at[c] = "inserting"
    BY <1>7, RowInserted
  <2>2. c = Creator \/ (c \in Guests /\ ~HasRow(c))
    BY <2>1 DEF GuestsInv, Fresh, People
  <2>3. c = Creator => mem[c].index = 1
    BY <2>1 DEF GuestsInv
  <2>4. \A i \in DOMAIN roster : roster[i].who = c => roster[i].index = mem[c].index
    BY <2>2, <2>3 DEF GuestsInv, HasRow
  <2>5. \A i, j \in DOMAIN roster' : roster'[i].who = roster'[j].who
                                          => roster'[i].index = roster'[j].index
    BY <2>1, <2>4 DEF GuestsInv
  <2>6. \A i \in DOMAIN roster' : /\ roster'[i].who = Creator => roster'[i].index = 1
                                  /\ roster'[i].index = 1 => roster'[i].active
    BY <2>1, <2>3 DEF GuestsInv
  <2>7. ASSUME NEW d \in Guests, at'[d] \in Fresh PROVE ~HasRow(d)'
    <3>1. at' = [at EXCEPT ![c] = "seating"] /\ at \in [People -> Stages]
      BY <1>7 DEF InsertPlayer, Go, LobbyInv, PeopleTypes
    <3>2. d # c /\ at'[d] = at[d]
      BY <1>1, <2>7, <3>1 DEF Fresh
    <3>3. ~HasRow(d)
      BY <2>7, <3>2 DEF GuestsInv
    <3> QED BY <2>1, <3>2, <3>3 DEF HasRow
  <2> QED BY <1>2, <1>4, <1>5, <2>5, <2>6, <2>7 DEF GuestsInv
<1> QED BY <1>6, <1>7

-----------------------------------------------------------------------------
(* What the handlers make of the page, field by field.                           *)

\* A player is entered in a list.
LEMMA EnteredIs ==
    ASSUME NEW f, NEW x
    PROVE  /\ DOMAIN Entered(f, x) = DOMAIN f \cup {x} /\ Entered(f, x)[x] = 0
           /\ \A y \in DOMAIN f : y # x => Entered(f, x)[y] = f[y]
BY DEF Entered

\* A player is dropped from a list.
LEMMA DroppedIs ==
    ASSUME NEW f, NEW x
    PROVE  /\ DOMAIN Dropped(f, x) = DOMAIN f \ {x}
           /\ \A y \in DOMAIN f \ {x} : Dropped(f, x)[y] = f[y]
BY DEF Dropped

\* The page counts whom it waits for.
LEMMA CountedIs ==
    ASSUME page \in Page, NEW f
    PROVE  /\ Counted(f).players = f /\ Counted(f).count = page.count
           /\ Counted(f).load = page.load /\ Counted(f).started = page.started
           /\ MayCount => Counted(f).waiting = Poor(f) /\ Counted(f).enable = (Poor(f) = {})
           /\ ~MayCount => /\ Counted(f).waiting = page.waiting
                           /\ Counted(f).enable = page.enable
BY DEF Counted, Page

\* The page hears of a new player.
LEMMA NewHeardIs ==
    ASSUME page \in Page, NEW x
    PROVE  /\ NewHeard(x).players = Entered(page.players, x)
           /\ NewHeard(x).count = page.count + 1
           /\ NewHeard(x).load = page.load /\ NewHeard(x).started = page.started
           /\ ~page.started => /\ NewHeard(x).waiting = page.waiting \cup {x}
                               /\ ~NewHeard(x).enable
<1> DEFINE g == Entered(page.players, x)
           p == [page EXCEPT !.count = @ + 1, !.players = g]
<1>1. /\ p.players = g /\ p.count = page.count + 1 /\ p.load = page.load
      /\ p.started = page.started /\ p.waiting = page.waiting
      /\ p = [p EXCEPT !.load = p.load]
  <2> HIDE DEF g
  <2> QED BY DEF Page
<1>2. NewHeard(x) = IF page.started THEN p
                    ELSE [p EXCEPT !.enable = FALSE, !.waiting = p.waiting \cup {x}, !.kept = TRUE]
  BY DEF NewHeard
<1>3. DOMAIN p = {"load", "players", "count", "waiting", "enable", "kept", "voucher", "started"}
  <2> HIDE DEF g
  <2> QED BY DEF Page
<1> HIDE DEF p, g
<1>4. CASE page.started
  BY <1>1, <1>2, <1>4 DEF g
<1>5. CASE ~page.started
  <2>1. NewHeard(x) = [p EXCEPT !.enable = FALSE, !.waiting = p.waiting \cup {x}, !.kept = TRUE]
    BY <1>2, <1>5
  <2> QED BY <1>1, <1>3, <1>5, <2>1 DEF g
<1> QED BY <1>4, <1>5

\* The page hears of a player who is gone.
LEMMA GoneHeardIs ==
    ASSUME page \in Page, NEW x
    PROVE  /\ GoneHeard(x).players = Dropped(page.players, x)
           /\ GoneHeard(x).count = page.count - 1
           /\ GoneHeard(x).load = page.load /\ GoneHeard(x).started = page.started
           /\ MayCount => /\ GoneHeard(x).waiting = page.waiting \ {x}
                          /\ GoneHeard(x).enable = (page.waiting \subseteq {x})
           /\ ~MayCount => /\ GoneHeard(x).waiting = page.waiting
                           /\ GoneHeard(x).enable = page.enable
<1> DEFINE g == Dropped(page.players, x)
           p == [page EXCEPT !.count = @ - 1, !.players = g]
           e == page.waiting \subseteq {x}
<1>1. /\ p.players = g /\ p.count = page.count - 1 /\ p.load = page.load
      /\ p.started = page.started /\ p.waiting = page.waiting /\ p.enable = page.enable
  <2> HIDE DEF g
  <2> QED BY DEF Page
<1>2. GoneHeard(x) = IF ~MayCount THEN p
                     ELSE [p EXCEPT !.waiting = p.waiting \ {x}, !.enable = e, !.kept = TRUE]
  BY DEF GoneHeard
<1>3. DOMAIN p = {"load", "players", "count", "waiting", "enable", "kept", "voucher", "started"}
  <2> HIDE DEF g
  <2> QED BY DEF Page
<1> HIDE DEF p, g
<1>4. CASE ~MayCount
  BY <1>1, <1>2, <1>4 DEF g
<1>5. CASE MayCount
  <2>1. GoneHeard(x) = [p EXCEPT !.waiting = p.waiting \ {x}, !.enable = e, !.kept = TRUE]
    BY <1>2, <1>5
  <2>2. /\ GoneHeard(x).waiting = p.waiting \ {x} /\ GoneHeard(x).enable = e
        /\ GoneHeard(x).players = p.players /\ GoneHeard(x).count = p.count
        /\ GoneHeard(x).load = p.load /\ GoneHeard(x).started = p.started
    <3> HIDE DEF e
    <3> QED BY <1>3, <2>1
  <2> QED BY <1>1, <1>5, <2>2 DEF g
<1> QED BY <1>4, <1>5

\* The players with the balance of one of them.
PaidNow(m) == [x \in DOMAIN page.players |-> IF x = m.index THEN m.balance ELSE page.players[x]]

\* A message is heard, the first one there is.
LEMMA DeliverIs ==
    ASSUME LobbyInv, Deliver
    PROVE  /\ 1 \in DOMAIN inbox /\ inbox[1] \in Message /\ Present
           /\ \A k \in DOMAIN inbox' : /\ k \in Nat /\ k + 1 \in DOMAIN inbox
                                       /\ inbox'[k] = inbox[k + 1]
           /\ \A k \in DOMAIN inbox : /\ k \in Nat
                                      /\ k = 1 \/ /\ k - 1 \in DOMAIN inbox'
                                                  /\ inbox'[k - 1] = inbox[k]
           /\ \/ inbox[1].type = "new" /\ page' = NewHeard(inbox[1].index)
              \/ inbox[1].type = "gone" /\ page' = GoneHeard(inbox[1].index)
              \/ inbox[1].type = "pay" /\ page' = Counted(PaidNow(inbox[1]))
           /\ counted' = (counted \/ (inbox[1].type = "pay" /\ MayCount))
           /\ UNCHANGED <<at, wallet, roster, paidq, loads, missed>>
<1>1. inbox \in Seq(Message) /\ inbox # << >> /\ inbox' = Tail(inbox) /\ Present
  BY DEF LobbyInv, PageTypes, Deliver
<1>2. 1 \in DOMAIN inbox /\ Head(inbox) = inbox[1] /\ inbox[1] \in Message
  BY <1>1
<1>3. page' = Hear(inbox[1])
  BY <1>2 DEF Deliver
<1>4. inbox[1].type \in {"new", "gone", "pay"}
  BY <1>2 DEF Message
<1>5. \/ inbox[1].type = "new" /\ page' = NewHeard(inbox[1].index)
      \/ inbox[1].type = "gone" /\ page' = GoneHeard(inbox[1].index)
      \/ inbox[1].type = "pay" /\ page' = Counted(PaidNow(inbox[1]))
  BY <1>3, <1>4 DEF Hear, PaidNow
<1>6. \A k \in DOMAIN inbox' : k \in Nat /\ k + 1 \in DOMAIN inbox /\ inbox'[k] = inbox[k + 1]
  BY <1>1
<1>7. \A k \in DOMAIN inbox : /\ k \in Nat
                              /\ k = 1 \/ (k - 1 \in DOMAIN inbox' /\ inbox'[k - 1] = inbox[k])
  BY <1>1
<1>8. /\ counted' = (counted \/ (inbox[1].type = "pay" /\ MayCount))
      /\ UNCHANGED <<at, wallet, roster, paidq, loads, missed>>
  BY <1>2 DEF Deliver, server, bounds
<1> QED BY <1>1, <1>2, <1>5, <1>6, <1>7, <1>8

\* A message is sent to a page that hears it, or to one that does not.
LEMMA SendIs ==
    ASSUME LobbyInv, NEW msg \in Message, Send(msg)
    PROVE  /\ ~Present => inbox' = inbox
           /\ Present =>
                /\ Len(inbox) + 1 \notin DOMAIN inbox
                /\ DOMAIN inbox' = DOMAIN inbox \cup {Len(inbox) + 1}
                /\ \A k \in DOMAIN inbox : inbox'[k] = inbox[k] /\ k < Len(inbox) + 1
                /\ inbox'[Len(inbox) + 1] = msg
<1>1. inbox \in Seq(Message)
  BY DEF LobbyInv, PageTypes
<1> QED BY <1>1 DEF Send

\* The messages that steps send.
LEMMA InsertSends ==
    ASSUME LobbyInv, NEW c \in People, InsertPlayer(c)
    PROVE  /\ page' = page
           /\ c = Creator => inbox' = inbox /\ missed' = missed
           /\ c # Creator =>
                /\ [type |-> "new", index |-> mem[c].index, balance |-> 0] \in Message
                /\ Send([type |-> "new", index |-> mem[c].index, balance |-> 0])
<1>1. mem[c].index \in Indexes
  BY DEF InsertPlayer, LobbyInv, Knows, KnowsOf
<1> QED BY <1>1 DEF InsertPlayer, Message

\* The watcher reports the first payment there is.
LEMMA ReportIs ==
    ASSUME LobbyInv, ReportPaid
    PROVE  \E l \in DOMAIN roster :
             /\ paidq # << >> /\ 1 \in DOMAIN paidq /\ paidq[1] \in People
             /\ \A k \in DOMAIN paidq : /\ k \in Nat
                                        /\ k = 1 \/ (k - 1 \in DOMAIN paidq'
                                                     /\ paidq'[k - 1] = paidq[k])
             /\ \A k \in DOMAIN paidq' : k + 1 \in DOMAIN paidq /\ paidq'[k] = paidq[k + 1]
             /\ roster[l].who = paidq[1]
             /\ roster[l].index \in Indexes
             /\ [type |-> "pay", index |-> roster[l].index, balance |-> wallet[paidq[1]]] \in Message
             /\ Send([type |-> "pay", index |-> roster[l].index, balance |-> wallet[paidq[1]]])
             /\ DOMAIN roster' = DOMAIN roster
             /\ \A i \in DOMAIN roster :
                  /\ roster'[i].who = roster[i].who /\ roster'[i].index = roster[i].index
                  /\ roster'[i].active = roster[i].active
                  /\ \/ roster'[i].balance = roster[i].balance
                     \/ /\ roster[i].index = roster[l].index
                        /\ roster'[i].balance = wallet[paidq[1]]
             /\ page' = page /\ UNCHANGED <<at, wallet, loads, counted>>
<1>1. /\ paidq \in Seq(People) /\ paidq # << >> /\ paidq' = Tail(paidq)
      /\ \A i \in DOMAIN roster : roster[i] \in RosterRow
  BY DEF ReportPaid, LobbyInv, PageTypes, ServerTypes
<1>2. /\ 1 \in DOMAIN paidq /\ paidq[1] \in People /\ Head(paidq) = paidq[1]
      /\ \A k \in DOMAIN paidq : /\ k \in Nat
                                 /\ k = 1 \/ (k - 1 \in DOMAIN paidq' /\ paidq'[k - 1] = paidq[k])
      /\ \A k \in DOMAIN paidq' : k + 1 \in DOMAIN paidq /\ paidq'[k] = paidq[k + 1]
  BY <1>1
<1>3. PICK c : c = paidq[1]
  OBVIOUS
<1>4. HasRow(c) /\ c \in People
  BY <1>2, <1>3 DEF LobbyInv, Knows, PaidHaveRows
<1>5. PICK l : l = LastRow(c)
  OBVIOUS
<1>6. l \in DOMAIN roster
  BY <1>4, <1>5, LastRowIsRow DEF LobbyInv
<1>7. roster[l].who = c
  <2> DEFINE S == {i \in DOMAIN roster : roster[i].who = c}
  <2>1. DOMAIN roster = 1 .. Len(roster) /\ Len(roster) \in Nat
    BY DEF LobbyInv, ServerTypes
  <2>2. S \in SUBSET (1 .. Len(roster)) /\ S # {}
    BY <1>4, <2>1 DEF HasRow
  <2>3. Max(S) \in S
    BY <2>1, <2>2, MaxOfRows
  <2> QED BY <1>5, <2>3 DEF LastRow
<1>8. wallet[c] \in {0, 1}
  BY <1>4 DEF LobbyInv, PeopleTypes
<1>9. PICK x : x = roster[l].index
  OBVIOUS
<1>10. x \in Indexes
  BY <1>1, <1>6, <1>9 DEF RosterRow
<1>11. PICK b : b = wallet[c]
  OBVIOUS
<1>12. /\ roster' = [i \in DOMAIN roster |->
                 IF roster[i].index = x /\ roster[i].seated
                 THEN [roster[i] EXCEPT !.balance = b] ELSE roster[i]]
       /\ Send([type |-> "pay", index |-> x, balance |-> b])
       /\ page' = page /\ UNCHANGED <<at, wallet, loads, counted>>
  BY <1>2, <1>3, <1>5, <1>9, <1>11 DEF ReportPaid, bounds
<1>13. DOMAIN roster' = DOMAIN roster
  BY <1>12
<1>14. \A i \in DOMAIN roster :
          \/ roster'[i] = roster[i]
          \/ roster[i].index = x /\ roster'[i] = [roster[i] EXCEPT !.balance = b]
  BY <1>12
<1>15. \A i \in DOMAIN roster :
                  /\ roster'[i].who = roster[i].who /\ roster'[i].index = roster[i].index
                  /\ roster'[i].active = roster[i].active
                  /\ \/ roster'[i].balance = roster[i].balance
                     \/ roster[i].index = x /\ roster'[i].balance = b
  BY <1>1, <1>14 DEF RosterRow
<1>16. [type |-> "pay", index |-> x, balance |-> b] \in Message
  BY <1>8, <1>10, <1>11 DEF Message
<1>17. roster[l].index = x /\ wallet[paidq[1]] = b /\ roster[l].who = paidq[1]
  BY <1>3, <1>7, <1>9, <1>11
<1>18. /\ [type |-> "pay", index |-> roster[l].index, balance |-> wallet[paidq[1]]] \in Message
       /\ Send([type |-> "pay", index |-> roster[l].index, balance |-> wallet[paidq[1]]])
  BY <1>12, <1>16, <1>17
<1>19. \A i \in DOMAIN roster :
          /\ roster'[i].who = roster[i].who /\ roster'[i].index = roster[i].index
          /\ roster'[i].active = roster[i].active
          /\ \/ roster'[i].balance = roster[i].balance
             \/ /\ roster[i].index = roster[l].index
                /\ roster'[i].balance = wallet[paidq[1]]
  BY <1>15, <1>17
<1>20. roster[l].index \in Indexes
  BY <1>10, <1>17
<1>21. l \in DOMAIN roster
  BY <1>6
<1> WITNESS l \in DOMAIN roster
<1> QED BY <1>1, <1>2, <1>12, <1>13, <1>17, <1>18, <1>19, <1>20

\* A player is deactivated.
LEMMA DeactivateIs ==
    ASSUME LobbyInv, NEW x \in Indexes, Deactivate(x)
    PROVE  /\ Present /\ x \in DOMAIN page.players
           /\ [type |-> "gone", index |-> x, balance |-> 0] \in Message
           /\ Send([type |-> "gone", index |-> x, balance |-> 0])
           /\ DOMAIN roster' = DOMAIN roster
           /\ \A i \in DOMAIN roster :
                /\ roster'[i].who = roster[i].who /\ roster'[i].index = roster[i].index
                /\ roster'[i].balance = roster[i].balance
                /\ roster'[i].active <=> roster[i].active /\ roster[i].index # x
           /\ page' = page /\ UNCHANGED <<at, wallet, paidq, loads, counted>>
<1>1. /\ roster' = [i \in DOMAIN roster |->
                      IF i \in RowsAt(x) THEN [roster[i] EXCEPT !.active = FALSE] ELSE roster[i]]
      /\ Send([type |-> "gone", index |-> x, balance |-> 0])
      /\ Present /\ x \in DOMAIN page.players
      /\ page' = page /\ UNCHANGED <<at, wallet, paidq, loads, counted>>
  BY DEF Deactivate
<1>2. \A i \in DOMAIN roster : roster[i] \in RosterRow
  BY DEF LobbyInv, ServerTypes
<1>3. \A i \in DOMAIN roster :
         \/ roster[i].index # x /\ roster'[i] = roster[i]
         \/ roster[i].index = x /\ roster'[i] = [roster[i] EXCEPT !.active = FALSE]
  BY <1>1 DEF RowsAt
<1>4. \A i \in DOMAIN roster :
                /\ roster'[i].who = roster[i].who /\ roster'[i].index = roster[i].index
                /\ roster'[i].balance = roster[i].balance
                /\ roster'[i].active <=> roster[i].active /\ roster[i].index # x
  BY <1>2, <1>3 DEF RosterRow
<1>5. [type |-> "gone", index |-> x, balance |-> 0] \in Message
  BY DEF Message
<1>6. DOMAIN roster' = DOMAIN roster
  BY <1>1
<1> QED BY <1>1, <1>4, <1>5, <1>6

\* The indexes there are, and those of the players still in the game.
Known == {roster[i].index : i \in DOMAIN roster}
There == {roster[i].index : i \in Active}

\* The page is loaded.
LEMMA LeaveIs ==
    ASSUME LobbyInv, NEW same \in BOOLEAN, Leave(same)
    PROVE  /\ page'.load = "players" /\ inbox' = << >> /\ ~counted' /\ Present
           /\ at[Creator] = "in" /\ at' = at /\ roster' = roster /\ wallet' = wallet
           /\ paidq' = paidq /\ loads' = loads + 1
           /\ \/ same /\ page'.players = page.players
              \/ ~same /\ page'.players = << >>
           /\ missed' = (same /\ (missed \/ \E i \in DOMAIN inbox : inbox[i].type = "gone"))
<1>1. page \in Page
  BY DEF LobbyInv, PageTypes
<1>2. FromStorage.load = "players" /\ FromStorage.players = page.players
  BY <1>1 DEF FromStorage, Page
<1>3. FromDatabase.load = "players" /\ FromDatabase.players = << >>
  BY DEF FromDatabase, NoPage
<1> QED BY <1>2, <1>3 DEF Leave, server

\* The page adds the players of the table to its list.
LEMMA FetchPlayersIs ==
    ASSUME LobbyInv, FetchPlayers
    PROVE  /\ page.load = "players" /\ page'.load = "balances"
           /\ page'.count = Cardinality(Active)
           /\ DOMAIN page'.players = DOMAIN page.players \cup There
           /\ \A x \in DOMAIN page.players : page'.players[x] = page.players[x]
           /\ \A x \in There \ DOMAIN page.players : page'.players[x] = Unset
           /\ UNCHANGED <<at, wallet, roster, inbox, paidq, loads, missed, counted>>
<1>1. page \in Page
  BY DEF LobbyInv, PageTypes
<1> DEFINE g == Merged(page.players)
           n == Cardinality(Active)
<1>2. /\ DOMAIN g = DOMAIN page.players \cup There
      /\ \A x \in DOMAIN page.players : g[x] = page.players[x]
      /\ \A x \in There \ DOMAIN page.players : g[x] = Unset
  BY DEF Merged, There
<1>3. page' = [page EXCEPT !.load = "balances", !.players = g, !.count = n]
  BY DEF FetchPlayers
<1> HIDE DEF g, n
<1>4. page'.load = "balances" /\ page'.players = g /\ page'.count = n
  BY <1>1, <1>3 DEF Page
<1>5. page.load = "players" /\ UNCHANGED <<at, wallet, roster, inbox, paidq, loads, missed, counted>>
  BY DEF FetchPlayers, server, bounds, history
<1> QED BY <1>2, <1>4, <1>5 DEF n

\* The page takes the balances from the table.
LEMMA FetchBalancesIs ==
    ASSUME LobbyInv, FetchBalances
    PROVE  /\ page.load = "balances" /\ page'.load = "connect"
           /\ page'.count = page.count
           /\ DOMAIN page'.players = DOMAIN page.players
           /\ \A x \in DOMAIN page.players :
                \/ page'.players[x] = page.players[x]
                \/ \E i \in RowsAt(x) : page'.players[x] = roster[i].balance
           /\ UNCHANGED <<at, wallet, roster, inbox, paidq, loads, missed, counted>>
<1>1. page \in Page
  BY DEF LobbyInv, PageTypes
<1> DEFINE f == page.players
           rows(x) == {i \in RowsAt(x) : roster[i].seated}
           g == [x \in DOMAIN f |->
                   IF rows(x) = {} THEN f[x] ELSE roster[Max(rows(x))].balance]
<1>2. ASSUME NEW x \in DOMAIN f, rows(x) # {} PROVE Max(rows(x)) \in RowsAt(x)
  <2>1. DOMAIN roster = 1 .. Len(roster) /\ Len(roster) \in Nat
    BY DEF LobbyInv, ServerTypes
  <2>2. rows(x) \in SUBSET (1 .. Len(roster)) /\ rows(x) \subseteq RowsAt(x)
    BY <2>1 DEF RowsAt
  <2> HIDE DEF rows
  <2>3. Max(rows(x)) \in rows(x)
    BY <1>2, <2>1, <2>2, MaxOfRows
  <2> QED BY <2>2, <2>3
<1>3. page' = [page EXCEPT !.load = "connect", !.started = started, !.players = g]
  BY DEF FetchBalances
<1>4. /\ DOMAIN g = DOMAIN f
      /\ \A x \in DOMAIN f : g[x] = f[x] \/ \E i \in RowsAt(x) : g[x] = roster[i].balance
  <2> HIDE DEF rows
  <2> QED BY <1>2
<1> HIDE DEF g
<1>5. page'.load = "connect" /\ page'.players = g /\ page'.count = page.count
  BY <1>1, <1>3 DEF Page
<1>6. page.load = "balances" /\ UNCHANGED <<at, wallet, roster, inbox, paidq, loads, missed, counted>>
  BY DEF FetchBalances, server, bounds, history
<1> QED BY <1>4, <1>5, <1>6

\* The page is loaded and connected.
LEMMA ConnectIs ==
    ASSUME LobbyInv, Connect
    PROVE  /\ page.load = "connect" /\ page'.load = "live" /\ page'.players = page.players
           /\ page'.count = page.count
           /\ UNCHANGED <<at, wallet, roster, inbox, paidq, loads, missed, counted>>
<1>1. page \in Page
  BY DEF LobbyInv, PageTypes
<1> QED BY <1>1 DEF Connect, Page, server, bounds, history

\* Indexes do not disappear.
LEMMA KnownGrows ==
    ASSUME LobbyInv, [Next]_vars
    PROVE  /\ Known \subseteq Known'
           /\ \A i \in DOMAIN roster : /\ i \in DOMAIN roster'
                                       /\ roster'[i].who = roster[i].who
                                       /\ roster'[i].index = roster[i].index
<1>1. CASE ~\E c \in People : InsertPlayer(c)
  BY <1>1, RowsChange DEF Known
<1>2. ASSUME NEW c \in People, InsertPlayer(c)
      PROVE  /\ Known \subseteq Known'
             /\ \A i \in DOMAIN roster : i \in DOMAIN roster' /\ roster'[i] = roster[i]
  <2>1. PICK n : /\ DOMAIN roster' = DOMAIN roster \cup {n}
                 /\ \A i \in DOMAIN roster : roster'[i] = roster[i]
    BY <1>2, RowInserted
  <2> QED BY <2>1 DEF Known
<1> QED BY <1>1, <1>2

-----------------------------------------------------------------------------
(* What the page and the messages are about.                                     *)

KnownInv ==
    /\ DOMAIN page.players \subseteq Known
    /\ \A k \in DOMAIN inbox : inbox[k].index \in Known
    /\ ~Present => inbox = << >>

\* Only indexes of the table get into the page and into messages.
LEMMA KnownStep == LobbyInv /\ GuestsInv /\ KnownInv /\ [Next]_vars => KnownInv'
<1> SUFFICES ASSUME LobbyInv, GuestsInv, KnownInv, [Next]_vars PROVE KnownInv'
  OBVIOUS
<1>1. Known \subseteq Known' /\ page \in Page
  BY KnownGrows DEF LobbyInv, PageTypes
<1>2. ASSUME UNCHANGED <<inbox>>, page'.load = page.load, DOMAIN page'.players \subseteq Known'
      PROVE  KnownInv'
  BY <1>1, <1>2 DEF KnownInv, Present
<1>3. CASE Aside
  BY <1>1, <1>2, <1>3 DEF Aside, SamePage, KnownInv
<1>4. ASSUME NEW m \in Message, Send(m), m.index \in Known', page' = page PROVE KnownInv'
  <2>1. ASSUME NEW k \in DOMAIN inbox' PROVE inbox'[k].index \in Known'
    BY <1>1, <1>4, <2>1, SendIs DEF KnownInv
  <2>2. ~Present => inbox' = inbox
    BY <1>4, SendIs
  <2> QED BY <1>1, <1>4, <2>1, <2>2 DEF KnownInv, Present
<1>5. ASSUME NEW c \in People, InsertPlayer(c) PROVE KnownInv'
  <2>1. PICK n : n \in DOMAIN roster' /\ roster'[n].index = mem[c].index
    BY <1>5, RowInserted
  <2>2. mem[c].index \in Known'
    BY <2>1 DEF Known
  <2>3. CASE c = Creator
    BY <1>1, <1>2, <1>5, <2>3, InsertSends DEF KnownInv
  <2>4. CASE c # Creator
    <3> DEFINE m == [type |-> "new", index |-> mem[c].index, balance |-> 0]
    <3>1. m \in Message /\ Send(m) /\ m.index = mem[c].index /\ page' = page
      BY <1>5, <2>4, InsertSends
    <3> HIDE DEF m
    <3> QED BY <1>4, <2>2, <3>1
  <2> QED BY <2>3, <2>4
<1>6. CASE Entering /\ SameRoster /\ UNCHANGED inbox
  <2>1. HasRow(Creator)
    BY <1>6, PeopleAreFinite DEF Entering, LobbyInv, Knows, KnowsOf, Rowed
  <2>2. 1 \in Known
    BY <2>1 DEF HasRow, Known, GuestsInv
  <2> DEFINE g == Entered(page.players, 1)
  <2>3. DOMAIN g = DOMAIN page.players \cup {1}
    BY DEF Entered
  <2>4. page' = [page EXCEPT !.players = g, !.count = 1]
    BY <1>6 DEF Entering
  <2> HIDE DEF g
  <2>5. page'.players = g /\ page'.load = page.load
    BY <1>1, <2>4 DEF Page
  <2> QED BY <1>1, <1>2, <1>6, <2>2, <2>3, <2>5 DEF KnownInv
<1>7. CASE \E c \in People : PayOut(c)
  BY <1>1, <1>2, <1>7 DEF PayOut, KnownInv
<1>8. CASE ReportPaid
  <2>1. PICK l \in DOMAIN roster :
             LET m == [type |-> "pay", index |-> roster[l].index, balance |-> wallet[paidq[1]]]
             IN  m \in Message /\ Send(m) /\ page' = page
    BY <1>8, ReportIs
  <2> DEFINE m == [type |-> "pay", index |-> roster[l].index, balance |-> wallet[paidq[1]]]
  <2>2. m \in Message /\ Send(m) /\ m.index \in Known
    BY <2>1 DEF Known
  <2> HIDE DEF m
  <2> QED BY <1>1, <1>4, <2>1, <2>2
<1>9. CASE Deliver
  <2>1. /\ Present /\ inbox[1].index \in Known
        /\ \A k \in DOMAIN inbox' : inbox'[k].index \in Known
    BY <1>9, DeliverIs DEF KnownInv
  <2>2. page'.load = page.load /\ DOMAIN page'.players \subseteq Known
    <3>1. PICK x, f :
            /\ x \in Known
            /\ DOMAIN f = DOMAIN page.players
            /\ page' = NewHeard(x) \/ page' = GoneHeard(x) \/ page' = Counted(f)
      BY <1>9, <2>1, DeliverIs DEF PaidNow
    <3>2. CASE page' = NewHeard(x)
      <4>1. page'.load = page.load /\ page'.players = Entered(page.players, x)
        BY <1>1, <3>2, NewHeardIs
      <4>2. DOMAIN page.players \subseteq Known
        BY DEF KnownInv
      <4>3. DOMAIN Entered(page.players, x) = DOMAIN page.players \cup {x}
        BY EnteredIs
      <4>4. x \in Known
        BY <3>1
      <4> QED BY <4>1, <4>2, <4>3, <4>4
    <3>3. CASE page' = GoneHeard(x)
      <4>1. page'.load = page.load /\ page'.players = Dropped(page.players, x)
        BY <1>1, <3>3, GoneHeardIs
      <4>2. DOMAIN page.players \subseteq Known
        BY DEF KnownInv
      <4>3. DOMAIN Dropped(page.players, x) = DOMAIN page.players \ {x}
        BY DroppedIs
      <4>4. x \in Known
        BY <3>1
      <4> QED BY <4>1, <4>2, <4>3, <4>4
    <3>4. CASE page' = Counted(f)
      <4>1. page'.load = page.load /\ page'.players = f
        BY <1>1, <3>4, CountedIs
      <4>2. DOMAIN page.players \subseteq Known
        BY DEF KnownInv
      <4> QED BY <3>1, <4>1, <4>2
    <3> QED BY <3>1, <3>2, <3>3, <3>4
  <2> QED BY <1>1, <2>1, <2>2 DEF KnownInv, Present
<1>10. CASE HearMarket
  <2>1. page' = Counted(page.players) /\ inbox' = inbox
    BY <1>10 DEF HearMarket
  <2>2. page'.load = page.load /\ page'.players = page.players
    BY <1>1, <2>1, CountedIs
  <2> QED BY <1>1, <1>2, <2>1, <2>2 DEF KnownInv
<1>11. ASSUME NEW x \in Indexes, Deactivate(x) PROVE KnownInv'
  <2> DEFINE m == [type |-> "gone", index |-> x, balance |-> 0]
  <2>1. m \in Message /\ Send(m) /\ m.index = x /\ page' = page /\ x \in DOMAIN page.players
    BY <1>11, DeactivateIs
  <2> HIDE DEF m
  <2> QED BY <1>1, <1>4, <2>1 DEF KnownInv
<1>12. ASSUME NEW same \in BOOLEAN, Leave(same) PROVE KnownInv'
  BY <1>1, <1>12, LeaveIs DEF KnownInv
<1>13. CASE FetchPlayers
  <2>1. There \subseteq Known
    BY DEF There, Known, Active
  <2> QED BY <1>1, <1>13, <2>1, FetchPlayersIs DEF KnownInv, Present
<1>14. CASE FetchBalances \/ Connect
  BY <1>1, <1>14, FetchBalancesIs, ConnectIs DEF KnownInv, Present
<1> QED BY <1>3, <1>5, <1>6, <1>7, <1>8, <1>9, <1>10, <1>11, <1>12, <1>13, <1>14, StepsAre

-----------------------------------------------------------------------------
(* Before the creator is in, nothing comes to the page.                          *)

EarlyInv ==
    at[Creator] \notin Later =>
        /\ inbox = << >> /\ loads = 0 /\ Present /\ ~counted
        /\ page.waiting = {} /\ ~page.enable /\ DOMAIN page.players \subseteq {1}
        /\ \A i \in DOMAIN roster : roster[i].who = Creator

\* Somebody with this index was paid.
Paid(x) == \E i \in RowsAt(x) : Funded(i)

\* A balance above zero is that of somebody who was paid, wherever it is.
FundInv ==
    /\ \A i \in DOMAIN roster : roster[i].balance = 1 => Paid(roster[i].index)
    /\ \A k \in DOMAIN inbox : inbox[k].type = "pay" =>
                                    inbox[k].balance = 1 /\ Paid(inbox[k].index)
    /\ \A k \in DOMAIN paidq : wallet[paidq[k]] = 1
    /\ \A x \in DOMAIN page.players : page.players[x] = 1 => Paid(x)

\* Whoever is paid, the creator is in.
LEMMA PaidLater ==
    ASSUME ClaimInv, GuestsInv, NEW c \in People, wallet[c] = 1 \/ at[c] \in Claiming
    PROVE  at[Creator] \in Later
<1>1. at[c] \in Later
  BY DEF ClaimInv, Later
<1>2. CASE c = Creator
  BY <1>1, <1>2
<1>3. CASE c \in Guests
  <2>1. at[c] # "out"
    BY <1>1 DEF Later, Claiming, Starting
  <2> QED BY <1>3, <2>1 DEF GuestsInv
<1> QED BY <1>2, <1>3 DEF People

\* What would come to the page is sent by guests, and they come later.
LEMMA EarlyStep ==
    LobbyInv /\ GuestsInv /\ ClaimInv /\ FundInv /\ EarlyInv /\ [Next]_vars => EarlyInv'
<1> SUFFICES ASSUME LobbyInv, GuestsInv, ClaimInv, FundInv, EarlyInv, [Next]_vars,
                    at'[Creator] \notin Later
             PROVE  EarlyInv'
  BY DEF EarlyInv
<1>1. /\ at[Creator] \notin Later
      /\ inbox = << >> /\ loads = 0 /\ Present /\ ~counted
      /\ page.waiting = {} /\ ~page.enable /\ DOMAIN page.players \subseteq {1}
      /\ \A i \in DOMAIN roster : roster[i].who = Creator
  BY CreatorMoves DEF EarlyInv
<1>2. page \in Page
  BY DEF LobbyInv, PageTypes
<1>3. CASE Aside
  BY <1>1, <1>3 DEF Aside, SamePage, SameRoster, EarlyInv, Present
<1>4. ASSUME NEW c \in People, InsertPlayer(c) PROVE EarlyInv'
  <2>1. PICK n : /\ DOMAIN roster' = DOMAIN roster \cup {n}
                 /\ \A i \in DOMAIN roster : roster'[i] = roster[i]
                 /\ roster'[n].who = c /\ at[c] = "inserting"
    BY <1>4, RowInserted
  <2>2. c = Creator
    BY <1>1, <2>1 DEF GuestsInv, People
  <2>3. inbox' = inbox /\ page' = page /\ loads' = loads /\ counted' = counted
    BY <1>4, <2>2, InsertSends DEF InsertPlayer, bounds
  <2> QED BY <1>1, <2>1, <2>2, <2>3 DEF EarlyInv, Present
<1>5. CASE Entering /\ SameRoster /\ UNCHANGED <<inbox, loads, counted>>
  <2> DEFINE g == Entered(page.players, 1)
  <2>1. page' = [page EXCEPT !.players = g, !.count = 1]
    BY <1>5 DEF Entering
  <2>5. DOMAIN g = DOMAIN page.players \cup {1}
    BY EnteredIs
  <2> HIDE DEF g
  <2>2. DOMAIN g \subseteq {1}
    BY <1>1, <2>5
  <2>3. /\ page'.players = g /\ page'.load = page.load /\ page'.waiting = page.waiting
        /\ page'.enable = page.enable
    BY <1>2, <2>1 DEF Page
  <2> QED BY <1>1, <1>5, <2>2, <2>3 DEF EarlyInv, Present, SameRoster
<1>6. ASSUME NEW c \in People, PayOut(c) PROVE FALSE
  BY <1>1, <1>6, PaidLater DEF PayOut, Claiming
<1>7. CASE ReportPaid
  <2>1. 1 \in DOMAIN paidq /\ paidq[1] \in People
    BY <1>7, ReportIs
  <2> QED BY <1>1, <2>1, PaidLater DEF FundInv
<1>8. CASE Deliver
  BY <1>1, <1>8 DEF Deliver
<1>9. CASE HearMarket
  BY <1>1, <1>9, PaidLater DEF HearMarket
<1>10. CASE (\E x \in Indexes : Deactivate(x)) \/ (\E same \in BOOLEAN : Leave(same))
  BY <1>1, <1>10 DEF Deactivate, Leave, Later
<1>11. CASE FetchPlayers \/ FetchBalances \/ Connect
  BY <1>1, <1>11 DEF FetchPlayers, FetchBalances, Connect, Present
<1> QED BY <1>3, <1>4, <1>5, <1>6, <1>7, <1>8, <1>9, <1>10, <1>11, StepsAre

\* Who was paid stays paid.
LEMMA PaidStays ==
    ASSUME LobbyInv, [Next]_vars
    PROVE  /\ \A c \in People : wallet[c] = 1 => wallet'[c] = 1
           /\ \A x : Paid(x) => Paid(x)'
<1>1. \A c \in People : wallet[c] = 1 => wallet'[c] = 1
  <2>1. wallet \in [People -> {0, 1}]
    BY DEF LobbyInv, PeopleTypes
  <2>2. CASE wallet' = wallet
    BY <2>2
  <2>3. ASSUME NEW c \in People, wallet' = [wallet EXCEPT ![c] = 1]
        PROVE  \A d \in People : wallet[d] = 1 => wallet'[d] = 1
    BY <2>1, <2>3
  <2> QED BY <2>2, <2>3, StepsAre, ReportIs
          DEF Aside, InsertPlayer, Deliver, HearMarket, Deactivate, Leave, FetchPlayers,
              FetchBalances, Connect
<1>2. ASSUME NEW i \in DOMAIN roster PROVE roster[i].who \in People
  <2>1. roster[i] \in RosterRow
    BY DEF LobbyInv, ServerTypes
  <2> QED BY <2>1 DEF RosterRow
<1> QED BY <1>1, <1>2, KnownGrows DEF Paid, RowsAt, Funded

\* Balances come from wallets, through the table and the messages.
LEMMA FundStep == LobbyInv /\ FundInv /\ [Next]_vars => FundInv'
<1> SUFFICES ASSUME LobbyInv, FundInv, [Next]_vars PROVE FundInv'
  OBVIOUS
<1> DEFINE F1 == \A i \in DOMAIN roster : roster[i].balance = 1 => Paid(roster[i].index)
           F2 == \A k \in DOMAIN inbox : inbox[k].type = "pay" =>
                                    inbox[k].balance = 1 /\ Paid(inbox[k].index)
           F3 == \A k \in DOMAIN paidq : wallet[paidq[k]] = 1
           F4 == \A x \in DOMAIN page.players : page.players[x] = 1 => Paid(x)
<1>1. F1 /\ F2 /\ F3 /\ F4
  BY DEF FundInv
<1>2. /\ page \in Page /\ paidq \in Seq(People)
      /\ \A x : Paid(x) => Paid(x)'
      /\ \A c \in People : wallet[c] = 1 => wallet'[c] = 1
  BY PaidStays DEF LobbyInv, PageTypes
<1>3. \A k \in DOMAIN paidq : paidq[k] \in People
  BY <1>2
<1>4. SUFFICES F1' /\ F2' /\ F3' /\ F4'
  BY DEF FundInv
<1>5. roster' = roster \/ SameRoster => F1'
  BY <1>1, <1>2 DEF SameRoster
<1> HIDE DEF F1, F2, F3, F4
<1>6. inbox' = inbox => F2'
  BY <1>1, <1>2 DEF F2
<1>7. paidq' = paidq => F3'
  BY <1>1, <1>2, <1>3 DEF F3
<1>8. page'.players = page.players => F4'
  BY <1>1, <1>2 DEF F4
<1>9. ASSUME NEW m \in Message, Send(m), m.type = "pay" => m.balance = 1 /\ Paid(m.index)
      PROVE  F2'
  <2>1. \A k \in DOMAIN inbox' : inbox'[k] = m \/ (k \in DOMAIN inbox /\ inbox'[k] = inbox[k])
    BY <1>9, SendIs
  <2> QED BY <1>1, <1>2, <1>9, <2>1 DEF F2
<1>10. CASE Aside
  BY <1>5, <1>6, <1>7, <1>8, <1>10 DEF Aside, SamePage
<1>11. ASSUME NEW c \in People, InsertPlayer(c) PROVE F1' /\ F2' /\ F3' /\ F4'
  <2>1. PICK n : /\ DOMAIN roster' = DOMAIN roster \cup {n}
                 /\ \A i \in DOMAIN roster : roster'[i] = roster[i]
                 /\ roster'[n].balance = 0
    BY <1>11, RowInserted
  <2>2. F1'
    BY <1>1, <1>2, <2>1 DEF F1
  <2>3. page' = page /\ paidq' = paidq
    BY <1>11, InsertSends DEF InsertPlayer
  <2>4. CASE c = Creator
    BY <1>6, <1>7, <1>8, <1>11, <2>2, <2>3, <2>4, InsertSends
  <2>5. CASE c # Creator
    <3> DEFINE m == [type |-> "new", index |-> mem[c].index, balance |-> 0]
    <3>1. m \in Message /\ Send(m) /\ m.type = "new"
      BY <1>11, <2>5, InsertSends
    <3> HIDE DEF m
    <3>2. F2'
      BY <1>9, <3>1
    <3> QED BY <1>7, <1>8, <2>2, <2>3, <3>2
  <2> QED BY <2>4, <2>5
<1>12. CASE Entering /\ SameRoster /\ UNCHANGED <<inbox, paidq>>
  <2> DEFINE g == Entered(page.players, 1)
  <2>1. page' = [page EXCEPT !.players = g, !.count = 1]
    BY <1>12 DEF Entering
  <2>2. /\ DOMAIN g = DOMAIN page.players \cup {1} /\ g[1] = 0
        /\ \A y \in DOMAIN page.players : y # 1 => g[y] = page.players[y]
    BY EnteredIs
  <2> HIDE DEF g
  <2>3. page'.players = g
    BY <1>2, <2>1 DEF Page
  <2>4. F4'
    BY <1>1, <1>2, <2>2, <2>3 DEF F4
  <2> QED BY <1>5, <1>6, <1>7, <1>12, <2>4
<1>13. ASSUME NEW c \in People, PayOut(c), wallet' = [wallet EXCEPT ![c] = 1],
               paidq' = Append(paidq, c)
       PROVE  F1' /\ F2' /\ F3' /\ F4'
  <2>1. wallet'[c] = 1
    BY <1>13 DEF LobbyInv, PeopleTypes
  <2>2. \A k \in DOMAIN paidq' : paidq'[k] = c \/ (k \in DOMAIN paidq /\ paidq'[k] = paidq[k])
    BY <1>2, <1>13
  <2>3. F3'
    BY <1>1, <1>2, <1>3, <2>1, <2>2 DEF F3
  <2>4. roster' = roster /\ inbox' = inbox /\ page' = page
    BY <1>13 DEF PayOut, server
  <2> QED BY <1>5, <1>6, <1>8, <2>3, <2>4
<1>14. CASE ReportPaid
  <2>1. PICK l \in DOMAIN roster :
             /\ 1 \in DOMAIN paidq /\ paidq[1] \in People
             /\ \A k \in DOMAIN paidq' : k + 1 \in DOMAIN paidq /\ paidq'[k] = paidq[k + 1]
             /\ roster[l].who = paidq[1]
             /\ [type |-> "pay", index |-> roster[l].index, balance |-> wallet[paidq[1]]] \in Message
             /\ Send([type |-> "pay", index |-> roster[l].index, balance |-> wallet[paidq[1]]])
             /\ \A i \in DOMAIN roster' :
                  /\ i \in DOMAIN roster /\ roster'[i].index = roster[i].index
                  /\ \/ roster'[i].balance = roster[i].balance
                     \/ roster[i].index = roster[l].index
             /\ page' = page /\ wallet' = wallet
    BY <1>14, ReportIs
  <2>2. wallet[paidq[1]] = 1
    BY <1>1, <2>1 DEF F3
  <2>3. Paid(roster[l].index)
    BY <2>1, <2>2 DEF Paid, RowsAt, Funded
  <2>4. F1'
    BY <1>1, <1>2, <2>1, <2>3 DEF F1
  <2>5. F3'
    BY <1>1, <2>1 DEF F3
  <2>6. F2'
    <3>1. PICK x : x = roster[l].index
      OBVIOUS
    <3> DEFINE m == [type |-> "pay", index |-> x, balance |-> 1]
    <3>2. m \in Message /\ Send(m) /\ m.balance = 1 /\ m.index = x /\ Paid(x)
      BY <2>1, <2>2, <2>3, <3>1
    <3> HIDE DEF m
    <3> QED BY <1>9, <3>2
  <2> QED BY <1>8, <2>1, <2>4, <2>5, <2>6
<1>15. CASE Deliver
  <2>1. /\ 1 \in DOMAIN inbox
        /\ \A k \in DOMAIN inbox' : k + 1 \in DOMAIN inbox /\ inbox'[k] = inbox[k + 1]
        /\ \/ page' = NewHeard(inbox[1].index)
           \/ page' = GoneHeard(inbox[1].index)
           \/ inbox[1].type = "pay" /\ page' = Counted(PaidNow(inbox[1]))
        /\ paidq' = paidq /\ roster' = roster
    BY <1>15, DeliverIs
  <2>2. F2'
    BY <1>1, <1>2, <2>1 DEF F2
  <2>3. ASSUME NEW x \in DOMAIN page'.players, page'.players[x] = 1 PROVE Paid(x)
    <3>1. PICK y : y = inbox[1].index
      OBVIOUS
    <3>2. CASE page' = NewHeard(y)
      <4> DEFINE g == Entered(page.players, y)
      <4>1. /\ DOMAIN g = DOMAIN page.players \cup {y} /\ g[y] = 0
            /\ \A z \in DOMAIN page.players : z # y => g[z] = page.players[z]
        BY EnteredIs
      <4>2. page'.players = g
        BY <1>2, <3>2, NewHeardIs
      <4> HIDE DEF g
      <4>3. x # y /\ x \in DOMAIN page.players /\ page.players[x] = 1
        BY <2>3, <4>1, <4>2
      <4> QED BY <1>1, <4>3 DEF F4
    <3>3. CASE page' = GoneHeard(y)
      <4> DEFINE g == Dropped(page.players, y)
      <4>1. /\ DOMAIN g = DOMAIN page.players \ {y}
            /\ \A z \in DOMAIN page.players \ {y} : g[z] = page.players[z]
        BY DroppedIs
      <4>2. page'.players = g
        BY <1>2, <3>3, GoneHeardIs
      <4> HIDE DEF g
      <4>3. x \in DOMAIN page.players /\ page.players[x] = 1
        BY <2>3, <4>1, <4>2
      <4> QED BY <1>1, <4>3 DEF F4
    <3>4. CASE inbox[1].type = "pay" /\ page' = Counted(PaidNow(inbox[1]))
      <4>1. page'.players = PaidNow(inbox[1])
        BY <1>2, <3>4, CountedIs
      <4>2. x \in DOMAIN page.players /\ (x = y \/ page.players[x] = 1)
        BY <2>3, <3>1, <4>1 DEF PaidNow
      <4>3. Paid(y)
        BY <1>1, <2>1, <3>1, <3>4 DEF F2
      <4> QED BY <1>1, <4>2, <4>3 DEF F4
    <3> QED BY <2>1, <3>1, <3>2, <3>3, <3>4
  <2>4. F4'
    BY <1>2, <2>3 DEF F4
  <2> QED BY <1>5, <1>7, <2>1, <2>2, <2>4
<1>16. CASE HearMarket
  <2>1. page'.players = page.players
    BY <1>2, <1>16, CountedIs DEF HearMarket
  <2>2. inbox' = inbox /\ paidq' = paidq /\ roster' = roster
    BY <1>16 DEF HearMarket, server
  <2> QED BY <1>5, <1>6, <1>7, <1>8, <2>1, <2>2
<1>17. ASSUME NEW x \in Indexes, Deactivate(x) PROVE F1' /\ F2' /\ F3' /\ F4'
  <2> DEFINE m == [type |-> "gone", index |-> x, balance |-> 0]
  <2>1. /\ m \in Message /\ Send(m) /\ m.type = "gone"
        /\ page' = page /\ paidq' = paidq
        /\ \A i \in DOMAIN roster' : /\ i \in DOMAIN roster
                                     /\ roster'[i].index = roster[i].index
                                     /\ roster'[i].balance = roster[i].balance
    BY <1>17, DeactivateIs
  <2> HIDE DEF m
  <2>2. F2'
    BY <1>9, <2>1
  <2>3. F1'
    BY <1>1, <1>2, <2>1 DEF F1
  <2> QED BY <1>7, <1>8, <2>1, <2>2, <2>3
<1>18. ASSUME NEW same \in BOOLEAN, Leave(same) PROVE F1' /\ F2' /\ F3' /\ F4'
  <2>1. /\ inbox' = << >> /\ paidq' = paidq /\ roster' = roster
        /\ page'.players = page.players \/ page'.players = << >>
    BY <1>18, LeaveIs
  <2>2. F2'
    BY <2>1 DEF F2
  <2>3. page'.players = << >> => F4'
    BY DEF F4
  <2> QED BY <1>5, <1>7, <1>8, <2>1, <2>2, <2>3
<1>19. CASE FetchPlayers
  <2>1. \A x \in DOMAIN page'.players :
           \/ page'.players[x] = Unset
           \/ x \in DOMAIN page.players /\ page'.players[x] = page.players[x]
    BY <1>19, FetchPlayersIs
  <2>2. F4'
    BY <1>1, <1>2, <2>1 DEF F4, Unset
  <2>3. inbox' = inbox /\ paidq' = paidq /\ roster' = roster
    BY <1>19, FetchPlayersIs
  <2> QED BY <1>5, <1>6, <1>7, <2>2, <2>3
<1>20. CASE FetchBalances
  <2>1. \A x \in DOMAIN page'.players :
           \/ \E i \in RowsAt(x) : page'.players[x] = roster[i].balance
           \/ x \in DOMAIN page.players /\ page'.players[x] = page.players[x]
    BY <1>20, FetchBalancesIs
  <2>2. F4'
    BY <1>1, <1>2, <2>1 DEF F4, F1, RowsAt
  <2>3. inbox' = inbox /\ paidq' = paidq /\ roster' = roster
    BY <1>20, FetchBalancesIs
  <2> QED BY <1>5, <1>6, <1>7, <2>2, <2>3
<1>21. CASE Connect
  BY <1>5, <1>6, <1>7, <1>8, <1>21, ConnectIs
<1> QED BY <1>10, <1>11, <1>12, <1>13, <1>14, <1>15, <1>16, <1>17, <1>18, <1>19, <1>20, <1>21, StepsAre

\* What was proved of the guests and the claims, together.
GuestsKnown == StartInv /\ ClaimInv /\ GuestsInv /\ FundInv /\ EarlyInv

\* The guests, the claims and the balances are in order in every state.
LEMMA GuestsHold == Spec => []GuestsKnown
<1>1. Init => GuestsKnown
  <2> SUFFICES ASSUME Init PROVE GuestsKnown
    OBVIOUS
  <2> USE PeopleAreFinite
  <2>1. \A c \in People : /\ at[c] \in {"new", "out"} /\ wallet[c] = 0
                          /\ c # Creator => at[c] = "out"
    BY DEF Init
  <2>2. Counts = {}
    BY <2>1 DEF Counts
  <2>3. link.used = 0 /\ Cardinality(Counts) = 0
    BY <2>2, FS_EmptySet DEF Init
  <2>4. StartInv /\ ClaimInv
    BY <2>1, <2>3 DEF Init, StartInv, ClaimInv, Claiming
  <2>5. /\ roster = << >> /\ inbox = << >> /\ paidq = << >> /\ page = NoPage /\ shown = FALSE
        /\ loads = 0 /\ counted = FALSE
    BY DEF Init
  <2>6. /\ page.players = << >> /\ page.load = "live" /\ page.waiting = {}
        /\ page.enable = FALSE /\ page.voucher = FALSE
    BY <2>5 DEF NoPage
  <2>7. GuestsInv
    BY <2>1, <2>5, <2>6 DEF GuestsInv, HasRow
  <2>8. FundInv
    BY <2>5, <2>6 DEF FundInv
  <2>9. EarlyInv
    BY <2>5, <2>6 DEF EarlyInv, Present
  <2> QED BY <2>4, <2>7, <2>8, <2>9 DEF GuestsKnown
<1>2. LobbyInv /\ GuestsKnown /\ [Next]_vars => GuestsKnown'
  BY StartStep, ClaimStep, GuestsStep, FundStep, EarlyStep DEF GuestsKnown
<1> QED BY <1>1, <1>2, LobbyInvHolds, PTL DEF Spec

-----------------------------------------------------------------------------
(* Whom the page waits for.                                                      *)

\* A page that has counted waits for all who are poor by its own balances, and enables
\* the start button only if nobody is.
WaitInv ==
    /\ counted => Present
    /\ counted /\ ~page.started =>
         /\ Poor(page.players) \subseteq page.waiting
         /\ page.enable => Poor(page.players) = {}

\* Every message keeps the start button up to date.
LEMMA WaitStep == LobbyInv /\ EarlyInv /\ FundInv /\ WaitInv /\ [Next]_vars => WaitInv'
<1> SUFFICES ASSUME LobbyInv, EarlyInv, FundInv, WaitInv, [Next]_vars PROVE WaitInv'
  OBVIOUS
<1>1. page \in Page
  BY DEF LobbyInv, PageTypes
<1>2. ASSUME page' = page, counted' = counted PROVE WaitInv'
  BY <1>2 DEF WaitInv, Present
<1>3. CASE ~counted'
  BY <1>3 DEF WaitInv
<1>4. CASE Aside
  BY <1>4 DEF Aside, SamePage, WaitInv, Present
<1>5. CASE (\E c \in People : InsertPlayer(c) \/ PayOut(c))
           \/ ReportPaid \/ (\E x \in Indexes : Deactivate(x))
  BY <1>2, <1>5 DEF InsertPlayer, PayOut, ReportPaid, Deactivate, history
<1>6. CASE Entering /\ counted' = counted
  BY <1>3, <1>6 DEF Entering, EarlyInv, Later, Claiming, Starting
<1>7. CASE Deliver /\ counted'
  <2>1. /\ 1 \in DOMAIN inbox /\ Present
        /\ \/ inbox[1].type = "new" /\ page' = NewHeard(inbox[1].index)
           \/ inbox[1].type = "gone" /\ page' = GoneHeard(inbox[1].index)
           \/ inbox[1].type = "pay" /\ page' = Counted(PaidNow(inbox[1]))
        /\ counted' = (counted \/ (inbox[1].type = "pay" /\ MayCount))
    BY <1>7, DeliverIs
  <2>2. PICK x : x = inbox[1].index
    OBVIOUS
  <2>3. CASE inbox[1].type = "new" /\ page' = NewHeard(x)
    <3> DEFINE g == Entered(page.players, x)
    <3>1. /\ DOMAIN g = DOMAIN page.players \cup {x}
          /\ \A y \in DOMAIN page.players : y # x => g[y] = page.players[y]
      BY EnteredIs
    <3>2. /\ page'.players = g /\ page'.load = page.load /\ page'.started = page.started
          /\ ~page.started => page'.waiting = page.waiting \cup {x} /\ ~page'.enable
      BY <1>1, <2>3, NewHeardIs
    <3> HIDE DEF g
    <3>3. Poor(g) \subseteq Poor(page.players) \cup {x}
      BY <3>1 DEF Poor
    <3>4. counted
      BY <1>7, <2>1, <2>3
    <3> QED BY <2>1, <3>2, <3>3, <3>4 DEF WaitInv, Present
  <2>4. CASE inbox[1].type = "gone" /\ page' = GoneHeard(x)
    <3> DEFINE g == Dropped(page.players, x)
    <3>1. /\ DOMAIN g = DOMAIN page.players \ {x}
          /\ \A y \in DOMAIN page.players \ {x} : g[y] = page.players[y]
      BY DroppedIs
    <3>2. /\ page'.players = g /\ page'.load = page.load /\ page'.started = page.started
          /\ MayCount => /\ page'.waiting = page.waiting \ {x}
                         /\ page'.enable = (page.waiting \subseteq {x})
          /\ ~MayCount => page'.waiting = page.waiting /\ page'.enable = page.enable
      BY <1>1, <2>4, GoneHeardIs
    <3> HIDE DEF g
    <3>3. Poor(g) \subseteq Poor(page.players) \ {x}
      BY <3>1 DEF Poor
    <3>4. counted
      BY <1>7, <2>1, <2>4
    <3>5. CASE page.started
      BY <2>1, <3>2, <3>5 DEF WaitInv, Present
    <3>6. CASE ~page.started
      <4>1. Poor(page.players) \subseteq page.waiting /\ (page.enable => Poor(page.players) = {})
        BY <3>4, <3>6 DEF WaitInv
      <4>2. CASE MayCount
        BY <2>1, <3>2, <3>3, <4>1, <4>2 DEF WaitInv, Present
      <4>3. CASE ~MayCount
        BY <2>1, <3>2, <3>3, <4>1, <4>3 DEF WaitInv, Present
      <4> QED BY <4>2, <4>3
    <3> QED BY <3>5, <3>6
  <2>5. CASE inbox[1].type = "pay" /\ page' = Counted(PaidNow(inbox[1]))
    <3> DEFINE g == PaidNow(inbox[1])
    <3>1. inbox[1].balance = 1
      BY <2>1, <2>5 DEF FundInv
    <3>2. /\ DOMAIN g = DOMAIN page.players
          /\ \A y \in DOMAIN g : g[y] = 1 \/ g[y] = page.players[y]
      BY <3>1 DEF PaidNow
    <3>3. page' = Counted(g)
      BY <2>5
    <3> HIDE DEF g
    <3>4. /\ page'.players = g /\ page'.load = page.load /\ page'.started = page.started
          /\ MayCount => page'.waiting = Poor(g) /\ page'.enable = (Poor(g) = {})
          /\ ~MayCount => page'.waiting = page.waiting /\ page'.enable = page.enable
      BY <1>1, <3>3, CountedIs
    <3>5. Poor(g) \subseteq Poor(page.players)
      BY <3>2 DEF Poor
    <3>6. CASE MayCount
      BY <2>1, <3>4, <3>6 DEF WaitInv, Present
    <3>7. CASE ~MayCount
      BY <1>7, <2>1, <3>4, <3>5, <3>7 DEF WaitInv, Present
    <3> QED BY <3>6, <3>7
  <2> QED BY <2>1, <2>2, <2>3, <2>4, <2>5
<1>8. CASE HearMarket
  <2>1. page' = Counted(page.players) /\ counted' = (counted \/ MayCount) /\ Present
    BY <1>8 DEF HearMarket
  <2> DEFINE g == page.players
  <2>2. /\ page'.players = g /\ page'.load = page.load /\ page'.started = page.started
        /\ MayCount => page'.waiting = Poor(g) /\ page'.enable = (Poor(g) = {})
        /\ ~MayCount => page'.waiting = page.waiting /\ page'.enable = page.enable
    BY <1>1, <2>1, CountedIs
  <2> QED BY <2>1, <2>2 DEF WaitInv, Present
<1>9. CASE \E same \in BOOLEAN : Leave(same)
  BY <1>3, <1>9, LeaveIs
<1>10. CASE FetchPlayers \/ FetchBalances \/ Connect
  <2>1. ~counted /\ counted' = counted
    BY <1>10 DEF FetchPlayers, FetchBalances, Connect, WaitInv, Present, history
  <2> QED BY <1>3, <2>1
<1> QED BY <1>3, <1>4, <1>5, <1>6, <1>7, <1>8, <1>9, <1>10, StepsAre

\* Once the page has counted, it lets the creator start only when everybody it knows of
\* by a balance was paid: no order of joins, payments, deactivations and their messages
\* gets past that (onMessage).
THEOREM StartWaitsForAll == Spec => []StartWaits
<1>1. Init => WaitInv
  BY DEF Init, WaitInv
<1>2. LobbyInv /\ GuestsKnown /\ WaitInv /\ [Next]_vars => WaitInv'
  BY WaitStep DEF GuestsKnown
<1>3. LobbyInv /\ GuestsKnown /\ WaitInv => StartWaits
  <2> SUFFICES ASSUME LobbyInv, GuestsKnown, WaitInv, page.enable, ~page.started, counted,
                      NEW i \in DOMAIN roster, Unshared(i),
                      roster[i].index \in DOMAIN page.players,
                      page.players[roster[i].index] # Unset
               PROVE  Funded(i)
    BY DEF StartWaits
  <2>1. PICK x : x = roster[i].index
    OBVIOUS
  <2>2. Poor(page.players) = {}
    BY DEF WaitInv
  <2>3. page.players \in [DOMAIN page.players -> {0, 1, Unset}]
    BY ShownAre DEF LobbyInv, PageTypes, Page
  <2>4. page.players[x] = 1
    <3>1. page.players[x] \in {0, 1} /\ x \in DOMAIN page.players
      BY <2>1, <2>3
    <3>2. ~ (page.players[x] < 1)
      BY <2>2, <3>1 DEF Poor
    <3> QED BY <3>1, <3>2
  <2>5. Paid(x)
    BY <2>1, <2>4 DEF GuestsKnown, FundInv
  <2> QED BY <2>1, <2>5 DEF Paid, Unshared
<1> QED BY <1>1, <1>2, <1>3, LobbyInvHolds, GuestsHold, PTL DEF Spec

-----------------------------------------------------------------------------
(* When the start is offered.                                                    *)

\* Of the messages after the k-th, none about this player is of another kind.
OnlyNew(x, k) == \A l \in DOMAIN inbox : l > k /\ inbox[l].index = x => inbox[l].type = "new"

\* A player of this index is in the game and was not paid, or it was not reported yet.
Waits(x) ==
    \E i \in Active : /\ roster[i].index = x
                      /\ ~Funded(i) \/ \E k \in DOMAIN paidq : paidq[k] = roster[i].who

\* Whom a message or the page has last as a player without a balance is really waited for.
WaitsTold ==
    /\ \A y \in Indexes, k \in DOMAIN inbox :
          inbox[k].type = "new" /\ inbox[k].index = y /\ OnlyNew(y, k) => Waits(y)
    /\ \A x \in DOMAIN page.players : page.players[x] = 0 /\ OnlyNew(x, 0) => Waits(x)

\* While the page waits for nobody and does not offer the start, all payments there were
\* are still to be heard of.
ButtonInv ==
    ~page.started =>
        /\ \A x \in page.waiting : x \in DOMAIN page.players /\ page.players[x] = 0
        /\ page.enable => page.waiting = {}
        /\ page.waiting = {} /\ ~page.enable =>
             \A c \in People : wallet[c] = 1 =>
                   inbox # << >> \/ \E k \in DOMAIN paidq : paidq[k] = c

OfferInv == loads = 0 => Present /\ WaitsTold /\ ButtonInv

\* A row in the game stays one, but for deactivations.
LEMMA ActiveStays ==
    ASSUME LobbyInv, [Next]_vars, NEW i \in Active
    PROVE  i \in Active' \/ \E x \in Indexes : Deactivate(x) /\ roster[i].index = x
<1>1. CASE Aside \/ SameRoster
  BY <1>1 DEF Aside, SameRoster, Active
<1>2. ASSUME NEW c \in People, InsertPlayer(c) PROVE i \in Active'
  <2>1. PICK n : /\ DOMAIN roster' = DOMAIN roster \cup {n}
                 /\ \A j \in DOMAIN roster : roster'[j] = roster[j]
    BY <1>2, RowInserted
  <2> QED BY <2>1 DEF Active
<1>3. CASE ReportPaid
  <2>1. /\ DOMAIN roster' = DOMAIN roster
        /\ \A j \in DOMAIN roster : roster'[j].active = roster[j].active
    BY <1>3, ReportIs
  <2> QED BY <2>1 DEF Active
<1>4. ASSUME NEW x \in Indexes, Deactivate(x), roster[i].index # x PROVE i \in Active'
  <2>1. /\ DOMAIN roster' = DOMAIN roster
        /\ \A j \in DOMAIN roster : roster'[j].active <=> roster[j].active /\ roster[j].index # x
    BY <1>4, DeactivateIs
  <2> QED BY <1>4, <2>1 DEF Active
<1>5. CASE roster' = roster
  BY <1>5 DEF Active
<1> QED BY <1>1, <1>2, <1>3, <1>4, <1>5, StepsAre
        DEF PayOut, Deliver, HearMarket, Leave, FetchPlayers, FetchBalances, Connect, server

\* Who waits goes on waiting, until the balance is reported or the player deactivated.
LEMMA WaitsStay ==
    ASSUME LobbyInv, GuestsInv, [Next]_vars, NEW y, Waits(y)
    PROVE  \/ Waits(y)'
           \/ \E x \in Indexes : Deactivate(x) /\ y = x
           \/ ReportPaid /\ \E i \in DOMAIN roster : roster[i].who = paidq[1] /\ roster[i].index = y
<1>1. PICK i \in Active :
        /\ roster[i].index = y
        /\ ~Funded(i) \/ \E k \in DOMAIN paidq : paidq[k] = roster[i].who
  BY DEF Waits
<1>2. /\ i \in DOMAIN roster
      /\ roster'[i].who = roster[i].who /\ roster'[i].index = y
  BY <1>1, KnownGrows DEF Active
<1>3. roster[i] \in RosterRow
  BY <1>2 DEF LobbyInv, ServerTypes
<1>4. PICK c : c = roster[i].who
  OBVIOUS
<1>5. c \in People
  BY <1>3, <1>4 DEF RosterRow
<1>6. i \in Active' \/ \E x \in Indexes : Deactivate(x) /\ y = x
  BY <1>1, ActiveStays
<1>7. SUFFICES ASSUME i \in Active'
      PROVE  \/ wallet'[c] # 1 \/ \E k \in DOMAIN paidq' : paidq'[k] = c
             \/ ReportPaid /\ c = paidq[1]
  BY <1>1, <1>2, <1>4, <1>6 DEF Waits, Funded
<1>8. wallet[c] # 1 \/ \E k \in DOMAIN paidq : paidq[k] = c
  BY <1>1, <1>4 DEF Funded
<1>9. CASE UNCHANGED <<wallet, paidq>>
  BY <1>8, <1>9
<1>10. ASSUME NEW d \in People, wallet' = [wallet EXCEPT ![d] = 1], paidq' = Append(paidq, d)
       PROVE  wallet'[c] # 1 \/ \E k \in DOMAIN paidq' : paidq'[k] = c
  <2>1. paidq \in Seq(People) /\ wallet \in [People -> {0, 1}]
    BY DEF LobbyInv, PageTypes, PeopleTypes
  <2>2. /\ DOMAIN paidq' = DOMAIN paidq \cup {Len(paidq) + 1} /\ paidq'[Len(paidq) + 1] = d
        /\ \A k \in DOMAIN paidq : paidq'[k] = paidq[k]
    BY <1>10, <2>1
  <2>3. c # d => wallet'[c] = wallet[c]
    BY <1>5, <1>10, <2>1
  <2> QED BY <1>8, <2>2, <2>3
<1>11. CASE ReportPaid
  <2>1. /\ wallet' = wallet
        /\ \A k \in DOMAIN paidq : k = 1 \/ (k - 1 \in DOMAIN paidq' /\ paidq'[k - 1] = paidq[k])
    BY <1>11, ReportIs
  <2> QED BY <1>8, <1>11, <2>1
<1>12. CASE Deliver \/ FetchPlayers \/ FetchBalances \/ Connect
  BY <1>9, <1>12, DeliverIs, FetchPlayersIs, FetchBalancesIs, ConnectIs
<1>13. CASE (\E x \in Indexes : Deactivate(x)) \/ (\E same \in BOOLEAN : Leave(same))
  BY <1>9, <1>13, DeactivateIs, LeaveIs
<1> QED BY <1>9, <1>10, <1>11, <1>12, <1>13, StepsAre DEF Aside, InsertPlayer, HearMarket

\* Whoever is being inserted was not paid.
LEMMA InsertedWaits ==
    ASSUME LobbyInv, ClaimInv, NEW c \in People, InsertPlayer(c), NEW x, x = mem[c].index
    PROVE  Waits(x)'
<1>1. PICK n : /\ DOMAIN roster' = DOMAIN roster \cup {n}
               /\ roster'[n].who = c /\ roster'[n].index = x
               /\ roster'[n].active /\ at[c] = "inserting"
  BY RowInserted
<1>2. wallet[c] # 1
  BY <1>1 DEF ClaimInv, Starting
<1>3. wallet' = wallet
  BY DEF InsertPlayer
<1>4. n \in Active' /\ ~Funded(n)'
  BY <1>1, <1>2, <1>3 DEF Active, Funded
<1> QED BY <1>1, <1>4 DEF Waits

\* The message that a step sends.
LEMMA ToldSent ==
    ASSUME LobbyInv, WaitsTold, Present, NEW m \in Message, Send(m), page' = page,
           \A y : Waits(y) => Waits(y)' \/ (y = m.index /\ m.type # "new"),
           m.type = "new" => Waits(m.index)'
    PROVE  WaitsTold'
<1>9. Len(inbox) \in Nat
  BY DEF LobbyInv, PageTypes
<1>10. PICK n : n = Len(inbox) + 1
  OBVIOUS
<1>11. /\ Len(inbox) + 1 \notin DOMAIN inbox
       /\ DOMAIN inbox' = DOMAIN inbox \cup {Len(inbox) + 1}
       /\ \A k \in DOMAIN inbox : inbox'[k] = inbox[k] /\ k < Len(inbox) + 1
       /\ inbox'[Len(inbox) + 1] = m
  BY SendIs
<1>12. n > 0
  BY <1>9, <1>10
<1>1. /\ n \notin DOMAIN inbox /\ DOMAIN inbox' = DOMAIN inbox \cup {n} /\ inbox'[n] = m
      /\ \A k \in DOMAIN inbox : inbox'[k] = inbox[k] /\ k < n
      /\ n > 0
  BY <1>10, <1>11, <1>12
<1>2. ASSUME NEW y, NEW k, OnlyNew(y, k)' PROVE OnlyNew(y, k)
  BY <1>1, <1>2 DEF OnlyNew
<1>3. ASSUME NEW y, NEW k, OnlyNew(y, k)', n > k, y = m.index PROVE m.type = "new"
  BY <1>1, <1>3 DEF OnlyNew
<1>4. ASSUME NEW y \in Indexes, NEW k \in DOMAIN inbox', inbox'[k].type = "new",
             inbox'[k].index = y, OnlyNew(y, k)'
      PROVE  Waits(y)'
  <2>1. CASE k = n
    BY <1>1, <1>4, <2>1
  <2>2. CASE k # n
    <3>1. k \in DOMAIN inbox /\ inbox'[k] = inbox[k] /\ n > k
      BY <1>1, <2>2
    <3>2. OnlyNew(y, k)
      BY <1>2, <1>4
    <3>3. Waits(y)
      BY <1>4, <3>1, <3>2 DEF WaitsTold
    <3> QED BY <1>3, <1>4, <3>1, <3>3
  <2> QED BY <2>1, <2>2
<1>5. ASSUME NEW x \in DOMAIN page'.players, page'.players[x] = 0, OnlyNew(x, 0)'
      PROVE  Waits(x)'
  <2>1. OnlyNew(x, 0)
    BY <1>2, <1>5
  <2>2. Waits(x)
    BY <1>5, <2>1 DEF WaitsTold
  <2> QED BY <1>1, <1>3, <1>5, <2>2
<1> QED BY <1>4, <1>5 DEF WaitsTold

\* A step that sends nothing.
LEMMA ToldSame ==
    ASSUME WaitsTold, inbox' = inbox, page'.players = page.players, \A y : Waits(y) => Waits(y)'
    PROVE  WaitsTold'
<1>1. \A y, k : OnlyNew(y, k)' <=> OnlyNew(y, k)
  BY DEF OnlyNew
<1> QED BY <1>1 DEF WaitsTold

\* A message is heard.
LEMMA ToldHeard ==
    ASSUME LobbyInv, FundInv, WaitsTold, Deliver, \A y : Waits(y) => Waits(y)'
    PROVE  WaitsTold'
<1>1. /\ 1 \in DOMAIN inbox /\ inbox[1] \in Message
      /\ \A k \in DOMAIN inbox' : /\ k \in Nat /\ k + 1 \in DOMAIN inbox
                                  /\ inbox'[k] = inbox[k + 1]
      /\ \A k \in DOMAIN inbox : /\ k \in Nat
                                 /\ k = 1 \/ /\ k - 1 \in DOMAIN inbox'
                                             /\ inbox'[k - 1] = inbox[k]
      /\ \/ inbox[1].type = "new" /\ page' = NewHeard(inbox[1].index)
         \/ inbox[1].type = "gone" /\ page' = GoneHeard(inbox[1].index)
         \/ inbox[1].type = "pay" /\ page' = Counted(PaidNow(inbox[1]))
  BY DeliverIs
<1>2. page \in Page
  BY DEF LobbyInv, PageTypes
<1>3. ASSUME NEW y, NEW k \in Nat, OnlyNew(y, k)' PROVE OnlyNew(y, k + 1)
  <2> SUFFICES ASSUME NEW l \in DOMAIN inbox, l > k + 1, inbox[l].index = y
               PROVE  inbox[l].type = "new"
    BY DEF OnlyNew
  <2>1. l \in Nat /\ l # 1 /\ l - 1 > k
    BY <1>1
  <2>2. l - 1 \in DOMAIN inbox' /\ inbox'[l - 1] = inbox[l]
    BY <1>1, <2>1
  <2> QED BY <1>3, <2>1, <2>2 DEF OnlyNew
<1>4. ASSUME NEW y \in Indexes, NEW k \in DOMAIN inbox', inbox'[k].type = "new",
             inbox'[k].index = y, OnlyNew(y, k)'
      PROVE  Waits(y)'
  <2>1. k \in Nat /\ k + 1 \in DOMAIN inbox /\ inbox'[k] = inbox[k + 1]
    BY <1>1
  <2>2. OnlyNew(y, k + 1)
    BY <1>3, <1>4, <2>1
  <2>3. Waits(y)
    BY <1>4, <2>1, <2>2 DEF WaitsTold
  <2> QED BY <2>3
<1>5. PICK x : x = inbox[1].index
  OBVIOUS
<1>6. ASSUME NEW y, OnlyNew(y, 0)', y # x \/ inbox[1].type = "new" PROVE OnlyNew(y, 0)
  <2>1. OnlyNew(y, 1)
    BY <1>3, <1>6
  <2>2. \A l \in DOMAIN inbox : l > 0 => l = 1 \/ l > 1
    BY <1>1
  <2> QED BY <1>5, <1>6, <2>1, <2>2 DEF OnlyNew
<1>7. ASSUME NEW y \in DOMAIN page'.players, page'.players[y] = 0, OnlyNew(y, 0)'
      PROVE  Waits(y)
  <2>1. CASE inbox[1].type = "new" /\ page' = NewHeard(x)
    <3> DEFINE g == Entered(page.players, x)
    <3>1. /\ DOMAIN g = DOMAIN page.players \cup {x}
          /\ \A z \in DOMAIN page.players : z # x => g[z] = page.players[z]
      BY EnteredIs
    <3>2. page'.players = g
      BY <1>2, <2>1, NewHeardIs
    <3> HIDE DEF g
    <3>3. CASE y = x
      <4>1. OnlyNew(y, 1)
        BY <1>3, <1>7
      <4>2. y \in Indexes
        BY <1>1, <1>5, <3>3 DEF Message
      <4> QED BY <1>1, <1>5, <2>1, <3>3, <4>1, <4>2 DEF WaitsTold
    <3>4. CASE y # x
      <4>1. y \in DOMAIN page.players /\ page.players[y] = 0
        BY <1>7, <3>1, <3>2, <3>4
      <4> QED BY <1>6, <1>7, <3>4, <4>1 DEF WaitsTold
    <3> QED BY <3>3, <3>4
  <2>2. CASE inbox[1].type = "gone" /\ page' = GoneHeard(x)
    <3> DEFINE g == Dropped(page.players, x)
    <3>1. /\ DOMAIN g = DOMAIN page.players \ {x}
          /\ \A z \in DOMAIN page.players \ {x} : g[z] = page.players[z]
      BY DroppedIs
    <3>2. page'.players = g
      BY <1>2, <2>2, GoneHeardIs
    <3> HIDE DEF g
    <3>3. y \in DOMAIN page.players /\ page.players[y] = 0 /\ y # x
      BY <1>7, <3>1, <3>2
    <3> QED BY <1>6, <1>7, <3>3 DEF WaitsTold
  <2>3. CASE inbox[1].type = "pay" /\ page' = Counted(PaidNow(inbox[1]))
    <3>1. page'.players = PaidNow(inbox[1])
      BY <1>2, <2>3, CountedIs
    <3>2. inbox[1].balance = 1
      BY <1>1, <2>3 DEF FundInv
    <3>3. y \in DOMAIN page.players /\ page.players[y] = 0 /\ y # x
      BY <1>5, <1>7, <3>1, <3>2 DEF PaidNow
    <3> QED BY <1>6, <1>7, <3>3 DEF WaitsTold
  <2> QED BY <1>1, <1>5, <2>1, <2>2, <2>3
<1> QED BY <1>4, <1>7 DEF WaitsTold

\* A step that leaves the waiting players and the start button as they are.
LEMMA ButtonSame ==
    ASSUME LobbyInv, ButtonInv, page'.players = page.players, page'.waiting = page.waiting,
           page'.enable = page.enable, page.started => page'.started,
           \/ inbox' # << >>
           \/ /\ inbox' = inbox
              /\ \A c \in People :
                    /\ wallet'[c] = 1 => wallet[c] = 1 \/ \E k \in DOMAIN paidq' : paidq'[k] = c
                    /\ \A k \in DOMAIN paidq : paidq[k] = c => \E l \in DOMAIN paidq' : paidq'[l] = c
    PROVE  ButtonInv'
<1> SUFFICES ASSUME ~page'.started PROVE ButtonInv'
  BY DEF ButtonInv
<1>1. ~page.started
  OBVIOUS
<1>2. /\ \A x \in page'.waiting : x \in DOMAIN page'.players /\ page'.players[x] = 0
      /\ page'.enable => page'.waiting = {}
  BY <1>1 DEF ButtonInv
<1>3. page'.waiting = {} /\ ~page'.enable =>
             \A c \in People : wallet'[c] = 1 =>
                   inbox' # << >> \/ \E k \in DOMAIN paidq' : paidq'[k] = c
  <2>1. CASE inbox' # << >>
    BY <2>1
  <2>2. ASSUME inbox' = inbox,
               \A c \in People :
                    /\ wallet'[c] = 1 => wallet[c] = 1 \/ \E k \in DOMAIN paidq' : paidq'[k] = c
                    /\ \A k \in DOMAIN paidq : paidq[k] = c => \E l \in DOMAIN paidq' : paidq'[l] = c,
               page'.waiting = {}, ~page'.enable, NEW c \in People, wallet'[c] = 1
        PROVE  inbox' # << >> \/ \E k \in DOMAIN paidq' : paidq'[k] = c
    BY <1>1, <2>2 DEF ButtonInv
  <2> QED BY <2>1, <2>2
<1> QED BY <1>2, <1>3 DEF ButtonInv

\* The page counts.
LEMMA ButtonCounted ==
    ASSUME LobbyInv, ButtonInv, NEW g, g \in Balances, page' = Counted(g)
    PROVE  ButtonInv'
<1>1. page \in Page
  BY DEF LobbyInv, PageTypes
<1>2. /\ page'.players = g /\ page'.load = page.load /\ page'.started = page.started
      /\ MayCount => page'.waiting = Poor(g) /\ page'.enable = (Poor(g) = {})
      /\ ~MayCount => page'.waiting = page.waiting /\ page'.enable = page.enable
  BY <1>1, CountedIs
<1>3. g \in [DOMAIN g -> {0, 1, Unset}]
  BY ShownAre
<1>4. \A x \in Poor(g) : x \in DOMAIN g /\ g[x] = 0
  BY <1>3 DEF Poor, Unset
<1>5. CASE MayCount
  BY <1>2, <1>4, <1>5 DEF ButtonInv
<1>6. CASE ~MayCount /\ ~page.started
  <2>1. page.enable
    BY <1>6 DEF MayCount
  <2>2. page.waiting = {}
    BY <1>6, <2>1 DEF ButtonInv
  <2> QED BY <1>2, <1>6, <2>1, <2>2 DEF ButtonInv
<1>7. CASE page.started
  BY <1>2, <1>7 DEF ButtonInv
<1> QED BY <1>5, <1>6, <1>7

\* A message is heard.
LEMMA ButtonHeard ==
    ASSUME LobbyInv, LobbyInv', ButtonInv, Deliver
    PROVE  ButtonInv'
<1>1. /\ 1 \in DOMAIN inbox /\ inbox[1] \in Message
      /\ \/ inbox[1].type = "new" /\ page' = NewHeard(inbox[1].index)
         \/ inbox[1].type = "gone" /\ page' = GoneHeard(inbox[1].index)
         \/ inbox[1].type = "pay" /\ page' = Counted(PaidNow(inbox[1]))
  BY DeliverIs
<1>2. page \in Page /\ page' \in Page
  BY DEF LobbyInv, PageTypes
<1>3. PICK x : x = inbox[1].index
  OBVIOUS
<1>4. CASE page.started
  <2>1. page'.started = page.started
    BY <1>1, <1>2, CountedIs, NewHeardIs, GoneHeardIs
  <2> QED BY <1>4, <2>1 DEF ButtonInv
<1>5. CASE ~page.started /\ page' = NewHeard(x)
  <2> DEFINE g == Entered(page.players, x)
  <2>1. /\ DOMAIN g = DOMAIN page.players \cup {x} /\ g[x] = 0
        /\ \A z \in DOMAIN page.players : z # x => g[z] = page.players[z]
    BY EnteredIs
  <2>2. page'.players = g /\ page'.waiting = page.waiting \cup {x} /\ ~page'.enable
    BY <1>2, <1>5, NewHeardIs
  <2> HIDE DEF g
  <2>3. \A y \in page.waiting : y \in DOMAIN page.players /\ page.players[y] = 0
    BY <1>5 DEF ButtonInv
  <2>4. \A y \in page'.waiting : y \in DOMAIN page'.players /\ page'.players[y] = 0
    BY <2>1, <2>2, <2>3
  <2> QED BY <2>2, <2>4 DEF ButtonInv
<1>6. CASE ~page.started /\ page' = GoneHeard(x)
  <2> DEFINE g == Dropped(page.players, x)
  <2>1. /\ DOMAIN g = DOMAIN page.players \ {x}
        /\ \A z \in DOMAIN page.players \ {x} : g[z] = page.players[z]
    BY DroppedIs
  <2>2. /\ page'.players = g /\ page'.started = page.started
        /\ MayCount => /\ page'.waiting = page.waiting \ {x}
                       /\ page'.enable = (page.waiting \subseteq {x})
        /\ ~MayCount => page'.waiting = page.waiting /\ page'.enable = page.enable
    BY <1>2, <1>6, GoneHeardIs
  <2> HIDE DEF g
  <2>3. /\ \A y \in page.waiting : y \in DOMAIN page.players /\ page.players[y] = 0
        /\ page.enable => page.waiting = {}
    BY <1>6 DEF ButtonInv
  <2>4. CASE MayCount
    <3>1. \A y \in page'.waiting : y \in DOMAIN page'.players /\ page'.players[y] = 0
      BY <2>1, <2>2, <2>3, <2>4
    <3>2. page'.enable <=> page'.waiting = {}
      BY <2>2, <2>4
    <3> QED BY <3>1, <3>2 DEF ButtonInv
  <2>5. CASE ~MayCount
    <3>1. page.enable /\ page.waiting = {}
      BY <1>6, <2>3, <2>5 DEF MayCount
    <3> QED BY <2>2, <2>5, <3>1 DEF ButtonInv
  <2> QED BY <2>4, <2>5
<1>7. CASE page' = Counted(PaidNow(inbox[1]))
  <2> DEFINE g == PaidNow(inbox[1])
  <2>1. page' = Counted(g) /\ page'.players = g
    BY <1>2, <1>7, CountedIs
  <2> HIDE DEF g
  <2>2. g \in Balances
    BY <1>2, <2>1 DEF Page
  <2> QED BY <2>1, <2>2, ButtonCounted
<1> QED BY <1>1, <1>3, <1>4, <1>5, <1>6, <1>7

\* Every step leaves a reason why the start is not offered yet.
LEMMA OfferStep ==
    LobbyInv /\ LobbyInv' /\ GuestsKnown /\ OfferInv /\ [Next]_vars => OfferInv'
<1> SUFFICES ASSUME LobbyInv, LobbyInv', GuestsKnown, OfferInv, [Next]_vars, loads' = 0
             PROVE  OfferInv'
  BY DEF OfferInv
<1>1. page \in Page /\ loads \in Nat /\ wallet \in [People -> {0, 1}] /\ inbox \in Seq(Message)
  BY DEF LobbyInv, PageTypes, CountTypes, PeopleTypes
<1>2. ClaimInv /\ GuestsInv /\ FundInv /\ EarlyInv
  BY DEF GuestsKnown
<1>3. CASE \E same \in BOOLEAN : Leave(same)
  BY <1>1, <1>3, LeaveIs
<1>4. loads = 0 \/ \E same \in BOOLEAN : Leave(same)
  BY StepsAre
     DEF Aside, InsertPlayer, PayOut, ReportPaid, Deliver, HearMarket, Deactivate,
         FetchPlayers, FetchBalances, Connect, bounds
<1> SUFFICES ASSUME loads = 0, ~\E same \in BOOLEAN : Leave(same) PROVE OfferInv'
  BY <1>3, <1>4
<1>5. Present /\ WaitsTold /\ ButtonInv
  BY DEF OfferInv
<1>7. CASE Aside
  <2>1. \A y : Waits(y) => Waits(y)'
    <3>1. Active' = Active
      BY <1>7 DEF Aside, SameRoster, Active
    <3> QED BY <1>7, <3>1 DEF Aside, SameRoster, Waits, Active, Funded
  <2>2. WaitsTold' /\ ButtonInv' /\ Present'
    BY <1>5, <1>7, <2>1, ToldSame, ButtonSame DEF Aside, SamePage, Present
  <2> QED BY <2>2 DEF OfferInv
<1>8. ASSUME NEW m \in Message, Send(m), page' = page,
             \A y : Waits(y) => Waits(y)' \/ (y = m.index /\ m.type # "new"),
             m.type = "new" => Waits(m.index)'
      PROVE  OfferInv'
  <2>1. Present' /\ WaitsTold'
    BY <1>5, <1>8, ToldSent DEF Present
  <2>2. inbox' # << >>
    BY <1>1, <1>5, <1>8 DEF Send
  <2>3. ButtonInv'
    BY <1>5, <1>8, <2>2, ButtonSame
  <2> QED BY <2>1, <2>3 DEF OfferInv
<1>9. ASSUME NEW c \in People, InsertPlayer(c) PROVE OfferInv'
  <2>1. \A y : Waits(y) => Waits(y)'
    <3>1. PICK n : /\ DOMAIN roster' = DOMAIN roster \cup {n}
                   /\ \A j \in DOMAIN roster : roster'[j] = roster[j]
      BY <1>9, RowInserted
    <3>2. wallet' = wallet /\ paidq' = paidq
      BY <1>9 DEF InsertPlayer
    <3> QED BY <3>1, <3>2 DEF Waits, Active, Funded
  <2>2. PICK x : x = mem[c].index
    OBVIOUS
  <2>3. Waits(x)'
    BY <1>2, <1>9, <2>2, InsertedWaits
  <2>4. CASE c = Creator
    <3>1. page' = page /\ inbox' = inbox /\ wallet' = wallet /\ paidq' = paidq
      BY <1>9, <2>4, InsertSends DEF InsertPlayer
    <3>2. Present' /\ WaitsTold' /\ ButtonInv'
      BY <1>5, <2>1, <3>1, ToldSame, ButtonSame DEF Present
    <3> QED BY <3>2 DEF OfferInv
  <2>5. CASE c # Creator
    <3> DEFINE m == [type |-> "new", index |-> x, balance |-> 0]
    <3>1. m \in Message /\ Send(m) /\ m.index = x /\ page' = page
      BY <1>9, <2>2, <2>5, InsertSends
    <3> HIDE DEF m
    <3>2. Waits(m.index)'
      BY <2>3, <3>1
    <3> QED BY <1>8, <2>1, <3>1, <3>2
  <2> QED BY <2>4, <2>5
<1>10. CASE Entering /\ SameRoster /\ UNCHANGED <<wallet, inbox, paidq>>
  <2> DEFINE g == Entered(page.players, 1)
  <2>1. page' = [page EXCEPT !.players = g, !.count = 1] /\ at[Creator] = "seating"
    BY <1>10 DEF Entering
  <2>2. DOMAIN g = DOMAIN page.players \cup {1}
    BY EnteredIs
  <2> HIDE DEF g
  <2>3. at[Creator] \notin Later
    BY <2>1 DEF Later, Claiming, Starting
  <2>4. inbox = << >> /\ page.waiting = {} /\ ~page.enable /\ DOMAIN page.players \subseteq {1}
    BY <1>2, <2>3 DEF EarlyInv
  <2>5. page'.players = g /\ page'.waiting = {} /\ page'.load = page.load
    BY <1>1, <2>1, <2>4 DEF Page
  <2>6. \A c \in People : wallet[c] # 1
    BY <1>2, <2>3, PaidLater
  <2>7. ButtonInv'
    <3>1. ~page'.enable
      BY <1>1, <2>1, <2>4 DEF Page
    <3>2. wallet' = wallet
      BY <1>10
    <3> QED BY <2>5, <2>6, <3>1, <3>2 DEF ButtonInv
  <2>8. Waits(1)'
    <3>1. HasRow(Creator)
      BY <2>1, PeopleAreFinite DEF LobbyInv, Knows, KnowsOf, Rowed
    <3>2. PICK i \in DOMAIN roster : roster[i].who = Creator
      BY <3>1 DEF HasRow
    <3>3. roster[i].index = 1 /\ roster[i].active /\ wallet[Creator] # 1
      BY <1>2, <2>6, <3>2, PeopleAreFinite DEF GuestsInv
    <3>4. /\ i \in DOMAIN roster' /\ roster'[i].who = Creator /\ roster'[i].index = 1
          /\ roster'[i].active /\ wallet' = wallet
      BY <1>10, <3>2, <3>3 DEF SameRoster
    <3> QED BY <3>3, <3>4 DEF Waits, Active, Funded
  <2>9. WaitsTold'
    <3>1. inbox' = << >>
      BY <1>10, <2>4
    <3>2. \A x \in DOMAIN page'.players : x = 1
      BY <2>2, <2>4, <2>5
    <3> QED BY <2>8, <3>1, <3>2 DEF WaitsTold
  <2> QED BY <1>5, <2>5, <2>7, <2>9 DEF OfferInv, Present
<1>11. ASSUME NEW c \in People, PayOut(c), wallet' = [wallet EXCEPT ![c] = 1],
              paidq' = Append(paidq, c)
       PROVE  OfferInv'
  <2>1. roster' = roster /\ inbox' = inbox /\ page' = page
    BY <1>11 DEF PayOut, server
  <2>2. paidq \in Seq(People)
    BY DEF LobbyInv, PageTypes
  <2>3. /\ DOMAIN paidq' = DOMAIN paidq \cup {Len(paidq) + 1} /\ paidq'[Len(paidq) + 1] = c
        /\ \A k \in DOMAIN paidq : paidq'[k] = paidq[k]
    BY <1>11, <2>2
  <2>4. \A d \in People : d # c => wallet'[d] = wallet[d]
    BY <1>1, <1>11
  <2>5. ButtonInv'
    BY <1>5, <2>1, <2>3, <2>4, ButtonSame
  <2>6. \A y : Waits(y) => Waits(y)'
    <3>1. \A i \in DOMAIN roster : roster[i].who \in People
      <4> TAKE i \in DOMAIN roster
      <4>1. roster[i] \in RosterRow
        BY DEF LobbyInv, ServerTypes
      <4> QED BY <4>1 DEF RosterRow
    <3> QED BY <2>1, <2>3, <2>4, <3>1 DEF Waits, Active, Funded
  <2>7. WaitsTold' /\ Present'
    BY <1>5, <2>1, <2>6, ToldSame DEF Present
  <2> QED BY <2>5, <2>7 DEF OfferInv
<1>12. CASE ReportPaid
  <2>1. PICK l \in DOMAIN roster :
             /\ roster[l].who = paidq[1]
             /\ [type |-> "pay", index |-> roster[l].index, balance |-> wallet[paidq[1]]] \in Message
             /\ Send([type |-> "pay", index |-> roster[l].index, balance |-> wallet[paidq[1]]])
             /\ page' = page
    BY <1>12, ReportIs
  <2>2. PICK x : x = roster[l].index
    OBVIOUS
  <2>3. PICK b : b = wallet[paidq[1]]
    OBVIOUS
  <2> DEFINE m == [type |-> "pay", index |-> x, balance |-> b]
  <2>4. m \in Message /\ Send(m) /\ m.index = x /\ m.type = "pay"
    BY <2>1, <2>2, <2>3
  <2> HIDE DEF m
  <2>5. \A y : Waits(y) => Waits(y)' \/ y = x
    <3>1. \A y : Waits(y) => \/ Waits(y)'
                             \/ (\E z \in Indexes : Deactivate(z) /\ y = z)
                             \/ \E i \in DOMAIN roster : roster[i].who = paidq[1] /\ roster[i].index = y
      BY <1>2, WaitsStay
    <3>2. \A i \in DOMAIN roster : roster[i].who = paidq[1] => roster[i].index = x
      BY <1>2, <2>1, <2>2 DEF GuestsInv
    <3>3. \A z \in Indexes : ~Deactivate(z)
      <4>1. ASSUME NEW z \in Indexes, Deactivate(z) PROVE FALSE
        <5>1. paidq' = paidq
          BY <4>1, DeactivateIs
        <5>2. paidq \in Seq(People) /\ paidq # << >> /\ paidq' = Tail(paidq)
          BY <1>12 DEF ReportPaid, LobbyInv, PageTypes
        <5> QED BY <5>1, <5>2
      <4> QED BY <4>1
    <3> QED BY <3>1, <3>2, <3>3
  <2> QED BY <1>8, <2>1, <2>4, <2>5
<1>13. CASE Deliver
  <2>1. \A y : Waits(y) => Waits(y)'
    <3>1. UNCHANGED <<roster, wallet, paidq>>
      BY <1>13, DeliverIs
    <3> QED BY <3>1 DEF Waits, Active, Funded
  <2>2. WaitsTold' /\ ButtonInv'
    BY <1>2, <1>5, <1>13, <2>1, ToldHeard, ButtonHeard
  <2>3. page'.load = page.load
    BY <1>1, <1>13, DeliverIs, NewHeardIs, GoneHeardIs, CountedIs
  <2> QED BY <1>5, <2>2, <2>3 DEF OfferInv, Present
<1>14. CASE HearMarket
  <2> DEFINE g == page.players
  <2>1. page' = Counted(g) /\ UNCHANGED <<roster, wallet, paidq, inbox>>
    BY <1>14 DEF HearMarket, server
  <2>2. page'.players = g /\ page'.load = page.load /\ g \in Balances
    BY <1>1, <2>1, CountedIs DEF Page
  <2>3. ButtonInv'
    BY <1>5, <2>1, <2>2, ButtonCounted
  <2>4. \A y : Waits(y) => Waits(y)'
    BY <2>1 DEF Waits, Active, Funded
  <2>5. WaitsTold'
    BY <1>5, <2>1, <2>2, <2>4, ToldSame
  <2> QED BY <1>5, <2>2, <2>3, <2>5 DEF OfferInv, Present
<1>15. ASSUME NEW x \in Indexes, Deactivate(x) PROVE OfferInv'
  <2> DEFINE m == [type |-> "gone", index |-> x, balance |-> 0]
  <2>1. /\ m \in Message /\ Send(m) /\ m.type = "gone" /\ m.index = x /\ page' = page
        /\ UNCHANGED <<wallet, paidq>> /\ DOMAIN roster' = DOMAIN roster
        /\ \A i \in DOMAIN roster :
                /\ roster'[i].who = roster[i].who /\ roster'[i].index = roster[i].index
                /\ roster'[i].active <=> roster[i].active /\ roster[i].index # x
    BY <1>15, DeactivateIs
  <2> HIDE DEF m
  <2>2. \A y : Waits(y) => Waits(y)' \/ y = x
    BY <2>1 DEF Waits, Active, Funded
  <2> QED BY <1>8, <2>1, <2>2
<1>16. CASE FetchPlayers \/ FetchBalances \/ Connect
  BY <1>5, <1>16 DEF FetchPlayers, FetchBalances, Connect, Present
<1> QED BY <1>7, <1>9, <1>10, <1>11, <1>12, <1>13, <1>14, <1>15, <1>16, StepsAre

\* Nobody is forgotten: when everybody has claimed and all is reported and heard, the
\* page that was not loaded again offers the start, in whatever order guests joined, were
\* paid or deactivated, and their messages arrived (onMessage, on_invoice_paid).
THEOREM StartIsOffered == Spec => []StartOffered
<1>1. Init => OfferInv
  <2> SUFFICES ASSUME Init PROVE OfferInv
    OBVIOUS
  <2>1. /\ roster = << >> /\ inbox = << >> /\ page = NoPage /\ \A c \in People : wallet[c] = 0
    BY DEF Init
  <2>2. /\ page.players = << >> /\ page.load = "live" /\ page.waiting = {} /\ page.enable = FALSE
    BY <2>1 DEF NoPage
  <2> QED BY <2>1, <2>2 DEF OfferInv, Present, WaitsTold, ButtonInv
<1>2. LobbyInv /\ LobbyInv' /\ GuestsKnown /\ OfferInv /\ [Next]_vars => OfferInv'
  BY OfferStep
<1>3. LobbyInv /\ OfferInv => StartOffered
  <2> SUFFICES ASSUME LobbyInv, OfferInv, Quiet, loads = 0, ~page.started, Active # {},
                      \A i \in Active : Funded(i), ~page.enable
               PROVE  FALSE
    BY DEF StartOffered
  <2>1. inbox = << >> /\ paidq = << >>
    BY DEF Quiet
  <2>2. WaitsTold /\ ButtonInv
    BY DEF OfferInv
  <2>3. CASE page.waiting = {}
    <3>1. PICK i \in Active : Funded(i)
      OBVIOUS
    <3>2. i \in DOMAIN roster /\ wallet[roster[i].who] = 1
      BY <3>1 DEF Active, Funded
    <3>3. roster[i] \in RosterRow
      BY <3>2 DEF LobbyInv, ServerTypes
    <3>4. PICK c \in People : wallet[c] = 1
      BY <3>2, <3>3 DEF RosterRow
    <3> QED BY <2>1, <2>2, <2>3, <3>4 DEF ButtonInv
  <2>4. CASE page.waiting # {}
    <3>1. PICK x \in page.waiting : x \in DOMAIN page.players /\ page.players[x] = 0
      BY <2>2, <2>4 DEF ButtonInv
    <3>2. OnlyNew(x, 0)
      BY <2>1 DEF OnlyNew
    <3>3. Waits(x)
      BY <2>2, <3>1, <3>2 DEF WaitsTold
    <3> QED BY <2>1, <3>3 DEF Waits
  <2> QED BY <2>3, <2>4
<1> QED BY <1>1, <1>2, <1>3, LobbyInvHolds, GuestsHold, PTL DEF Spec

-----------------------------------------------------------------------------
(* What the page lists.                                                          *)

\* What is on its way to the page makes the list of those there are, T, of the list P.
Told(P, T, msgs) ==
    /\ \A k \in DOMAIN msgs : /\ msgs[k].type = "new"  => msgs[k].index \in T \ P
                              /\ msgs[k].type = "gone" => msgs[k].index \in P \ T
    /\ \A k, l \in DOMAIN msgs :
          msgs[k].type # "pay" /\ msgs[l].type # "pay" /\ msgs[k].index = msgs[l].index => k = l
    /\ \A x \in T \ P : \E k \in DOMAIN msgs : msgs[k].type = "new" /\ msgs[k].index = x
    /\ \A x \in P \ T : \E k \in DOMAIN msgs : msgs[k].type = "gone" /\ msgs[k].index = x

AllUnshared == \A i \in DOMAIN roster : Unshared(i)

\* A page that hears messages will list who is there; one that is being loaded has asked
\* the table for all it does not have.
Listed ==
    /\ Present => /\ Told(DOMAIN page.players, There, inbox)
                  /\ page.count = Cardinality(DOMAIN page.players)
    /\ page.load = "players" => DOMAIN page.players \subseteq There
    /\ page.load \in {"balances", "connect"} =>
         /\ DOMAIN page.players = There
         /\ page.count = Cardinality(DOMAIN page.players)

RosterInv == AllUnshared /\ ~missed /\ at[Creator] \in Seated => Listed

\* The message that is sent is the last one.
LEMMA ToldMore ==
    ASSUME NEW P, NEW T, NEW T2, NEW msgs, NEW msgs2, NEW n, NEW m,
           m.type \in {"new", "gone", "pay"},
           \A k \in DOMAIN msgs : msgs[k].type \in {"new", "gone", "pay"},
           Told(P, T, msgs), n \notin DOMAIN msgs, DOMAIN msgs2 = DOMAIN msgs \cup {n},
           msgs2[n] = m, \A k \in DOMAIN msgs : msgs2[k] = msgs[k],
           \/ m.type = "pay" /\ T2 = T
           \/ m.type = "new" /\ T2 = T \cup {m.index} /\ m.index \notin P
              /\ \A k \in DOMAIN msgs : msgs[k].index # m.index
           \/ m.type = "gone" /\ T2 = T \ {m.index} /\ m.index \in P \cap T
    PROVE  Told(P, T2, msgs2)
<1> USE DEF Told
<1>1. CASE m.type = "pay" /\ T2 = T
  BY <1>1
<1>2. CASE m.type = "new" /\ T2 = T \cup {m.index} /\ m.index \notin P
              /\ \A k \in DOMAIN msgs : msgs[k].index # m.index
  BY <1>2
<1>3. CASE m.type = "gone" /\ T2 = T \ {m.index} /\ m.index \in P \cap T
  <2>1. \A k \in DOMAIN msgs : msgs[k].type # "pay" => msgs[k].index # m.index
    <3> TAKE k \in DOMAIN msgs
    <3>1. CASE msgs[k].type = "new"
      BY <1>3, <3>1
    <3>2. CASE msgs[k].type = "gone"
      BY <1>3, <3>2
    <3> QED BY <3>1, <3>2
  <2> QED BY <1>3, <2>1
<1> QED BY <1>1, <1>2, <1>3

\* The first message is heard.
LEMMA ToldLess ==
    ASSUME NEW P, NEW P2, NEW T, NEW msgs, NEW msgs2, NEW m,
           Told(P, T, msgs), 1 \in DOMAIN msgs, m = msgs[1],
           \A k \in DOMAIN msgs2 : k + 1 \in DOMAIN msgs /\ msgs2[k] = msgs[k + 1]
                                  /\ k \in Nat \ {0},
           \A k \in DOMAIN msgs : k = 1 \/ (k - 1 \in DOMAIN msgs2 /\ msgs2[k - 1] = msgs[k]),
           \/ m.type = "pay" /\ P2 = P
           \/ m.type = "new" /\ P2 = P \cup {m.index}
           \/ m.type = "gone" /\ P2 = P \ {m.index}
    PROVE  /\ Told(P2, T, msgs2)
           /\ m.type = "new" => m.index \notin P
           /\ m.type = "gone" => m.index \in P
<1>1. /\ m.type = "new" => m.index \in T \ P
      /\ m.type = "gone" => m.index \in P \ T
  BY DEF Told
<1>2. ASSUME NEW k \in DOMAIN msgs2, msgs2[k].type # "pay", m.type # "pay"
      PROVE  msgs2[k].index # m.index
  <2>1. k + 1 \in DOMAIN msgs /\ msgs2[k] = msgs[k + 1] /\ k \in Nat \ {0}
    OBVIOUS
  <2>2. k + 1 # 1
    BY <2>1
  <2> QED BY <1>2, <2>1, <2>2 DEF Told
<1>3. ASSUME NEW k \in DOMAIN msgs2
      PROVE  /\ msgs2[k].type = "new"  => msgs2[k].index \in T \ P2
             /\ msgs2[k].type = "gone" => msgs2[k].index \in P2 \ T
  <2>1. k + 1 \in DOMAIN msgs /\ msgs2[k] = msgs[k + 1]
    OBVIOUS
  <2>2. /\ msgs2[k].type = "new"  => msgs2[k].index \in T \ P
        /\ msgs2[k].type = "gone" => msgs2[k].index \in P \ T
    BY <2>1 DEF Told
  <2>3. m.type # "pay" /\ msgs2[k].type # "pay" => msgs2[k].index # m.index
    BY <1>2
  <2> QED BY <2>2, <2>3
<1>4. ASSUME NEW k \in DOMAIN msgs2, NEW l \in DOMAIN msgs2, msgs2[k].type # "pay",
             msgs2[l].type # "pay", msgs2[k].index = msgs2[l].index
      PROVE  k = l
  <2>1. /\ k + 1 \in DOMAIN msgs /\ msgs2[k] = msgs[k + 1] /\ k \in Nat
        /\ l + 1 \in DOMAIN msgs /\ msgs2[l] = msgs[l + 1] /\ l \in Nat
    OBVIOUS
  <2>2. k + 1 = l + 1
    BY <1>4, <2>1 DEF Told
  <2> QED BY <2>1, <2>2
<1>5. ASSUME NEW x \in T \ P2 PROVE \E k \in DOMAIN msgs2 : msgs2[k].type = "new" /\ msgs2[k].index = x
  <2>1. x \in T \ P /\ ~(m.type = "new" /\ m.index = x)
    BY <1>1
  <2>2. PICK k \in DOMAIN msgs : msgs[k].type = "new" /\ msgs[k].index = x
    BY <2>1 DEF Told
  <2>3. k # 1
    BY <2>1, <2>2
  <2> QED BY <2>2, <2>3
<1>6. ASSUME NEW x \in P2 \ T PROVE \E k \in DOMAIN msgs2 : msgs2[k].type = "gone" /\ msgs2[k].index = x
  <2>1. x \in P \ T /\ ~(m.type = "gone" /\ m.index = x)
    BY <1>1
  <2>2. PICK k \in DOMAIN msgs : msgs[k].type = "gone" /\ msgs[k].index = x
    BY <2>1 DEF Told
  <2>3. k # 1
    BY <2>1, <2>2
  <2> QED BY <2>2, <2>3
<1>7. Told(P2, T, msgs2)
  BY <1>3, <1>4, <1>5, <1>6 DEF Told
<1> QED BY <1>1, <1>7

\* As many players as indexes, if no two share one.
LEMMA ThereAre ==
    ASSUME LobbyInv, AllUnshared
    PROVE  Cardinality(There) = Cardinality(Active)
<1>1. Active \subseteq 1 .. Len(roster) /\ Len(roster) \in Nat
  BY DEF Active, LobbyInv, ServerTypes
<1>7. IsFiniteSet(1 .. Len(roster))
  BY <1>1, FS_Interval
<1>2. IsFiniteSet(Active)
  BY <1>1, <1>7, FS_Subset
<1> DEFINE f == [i \in Active |-> roster[i].index]
<1>3. ASSUME NEW i \in Active, NEW j \in Active, f[i] = f[j] PROVE i = j
  <2>1. i \in DOMAIN roster /\ j \in DOMAIN roster /\ roster[i].index = roster[j].index
    BY <1>3 DEF Active
  <2>2. j \in RowsAt(roster[i].index)
    BY <2>1 DEF RowsAt
  <2> QED BY <2>1, <2>2 DEF AllUnshared, Unshared
<1>4. f \in [Active -> There] /\ \A t \in There : \E s \in Active : f[s] = t
  BY DEF There
<1>8. DOMAIN f = Active
  OBVIOUS
<1> HIDE DEF f
<1>5. f \in Bijection(Active, There)
  BY <1>3, <1>4, <1>8 DEF Bijection, Injection, Surjection, IsInjective
<1>6. ExistsBijection(Active, There)
  BY <1>5 DEF ExistsBijection
<1> QED BY <1>2, <1>6, FS_Bijection

\* What a message that is sent makes of the list.
LEMMA ListedSent ==
    ASSUME LobbyInv, Listed, NEW m \in Message, Send(m), page' = page,
           Present =>
             \/ m.type = "pay" /\ There' = There
             \/ /\ m.type = "new" /\ There' = There \cup {m.index}
                /\ m.index \notin DOMAIN page.players
                /\ \A k \in DOMAIN inbox : inbox[k].index # m.index
             \/ /\ m.type = "gone" /\ There' = There \ {m.index}
                /\ m.index \in DOMAIN page.players \cap There,
           ~Present => /\ page.load = "players" => There \subseteq There'
                       /\ page.load # "players" => There' = There
    PROVE  Listed'
<1>1. page.load \in {"live", "players", "balances", "connect"} /\ inbox \in Seq(Message)
  BY DEF LobbyInv, PageTypes, Page
<1>2. CASE ~Present
  BY <1>1, <1>2 DEF Listed, Present
<1>3. CASE Present
  <2>1. PICK P, T, T2 : P = DOMAIN page.players /\ T = There /\ T2 = There'
    OBVIOUS
  <2>2. PICK n : n = Len(inbox) + 1
    OBVIOUS
  <2>3. /\ Len(inbox) + 1 \notin DOMAIN inbox
        /\ DOMAIN inbox' = DOMAIN inbox \cup {Len(inbox) + 1}
        /\ \A k \in DOMAIN inbox : inbox'[k] = inbox[k]
        /\ inbox'[Len(inbox) + 1] = m
    BY <1>3, SendIs
  <2>4. /\ n \notin DOMAIN inbox /\ DOMAIN inbox' = DOMAIN inbox \cup {n}
        /\ \A k \in DOMAIN inbox : inbox'[k] = inbox[k]
        /\ inbox'[n] = m
    BY <2>2, <2>3
  <2>5. Told(P, T, inbox) /\ page.count = Cardinality(DOMAIN page.players)
    BY <1>3, <2>1 DEF Listed
  <2>6. \/ m.type = "pay" /\ T2 = T
        \/ m.type = "new" /\ T2 = T \cup {m.index} /\ m.index \notin P
           /\ \A k \in DOMAIN inbox : inbox[k].index # m.index
        \/ m.type = "gone" /\ T2 = T \ {m.index} /\ m.index \in P \cap T
    BY <1>3, <2>1
  <2>7. /\ m.type \in {"new", "gone", "pay"}
        /\ \A k \in DOMAIN inbox : inbox[k].type \in {"new", "gone", "pay"}
    <3>1. \A k \in DOMAIN inbox : inbox[k] \in Message
      BY <1>1
    <3> QED BY <3>1 DEF Message
  <2>8. PICK msgs2 : msgs2 = inbox'
    OBVIOUS
  <2>9. Told(P, T2, msgs2)
    BY <2>4, <2>5, <2>6, <2>7, <2>8, ToldMore
  <2>10. Told(DOMAIN page.players, There, inbox)'
    BY <2>1, <2>8, <2>9
  <2> QED BY <1>3, <2>5, <2>10 DEF Listed, Present
<1> QED BY <1>2, <1>3

\* What is heard makes of the list.
LEMMA ListedHeard ==
    ASSUME LobbyInv, LobbyInv', Listed, Deliver, There' = There
    PROVE  Listed'
<1>1. /\ page \in Page /\ inbox \in Seq(Message) /\ inbox' \in Seq(Message)
      /\ IsFiniteSet(DOMAIN page.players)
  <2>1. page \in Page /\ inbox \in Seq(Message) /\ inbox' \in Seq(Message)
    BY DEF LobbyInv, PageTypes
  <2>2. DOMAIN page.players \subseteq Indexes
    BY <2>1, ShownAre DEF Page
  <2>3. IsFiniteSet(Indexes)
    BY FS_Interval, LobbyAssumption DEF Indexes
  <2> QED BY <2>1, <2>2, <2>3, FS_Subset
<1>2. /\ 1 \in DOMAIN inbox /\ inbox[1] \in Message /\ Present
      /\ \A k \in DOMAIN inbox' : k + 1 \in DOMAIN inbox /\ inbox'[k] = inbox[k + 1]
      /\ \A k \in DOMAIN inbox : k = 1 \/ (k - 1 \in DOMAIN inbox' /\ inbox'[k - 1] = inbox[k])
      /\ \/ inbox[1].type = "new" /\ page' = NewHeard(inbox[1].index)
         \/ inbox[1].type = "gone" /\ page' = GoneHeard(inbox[1].index)
         \/ inbox[1].type = "pay" /\ page' = Counted(PaidNow(inbox[1]))
  BY DeliverIs
<1>3. \A k \in DOMAIN inbox' : k \in Nat \ {0}
  BY <1>1
<1>4. PICK P, P2, T, m, msgs, msgs2 :
          /\ P = DOMAIN page.players /\ P2 = DOMAIN page'.players /\ T = There /\ m = inbox[1]
          /\ msgs = inbox /\ msgs2 = inbox'
  OBVIOUS
<1>5. Told(P, T, msgs) /\ page.count = Cardinality(P) /\ IsFiniteSet(P)
  BY <1>1, <1>2, <1>4 DEF Listed
<1>6. /\ page'.load = page.load
      /\ \/ m.type = "pay" /\ P2 = P /\ page'.count = page.count
         \/ m.type = "new" /\ P2 = P \cup {m.index} /\ page'.count = page.count + 1
         \/ m.type = "gone" /\ P2 = P \ {m.index} /\ page'.count = page.count - 1
  <2>1. PICK x : x = m.index
    OBVIOUS
  <2>2. CASE m.type = "new" /\ page' = NewHeard(x)
    <3>1. DOMAIN Entered(page.players, x) = DOMAIN page.players \cup {x}
      BY EnteredIs
    <3>2. /\ page'.players = Entered(page.players, x) /\ page'.load = page.load
          /\ page'.count = page.count + 1
      BY <1>1, <2>2, NewHeardIs
    <3> QED BY <1>4, <2>1, <2>2, <3>1, <3>2
  <2>3. CASE m.type = "gone" /\ page' = GoneHeard(x)
    <3>1. DOMAIN Dropped(page.players, x) = DOMAIN page.players \ {x}
      BY DroppedIs
    <3>2. /\ page'.players = Dropped(page.players, x) /\ page'.load = page.load
          /\ page'.count = page.count - 1
      BY <1>1, <2>3, GoneHeardIs
    <3> QED BY <1>4, <2>1, <2>3, <3>1, <3>2
  <2>4. CASE m.type = "pay" /\ page' = Counted(PaidNow(m))
    <3>1. DOMAIN PaidNow(m) = DOMAIN page.players
      BY DEF PaidNow
    <3>2. /\ page'.players = PaidNow(m) /\ page'.load = page.load /\ page'.count = page.count
      BY <1>1, <2>4, CountedIs
    <3> QED BY <1>4, <2>4, <3>1, <3>2
  <2> QED BY <1>2, <1>4, <2>1, <2>2, <2>3, <2>4
<1>7. /\ Told(P2, T, msgs2)
      /\ m.type = "new" => m.index \notin P
      /\ m.type = "gone" => m.index \in P
  <2>3. 1 \in DOMAIN msgs /\ m = msgs[1]
    BY <1>2, <1>4
  <2>4. \A k \in DOMAIN msgs2 : k + 1 \in DOMAIN msgs /\ msgs2[k] = msgs[k + 1]
                                /\ k \in Nat \ {0}
    BY <1>2, <1>3, <1>4
  <2>1. \A k \in DOMAIN msgs : k = 1 \/ (k - 1 \in DOMAIN msgs2 /\ msgs2[k - 1] = msgs[k])
    BY <1>2, <1>4
  <2>2. \/ m.type = "pay" /\ P2 = P
        \/ m.type = "new" /\ P2 = P \cup {m.index}
        \/ m.type = "gone" /\ P2 = P \ {m.index}
    BY <1>6
  <2> QED BY <1>5, <2>1, <2>2, <2>3, <2>4, ToldLess
<1>8. page'.count = Cardinality(P2)
  <2>1. Cardinality(P) \in Nat
    BY <1>5, FS_CardinalityType
  <2>2. CASE m.type = "pay" /\ P2 = P /\ page'.count = page.count
    BY <1>5, <2>2
  <2>3. CASE m.type = "new" /\ P2 = P \cup {m.index} /\ page'.count = page.count + 1
    <3>1. Cardinality(P2) = Cardinality(P) + 1
      BY <1>5, <1>7, <2>3, FS_AddElement
    <3> QED BY <1>5, <2>3, <3>1
  <2>4. CASE m.type = "gone" /\ P2 = P \ {m.index} /\ page'.count = page.count - 1
    <3>1. Cardinality(P2) = Cardinality(P) - 1
      BY <1>5, <1>7, <2>4, FS_RemoveElement
    <3> QED BY <1>5, <2>4, <3>1
  <2> QED BY <1>6, <2>2, <2>3, <2>4
<1>9. Told(DOMAIN page.players, There, inbox)'
  BY <1>4, <1>7
<1>10. page'.count = Cardinality(DOMAIN page'.players) /\ page'.load = "live"
  BY <1>2, <1>4, <1>6, <1>8 DEF Present
<1> QED BY <1>9, <1>10 DEF Listed, Present

\* A step that leaves the list as it is.
LEMMA ListedSame ==
    ASSUME Listed, There' = There, inbox' = inbox, page'.count = page.count,
           DOMAIN page'.players = DOMAIN page.players, page'.load = page.load
    PROVE  Listed'
<1>1. Told(DOMAIN page.players, There, inbox)' <=> Told(DOMAIN page.players, There, inbox)
  <2>1. PICK P, T, m : P = DOMAIN page.players /\ T = There /\ m = inbox
    OBVIOUS
  <2>2. P = DOMAIN page'.players /\ T = There' /\ m = inbox'
    BY <2>1
  <2>3. Told(DOMAIN page.players, There, inbox) <=> Told(P, T, m)
    BY <2>1
  <2>4. Told(DOMAIN page.players, There, inbox)' <=> Told(P, T, m)
    BY <2>2
  <2> QED BY <2>3, <2>4
<1> QED BY <1>1 DEF Listed, Present

\* The same indexes are still in the game.
LEMMA ThereSame ==
    ASSUME DOMAIN roster' = DOMAIN roster,
           \A i \in DOMAIN roster : roster'[i].index = roster[i].index
                                    /\ roster'[i].active = roster[i].active
    PROVE  There' = There
<1>1. Active' = Active /\ \A i \in Active : roster'[i].index = roster[i].index
  BY DEF Active
<1> QED BY <1>1 DEF There

\* With nothing on its way, the list is that of those there are.
LEMMA ToldEmpty ==
    ASSUME NEW P, NEW T, Told(P, T, << >>)
    PROVE  P = T
BY DEF Told

\* What the page missed stays missed, until it is loaded on another device.
LEMMA MissedStays ==
    ASSUME LobbyInv, [Next]_vars, ~\E same \in BOOLEAN : Leave(same), missed
    PROVE  missed'
<1>1. ASSUME NEW m, Send(m) PROVE missed'
  BY <1>1 DEF Send
<1>2. ASSUME NEW c \in People, InsertPlayer(c) PROVE missed'
  BY <1>1, <1>2, InsertSends
<1>3. CASE ReportPaid
  <2>1. \E m : Send(m)
    BY <1>3, ReportIs
  <2> QED BY <1>1, <2>1
<1>4. ASSUME NEW x \in Indexes, Deactivate(x) PROVE missed'
  BY <1>1, <1>4, DeactivateIs
<1> QED BY <1>2, <1>3, <1>4, StepsAre, DeliverIs, FetchPlayersIs, FetchBalancesIs, ConnectIs
        DEF Aside, PayOut, HearMarket, history

\* Every step keeps the list and what is on its way together.
LEMMA RosterStep ==
    LobbyInv /\ LobbyInv' /\ GuestsKnown /\ KnownInv /\ RosterInv /\ [Next]_vars => RosterInv'
<1> SUFFICES ASSUME LobbyInv, LobbyInv', GuestsKnown, KnownInv, RosterInv, [Next]_vars,
                    AllUnshared', ~missed', at'[Creator] \in Seated
             PROVE  Listed'
  BY DEF RosterInv
<1>1. page \in Page /\ page.load \in {"live", "players", "balances", "connect"}
  BY DEF LobbyInv, PageTypes, Page
<1>2. GuestsInv /\ EarlyInv
  BY DEF GuestsKnown
<1>3. AllUnshared
  <2> SUFFICES ASSUME NEW i \in DOMAIN roster, NEW j \in DOMAIN roster,
                      roster[i].index = roster[j].index
               PROVE  i = j
    BY DEF AllUnshared, Unshared, RowsAt
  <2>1. /\ i \in DOMAIN roster' /\ j \in DOMAIN roster'
        /\ roster'[i].index = roster'[j].index
    BY KnownGrows
  <2> QED BY <2>1 DEF AllUnshared, Unshared, RowsAt
<1>4. CASE Entering /\ SameRoster /\ UNCHANGED inbox
  <2> DEFINE g == Entered(page.players, 1)
  <2>1. page' = [page EXCEPT !.players = g, !.count = 1] /\ at[Creator] = "seating"
    BY <1>4 DEF Entering
  <2>2. DOMAIN g = DOMAIN page.players \cup {1}
    BY EnteredIs
  <2> HIDE DEF g
  <2>3. at[Creator] \notin Later
    BY <2>1 DEF Later, Claiming, Starting
  <2>4. /\ inbox = << >> /\ Present /\ DOMAIN page.players \subseteq {1}
        /\ \A i \in DOMAIN roster : roster[i].who = Creator
    BY <1>2, <2>3 DEF EarlyInv
  <2>5. page'.players = g /\ page'.count = 1 /\ page'.load = "live"
    BY <1>1, <2>1, <2>4 DEF Page, Present
  <2>6. DOMAIN page'.players = {1}
    BY <2>2, <2>4, <2>5
  <2>7. There = {1}
    <3>1. HasRow(Creator)
      BY <2>1, PeopleAreFinite DEF LobbyInv, Knows, KnowsOf, Rowed
    <3>2. \A i \in DOMAIN roster : roster[i].index = 1 /\ roster[i].active
      BY <1>2, <2>4 DEF GuestsInv
    <3> QED BY <3>1, <3>2 DEF HasRow, There, Active
  <2>8. There' = {1}
    BY <1>4, <2>7, ThereSame DEF SameRoster
  <2>9. Told(DOMAIN page.players, There, inbox)'
    <3>1. inbox' = << >>
      BY <1>4, <2>4
    <3> QED BY <2>6, <2>8, <3>1 DEF Told
  <2>10. Cardinality({1}) = 1
    BY FS_Singleton
  <2> QED BY <2>5, <2>6, <2>9, <2>10 DEF Listed, Present
<1>5. ASSUME NEW same \in BOOLEAN, Leave(same) PROVE Listed'
  <2>1. /\ page'.load = "players" /\ Present /\ at[Creator] = "in" /\ roster' = roster
        /\ \/ same /\ page'.players = page.players
           \/ ~same /\ page'.players = << >>
        /\ missed' = (same /\ (missed \/ \E i \in DOMAIN inbox : inbox[i].type = "gone"))
    BY <1>5, LeaveIs
  <2>2. There' = There
    BY <2>1, ThereSame
  <2>3. DOMAIN page'.players \subseteq There
    <3>1. CASE ~same
      BY <2>1, <3>1
    <3>2. CASE same
      <4>1. ~missed /\ \A i \in DOMAIN inbox : inbox[i].type # "gone"
        BY <2>1, <3>2
      <4>2. at[Creator] \in Seated
        BY <2>1 DEF Seated, Later
      <4>3. Told(DOMAIN page.players, There, inbox)
        BY <1>3, <2>1, <4>1, <4>2 DEF RosterInv, Listed
      <4> QED BY <2>1, <3>2, <4>1, <4>3 DEF Told
    <3> QED BY <3>1, <3>2
  <2> QED BY <2>1, <2>2, <2>3 DEF Listed, Present
<1> SUFFICES ASSUME ~(Entering /\ SameRoster /\ UNCHANGED inbox),
                    ~\E same \in BOOLEAN : Leave(same)
             PROVE  Listed'
  BY <1>4, <1>5
<1>6. ~missed
  BY MissedStays
<1>7. CASE Aside
  <2>1. at[Creator] \in Seated
    BY <1>7, CreatorMoves DEF Aside
  <2>2. Listed
    BY <1>3, <1>6, <2>1 DEF RosterInv
  <2> QED BY <1>7, <2>2, ThereSame, ListedSame DEF Aside, SameRoster, SamePage
<1>8. ASSUME NEW c \in People, InsertPlayer(c) PROVE Listed'
  <2>1. PICK n : /\ n \notin DOMAIN roster /\ DOMAIN roster' = DOMAIN roster \cup {n}
                 /\ \A i \in DOMAIN roster : roster'[i] = roster[i]
                 /\ roster'[n].who = c /\ roster'[n].index = mem[c].index
                 /\ roster'[n].active /\ at[c] = "inserting"
    BY <1>8, RowInserted
  <2>2. c # Creator
    <3>1. at' = [at EXCEPT ![c] = "seating"] /\ at \in [People -> Stages]
      BY <1>8 DEF InsertPlayer, Go, LobbyInv, PeopleTypes
    <3> QED BY <3>1, PeopleAreFinite DEF Seated, Later, Claiming, Starting
  <2>3. Listed
    <3>1. at' = [at EXCEPT ![c] = "seating"] /\ at \in [People -> Stages]
      BY <1>8 DEF InsertPlayer, Go, LobbyInv, PeopleTypes
    <3> QED BY <1>3, <1>6, <2>2, <3>1, PeopleAreFinite DEF RosterInv
  <2>4. PICK x : x = mem[c].index
    OBVIOUS
  <2>5. There' = There \cup {x}
    BY <2>1, <2>4 DEF There, Active
  <2>6. x \notin Known
    BY <2>1, <2>4 DEF Known, AllUnshared, Unshared, RowsAt
  <2> DEFINE m == [type |-> "new", index |-> x, balance |-> 0]
  <2>7. m \in Message /\ Send(m) /\ m.type = "new" /\ m.index = x /\ page' = page
    BY <1>8, <2>2, <2>4, InsertSends
  <2> HIDE DEF m
  <2>8. page.load \notin {"balances", "connect"}
    BY <2>7 DEF Send
  <2>9. x \notin DOMAIN page.players /\ \A k \in DOMAIN inbox : inbox[k].index # x
    BY <2>6 DEF KnownInv
  <2> QED BY <1>1, <2>3, <2>5, <2>7, <2>8, <2>9, ListedSent DEF Present
<1>9. ASSUME at' = at PROVE Listed
  BY <1>3, <1>6, <1>9 DEF RosterInv
<1>10. ASSUME NEW c \in People, PayOut(c) PROVE Listed'
  <2>1. at[Creator] \in Seated
    BY CreatorMoves, <1>10 DEF PayOut, Entering, Go, LobbyInv, PeopleTypes
  <2>2. Listed
    BY <1>3, <1>6, <2>1 DEF RosterInv
  <2>3. roster' = roster /\ page' = page /\ inbox' = inbox
    BY <1>10 DEF PayOut, server
  <2> QED BY <2>2, <2>3, ThereSame, ListedSame
<1>11. CASE ReportPaid
  <2>1. PICK l \in DOMAIN roster :
             /\ [type |-> "pay", index |-> roster[l].index, balance |-> wallet[paidq[1]]] \in Message
             /\ Send([type |-> "pay", index |-> roster[l].index, balance |-> wallet[paidq[1]]])
             /\ page' = page /\ at' = at
             /\ DOMAIN roster' = DOMAIN roster
             /\ \A i \in DOMAIN roster : roster'[i].index = roster[i].index
                                         /\ roster'[i].active = roster[i].active
    BY <1>11, ReportIs
  <2>2. There' = There
    BY <2>1, ThereSame
  <2> DEFINE m == [type |-> "pay", index |-> roster[l].index, balance |-> wallet[paidq[1]]]
  <2>3. m \in Message /\ Send(m) /\ m.type = "pay"
    BY <2>1
  <2> HIDE DEF m
  <2> QED BY <1>9, <2>1, <2>2, <2>3, ListedSent
<1>12. CASE Deliver
  <2>1. roster' = roster /\ at' = at
    BY <1>12, DeliverIs
  <2>2. There' = There
    BY <2>1, ThereSame
  <2> QED BY <1>9, <1>12, <2>1, <2>2, ListedHeard
<1>13. CASE HearMarket
  <2>1. page' = Counted(page.players) /\ roster' = roster /\ at' = at /\ inbox' = inbox
    BY <1>13 DEF HearMarket, server
  <2>2. /\ page'.players = page.players /\ page'.load = page.load /\ page'.count = page.count
    BY <1>1, <2>1, CountedIs
  <2>3. There' = There
    BY <2>1, ThereSame
  <2> QED BY <1>9, <2>1, <2>2, <2>3, ListedSame
<1>14. ASSUME NEW x \in Indexes, Deactivate(x) PROVE Listed'
  <2> DEFINE m == [type |-> "gone", index |-> x, balance |-> 0]
  <2>1. /\ m \in Message /\ Send(m) /\ m.type = "gone" /\ m.index = x /\ page' = page
        /\ at' = at /\ DOMAIN roster' = DOMAIN roster /\ Present /\ x \in DOMAIN page.players
        /\ \A i \in DOMAIN roster :
                /\ roster'[i].index = roster[i].index
                /\ roster'[i].active <=> roster[i].active /\ roster[i].index # x
    BY <1>14, DeactivateIs
  <2> HIDE DEF m
  <2>2. x \in There
    BY <2>1 DEF Send, There
  <2>3. There' = There \ {x}
    BY <2>1 DEF There, Active
  <2> QED BY <1>9, <2>1, <2>2, <2>3, ListedSent
<1>15. CASE FetchPlayers
  <2>1. /\ page.load = "players" /\ page'.load = "balances"
        /\ page'.count = Cardinality(Active)
        /\ DOMAIN page'.players = DOMAIN page.players \cup There
        /\ roster' = roster /\ at' = at
    BY <1>15, FetchPlayersIs
  <2>2. Listed
    BY <1>9, <2>1
  <2>3. There' = There
    BY <2>1, ThereSame
  <2>4. DOMAIN page'.players = There
    BY <2>1, <2>2 DEF Listed
  <2>5. page'.count = Cardinality(There)
    BY <1>3, <2>1, ThereAre
  <2> QED BY <2>1, <2>3, <2>4, <2>5 DEF Listed, Present
<1>16. CASE FetchBalances
  <2>1. /\ page.load = "balances" /\ page'.load = "connect" /\ page'.count = page.count
        /\ DOMAIN page'.players = DOMAIN page.players /\ roster' = roster /\ at' = at
    BY <1>16, FetchBalancesIs
  <2>2. There' = There
    BY <2>1, ThereSame
  <2> QED BY <1>9, <2>1, <2>2 DEF Listed, Present
<1>17. CASE Connect
  <2>1. /\ page.load = "connect" /\ page'.load = "live" /\ page'.players = page.players
        /\ page'.count = page.count /\ roster' = roster /\ at' = at /\ inbox' = inbox
    BY <1>17, ConnectIs
  <2>2. There' = There
    BY <2>1, ThereSame
  <2>3. inbox = << >>
    BY <2>1 DEF KnownInv, Present
  <2>4. DOMAIN page.players = There /\ page.count = Cardinality(DOMAIN page.players)
    BY <1>9, <2>1 DEF Listed
  <2>5. Told(DOMAIN page.players, There, inbox)'
    BY <2>1, <2>2, <2>3, <2>4 DEF Told
  <2> QED BY <2>1, <2>4, <2>5 DEF Listed, Present
<1> QED BY <1>7, <1>8, <1>10, <1>11, <1>12, <1>13, <1>14, <1>15, <1>16, <1>17, StepsAre

\* Whatever messages are still on their way, once the page has heard them it lists the
\* players there are, and as many: through joins, deactivations, payments and loads from
\* the storage or the database (onMessage, fetchPlayers).
THEOREM RosterIsShown == Spec => []RosterShown
<1>1. Init => KnownInv /\ RosterInv
  <2> SUFFICES ASSUME Init PROVE KnownInv /\ RosterInv
    OBVIOUS
  <2>1. at[Creator] = "new" /\ inbox = << >> /\ page = NoPage
    BY PeopleAreFinite DEF Init
  <2>2. DOMAIN page.players = {}
    BY <2>1 DEF NoPage
  <2> QED BY <2>1, <2>2 DEF KnownInv, RosterInv, Seated, Later, Claiming, Starting
<1>2. LobbyInv /\ LobbyInv' /\ GuestsKnown /\ KnownInv /\ RosterInv /\ [Next]_vars
      => KnownInv' /\ RosterInv'
  BY KnownStep, RosterStep DEF GuestsKnown
<1>3. LobbyInv /\ RosterInv => RosterShown
  <2> SUFFICES ASSUME LobbyInv, RosterInv, Settled, Present, inbox = << >>, ~missed, AllUnshared
               PROVE  /\ DOMAIN page.players = There
                      /\ page.count = Cardinality(Active)
    BY DEF RosterShown, AllUnshared, There
  <2>1. at[Creator] \in Seated
    BY DEF Settled, Seated, Later
  <2>2. /\ Told(DOMAIN page.players, There, inbox)
        /\ page.count = Cardinality(DOMAIN page.players)
    BY <2>1 DEF RosterInv, Listed
  <2>3. DOMAIN page.players = There
    BY <2>2, ToldEmpty
  <2> QED BY <2>2, <2>3, ThereAre
<1> QED BY <1>1, <1>2, <1>3, LobbyInvHolds, GuestsHold, PTL DEF Spec
=============================================================================
