-------------------------------- MODULE Lobby --------------------------------
(***************************************************************************)
(* The lobby of a game: its creator makes it, funds it and issues a        *)
(* voucher; guests follow the invitation, get a name, join and claim their *)
(* initial balance; the creator starts the game.                           *)
(*                                                                         *)
(* Server, voucher, payment watcher and pages interleave.  Of the pages the *)
(* creator's is modelled in full: it may be loaded again, from the storage *)
(* of the device or, on another device, from the database.  Amounts are in *)
(* units of the initial balance.  A request may be refused, or be carried  *)
(* out and its answer lost.                                                *)
(***************************************************************************)
EXTENDS Integers, Sequences, FiniteSets, FiniteSetsExt

CONSTANTS
    Guests,         \* who follows the invitation
    Creator,        \* who creates the game, and plays as "1"
    Names,          \* the names there are for players
    NoName, Blank,  \* not named yet; the empty string
    MaxPlayers,     \* games.max_players_count, also the uses of the voucher
    MaxFaults,      \* BOUND: requests refused or whose answer is lost
    MaxChanges      \* BOUND: loads of the creator's page after the first one, and
                    \* players deactivated

People == Guests \cup {Creator}

ASSUME LobbyAssumption ==
    /\ IsFiniteSet(Guests) /\ Creator \notin Guests
    /\ IsFiniteSet(Names) /\ NoName \notin Names /\ Blank \notin Names /\ NoName # Blank
    /\ MaxPlayers \in Nat \ {0, 1}
    /\ MaxFaults \in Nat /\ MaxChanges \in Nat

VARIABLES
    at,         \* how far each person has got
    mem,        \* what the request each has under way has read
    name,       \* the name each is being given
    given,      \* the names given, to one player each or to more
    wallet,     \* the balance of each one's wallet
    names,      \* games.available_player_names
    roster,     \* the players with their rows in wallets, in insertion order
    link,       \* the withdraw link behind the voucher
    cards,      \* times initialize_cards was carried out
    started,    \* games.started
    paidq,      \* the queue of paid invoices of the payment watcher
    inbox,      \* messages on their way to the creator's page
    page,       \* the creator's page
    shown,      \* the QR code of the invitation has been shown
    faults, loads, gone,
    twins,      \* HISTORY: a name was given again
    overlapped, \* HISTORY: two names were picked from one list
    raced,      \* HISTORY: the link was written from a read no longer true
    missed,     \* HISTORY: the page missed a message it needed, or counted one twice
    counted,    \* HISTORY: the page has counted whom it waits for since it was loaded
    blind       \* HISTORY: the game was started by a page without the voucher

server  == <<names, roster, link, cards, started>>
bounds  == <<faults, loads, gone>>
history == <<given, twins, overlapped, raced, missed, counted, blind>>
vars == <<at, mem, name, wallet, server, paidq, inbox, page, shown, bounds, history>>

-----------------------------------------------------------------------------
\* The stages of createGame, onGameFunded and startGame, and of a guest.
Claiming   == {"claiming", "counting", "paying", "undoing"}
Founding   == {"new", "walletless", "linkless"}
Funding    == {"unfunded", "naming", "inserting", "seating", "paylink", "funding",
               "vouching", "registering"}
Starting   == {"deleting", "dealing", "starting"}
Stages     == Claiming \cup Founding \cup Funding \cup Starting \cup
              {"out", "invited", "in", "stuck"}

Unset   == 2      \* a balance that is undefined: it is not below the initial one
Indexes == 1 .. MaxPlayers

\* game.players with their player_balance.
Balances == UNION {[S -> {0, 1, Unset}] : S \in SUBSET Indexes}

\* Part of game in the page.  `kept`: enableStartGame is in the storage, where the
\* handlers put playersData under that key, and any object counts as true.
Page == [load : {"live", "players", "balances", "connect"},
         players : Balances, count : Int, waiting : SUBSET Indexes,
         enable : BOOLEAN, kept : BOOLEAN,
         voucher : BOOLEAN,         \* game.inviteVoucherId is known
         started : BOOLEAN]

Message == [type : {"new", "gone", "pay"}, index : Indexes, balance : {0, 1}]

TypeOK ==
    /\ at \in [People -> Stages]
    /\ mem \in [People -> [names : SUBSET Names, index : Nat, used : Nat]]
    /\ name \in [People -> Names \cup {NoName, Blank}]
    /\ wallet \in [People -> {0, 1}]
    /\ names \subseteq Names
    /\ roster \in Seq([who : People, index : Indexes, active : BOOLEAN,
                       seated : BOOLEAN, balance : {0, 1}])
    /\ link \in [state : {"none", "live", "deleted"}, used : 0 .. MaxPlayers]
    /\ cards \in Nat /\ started \in BOOLEAN /\ shown \in BOOLEAN
    /\ paidq \in Seq(People) /\ inbox \in Seq(Message) /\ page \in Page
    /\ faults \in 0 .. MaxFaults /\ loads \in 0 .. MaxChanges /\ gone \in 0 .. MaxChanges
    /\ given \subseteq Names
    /\ {twins, overlapped, raced, missed, counted, blind} \subseteq BOOLEAN

Active  == {i \in DOMAIN roster : roster[i].active}
RowsAt(x) == {i \in DOMAIN roster : roster[i].index = x}

\* What becomes of a request.  BOUND: faults, or loads and deactivations, not both.
Fate == {"ok"} \cup (IF faults < MaxFaults /\ loads + gone = 0
                     THEN {"refused", "lost"} ELSE {})
Met(fate) == faults' = IF fate = "ok" THEN faults ELSE faults + 1
Go(c, stage) == at' = [at EXCEPT ![c] = stage]

\* game.players[x] = {..., player_balance: 0}
Entered(players, x) == [y \in DOMAIN players \cup {x} |-> IF y = x THEN 0 ELSE players[y]]

\* The creator may use the page.
Present == page.load = "live"

NoPage == [load |-> "live", players |-> << >>, count |-> 0, waiting |-> {},
           enable |-> FALSE, kept |-> FALSE, voucher |-> FALSE, started |-> FALSE]

Init ==
    /\ at = [c \in People |-> IF c = Creator THEN "new" ELSE "out"]
    /\ mem = [c \in People |-> [names |-> {}, index |-> 0, used |-> 0]]
    /\ name = [c \in People |-> NoName] /\ wallet = [c \in People |-> 0]
    /\ names = Names /\ roster = << >>
    /\ link = [state |-> "none", used |-> 0]
    /\ cards = 0 /\ started = FALSE /\ shown = FALSE
    /\ paidq = << >> /\ inbox = << >> /\ page = NoPage
    /\ faults = 0 /\ loads = 0 /\ gone = 0
    /\ given = {} /\ twins = FALSE
    /\ overlapped = FALSE /\ raced = FALSE /\ missed = FALSE
    /\ counted = FALSE /\ blind = FALSE

-----------------------------------------------------------------------------
\* What the pages of the others get to see is not modelled: messages are for the
\* creator's.  A message that changes the roster is missed when the page has read the
\* roster and is not connected yet; and a player who is deactivated again, before the
\* page heard of the first time, is counted twice by it.
Send(msg) ==
    /\ inbox' = IF Present THEN Append(inbox, msg) ELSE inbox
    /\ missed' = (\/ missed
                  \/ msg.type = "new" /\ page.load \in {"balances", "connect"}
                  \/ msg.type = "gone" /\ \A i \in Active : roster[i].index # msg.index)

\* createGame, createFreeMarketWallet, createFreeMarketPayLNURL: after a failure the
\* creator begins anew, with another game.
Create ==
    /\ at[Creator] \in Founding
    /\ \E fate \in Fate :
        /\ Met(fate)
        /\ Go(Creator, IF fate # "ok" THEN "new"
                        ELSE CASE at[Creator] = "new"        -> "walletless"
                               [] at[Creator] = "walletless" -> "linkless"
                               [] at[Creator] = "linkless"   -> "unfunded")
    /\ UNCHANGED <<mem, name, wallet, server, paidq, inbox, page, shown, loads, gone,
                   history>>

-----------------------------------------------------------------------------
\* Who can ask the server for a name: the creator who has funded the market, and a
\* guest who follows the invitation, while there is room.
MayBeNamed(c) ==
    IF c = Creator THEN at[c] = "unfunded" /\ Present
    ELSE at[c] = "out" /\ shown /\ Cardinality(Active) < MaxPlayers

\* pick_player_name reads the list; an empty one is a list of one empty name.
ReadNames(c) ==
    /\ MayBeNamed(c)
    /\ \E n \in IF names = {} THEN {Blank} ELSE names :
        /\ name' = [name EXCEPT ![c] = n]
        /\ mem' = [mem EXCEPT ![c].names = names]
    /\ Go(c, "naming")
    /\ UNCHANGED <<wallet, server, paidq, inbox, page, shown, bounds, history>>

\* Mutant of Without: the name stays on the list.
WithoutNothing(list, n) == list

Without(list, n) == list \ {n}

\* pick_player_name writes the list that is left.
WriteNames(c) ==
    /\ at[c] = "naming"
    /\ names' = Without(mem[c].names, name[c])
    /\ name' = [name EXCEPT ![c] = NoName]
    /\ given' = given \cup ({name[c]} \ {Blank})
    /\ twins' = (twins \/ name[c] \in given)
    /\ overlapped' = (overlapped \/ names # mem[c].names)
    /\ mem' = [mem EXCEPT ![c] = [names |-> {}, index |-> 1, used |-> 0]]
    /\ Go(c, IF c = Creator THEN "inserting" ELSE "invited")
    /\ UNCHANGED <<wallet, roster, link, cards, started, paidq, inbox, page, shown,
                   bounds, raced, missed, counted, blind>>

\* Mutant of RoomFor: the limit off by one.
RoomForOneMore(n) == n <= MaxPlayers

RoomFor(n) == n < MaxPlayers

\* joinGame: the page asks whether there is room, and api_difficulty_join_game counts
\* the players again; the index is the next number.  A guest is not asked twice.
CountPlayers(c) ==
    /\ at[c] = "invited"
    /\ IF RoomFor(Cardinality(Active))
       THEN /\ mem' = [mem EXCEPT ![c].index = Cardinality(Active) + 1]
            /\ Go(c, "inserting")
       ELSE Go(c, "stuck") /\ UNCHANGED mem
    /\ UNCHANGED <<name, wallet, server, paidq, inbox, page, shown, bounds, history>>

\* create_player; the creator's page is not told of its own player.
InsertPlayer(c) ==
    /\ at[c] = "inserting"
    /\ roster' = Append(roster, [who |-> c, index |-> mem[c].index, active |-> TRUE,
                                 seated |-> FALSE, balance |-> 0])
    /\ IF c = Creator THEN UNCHANGED <<inbox, missed>>
       ELSE Send([type |-> "new", index |-> mem[c].index, balance |-> 0])
    /\ Go(c, "seating")
    /\ mem' = [mem EXCEPT ![c].index = 0]
    /\ UNCHANGED <<name, wallet, names, link, cards, started, paidq, page, shown,
                   bounds, given, twins, overlapped, raced, counted, blind>>

LastRow(c) == Max({i \in DOMAIN roster : roster[i].who = c})

\* create_player_wallet, and the answer: createFirstPlayer enters the creator.  A guest
\* makes a pay link and asks for the market's (createPlayerPayLNURL,
\* getFreeMarketWalletPayLink), and one who fails has joined and never claims.
SeatPlayer(c) ==
    /\ at[c] = "seating"
    /\ roster' = [roster EXCEPT ![LastRow(c)].seated = TRUE]
    /\ \E fate \in Fate \ {"refused"} :
        /\ Met(fate)
        /\ IF c = Creator
           THEN /\ Go(c, IF fate = "ok" THEN "paylink" ELSE "unfunded")
                /\ page' = IF fate = "ok"
                           THEN [page EXCEPT !.players = Entered(@, 1), !.count = 1]
                           ELSE page
           ELSE Go(c, IF fate = "ok" THEN "claiming" ELSE "stuck") /\ UNCHANGED page
    /\ UNCHANGED <<mem, name, wallet, names, link, cards, started, paidq, inbox, shown,
                   loads, gone, history>>

\* createPlayerPayLNURL of the creator.
MakePayLink ==
    /\ at[Creator] = "paylink"
    /\ \E fate \in Fate :
        /\ Met(fate)
        /\ Go(Creator, IF fate = "ok" THEN "funding" ELSE "unfunded")
    /\ UNCHANGED <<mem, name, wallet, server, paidq, inbox, page, shown, loads, gone,
                   history>>

-----------------------------------------------------------------------------
\* database.js onGameFunded and createInviteVoucher.  Once the first request is made
\* the page shows the lobby: what fails here is not tried again.
IssueVoucher ==
    /\ at[Creator] \in {"funding", "vouching", "registering"}
    /\ \E fate \in Fate :
        /\ Met(fate)
        /\ Go(Creator, IF fate # "ok" THEN "in"
                        ELSE CASE at[Creator] = "funding"     -> "vouching"
                               [] at[Creator] = "vouching"    -> "registering"
                               [] at[Creator] = "registering" -> "claiming")
        /\ link' = IF at[Creator] = "vouching" /\ fate # "refused"
                   THEN [link EXCEPT !.state = "live"] ELSE link
        /\ page' = [page EXCEPT !.voucher = at[Creator] = "registering" /\ fate = "ok"]
    /\ UNCHANGED <<mem, name, wallet, names, roster, cards, started, paidq, inbox, shown,
                   loads, gone, history>>

\* showInviteQR.
ShowInvite ==
    /\ Present /\ page.voucher /\ link.state = "live" /\ ~page.started
    /\ page.count < MaxPlayers /\ ~shown
    /\ shown' = TRUE
    /\ UNCHANGED <<at, mem, name, wallet, server, paidq, inbox, page, bounds, history>>

\* claimInviteVoucher: the callback of the link looks at it, and refuses also while
\* the link rests after a use.  A claim that is refused is over, the player is in the
\* game all the same.
ReadLink(c) ==
    /\ at[c] = "claiming"
    /\ \/ /\ link.state = "live" /\ link.used < MaxPlayers
          /\ mem' = [mem EXCEPT ![c].used = link.used]
          /\ Go(c, "counting")
       \/ /\ link.state # "live" \/ link.used > 0
          /\ Go(c, "in") /\ UNCHANGED mem
    /\ UNCHANGED <<name, wallet, server, paidq, inbox, page, shown, bounds, history>>

\* update_withdraw_link, which writes nothing when the link is deleted.
WriteUsed(used) == link' = IF link.state = "live" THEN [link EXCEPT !.used = used] ELSE link

\* The use is counted.
CountUse(c) ==
    /\ at[c] = "counting"
    /\ WriteUsed(mem[c].used + 1)
    /\ raced' = (raced \/ link.used # mem[c].used)
    /\ Go(c, "paying")
    /\ UNCHANGED <<mem, name, wallet, names, roster, cards, started, paidq, inbox, page,
                   shown, bounds, given, twins, overlapped, missed, counted, blind>>

\* pay_invoice, from the market's wallet to the player's.
PayOut(c) ==
    /\ at[c] = "paying"
    /\ \E fate \in Fate \ {"lost"} :
        /\ Met(fate)
        /\ IF fate = "ok"
           THEN /\ wallet' = [wallet EXCEPT ![c] = 1]
                /\ paidq' = Append(paidq, c)
                /\ mem' = [mem EXCEPT ![c].used = 0]
                /\ Go(c, "in")
           ELSE Go(c, "undoing") /\ UNCHANGED <<mem, wallet, paidq>>
    /\ UNCHANGED <<name, server, inbox, page, shown, loads, gone, history>>

\* Mutant of Restored: the use stays counted.
RestoredNot(c) == link.used

\* What the callback writes back when the payment failed.
Restored(c) == mem[c].used

UndoUse(c) ==
    /\ at[c] = "undoing"
    /\ WriteUsed(Restored(c))
    /\ raced' = (raced \/ link.used # mem[c].used + 1)
    /\ mem' = [mem EXCEPT ![c].used = 0]
    /\ Go(c, "in")
    /\ UNCHANGED <<name, wallet, names, roster, cards, started, paidq, inbox, page,
                   shown, bounds, given, twins, overlapped, missed, counted, blind>>

-----------------------------------------------------------------------------
\* on_invoice_paid, update_player_wallet_balance: the UPDATE is of the rows that have
\* the index of the wallet that was paid.
ReportPaid ==
    /\ paidq # << >>
    /\ LET c == Head(paidq)
           x == roster[LastRow(c)].index
       IN  /\ roster' = [i \in DOMAIN roster |->
                 IF roster[i].index = x /\ roster[i].seated
                 THEN [roster[i] EXCEPT !.balance = wallet[c]] ELSE roster[i]]
           /\ Send([type |-> "pay", index |-> x, balance |-> wallet[c]])
    /\ paidq' = Tail(paidq)
    /\ UNCHANGED <<at, mem, name, wallet, names, link, cards, started, page, shown,
                   bounds, given, twins, overlapped, raced, counted, blind>>

-----------------------------------------------------------------------------
\* The start button matters, and is not enabled.
MayCount == ~page.started /\ ~page.enable

\* Whom the page waits for, by the balances it has.
Poor(players) == {x \in DOMAIN players : players[x] < 1}

\* Mutant of Counted: of the balances before the payment.
CountedBefore(players) ==
    IF ~MayCount THEN page
    ELSE [page EXCEPT !.players = players, !.waiting = Poor(page.players),
                      !.enable = Poor(page.players) = {}, !.kept = TRUE]

\* new_payment: the start button is enabled when nobody is below the initial balance.
Counted(players) ==
    IF ~MayCount THEN [page EXCEPT !.players = players]
    ELSE [page EXCEPT !.players = players, !.waiting = Poor(players),
                      !.enable = Poor(players) = {}, !.kept = TRUE]

\* Mutant of NewHeard: the start button is left as it is.
NewHeardOnly(x) ==
    [page EXCEPT !.count = @ + 1, !.players = Entered(@, x)]

NewHeard(x) ==
    LET p == [page EXCEPT !.count = @ + 1, !.players = Entered(@, x)]
    IN  IF page.started THEN p
        ELSE [p EXCEPT !.enable = FALSE, !.waiting = @ \cup {x}, !.kept = TRUE]

\* Mutant of Dropped: the list of the players keeps the one who is gone.
DroppedNot(players, x) == players

Dropped(players, x) == [y \in DOMAIN players \ {x} |-> players[y]]

GoneHeard(x) ==
    LET p == [page EXCEPT !.count = @ - 1, !.players = Dropped(@, x)]
    IN  IF ~MayCount THEN p
        ELSE [p EXCEPT !.waiting = @ \ {x}, !.enable = page.waiting \subseteq {x},
                       !.kept = TRUE]

\* onMessage.
Hear(msg) ==
    CASE msg.type = "new"  -> NewHeard(msg.index)
      [] msg.type = "gone" -> GoneHeard(msg.index)
      [] msg.type = "pay"  ->
            Counted([x \in DOMAIN page.players |->
                        IF x = msg.index THEN msg.balance ELSE page.players[x]])

Deliver ==
    /\ Present /\ inbox # << >>
    /\ page' = Hear(Head(inbox))
    /\ inbox' = Tail(inbox)
    /\ counted' = (counted \/ (Head(inbox).type = "pay" /\ MayCount))
    /\ UNCHANGED <<at, mem, name, wallet, server, paidq, shown, bounds, given, twins,
                   overlapped, raced, missed, blind>>

\* A payment of the market, which wait_for_outgoing_payments reports some time later,
\* makes the page count anew when it tells the liquidity the page has already.
HearMarket ==
    /\ Present /\ \E c \in People : wallet[c] = 1
    /\ page' = Counted(page.players)
    /\ counted' = (counted \/ MayCount)
    /\ UNCHANGED <<at, mem, name, wallet, server, paidq, inbox, shown, bounds, given,
                   twins, overlapped, raced, missed, blind>>

-----------------------------------------------------------------------------
\* The start button.
PressStart ==
    /\ at[Creator] = "in" /\ Present /\ ~page.started
    /\ page.count >= 2 /\ page.enable
    /\ Go(Creator, IF page.voucher THEN "deleting" ELSE "dealing")
    /\ blind' = (blind \/ (~page.voucher /\ link.state = "live"))
    /\ UNCHANGED <<mem, name, wallet, server, paidq, inbox, page, shown, bounds,
                   given, twins, overlapped, raced, missed, counted>>

\* Mutant of After: the cards are not initialised.
AfterNoCards(stage) == IF stage = "deleting" THEN "starting" ELSE "in"

After(stage) ==
    CASE stage = "deleting" -> "dealing"
      [] stage = "dealing"  -> "starting"
      [] stage = "starting" -> "in"

\* startGame: delete the voucher, initialise the cards, start.  A request that fails
\* ends it, and the button may be pressed again.
Start ==
    /\ at[Creator] \in Starting
    /\ at[Creator] = "deleting" => link.state = "live"
    /\ \E fate \in Fate :
        /\ Met(fate)
        /\ Go(Creator, IF fate = "ok" THEN After(at[Creator]) ELSE "in")
        /\ IF fate = "refused" THEN UNCHANGED <<link, cards, started>>
           ELSE \/ /\ at[Creator] = "deleting"
                   /\ link' = [link EXCEPT !.state = "deleted"]
                   /\ UNCHANGED <<cards, started>>
                \/ /\ at[Creator] = "dealing"
                   /\ cards' = cards + 1 /\ UNCHANGED <<link, started>>
                \/ /\ at[Creator] = "starting"
                   /\ started' = TRUE /\ UNCHANGED <<link, cards>>
        /\ page' = IF fate # "ok" THEN page
                   ELSE CASE at[Creator] = "deleting" -> [page EXCEPT !.voucher = FALSE]
                          [] at[Creator] = "starting" -> [page EXCEPT !.started = TRUE]
                          [] OTHER -> page
    /\ UNCHANGED <<mem, name, wallet, names, roster, paidq, inbox, shown, loads, gone,
                   history>>

\* The voucher is deleted already, but its answer was lost: the server does not find it.
DeleteAgain ==
    /\ at[Creator] = "deleting" /\ link.state = "deleted"
    /\ Go(Creator, "in")
    /\ UNCHANGED <<mem, name, wallet, server, paidq, inbox, page, shown, bounds, history>>

\* deactivatePlayer, from the table of the players.
Deactivate(x) ==
    /\ at[Creator] = "in" /\ Present /\ loads + gone < MaxChanges /\ faults = 0
    /\ x \in DOMAIN page.players \ {1}
    /\ gone' = gone + 1
    /\ roster' = [i \in DOMAIN roster |->
                    IF i \in RowsAt(x) THEN [roster[i] EXCEPT !.active = FALSE]
                    ELSE roster[i]]
    /\ Send([type |-> "gone", index |-> x, balance |-> 0])
    /\ UNCHANGED <<at, mem, name, wallet, names, link, cards, started, paidq, page, shown,
                   faults, loads, given, twins, overlapped, raced, counted, blind>>

-----------------------------------------------------------------------------
\* loadGameDataFromLocalStorage: what the handlers have stored, which is all but the
\* start button's flag.
FromStorage == [page EXCEPT !.load = "players", !.enable = page.kept]

\* loadGameDataFromDatabase, which does not ask for the voucher.
FromDatabase == [NoPage EXCEPT !.load = "players", !.started = started]

\* The page is loaded, from the storage of the device or, on another one, from the
\* database.
Leave(sameDevice) ==
    /\ at[Creator] = "in" /\ Present /\ loads + gone < MaxChanges /\ faults = 0
    /\ loads' = loads + 1
    /\ inbox' = << >>
    /\ page' = IF sameDevice THEN FromStorage ELSE FromDatabase
    /\ counted' = FALSE
    /\ missed' = (sameDevice /\ (missed \/ \E i \in DOMAIN inbox : inbox[i].type = "gone"))
    /\ UNCHANGED <<at, mem, name, wallet, server, paidq, shown, faults, gone, given, twins,
                   overlapped, raced, blind>>

Merged(players) ==
    LET there == {roster[i].index : i \in Active}
    IN  [x \in DOMAIN players \cup there |->
            IF x \in DOMAIN players THEN players[x] ELSE Unset]

\* fetchPlayers.
FetchPlayers ==
    /\ page.load = "players"
    /\ page' = [page EXCEPT !.load = "balances", !.players = Merged(@),
                            !.count = Cardinality(Active)]
    /\ UNCHANGED <<at, mem, name, wallet, server, paidq, inbox, shown, bounds, history>>

\* fetchWalletsBalances and fetchGameStarted: the last row of an index decides.
FetchBalances ==
    /\ page.load = "balances"
    /\ page' = [page EXCEPT !.load = "connect", !.started = started,
          !.players = [x \in DOMAIN @ |->
              LET rows == {i \in RowsAt(x) : roster[i].seated}
              IN  IF rows = {} THEN @[x] ELSE roster[Max(rows)].balance]]
    /\ UNCHANGED <<at, mem, name, wallet, server, paidq, inbox, shown, bounds, history>>

Connect ==
    /\ page.load = "connect"
    /\ page' = [page EXCEPT !.load = "live"]
    /\ UNCHANGED <<at, mem, name, wallet, server, paidq, inbox, shown, bounds, history>>

Next ==
    \/ Create \/ MakePayLink \/ IssueVoucher \/ ShowInvite
    \/ PressStart \/ Start \/ DeleteAgain
    \/ \E c \in Guests : CountPlayers(c)
    \/ \E c \in People :
          \/ ReadNames(c) \/ WriteNames(c) \/ InsertPlayer(c) \/ SeatPlayer(c)
          \/ ReadLink(c) \/ CountUse(c) \/ PayOut(c) \/ UndoUse(c)
    \/ ReportPaid \/ Deliver \/ HearMarket
    \/ \E x \in Indexes : Deactivate(x)
    \/ \E sameDevice \in BOOLEAN : Leave(sameDevice)
    \/ FetchPlayers \/ FetchBalances \/ Connect

Spec == Init /\ [][Next]_vars

-----------------------------------------------------------------------------
Funded(i)   == wallet[roster[i].who] = 1
Unshared(i) == RowsAt(roster[i].index) = {i}
Settled     == at[Creator] \in Claiming \cup Starting \cup {"in"}

\* Players have different names, unless two names were picked from one list or the
\* list was exhausted: opened invitations use up names (pick_player_name).
NamesDiffer == twins => overlapped

\* The link has counted the claims that were paid and those under way, whatever
\* failed, unless it was written from a read no longer true; so the voucher pays no
\* more than its uses (api_lnurl_callback).
VoucherCounted ==
    link.state = "live" /\ ~raced =>
        link.used = Cardinality({c \in People : wallet[c] = 1
                                                \/ at[c] \in {"paying", "undoing"}})

\* Once the page has heard everything it lists the players there are, loaded again or
\* not, unless it missed a message or an index is shared (onMessage, fetchPlayers).
RosterShown ==
    Settled /\ Present /\ inbox = << >> /\ ~missed /\ (\A i \in DOMAIN roster : Unshared(i))
    => /\ DOMAIN page.players = {roster[i].index : i \in Active}
       /\ page.count = Cardinality(Active)

\* The start button is enabled only if all players the page knows of have got their
\* initial balance, unless it was enabled by loading the page, by a deactivation before
\* any payment was heard of, or a player was read between the two rows that a join
\* inserts ("after all invited players have claimed", onMessage).
StartWaits ==
    page.enable /\ ~page.started /\ counted =>
        \A i \in DOMAIN roster :
            /\ Unshared(i) /\ roster[i].index \in DOMAIN page.players
            /\ page.players[roster[i].index] # Unset
            => Funded(i)

\* A started game has its cards, and its voucher pays nobody any more, unless the page
\* that started it did not know of the voucher (startGame).
StartIsLast ==
    started => cards > 0 /\ (blind \/ link.state # "live")

\* When everybody has claimed and all is reported, the creator can start the game,
\* unless the page was loaded again in the meantime (onMessage, on_invoice_paid).
Quiet == inbox = << >> /\ paidq = << >>

StartOffered ==
    /\ Settled /\ Quiet /\ loads = 0 /\ ~page.started
    /\ Active # {} /\ \A i \in Active : Funded(i)
    => page.enable
=============================================================================
