-------------------------------- MODULE Pages --------------------------------
(***************************************************************************)
(* The pages of a started game and what they show of it.  A page keeps a   *)
(* copy of the turn and of the properties: it fetches both when it loads,  *)
(* then connects a websocket, updates the copy with the messages that      *)
(* come, and with the answers to its own requests, of which the server     *)
(* tells the others only.                                                  *)
(*                                                                         *)
(* A handler of the server is two steps: it writes the row, then notifies  *)
(* the others and answers.  Turns are numbered by how often the turn was   *)
(* passed; pages see only whose turn it is.                                *)
(***************************************************************************)
EXTENDS Naturals, Sequences, FiniteSets, SequencesExt

CONSTANTS
    N,              \* number of players, 1 .. N, all active
    Deeds,          \* the properties, all of one color
    NoDeed,         \* "no purchase or upgrade in progress"
    Dealt,          \* the properties table when the model begins
    MaxChanges,     \* BOUND: passes of the turn and writes to the properties table
    MaxLevel,       \* BOUND: steps of the mining capacity that are modelled
    MaxBreaks       \* BOUND: pages loaded again and connections lost

ASSUME PagesAssumption ==
    /\ N \in Nat \ {0, 1} /\ IsFiniteSet(Deeds) /\ NoDeed \notin Deeds
    /\ {"turn", "claim"} \cap (Deeds \cup {NoDeed}) = {}
    /\ Dealt \in Seq([deed : Deeds, owner : 1 .. N, level : Nat])
    /\ {MaxChanges, MaxLevel, MaxBreaks} \subseteq Nat

Players == 1 .. N

VARIABLES
    turn,       \* games.player_turn, as the number of passes so far
    rows,       \* the properties table, in insertion order; it has no key
    outbox,     \* what handlers that have written are about to send
    answers,    \* answers on their way to each page
    queue,      \* messages on their way to each page
    registered, \* active_connections has a connection for the client
    lingering,  \* the server has not yet noticed that an old one is closed
    page,       \* the pages
    copy,       \* game.properties on each page; it survives in localStorage
    missed,     \* HISTORY: what a page may be wrong about, see Exposed
    claimed,    \* HISTORY: the turn, as its page had it, of a player's last claim
    count       \* HISTORY: what is bounded

server  == <<turn, rows>>
network == <<outbox, answers, queue, registered, lingering>>
history == <<missed, claimed, count>>
vars == <<server, network, page, copy, history>>

-----------------------------------------------------------------------------
Holder(t) == (t % N) + 1

Row  == [deed : Deeds, owner : Players, level : Nat]
Card == [owner : Players \cup {0}, level : Nat, position : Nat]

Page == [at : {"away", "turn", "deeds", "live"},  \* what a load has fetched
         hears : BOOLEAN,                   \* onmessage is set on its websocket
         turn : Nat,                        \* game.playerTurn
         first : BOOLEAN,                   \* game.firstStartClaimThisTurn
         claiming : BOOLEAN,                \* the bonus was asked for
         passing : {"no", "asked", "failed"},     \* game.incrementingPlayerTurn
         deal : Deeds \cup {NoDeed},        \* what it buys or upgrades, and
         step : {"no", "market", "owner", "asked"},  \* how far that is
         looked : Nat,                      \* the capacity the purchase read
         loads : Nat]

\* What a handler tells the other players, and answers to the load that asked.
Message == [about : {"turn"}, by : Players, load : Nat, turn : Nat]
      \cup [about : Deeds, by : Players, load : Nat, owner : Players,
            level : Nat, sale : BOOLEAN]

TypeOK ==
    /\ turn \in Nat
    /\ rows \in Seq(Row)
    /\ outbox \in Seq(Message)
    /\ answers \in [Players -> SUBSET Message]
    /\ queue \in [Players -> Seq(Message)]
    /\ registered \in [Players -> BOOLEAN]
    /\ lingering \in [Players -> BOOLEAN]
    /\ page \in [Players -> Page]
    /\ copy \in [Players -> [Deeds -> Card]]
    /\ missed \in [Players -> SUBSET (Deeds \cup {"turn", "claim"})]
    /\ claimed \in [Players -> Nat]
    /\ count \in [changes : 0 .. MaxChanges, breaks : 0 .. MaxBreaks]

Hand(c, p)      == {d \in Deeds : c[d].owner = p}
Positions(c, p) == {c[d].position : d \in Hand(c, p)}

\* updateGameProperties on p's page: the previous owner loses the property; a
\* card new in the player's hand goes on top of those of its color.  Only the
\* positions of the player's own cards are ever used.
Updated(c, p, d, owner, level) ==
    [c EXCEPT ![d] = [owner |-> owner, level |-> level,
        position |-> IF owner # p THEN 0
                     ELSE IF c[d].owner = p THEN c[d].position
                     ELSE Cardinality(Hand(c, p))]]

\* Mutant of Closed: every card of the player moves, position found or not.
ClosedBlindly(c, p, pos) ==
    [d \in Deeds |-> IF c[d].owner = p THEN [c[d] EXCEPT !.position = @ - 1] ELSE c[d]]

\* One round of the loop of repositionProperties: an empty position is closed.
Closed(c, p, pos) ==
    IF pos \in Positions(c, p) THEN c
    ELSE [d \in Deeds |->
            IF c[d].owner = p /\ c[d].position > pos
            THEN [c[d] EXCEPT !.position = @ - 1] ELSE c[d]]

\* Mutant of Repositioned: the hand is left as it is.
NotRepositioned(c, p) == c

Repositioned(c, p) ==
    FoldLeft(LAMBDA h, i : Closed(h, p, i - 1), c,
             [i \in 1 .. Cardinality(Hand(c, p)) |-> i])

\* fetchProperties: every row updates the copy, which is repositioned once.
Fetched(c, p) ==
    Repositioned(FoldLeft(LAMBDA h, r : Updated(h, p, r.deed, r.owner, r.level), c,
                          rows), p)

\* get_property: the first row.
RowsOf(d) == {i \in DOMAIN rows : rows[i].deed = d}
RowOf(d)  == rows[CHOOSE i \in RowsOf(d) : \A j \in RowsOf(d) : i <= j]

\* What p's page has read or asked for, and will write over its copy.
Awaits(p, about) == \/ about = "turn" /\ page[p].passing = "asked"
                    \/ about = page[p].deal

Hears(p) == page[p].at = "live" /\ page[p].hears /\ registered[p]

\* The pages that a message about something may leave wrong about it: those it
\* does not reach, and those that will overwrite what it says.
Exposed(about) == {p \in Players : ~Hears(p) \/ Awaits(p, about)}

\* A message about it is still on its way to p, who changes it meanwhile and may
\* be answered first.
Overdue(p, about) ==
    \/ \E i \in DOMAIN outbox : outbox[i].about = about /\ outbox[i].by # p
    \/ \E i \in DOMAIN queue[p] : queue[p][i].about = about

\* A page that misses how the turn left its player may miss that it came back.
Missing(p, what) ==
    missed[p] \cup what
        \cup (IF "turn" \in what /\ Holder(page[p].turn) = p THEN {"claim"} ELSE {})

-----------------------------------------------------------------------------
Init ==
    /\ turn = 0 /\ rows = Dealt /\ outbox = <<>>
    /\ answers = [p \in Players |-> {}]
    /\ queue = [p \in Players |-> <<>>]
    /\ registered = [p \in Players |-> TRUE]
    /\ lingering = [p \in Players |-> FALSE]
    /\ page = [p \in Players |->
        [at |-> "live", hears |-> TRUE, turn |-> 0, first |-> TRUE,
         claiming |-> FALSE, passing |-> "no", deal |-> NoDeed, step |-> "no", looked |-> 0,
         loads |-> 0]]
    /\ copy = [p \in Players |-> Fetched(
        [d \in Deeds |-> [owner |-> 0, level |-> 0, position |-> 0]], p)]
    /\ missed = [p \in Players |-> {}]
    /\ claimed = [p \in Players |-> MaxChanges + 1]
    /\ count = [changes |-> 0, breaks |-> 0]

\* It is p's turn as far as p's page knows: the buttons are there.
MyTurn(p) == page[p].at = "live" /\ Holder(page[p].turn) = p

\* The handler of p's request has written and will notify the others.
Send(p, m) ==
    /\ count.changes < MaxChanges
    /\ count' = [count EXCEPT !.changes = @ + 1]
    /\ outbox' = Append(outbox, m)
    /\ missed' = IF Overdue(p, m.about)
                 THEN [missed EXCEPT ![p] = Missing(p, {m.about})] ELSE missed

\* nextPlayerTurn.  The server refuses when the turn is with another; the page
\* then has incrementingPlayerTurn set and no answer to reset it.
PassTurn(p) ==
    /\ MyTurn(p) /\ page[p].passing = "no"
    /\ \/ /\ Holder(turn) = p
          /\ turn' = turn + 1
          /\ Send(p, [about |-> "turn", by |-> p, load |-> page[p].loads,
                   turn |-> turn + 1])
          /\ page' = [page EXCEPT ![p].passing = "asked"]
       \/ /\ Holder(turn) # p
          /\ page' = [page EXCEPT ![p].passing = "failed"]
          /\ UNCHANGED <<turn, outbox, missed, count>>
    /\ UNCHANGED <<rows, answers, queue, registered, lingering, copy, claimed>>

\* claimStartAmount, by a player who waits for the answer: nothing on the page
\* stops a second click.
Claim(p) ==
    /\ MyTurn(p) /\ page[p].first /\ ~page[p].claiming
    /\ page' = [page EXCEPT ![p].claiming = TRUE]
    /\ claimed' = [claimed EXCEPT ![p] = page[p].turn]
    /\ UNCHANGED <<server, network, copy, missed, count>>

\* Once the bonus is paid the flag is reset, of whatever turn it is by then.
ClaimPaid(p) ==
    /\ page[p].claiming
    /\ page' = [page EXCEPT ![p].claiming = FALSE, ![p].first = FALSE]
    /\ missed' = IF page[p].turn = claimed[p] THEN missed
                 ELSE [missed EXCEPT ![p] = @ \cup {"claim"}]
    /\ UNCHANGED <<server, network, copy, claimed, count>>

\* purchaseProperty reads the row before it pays.  The market sells what the
\* page shows without owner, in the player's turn; an owner, by QR code.
Look(p, d) ==
    /\ page[p].at = "live" /\ page[p].deal = NoDeed
    /\ count.changes < MaxChanges
    /\ \/ /\ RowsOf(d) = {} /\ copy[p][d].owner = 0 /\ MyTurn(p)
          /\ page' = [page EXCEPT ![p].deal = d, ![p].step = "market",
                                  ![p].looked = 0]
       \/ /\ RowsOf(d) # {} /\ RowOf(d).owner # p
          /\ page' = [page EXCEPT ![p].deal = d, ![p].step = "owner",
                                  ![p].looked = RowOf(d).level]
    /\ UNCHANGED <<server, network, copy, history>>

\* The purchase is paid: registerProperty or transferPropertyOwnership.
Take(p) ==
    LET d == page[p].deal
    IN  /\ page[p].step \in {"market", "owner"}
        /\ rows' = IF page[p].step = "market"
              THEN Append(rows, [deed |-> d, owner |-> p, level |-> 0])
              ELSE [i \in DOMAIN rows |-> IF i \in RowsOf(d)
                       THEN [rows[i] EXCEPT !.owner = p] ELSE rows[i]]
        /\ Send(p, [about |-> d, by |-> p, load |-> page[p].loads, owner |-> p,
                 level |-> IF page[p].step = "market" THEN 0 ELSE RowOf(d).level,
                 sale |-> TRUE])
        /\ page' = [page EXCEPT ![p].step = "asked"]
        /\ UNCHANGED <<turn, answers, queue, registered, lingering, copy, claimed>>

\* upgradePropertyMiningCapacity, paid for; the server checks the owner.
Upgrade(p, d) ==
    /\ MyTurn(p) /\ page[p].deal = NoDeed /\ copy[p][d].owner = p
    /\ RowsOf(d) # {} /\ RowOf(d).owner = p /\ RowOf(d).level < MaxLevel
    /\ rows' = [i \in DOMAIN rows |-> IF i \in RowsOf(d)
                  THEN [rows[i] EXCEPT !.level = RowOf(d).level + 1] ELSE rows[i]]
    /\ Send(p, [about |-> d, by |-> p, load |-> page[p].loads, owner |-> p,
             level |-> RowOf(d).level + 1, sale |-> FALSE])
    /\ page' = [page EXCEPT ![p].deal = d, ![p].step = "asked"]
    /\ UNCHANGED <<turn, answers, queue, registered, lingering, copy, claimed>>

-----------------------------------------------------------------------------
\* A message that overtakes an older one about the same.
Overtakes(i) == \E j \in 1 .. i - 1 : outbox[j].about = outbox[i].about

\* Where an older turn may come after a newer one, the bonus is in doubt too.
Doubt(i) == IF outbox[i].about = "turn" /\ Overtakes(i) THEN {"claim"} ELSE {}

\* The message leaves the outbox: the pages in `told` get it, the others do not.
\* One that overtakes an older message about the same leaves every page in doubt.
Sent(i, told) ==
    LET m == outbox[i]
        unsure == IF Overtakes(i) THEN Players
                  ELSE ((Players \ told) \cup Exposed(m.about)) \ {m.by}
    IN  /\ outbox' = RemoveAt(outbox, i)
        /\ queue' = [q \in Players |-> IF q \in told THEN Append(queue[q], m)
                                                     ELSE queue[q]]
        /\ missed' = [q \in Players |-> IF q \notin unsure THEN missed[q]
                                        ELSE Missing(q, {m.about}) \cup Doubt(i)]

\* The load that asked still waits for the answer.
Waiting(m) == page[m.by].at = "live" /\ page[m.by].loads = m.load

\* notify_other_game_players.
Recipients(m) == {q \in Players \ {m.by} : Hears(q)}

Notify(i) ==
    LET m == outbox[i]
    IN  /\ Sent(i, Recipients(m))
        /\ answers' = IF Waiting(m) THEN [answers EXCEPT ![m.by] = @ \cup {m}]
                                    ELSE answers
        /\ UNCHANGED <<server, registered, lingering, page, copy, claimed, count>>

\* send_text raises on a connection that is closed: some are not told, and the
\* request fails.  Purchases and upgrades catch that; nextPlayerTurn does not.
NotifyFails(i) ==
    LET m == outbox[i]
    IN  /\ \E q \in Players \ {m.by} : registered[q] /\ lingering[q]
        /\ \E told \in SUBSET Recipients(m) :
              /\ outbox' = RemoveAt(outbox, i)
              /\ queue' = [q \in Players |-> IF q \in told THEN Append(queue[q], m)
                                                           ELSE queue[q]]
              /\ missed' = [q \in Players |-> Missing(q, {m.about}) \cup Doubt(i)]
        /\ page' = IF ~Waiting(m) THEN page
                   ELSE IF m.about = "turn"
                   THEN [page EXCEPT ![m.by].passing = "failed"]
                   ELSE [page EXCEPT ![m.by].deal = NoDeed, ![m.by].step = "no"]
        /\ UNCHANGED <<server, answers, registered, lingering, copy, claimed, count>>

\* The page's copy of the mining capacity is set where the message says the
\* property is; the handler raises when it is not there.
Leveled(c, m) == IF c[m.about].owner = m.owner
                 THEN [c EXCEPT ![m.about].level = m.level] ELSE c

\* Mutant of TurnHeard: the flags of the turn are forgotten.
TurnHeardOnly(pg, p, t) == [pg EXCEPT !.turn = t]

\* Mutant of TurnHeard: the turn is not shown.
TurnHeardLater(pg, p, t) == [pg EXCEPT !.first = @ \/ Holder(t) = p]

\* next_player_turn: the page shows the turn; the flags are set if it is p's.
TurnHeard(pg, p, t) == [pg EXCEPT !.turn = t, !.first = @ \/ Holder(t) = p]

\* Mutant of DeedHeard: sales are ignored.
DeedHeardUpgrades(c, p, m) == IF m.sale THEN c ELSE Leveled(c, m)

\* property_purchase and miners_purchase.
DeedHeard(c, p, m) ==
    IF m.sale THEN Repositioned(Updated(c, p, m.about, m.owner, m.level), p)
              ELSE Leveled(c, m)

\* onMessage.
Hear(p) ==
    LET m == Head(queue[p])
    IN  /\ queue' = [queue EXCEPT ![p] = Tail(@)]
        /\ \/ /\ m.about = "turn"
              /\ page' = [page EXCEPT ![p] = TurnHeard(@, p, m.turn)]
              /\ UNCHANGED copy
           \/ /\ m.about # "turn"
              /\ copy' = [copy EXCEPT ![p] = DeedHeard(@, p, m)]
              /\ UNCHANGED page
        /\ UNCHANGED <<server, outbox, answers, registered, lingering, history>>

\* Mutant of Deliver: not while the player buys or upgrades.
DeliverIdle(p) == queue[p] # <<>> /\ page[p].deal = NoDeed /\ Hear(p)

Deliver(p) == queue[p] # <<>> /\ Hear(p)

\* The page writes what it asked for in its copy; the capacity of a property it
\* bought is the one it read before it paid.
Answer(p) ==
    \E m \in answers[p] :
        /\ answers' = [answers EXCEPT ![p] = @ \ {m}]
        /\ \/ /\ m.about = "turn"
              /\ page' = [page EXCEPT ![p].turn = m.turn, ![p].passing = "no"]
              /\ UNCHANGED copy
           \/ /\ m.about # "turn"
              /\ copy' = [copy EXCEPT ![p] =
                   IF m.sale
                   THEN Repositioned(Updated(@, p, m.about, p, page[p].looked), p)
                   ELSE Leveled(@, m)]
              /\ page' = [page EXCEPT ![p].deal = NoDeed, ![p].step = "no"]
        /\ UNCHANGED <<server, outbox, queue, registered, lingering, history>>

-----------------------------------------------------------------------------
\* The player reloads the page: what was on its way to the old one is lost.
Leave(p) ==
    /\ page[p].at = "live" /\ count.breaks < MaxBreaks
    /\ page' = [page EXCEPT ![p] = [page[p] EXCEPT !.at = "away", !.hears = FALSE,
          !.passing = "no", !.claiming = FALSE, !.deal = NoDeed, !.step = "no",
          !.loads = page[p].loads + 1]]
    /\ lingering' = [lingering EXCEPT ![p] = TRUE]
    /\ queue' = [queue EXCEPT ![p] = <<>>]
    /\ answers' = [answers EXCEPT ![p] = {}]
    /\ missed' = [missed EXCEPT ![p] =
          Missing(p, {queue[p][i].about : i \in DOMAIN queue[p]})
            \cup (IF page[p].passing # "no" \/ page[p].claiming THEN {"claim"} ELSE {})]
    /\ count' = [count EXCEPT !.breaks = @ + 1]
    /\ UNCHANGED <<server, outbox, registered, copy, claimed>>

\* Mutant of TurnFetched: the bonus is back whenever the turn is the player's.
TurnFetchedAnew(pg, p, t) == [pg EXCEPT !.turn = t, !.first = @ \/ Holder(t) = p]

\* fetchPlayerTurn: the flag is set when the turn is new to the page, and p's.
TurnFetched(pg, p, t) ==
    [pg EXCEPT !.turn = t,
               !.first = @ \/ (Holder(t) = p /\ Holder(pg.turn) # p)]

FetchTurn(p) ==
    /\ page[p].at = "away"
    /\ page' = [page EXCEPT ![p] = [TurnFetched(@, p, turn) EXCEPT !.at = "turn"]]
    /\ missed' = [missed EXCEPT ![p] = @ \ {"turn"}]
    /\ UNCHANGED <<server, network, copy, claimed, count>>

FetchProperties(p) ==
    /\ page[p].at = "turn"
    /\ page' = [page EXCEPT ![p].at = "deeds"]
    /\ copy' = [copy EXCEPT ![p] = Fetched(@, p)]
    /\ missed' = [missed EXCEPT ![p] = @ \ Deeds]
    /\ UNCHANGED <<server, network, claimed, count>>

\* connectWebsocket; the server overwrites the connection it had.  What is in the
\* outbox will come, and may be older than what the page has fetched.
Connect(p) ==
    /\ page[p].at = "deeds"
    /\ page' = [page EXCEPT ![p].at = "live", ![p].hears = TRUE]
    /\ registered' = [registered EXCEPT ![p] = TRUE]
    /\ LET late == {outbox[i].about : i \in DOMAIN outbox}
       IN  missed' = [missed EXCEPT ![p] =
             @ \cup late \cup (IF "turn" \in late THEN {"claim"} ELSE {})]
    /\ UNCHANGED <<server, outbox, answers, queue, lingering, copy, claimed, count>>

\* The server notices the end of an old connection and forgets the one it has,
\* which may be the new one.
Disconnect(p) ==
    /\ lingering[p]
    /\ lingering' = [lingering EXCEPT ![p] = FALSE]
    /\ registered' = [registered EXCEPT ![p] = FALSE]
    /\ UNCHANGED <<server, outbox, answers, queue, page, copy, history>>

\* The connection breaks: onclose opens another, whose messages nobody handles.
Drop(p) ==
    /\ page[p].at = "live" /\ page[p].hears /\ count.breaks < MaxBreaks
    /\ page' = [page EXCEPT ![p].hears = FALSE]
    /\ lingering' = [lingering EXCEPT ![p] = TRUE]
    /\ registered' = [registered EXCEPT ![p] = TRUE]
    /\ queue' = [queue EXCEPT ![p] = <<>>]
    /\ missed' = [missed EXCEPT ![p] =
          Missing(p, {queue[p][i].about : i \in DOMAIN queue[p]})]
    /\ count' = [count EXCEPT !.breaks = @ + 1]
    /\ UNCHANGED <<server, outbox, answers, copy, claimed>>

Load(p) == FetchTurn(p) \/ FetchProperties(p) \/ Connect(p)

Next ==
    \/ \E i \in DOMAIN outbox : Notify(i) \/ NotifyFails(i)
    \/ \E p \in Players :
        \/ PassTurn(p) \/ Claim(p) \/ ClaimPaid(p) \/ Take(p)
        \/ \E d \in Deeds : Look(p, d) \/ Upgrade(p, d)
        \/ Deliver(p) \/ Answer(p)
        \/ Leave(p) \/ Load(p) \/ Disconnect(p) \/ Drop(p)

Spec == Init /\ [][Next]_vars

\* Some handler that has written, message or answer that is on its way, or page
\* that loads goes on; nobody has to play, to pass or to reload.
Progress ==
    \/ \E i \in DOMAIN outbox : Notify(i) \/ NotifyFails(i)
    \/ \E p \in Players : Deliver(p) \/ Answer(p) \/ Load(p)

FairSpec == Spec /\ WF_vars(Progress)

-----------------------------------------------------------------------------
\* Nothing about it is on its way to the page.
Settled(p, about) ==
    /\ page[p].at = "live" /\ about \notin missed[p] /\ ~Awaits(p, about)
    /\ \A i \in DOMAIN outbox : outbox[i].about # about
    /\ \A i \in DOMAIN queue[p] : queue[p][i].about # about

\* A page that has missed nothing shows whose turn it is, and who owns each
\* property with which mining capacity: a load, the messages and the answers
\* together leave no page behind.
TurnShown == \A p \in Players : Settled(p, "turn") => page[p].turn = turn

PropertiesShown ==
    \A p \in Players, d \in Deeds :
        Settled(p, d) /\ Cardinality(RowsOf(d)) <= 1 =>
            IF RowsOf(d) = {} THEN copy[p][d].owner = 0
            ELSE /\ copy[p][d].owner = RowOf(d).owner
                 /\ copy[p][d].level = RowOf(d).level

\* The player's cards of a color lie one on the other, without gaps or overlaps
\* (repositionProperties), on a page that was not loaded again: what a load finds in
\* localStorage and in the table may be more than one change apart, and cards that
\* came to lie in one position stay there.
HandStacked ==
    \A p \in Players :
        page[p].loads = 0 =>
            Positions(copy[p], p) = 0 .. Cardinality(Hand(copy[p], p)) - 1

\* The start bonus is claimed once in a turn (by who waits for the answer).
ClaimedOnce ==
    [][ \A p \in Players :
          ~page[p].claiming /\ page'[p].claiming /\ missed[p] \cap {"turn", "claim"} = {}
            => claimed[p] # page[p].turn ]_vars

\* When the turn is a player's again, so is the start bonus.
ClaimRestored ==
    \A p \in Players :
        /\ Settled(p, "turn") /\ Holder(turn) = p /\ "claim" \notin missed[p]
        /\ ~page[p].first
        => claimed[p] = turn

\* The player whose turn it is gets to know it, unless the page misses something:
\* else everyone waits for a player who waits as well.
HolderTold ==
    []<>(\A p \in Players : Holder(turn) = p => page[p].turn = turn \/ missed[p] # {})
=============================================================================
