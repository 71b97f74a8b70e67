-------------------------------- MODULE Board --------------------------------
(***************************************************************************)
(* The board of a started game: properties, their miners and income, and   *)
(* the pot of fines.  A page pays first and tells the server afterwards;   *)
(* what the server then does is a read and a later write, each on its own. *)
(* Every payment and every request may fail, at any point.                 *)
(*                                                                         *)
(* Each player does one thing at a time (the dialogs are modal), and the   *)
(* steps of different players interleave.  What their pages show is in     *)
(* module Pages, the wallets behind a payment in module Payments.          *)
(***************************************************************************)
EXTENDS Naturals, Sequences, FiniteSets, FiniteSetsExt

CONSTANTS
    Players,        \* the players
    Market,         \* the free market, index 0, which sells and collects
    Deeds,          \* the properties
    NoDeed,         \* "not about a property"
    Dealt,          \* the properties table when the model begins
    Fines,          \* amounts of fines
    MaxFlows        \* BOUND: purchases, upgrades, fees, fines and claims begun

ASSUME BoardAssumption ==
    /\ IsFiniteSet(Players) /\ Market \notin Players /\ NoDeed \notin Deeds
    /\ Dealt \in Seq([deed : Deeds, owner : Players, level : {0, 1, 2, 3, 4, 10},
                      income : {0}])
    /\ \A i, j \in DOMAIN Dealt : Dealt[i].deed = Dealt[j].deed => i = j
    /\ Fines \subseteq Nat /\ MaxFlows \in Nat

VARIABLES
    rows,       \* the properties table, in insertion order; it has no key
    pot,        \* games.cumulated_fines
    flow,       \* what each player is doing
    blocked,    \* flags of a page left set: payingNetworkFee, showPayFineSpinner
    paid,       \* HISTORY: what was paid toward each value of the tables
    lost,       \* HISTORY: of that, what the server was never told
    claimed,    \* HISTORY: what was paid out of the pot
    raced,      \* HISTORY: values written from a read that was no longer true
    begun       \* HISTORY: flows begun

tables  == <<rows, pot>>
history == <<paid, lost, claimed, raced, begun>>
vars == <<tables, flow, blocked, history>>

-----------------------------------------------------------------------------
\* The ladder of the mining capacity, and the rank of its rungs.
Levels == {0, 1, 2, 3, 4, 10}
Rank(level) == IF level = 10 THEN 5 ELSE level

\* networkFee of a property: six amounts, growing with the capacity; there is no
\* entry for a capacity of 10, and the invoice that is made is of 0.
Fee(level) == IF level \in 0 .. 5 THEN level + 1 ELSE 0

\* The values that are read and written later.
Things == ({"owner", "level", "income"} \X Deeds) \cup {<<"pot", NoDeed>>}

Kinds == {"buy", "upgrade", "fee", "fine", "claim"}

Thing(f) ==
    CASE f.kind = "buy"     -> <<"owner", f.deed>>
      [] f.kind = "upgrade" -> <<"level", f.deed>>
      [] f.kind = "fee"     -> <<"income", f.deed>>
      [] OTHER              -> <<"pot", NoDeed>>

Row  == [deed : Deeds, owner : Players, level : Levels, income : Nat]
Idle == [kind |-> "none", at |-> "done", deed |-> NoDeed, amount |-> 0,
         to |-> Market, seen |-> 0, stale |-> FALSE]

TypeOK ==
    /\ rows \in Seq(Row)
    /\ pot \in Nat
    /\ flow \in [Players -> [kind : Kinds \cup {"none"},
                             at : {"look", "pay", "save", "write", "done"},
                             deed : Deeds \cup {NoDeed},
                             amount : Nat,      \* what is paid
                             to : Players \cup {Market},
                             seen : Nat,        \* what the server read
                             stale : BOOLEAN]]  \* and another has written since
    /\ blocked \in [Players -> SUBSET {"fee", "fine"}]
    /\ paid \in [Things -> Nat] /\ lost \in [Things -> Nat]
    /\ claimed \in Nat
    /\ raced \subseteq Things
    /\ begun \in 0 .. MaxFlows

\* get_property: the first row.
RowsOf(d) == {i \in DOMAIN rows : rows[i].deed = d}
RowOf(d)  == rows[Min(RowsOf(d))]

\* Between the read of the value a flow is about and its write.
Window(f) ==
    CASE f.kind = "buy"   -> f.at \in {"pay", "save", "write"}
      [] f.kind = "claim" -> f.at \in {"pay", "write"}
      [] OTHER            -> f.at = "write"

-----------------------------------------------------------------------------
Init ==
    /\ rows = Dealt /\ pot = 0
    /\ flow = [p \in Players |-> Idle]
    /\ blocked = [p \in Players |-> {}]
    /\ paid = [x \in Things |-> 0] /\ lost = [x \in Things |-> 0]
    /\ claimed = 0 /\ raced = {} /\ begun = 0

Begin(p, kind, at, d, amount, to) ==
    /\ flow[p] = Idle /\ begun < MaxFlows
    /\ begun' = begun + 1
    /\ flow' = [flow EXCEPT ![p] = [Idle EXCEPT !.kind = kind, !.at = at,
                   !.deed = d, !.amount = amount, !.to = to]]
    /\ UNCHANGED <<tables, blocked, paid, lost, claimed, raced>>

\* purchaseProperty, from a card of the market or the QR code of an owner.
BeginPurchase(p, d) ==
    /\ \A i \in RowsOf(d) : rows[i].owner # p
    /\ Begin(p, "buy", "look", d, 1, Market)

\* upgradeProperty, of a property that is the player's when the dialog opens.
BeginUpgrade(p, d) ==
    /\ RowsOf(d) # {} /\ RowOf(d).owner = p
    /\ Begin(p, "upgrade", "pay", d, 1, Market)

\* getNetworkFeeInvoiceAmount on the owner's page and payNetworkFee on p's: the
\* payee is the owner the page has.  Nothing happens while another is being paid.
BeginFee(p, d) ==
    /\ "fee" \notin blocked[p] /\ RowsOf(d) # {} /\ RowOf(d).owner # p
    /\ Begin(p, "fee", "pay", d, Fee(RowOf(d).level), RowOf(d).owner)

\* payFine and payWrenchAttack; a failure leaves the button disabled as well.
BeginFine(p) ==
    /\ "fine" \notin blocked[p]
    /\ \E amount \in Fines : Begin(p, "fine", "pay", NoDeed, amount, Market)

\* claimCumulatedFines.
BeginClaim(p) == Begin(p, "claim", "save", NoDeed, 0, Market)

\* Mutant of Over: the flag of the flow is left set.
OverFlagged(p, ok) ==
    /\ flow' = [flow EXCEPT ![p].at = "done"]
    /\ blocked' = blocked

\* payNetworkFee, payFine and payWrenchAttack catch nothing: their flag stays.
Blocked(p, ok) ==
    IF ok THEN blocked
    ELSE [blocked EXCEPT ![p] = @ \cup ({flow[p].kind} \cap {"fee", "fine"})]

\* The flow of p is over.
Over(p, ok) ==
    /\ flow' = [flow EXCEPT ![p] = Idle]
    /\ blocked' = Blocked(p, ok)

\* Mutant of Seller: every purchase is paid to the market.
SellerMarket(d) == Market

\* Mutant of Seller: the owner of some property.
SellerFirst(d) == IF RowsOf(d) = {} THEN Market ELSE rows[1].owner

\* Who is paid for d: the owner there is, or else the market.
Seller(d) == IF RowsOf(d) = {} THEN Market ELSE RowOf(d).owner

\* The purchase asks the server who owns the property.
Look(p) ==
    /\ flow[p].at = "look"
    /\ flow' = [flow EXCEPT ![p].at = "pay", ![p].to = Seller(flow[p].deed)]
    /\ UNCHANGED <<tables, blocked, history>>

-----------------------------------------------------------------------------
\* The payment succeeds.  A claim is paid by the server, from the market's wallet.
Pay(p) ==
    LET f == flow[p]
    IN  /\ f.at = "pay"
        /\ f.amount > 0
        /\ IF f.kind = "claim"
           THEN /\ claimed' = claimed + f.amount
                /\ flow' = [flow EXCEPT ![p].at = "write"]
                /\ UNCHANGED paid
           ELSE /\ paid' = [paid EXCEPT ![Thing(f)] = @ + f.amount]
                /\ flow' = [flow EXCEPT ![p].at = "save"]
                /\ UNCHANGED claimed
        /\ UNCHANGED <<tables, blocked, lost, raced, begun>>

\* The look-up or the payment fails, an invoice of 0 among others.
PayFails(p) ==
    /\ flow[p].at \in {"look", "pay"}
    /\ Over(p, FALSE)
    /\ UNCHANGED <<tables, history>>

\* The server refuses the request, or fails before it writes: upgrades are for
\* the owner (upgrade_property_miners), and transfers and fees of what exists.
SaveFails(p) ==
    /\ flow[p].at = "save"
    /\ lost' = IF flow[p].kind = "claim" THEN lost
               ELSE [lost EXCEPT ![Thing(flow[p])] = @ + flow[p].amount]
    /\ Over(p, FALSE)
    /\ UNCHANGED <<tables, paid, claimed, raced, begun>>

\* "Player does not own property".
MayUpgrade(p) == flow[p].kind = "upgrade" => RowOf(flow[p].deed).owner = p

\* The handler reads.
Read(p) ==
    LET f == flow[p]
    IN  /\ f.at = "save" /\ MayUpgrade(p)
        /\ f.kind = "buy" => f.to # Market
        /\ flow' = [flow EXCEPT ![p] =
              CASE f.kind = "claim" -> [f EXCEPT !.at = "pay", !.amount = pot]
                [] f.kind = "fine" -> [f EXCEPT !.at = "write", !.seen = pot]
                [] f.kind = "fee" ->
                     [f EXCEPT !.at = "write", !.seen = RowOf(f.deed).income]
                [] f.kind = "upgrade" ->
                     [f EXCEPT !.at = "write", !.seen = RowOf(f.deed).level]
                [] f.kind = "buy" -> [f EXCEPT !.at = "write"]]
        /\ UNCHANGED <<tables, blocked, history>>

\* p has written: who has read before will write something stale.
Commit(p, ok) ==
    LET f == flow[p]
        x == Thing(f)
    IN  /\ raced' = IF f.stale THEN raced \cup {x} ELSE raced
        /\ flow' = [q \in Players |->
              IF q = p THEN Idle
              ELSE IF Window(flow[q]) /\ Thing(flow[q]) = x
              THEN [flow[q] EXCEPT !.stale = TRUE] ELSE flow[q]]
        /\ blocked' = Blocked(p, ok)
        /\ UNCHANGED <<paid, lost, claimed, begun>>

\* Mutant of Upgraded: another rung for those who are at the top of the ladder.
UpgradedOn(level) == IF level = 4 THEN 10 ELSE level + 1

\* Mutant of Upgraded: the step to 10 comes too early.
UpgradedEarly(level) ==
    CASE level < 3 -> level + 1 [] level \in {3, 4} -> 10 [] OTHER -> level

Upgraded(level) ==
    CASE level < 4 -> level + 1 [] level = 4 -> 10 [] OTHER -> level

\* register_property.
Register(p, ok) ==
    LET f == flow[p]
    IN  /\ f.kind = "buy" /\ f.at = "save" /\ f.to = Market
        /\ rows' = Append(rows, [deed |-> f.deed, owner |-> p, level |-> 0, income |-> 0])
        /\ Commit(p, ok) /\ UNCHANGED pot

\* Mutant of Credited: the income is what was paid last.
CreditedLast(seen, amount) == amount

Credited(seen, amount) == seen + amount

\* transfer_property_ownership, upgrade_property_miners, update_property_income: the
\* UPDATE changes every row of the property.
WriteDeed(p, ok) ==
    LET f == flow[p]
    IN  /\ f.at = "write" /\ f.kind \in {"buy", "upgrade", "fee"}
        /\ rows' = [i \in DOMAIN rows |->
              IF i \notin RowsOf(f.deed) THEN rows[i]
              ELSE CASE f.kind = "buy"     -> [rows[i] EXCEPT !.owner = p]
                     [] f.kind = "upgrade" -> [rows[i] EXCEPT !.level = Upgraded(f.seen)]
                     [] f.kind = "fee"     ->
                          [rows[i] EXCEPT !.income = Credited(f.seen, f.amount)]]
        /\ Commit(p, ok) /\ UNCHANGED pot

\* Mutant of PotAfter: a claim leaves the pot as it was.
PotAfterKept(f) == IF f.kind = "fine" THEN f.seen + f.amount ELSE f.amount

\* What update_cumulated_fines and claim_cumulated_fines write.
PotAfter(f) == IF f.kind = "fine" THEN f.seen + f.amount ELSE 0

WritePot(p, ok) ==
    /\ flow[p].at = "write" /\ flow[p].kind \in {"fine", "claim"}
    /\ pot' = PotAfter(flow[p])
    /\ Commit(p, ok) /\ UNCHANGED rows

\* The page is loaded again, which resets its flags.
Reload(p) ==
    /\ blocked[p] # {} /\ flow[p] = Idle
    /\ blocked' = [blocked EXCEPT ![p] = {}]
    /\ UNCHANGED <<tables, flow, history>>

\* The answer to a request may be an error although it was carried out: the
\* notifications come after the write and may raise.
Serve(p) == \E ok \in BOOLEAN : Register(p, ok) \/ WriteDeed(p, ok) \/ WritePot(p, ok)

Progress(p) ==
    Look(p) \/ Pay(p) \/ PayFails(p) \/ SaveFails(p) \/ Read(p) \/ Serve(p)

Next ==
    \E p \in Players :
        \/ \E d \in Deeds : BeginPurchase(p, d) \/ BeginUpgrade(p, d) \/ BeginFee(p, d)
        \/ BeginFine(p) \/ BeginClaim(p)
        \/ Progress(p)
        \/ Reload(p)

Spec == Init /\ [][Next]_vars

\* Requests and payments end, well or not; players begin what they like.
FairSpec == Spec /\ \A p \in Players : WF_vars(Progress(p))

-----------------------------------------------------------------------------
\* Those who have paid toward x and whose request is still under way.
Untold(x) == {p \in Players : /\ flow[p].at \in {"save", "write"}
                              /\ flow[p].kind # "claim" /\ Thing(flow[p]) = x}

\* What was paid toward x, and of which the server has done its write.
Amounts == [p \in Players |-> flow[p].amount]
Told(x) == paid[x] - (lost[x] + SumFunctionOnSet(Amounts, Untold(x)))

Pot == <<"pot", NoDeed>>
PaidOut == {p \in Players : flow[p].kind = "claim" /\ flow[p].at = "write"}

\* Unless two requests on the pot overlapped, what is in it and what was claimed are
\* the fines that were paid, however many payments and requests failed
\* (update_cumulated_fines, claim_cumulated_fines).
PotExact ==
    Pot \notin raced =>
        pot + claimed = Told(Pot) + SumFunctionOnSet(Amounts, PaidOut)

\* The income of a property is what was paid for it, unless two fees overlapped: its
\* sale, an upgrade or a failure in between do not lose any (update_property_income).
IncomeExact ==
    \A d \in Deeds :
        RowsOf(d) # {} /\ <<"income", d>> \notin raced =>
            RowOf(d).income = Told(<<"income", d>>)

\* A property has the miners that were paid for, up to the top of the ladder; fewer
\* only if two upgrades overlapped, never more (upgrade_property_miners).
FirstRank(d) ==
    LET dealt == {i \in DOMAIN Dealt : Dealt[i].deed = d}
    IN  IF dealt = {} THEN 0 ELSE Rank(Dealt[Min(dealt)].level)

MinersPaid ==
    \A d \in Deeds :
        LET due == Min({5, FirstRank(d) + Told(<<"level", d>>)})
        IN  RowsOf(d) # {} =>
              /\ Rank(RowOf(d).level) <= due
              /\ <<"level", d>> \notin raced => Rank(RowOf(d).level) = due

\* A property is registered once, unless two purchases of it overlapped: the page asks
\* for its owner before it pays (purchaseProperty), the table has no key.
RegisteredOnce ==
    \A d \in Deeds : <<"owner", d>> \notin raced => Cardinality(RowsOf(d)) <= 1

\* Who becomes the owner of a property has paid the owner before, unless another
\* purchase of it came in between (purchaseProperty, transfer_property_ownership).
OwnerIsPaid ==
    [][ \A d \in Deeds :
          RowsOf(d) # {} /\ RowOf(d)'.owner # RowOf(d).owner =>
            LET buyer == flow[RowOf(d)'.owner]
            IN  /\ buyer.kind = "buy" /\ buyer.deed = d
                /\ buyer.to = RowOf(d).owner \/ <<"owner", d>> \in raced' ]_vars

\* Whatever fails, what a player has begun comes to an end and the player can go on,
\* with a purchase or an upgrade at once: their flags are never left set.
FlowEnds == \A p \in Players : flow[p] # Idle ~> flow[p] = Idle
=============================================================================
