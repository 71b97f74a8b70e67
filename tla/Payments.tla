------------------------------ MODULE Payments ------------------------------
(***************************************************************************)
(* The payments table of the LNbits core and everything that writes it:    *)
(* create_invoice, pay_invoice, the status check of the API, the periodic  *)
(* check of pending payments and the two listeners for paid invoices.      *)
(*                                                                         *)
(* `async with db.connect()` holds the database lock and one transaction:  *)
(* such a block is one step.  Between two blocks, and while the Lightning  *)
(* node is being asked, everything else may run, and the process may die.  *)
(*                                                                         *)
(* External: the Lightning node behind WALLET (the variables sent,         *)
(* received, notices and expired, the actions of the last part), modelled  *)
(* as wallets/lndrest.py uses it.  The checking id of a payment is the     *)
(* invoice's hash, or "internal_" and the hash.                            *)
(***************************************************************************)
EXTENDS Integers, FiniteSets, FiniteSetsExt

CONSTANTS
    Wallets,        \* wallets of this LNbits instance
    Own,            \* hashes of the invoices this instance may create
    Remote,         \* hashes of invoices created elsewhere
    Payers,         \* slots for pay_invoice calls in progress
    Checkers,       \* slots for status checks in progress
    None,
    Owner,          \* the wallet an own invoice is created for
    Amount,         \* the amount of an invoice
    Funds,          \* admin top-ups of a wallet
    FeeReserve,     \* fee_reserve() of the amounts in use
    NodeFee,        \* the fee the node reports for a payment it made
    Polled,         \* the payments whose status clients ask for
    Expirable,      \* own invoices that may expire
    Reattempts,     \* whether clients pay an invoice that was paid or tried
    MaxCrashes      \* BOUND: times the process dies

Hashes == Own \cup Remote

ASSUME SetsAssumption ==
    /\ Own \cap Remote = {}
    /\ Polled \subseteq Hashes /\ Expirable \subseteq Own
    /\ Owner \in [Own -> Wallets]
    /\ None \notin Wallets /\ None \notin Hashes
ASSUME AmountsAssumption ==
    /\ Amount \in [Hashes -> Nat \ {0}]
    /\ Funds \in [Wallets -> Nat]
    /\ FeeReserve \in Nat /\ NodeFee \in 0 .. FeeReserve
    /\ MaxCrashes \in Nat
    /\ Reattempts \in BOOLEAN

VARIABLES
    payments,   \* the rows of apipayments
    issued,     \* own invoices created so far
    pay,        \* the pay_invoice calls in progress
    check,      \* the status checks in progress
    queue,      \* internal_invoice_queue
    startup,    \* `incoming` of check_pending_payments: no check since the start
    crashes,
    sent,       \* the node's record of outgoing payments
    received,   \* own invoices paid over Lightning
    notices,    \* paid_invoices_stream
    expired     \* invoices whose expiry has passed

server  == <<payments, issued, pay, check, queue, startup, crashes>>
node    == <<sent, received, notices, expired>>
vars    == <<payments, issued, pay, check, queue, startup, crashes,
             sent, received, notices, expired>>

-----------------------------------------------------------------------------
Payment == [wallet : Wallets, hash : Hashes,
            internal : BOOLEAN,     \* the checking id is "internal_<hash>"
            incoming : BOOLEAN,     \* amount > 0
            fee : {0, NodeFee, FeeReserve},
            pending : BOOLEAN]

PayCall == [pc : {"settle", "send", "sending", "paid", "failed"},
            wallet : Wallets, hash : Hashes]
NoCall == [pc |-> "idle", wallet |-> None, hash |-> None]

Check == [pc : {"query", "settled", "failed", "pending"},
          hash : Hashes, incoming : BOOLEAN]
NoCheck == [pc |-> "idle", hash |-> None, incoming |-> FALSE]

TypeOK ==
    /\ payments \subseteq Payment
    /\ issued \subseteq Own
    /\ pay \in [Payers -> PayCall \cup {NoCall}]
    /\ check \in [Checkers -> Check \cup {NoCheck}]
    /\ queue \subseteq Hashes
    /\ startup \in BOOLEAN
    /\ crashes \in 0 .. MaxCrashes
    /\ sent \in [Hashes -> {"none", "in_flight", "paid", "failed"}]
    /\ received \subseteq Own
    /\ notices \subseteq Own
    /\ expired \subseteq Own

\* The rows a WHERE checking_id = <hash> selects, whatever their wallet.
HasCheckingId(p, h) == ~p.internal /\ p.hash = h

\* UPDATE ... SET pending = false WHERE checking_id = h, of the given rows.
MarkSettled(rows, h) ==
    {IF HasCheckingId(p, h) THEN [p EXCEPT !.pending = FALSE] ELSE p : p \in rows}

\* Mutant of MarkPaid: the fee is added to the reserve instead of replacing it.
MarkPaidAdds(rows, h) ==
    {IF HasCheckingId(p, h)
     THEN [p EXCEPT !.pending = FALSE,
                    !.fee = IF p.incoming THEN 0 ELSE p.fee + NodeFee]
     ELSE p : p \in rows}

\* The same with the fee the node reports.  The fee of an incoming row counts
\* for nothing and stays 0 here.
MarkPaid(rows, h) ==
    {IF HasCheckingId(p, h)
     THEN [p EXCEPT !.pending = FALSE, !.fee = IF p.incoming THEN 0 ELSE NodeFee]
     ELSE p : p \in rows}

\* update_status: the node reports a fee for an outgoing payment only.
Settle(rows, h, incoming) ==
    IF incoming THEN MarkSettled(rows, h) ELSE MarkPaid(rows, h)

\* DELETE ... WHERE checking_id = h: the rows of every wallet.
WithoutPayment(rows, h) == {p \in rows : ~HasCheckingId(p, h)}

\* Mutant of WithoutWalletPayment: by payment hash.
WithoutWalletHash(rows, h, w) == {p \in rows : ~(p.hash = h /\ p.wallet = w)}

\* DELETE ... WHERE checking_id = h AND wallet = w.
WithoutWalletPayment(rows, h, w) ==
    {p \in rows : ~(HasCheckingId(p, h) /\ p.wallet = w)}

\* The view `balances`: incoming payments that are settled, and all outgoing
\* ones with their fees, pending or not.
Contribution(p) ==
    IF p.incoming THEN (IF p.pending THEN 0 ELSE Amount[p.hash])
    ELSE -(Amount[p.hash] + p.fee)

Balance(rows, w) ==
    Funds[w] + SumFunctionOnSet([p \in rows |-> Contribution(p)],
                                {p \in rows : p.wallet = w})

\* get_invoice_status and get_payment_status.
Status(h, incoming) ==
    IF incoming
    THEN (IF h \in received THEN "settled" ELSE "pending")
    ELSE CASE sent[h] = "paid"   -> "settled"
           [] sent[h] = "failed" -> "failed"
           [] OTHER              -> "pending"

\* What check_status does about a pending payment once the node has answered.
Decision(status, h, incoming) ==
    CASE incoming /\ status # "settled" /\ h \in expired -> "delete"
      [] ~incoming /\ status = "failed"                  -> "delete"
      [] status = "settled"                              -> "settle"
      [] OTHER                                           -> "keep"

\* Nobody has paid the invoice or is paying it.
Untried(h) ==
    /\ sent[h] = "none" /\ h \notin received
    /\ \A p \in payments : p.hash = h => p.incoming
    /\ \A c \in Payers : pay[c].hash # h

-----------------------------------------------------------------------------
Init ==
    /\ payments = {}
    /\ issued = {}
    /\ pay = [c \in Payers |-> NoCall]
    /\ check = [k \in Checkers |-> NoCheck]
    /\ queue = {}
    /\ startup = TRUE
    /\ crashes = 0
    /\ sent = [h \in Hashes |-> "none"]
    /\ received = {}
    /\ notices = {}
    /\ expired = {}

\* create_invoice: the node is asked first, but nobody holds the payment
\* request before the row is in the table.
CreateInvoice(h) ==
    /\ h \in Own \ issued
    /\ issued' = issued \cup {h}
    /\ payments' = payments \cup
          {[wallet |-> Owner[h], hash |-> h, internal |-> FALSE,
            incoming |-> TRUE, fee |-> 0, pending |-> TRUE]}
    /\ UNCHANGED <<pay, check, queue, startup, crashes, node>>

\* check_internal: an invoice of this instance that is not settled yet.
CheckInternal(h) == \E p \in payments : p.hash = h /\ p.incoming /\ p.pending

\* The temporary payment of pay_invoice.
NewPayment(w, h) ==
    [wallet |-> w, hash |-> h, internal |-> CheckInternal(h), incoming |-> FALSE,
     fee |-> IF CheckInternal(h) THEN 0 ELSE FeeReserve,
     pending |-> ~CheckInternal(h)]

\* Mutant of CanAfford: the balance is read before the row is inserted.
CanAffordEarly(row) == Balance(payments, row.wallet) >= 0

\* The balance check, with the row inserted; otherwise it is rolled back.
CanAfford(row) == Balance(payments \cup {row}, row.wallet) >= 0

\* pay_invoice, first transaction: check_internal chooses the kind of row and
\* the key (wallet, checking_id) must be free.
PayBegin(c, w, h) ==
    LET row == NewPayment(w, h)
    IN  /\ pay[c].pc = "idle"
        /\ h \in Remote \cup issued
        /\ Reattempts \/ row.internal \/ Untried(h)
        /\ ~\E p \in payments :
              p.wallet = w /\ p.hash = h /\ p.internal = row.internal
        /\ CanAfford(row)
        /\ payments' = payments \cup {row}
        /\ pay' = [pay EXCEPT ![c] =
                      [pc |-> IF row.internal THEN "settle" ELSE "send",
                       wallet |-> w, hash |-> h]]
        /\ UNCHANGED <<issued, check, queue, startup, crashes, node>>

\* Mutant of PaySettle: the invoice is left to the listener.
PaySettleLater(c) ==
    /\ pay[c].pc = "settle"
    /\ queue' = queue \cup {pay[c].hash}
    /\ pay' = [pay EXCEPT ![c] = NoCall]
    /\ UNCHANGED <<payments, issued, check, startup, crashes, node>>

\* Second transaction of an internal payment, then the notification.
PaySettle(c) ==
    /\ pay[c].pc = "settle"
    /\ payments' = MarkSettled(payments, pay[c].hash)
    /\ queue' = queue \cup {pay[c].hash}
    /\ pay' = [pay EXCEPT ![c] = NoCall]
    /\ UNCHANGED <<issued, check, startup, crashes, node>>

\* WALLET.pay_invoice reaches the node, which refuses an invoice that it has
\* already paid or is paying.
PaySend(c) ==
    LET h == pay[c].hash
        new == sent[h] \in {"none", "failed"}
    IN  /\ pay[c].pc = "send"
        /\ sent' = IF new THEN [sent EXCEPT ![h] = "in_flight"] ELSE sent
        /\ pay' = [pay EXCEPT ![c].pc = IF new THEN "sending" ELSE "failed"]
        /\ UNCHANGED <<payments, issued, check, queue, startup, crashes,
                       received, notices, expired>>

\* Mutant of PayUnanswered: no answer is taken for a failure.
PayUnansweredDeletes(c) ==
    /\ pay[c].pc = "sending"
    /\ payments' = WithoutWalletPayment(payments, pay[c].hash, pay[c].wallet)
    /\ pay' = [pay EXCEPT ![c] = NoCall]
    /\ UNCHANGED <<issued, check, queue, startup, crashes, node>>

\* The answer is "pending", has no checking id, or the request raises: the row
\* is left as it is, for check_pending_payments.
PayUnanswered(c) ==
    /\ pay[c].pc = "sending"
    /\ pay' = [pay EXCEPT ![c] = NoCall]
    /\ UNCHANGED <<payments, issued, check, queue, startup, crashes, node>>

\* The last transaction: update_payment_details or delete_wallet_payment.
PayFinish(c) ==
    LET h == pay[c].hash
    IN  /\ \/ /\ pay[c].pc = "paid"
              /\ payments' = MarkPaid(payments, h)
           \/ /\ pay[c].pc = "failed"
              /\ payments' = WithoutWalletPayment(payments, h, pay[c].wallet)
        /\ pay' = [pay EXCEPT ![c] = NoCall]
        /\ UNCHANGED <<issued, check, queue, startup, crashes, node>>

-----------------------------------------------------------------------------
\* check_transaction_status reads a row that is pending.
CheckRead(k, p) ==
    /\ check[k].pc = "idle"
    /\ p.hash \in Polled
    /\ p.pending /\ ~p.internal
    /\ check' = [check EXCEPT ![k] =
                    [pc |-> "query", hash |-> p.hash, incoming |-> p.incoming]]
    /\ UNCHANGED <<payments, issued, pay, queue, startup, crashes, node>>

\* It asks the node.
CheckQuery(k) ==
    /\ check[k].pc = "query"
    /\ check' = [check EXCEPT ![k].pc = Status(check[k].hash, check[k].incoming)]
    /\ UNCHANGED <<payments, issued, pay, queue, startup, crashes, node>>

\* It acts on the answer, on the rows of every wallet with this checking id.
CheckApply(k) ==
    LET h == check[k].hash
        decision == Decision(check[k].pc, h, check[k].incoming)
    IN  /\ check[k].pc \in {"settled", "failed", "pending"}
        /\ payments' = CASE decision = "delete" -> WithoutPayment(payments, h)
                         [] decision = "settle" ->
                                Settle(payments, h, check[k].incoming)
                         [] decision = "keep"   -> payments
        /\ check' = [check EXCEPT ![k] = NoCheck]
        /\ UNCHANGED <<issued, pay, queue, startup, crashes, node>>

\* Mutants of Examined: outgoing payments in the first round only, and settled
\* payments as well.
ExaminedOnce == {p \in payments : p.pending /\ ~p.internal /\ startup}
ExaminedSettled == {p \in payments : ~p.internal /\ (p.incoming => startup)}

\* The rows that a round of check_pending_payments reads.
Examined ==
    {p \in payments : p.pending /\ ~p.internal /\ (p.incoming => startup)}

\* One round, which keeps the database lock: every payment that was read is
\* checked.  The first round also deletes the invoices that have expired, and
\* there is none left that check_status did not delete.
CheckPending ==
    LET decided(d, in) == {p.hash : p \in {q \in Examined : q.incoming = in /\
            Decision(Status(q.hash, in), q.hash, in) = d}}
        deleted == decided("delete", TRUE) \cup decided("delete", FALSE)
        settled == decided("settle", TRUE) \cup decided("settle", FALSE)
        kept == {p \in payments : p.internal \/ p.hash \notin deleted}
    IN  /\ payments' = UNION {
              IF p.hash \in settled
              THEN Settle({p}, p.hash, p.hash \notin decided("settle", FALSE))
              ELSE {p} : p \in kept}
        /\ startup' = FALSE
        /\ UNCHANGED <<issued, pay, check, queue, crashes, node>>

\* invoice_callback_dispatcher, for internal_invoice_listener and for
\* invoice_listener: the incoming row, when it is there, is marked settled.
Notified(h) ==
    payments' = IF \E p \in payments : p.hash = h /\ p.incoming
                THEN MarkSettled(payments, h) ELSE payments

InternalListener(h) ==
    /\ h \in queue
    /\ queue' = queue \ {h}
    /\ Notified(h)
    /\ UNCHANGED <<issued, pay, check, startup, crashes, node>>

InvoiceListener(h) ==
    /\ h \in notices
    /\ notices' = notices \ {h}
    /\ Notified(h)
    /\ UNCHANGED <<issued, pay, check, queue, startup, crashes,
                   sent, received, expired>>

\* Mutant of Crash: incoming payments are not checked at the next start.
CrashKeepsStartup ==
    /\ crashes < MaxCrashes
    /\ crashes' = crashes + 1
    /\ pay' = [c \in Payers |-> NoCall]
    /\ check' = [k \in Checkers |-> NoCheck]
    /\ queue' = {}
    /\ notices' = {}
    /\ UNCHANGED <<payments, issued, startup, sent, received, expired>>

\* The process dies and is started again.
Crash ==
    /\ crashes < MaxCrashes
    /\ crashes' = crashes + 1
    /\ pay' = [c \in Payers |-> NoCall]
    /\ check' = [k \in Checkers |-> NoCheck]
    /\ queue' = {}
    /\ notices' = {}
    /\ startup' = TRUE
    /\ UNCHANGED <<payments, issued, sent, received, expired>>

-----------------------------------------------------------------------------
\* Somebody pays an own invoice over Lightning, in time and only once.
Payable(h) == h \in issued \ (received \cup expired)

NodeReceives(h) ==
    /\ Payable(h)
    /\ received' = received \cup {h}
    /\ notices' = notices \cup {h}
    /\ UNCHANGED <<server, sent, expired>>

\* An outgoing payment ends and the node answers the call that waits for it;
\* one to an own invoice arrives here.
Answered(h, outcome) ==
    [c \in Payers |-> IF pay[c].pc = "sending" /\ pay[c].hash = h
                      THEN [pay[c] EXCEPT !.pc = outcome] ELSE pay[c]]

NodePays(h) ==
    /\ sent[h] = "in_flight"
    /\ h \in Own => Payable(h)
    /\ sent' = [sent EXCEPT ![h] = "paid"]
    /\ received' = received \cup ({h} \cap Own)
    /\ notices' = notices \cup ({h} \cap Own)
    /\ pay' = Answered(h, "paid")
    /\ UNCHANGED <<payments, issued, check, queue, startup, crashes, expired>>

NodeFails(h) ==
    /\ sent[h] = "in_flight"
    /\ sent' = [sent EXCEPT ![h] = "failed"]
    /\ pay' = Answered(h, "failed")
    /\ UNCHANGED <<payments, issued, check, queue, startup, crashes,
                   received, notices, expired>>

Expire(h) ==
    /\ h \in (issued \cap Expirable) \ expired
    /\ expired' = expired \cup {h}
    /\ UNCHANGED <<server, sent, received, notices>>

PayStep(c) == \/ PaySettle(c) \/ PaySend(c) \/ PayUnanswered(c) \/ PayFinish(c)
CheckStep(k) == CheckQuery(k) \/ CheckApply(k)
Listen(h) == InternalListener(h) \/ InvoiceListener(h)
NodeSends(h) == NodePays(h) \/ NodeFails(h)

Next ==
    \/ \E h \in Own : CreateInvoice(h) \/ NodeReceives(h) \/ Listen(h) \/ Expire(h)
    \/ \E h \in Hashes : NodeSends(h)
    \/ \E c \in Payers, w \in Wallets, h \in Hashes : PayBegin(c, w, h)
    \/ \E c \in Payers : PayStep(c)
    \/ \E k \in Checkers, p \in payments : CheckRead(k, p)
    \/ \E k \in Checkers : CheckStep(k)
    \/ CheckPending
    \/ Crash

Spec == Init /\ [][Next]_vars

\* The event loop runs every task that is ready, the listeners and the periodic
\* check are started with the server, and the node ends what it has begun.
FairSpec ==
    /\ Spec
    /\ \A c \in Payers : WF_vars(PayStep(c))
    /\ \A k \in Checkers : WF_vars(CheckStep(k))
    /\ \A h \in Own : WF_vars(Listen(h))
    /\ \A h \in Hashes : WF_vars(NodeSends(h))
    /\ WF_vars(CheckPending)

-----------------------------------------------------------------------------
\* "mark the invoice from the other side as not pending anymore so the other
\* side only has access to his new money when we are sure the payer has enough
\* to deduct from": a wallet is credited with an invoice only when it was paid
\* over Lightning or another wallet of the instance was debited for it.
CreditBacked ==
    \A p \in payments : p.incoming /\ ~p.pending =>
        \/ p.hash \in received
        \/ \E d \in payments : d.internal /\ d.hash = p.hash

\* No wallet spends more than it has, however its payments overlap: the row is
\* inserted and the balance read in one transaction, with the whole fee reserve.
NonNegative == \A w \in Wallets : Balance(payments, w) >= 0

\* A payment the node has made is on somebody's account.
PaidIsDebited ==
    \A h \in Hashes : sent[h] = "paid" =>
        \E p \in payments : HasCheckingId(p, h) /\ ~p.incoming

\* The debit of an internal payment and the credit of the invoice are two
\* transactions: while the process lives and the invoice has not expired, one
\* that has the first has the second, or a handler is about to do it.
InternalDebitSettles ==
    \A d \in payments : d.internal /\ crashes = 0 /\ d.hash \notin expired =>
        \/ \E p \in payments : HasCheckingId(p, d.hash) /\ p.incoming /\ ~p.pending
        \/ \E c \in Payers : pay[c].pc = "settle" /\ pay[c].hash = d.hash

\* "If the payment is still in flight, we hope that some other process will
\* regularly check for the payment": a payment that reached the node does not
\* stay pending for ever, even if its call, or the process, died.
PendingOut(h) ==
    \E p \in payments : HasCheckingId(p, h) /\ ~p.incoming /\ p.pending

SentPaymentsResolve ==
    \A h \in Hashes : sent[h] # "none" /\ PendingOut(h) ~> ~PendingOut(h)

\* An invoice paid over Lightning is credited, even if the notification is lost
\* in a crash.
ReceivedIsCredited ==
    \A h \in Own : h \in received ~>
        \E p \in payments : p.hash = h /\ p.incoming /\ ~p.pending

\* Where clients behave (they do not pay an invoice again and do not poll one
\* that may expire) the table implements the custody of module Custody: a
\* credit is backed when it is given and is never taken back, and an internal
\* debit is final.
Custody == INSTANCE Custody WITH
    credited <- {p.hash : p \in {q \in payments : q.incoming /\ ~q.pending}},
    debited <- {<<p.wallet, p.hash>> : p \in {q \in payments : q.internal}},
    arrived <- received

RefinesCustody == Custody!Spec
=============================================================================
