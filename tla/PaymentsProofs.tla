--------------------------- MODULE PaymentsProofs ---------------------------
(***************************************************************************)
(* Theorems about Payments, for every number of wallets, invoices, calls   *)
(* and crashes: the first two whatever the clients do, the others for      *)
(* clients that behave (Orderly).                                          *)
(***************************************************************************)
EXTENDS Payments, Sums, TLAPS

\* The UPDATEs by checking id change no key, leave the internal rows alone and

\* settle only rows of that checking id.
LEMMA MarkedRows ==
    ASSUME NEW rows \in SUBSET Payment, NEW h
    PROVE  \A t \in {MarkSettled(rows, h), MarkPaid(rows, h)} :
              /\ t \subseteq Payment
              /\ \A p \in rows : p.internal => p \in t
              /\ \A q \in t : \E p \in rows :
                    /\ q.hash = p.hash /\ q.incoming = p.incoming
                    /\ q.pending = p.pending \/ q.hash = h
<1> DEFINE S(p) == IF HasCheckingId(p, h) THEN [p EXCEPT !.pending = FALSE] ELSE p
           P(p) == IF HasCheckingId(p, h)
                   THEN [p EXCEPT !.pending = FALSE,
                                  !.fee = IF p.incoming THEN 0 ELSE NodeFee]
                   ELSE p
<1>1. ASSUME NEW p \in rows
      PROVE  /\ S(p) \in Payment /\ P(p) \in Payment
             /\ p.internal => S(p) = p /\ P(p) = p
             /\ S(p).hash = p.hash /\ S(p).incoming = p.incoming
             /\ P(p).hash = p.hash /\ P(p).incoming = p.incoming
             /\ S(p).pending = p.pending \/ S(p).hash = h
             /\ P(p).pending = p.pending \/ P(p).hash = h
  <2>0. p \in Payment
    OBVIOUS
  <2>1. CASE HasCheckingId(p, h)
    BY <2>0, <2>1 DEF Payment, HasCheckingId
  <2>2. CASE ~HasCheckingId(p, h)
    BY <2>0, <2>2
  <2> QED BY <2>1, <2>2
<1>2. MarkSettled(rows, h) = {S(p) : p \in rows} /\ MarkPaid(rows, h) = {P(p) : p \in rows}
  BY DEF MarkSettled, MarkPaid
<1> HIDE DEF S, P
<1>3. ASSUME NEW t, t = {S(p) : p \in rows}
      PROVE  /\ t \subseteq Payment
             /\ \A p \in rows : p.internal => p \in t
             /\ \A q \in t : \E p \in rows :
                   /\ q.hash = p.hash /\ q.incoming = p.incoming
                   /\ q.pending = p.pending \/ q.hash = h
  <2>1. ASSUME NEW q \in t
        PROVE  /\ q \in Payment
               /\ \E p \in rows : /\ q.hash = p.hash /\ q.incoming = p.incoming
                                  /\ q.pending = p.pending \/ q.hash = h
    <3>1. PICK p \in rows : q = S(p)
      BY <1>3
    <3> QED BY <1>1, <3>1
  <2>2. ASSUME NEW p \in rows, p.internal PROVE p \in t
    BY <1>1, <1>3, <2>2
  <2> QED BY <2>1, <2>2
<1>4. ASSUME NEW t, t = {P(p) : p \in rows}
      PROVE  /\ t \subseteq Payment
             /\ \A p \in rows : p.internal => p \in t
             /\ \A q \in t : \E p \in rows :
                   /\ q.hash = p.hash /\ q.incoming = p.incoming
                   /\ q.pending = p.pending \/ q.hash = h
  <2>1. ASSUME NEW q \in t
        PROVE  /\ q \in Payment
               /\ \E p \in rows : /\ q.hash = p.hash /\ q.incoming = p.incoming
                                  /\ q.pending = p.pending \/ q.hash = h
    <3>1. PICK p \in rows : q = P(p)
      BY <1>4
    <3> QED BY <1>1, <3>1
  <2>2. ASSUME NEW p \in rows, p.internal PROVE p \in t
    BY <1>1, <1>4, <2>2
  <2> QED BY <2>1, <2>2
<1> QED BY <1>2, <1>3, <1>4

LEMMA TypeStep == TypeOK /\ [Next]_vars => TypeOK'
<1> SUFFICES ASSUME TypeOK, [Next]_vars PROVE TypeOK'
  OBVIOUS
<1> USE DEF TypeOK
<1>c. \A c \in Payers : pay[c].pc # "idle" => pay[c] \in PayCall
  BY DEF NoCall
<1>k. \A k \in Checkers : check[k].pc # "idle" => check[k] \in Check
  BY DEF NoCheck
<1>m. ASSUME NEW h
      PROVE  MarkSettled(payments, h) \subseteq Payment
             /\ MarkPaid(payments, h) \subseteq Payment
             /\ \A p \in payments : /\ MarkSettled({p}, h) \subseteq Payment
                                    /\ MarkPaid({p}, h) \subseteq Payment
  <2>1. ASSUME NEW p \in payments
        PROVE  MarkSettled({p}, h) \subseteq Payment /\ MarkPaid({p}, h) \subseteq Payment
    <3>1. {p} \in SUBSET Payment
      OBVIOUS
    <3> QED BY <3>1, MarkedRows
  <2> QED BY <2>1, MarkedRows
<1>0. CASE UNCHANGED vars
  BY <1>0 DEF vars
<1>1. ASSUME NEW h \in Own, CreateInvoice(h) PROVE TypeOK'
  <2> DEFINE row == [wallet |-> Owner[h], hash |-> h, internal |-> FALSE,
                     incoming |-> TRUE, fee |-> 0, pending |-> TRUE]
  <2>1. row \in Payment
    BY SetsAssumption DEF Payment, Hashes
  <2>2. payments' = payments \cup {row}
    BY <1>1 DEF CreateInvoice
  <2> HIDE DEF row
  <2> QED BY <1>1, <2>1, <2>2 DEF CreateInvoice, node
<1>2. ASSUME NEW h \in Own, NodeReceives(h) PROVE TypeOK'
  BY <1>2 DEF NodeReceives, Payable, server
<1>3. ASSUME NEW h \in Own, Listen(h) PROVE TypeOK'
  <2>1. MarkSettled(payments, h) \subseteq Payment
    BY MarkedRows
  <2>2. payments' \subseteq Payment
    BY <1>3, <2>1 DEF Listen, InternalListener, InvoiceListener, Notified
  <2> QED BY <1>3, <2>2 DEF Listen, InternalListener, InvoiceListener, node
<1>4. ASSUME NEW h \in Own, Expire(h) PROVE TypeOK'
  BY <1>4 DEF Expire, server
<1>5. ASSUME NEW h \in Hashes, NodeSends(h) PROVE TypeOK'
  <2>1. ASSUME NEW o \in {"paid", "failed"}
        PROVE  Answered(h, o) \in [Payers -> PayCall \cup {NoCall}]
    <3>1. ASSUME NEW c \in Payers, pay[c].pc = "sending"
          PROVE  [pay[c] EXCEPT !.pc = o] \in PayCall
      BY <1>c, <3>1 DEF PayCall
    <3> QED BY <3>1 DEF Answered
  <2> QED BY <1>5, <2>1 DEF NodeSends, NodePays, NodeFails
<1>6. ASSUME NEW c \in Payers, NEW w \in Wallets, NEW h \in Hashes, PayBegin(c, w, h)
      PROVE  TypeOK'
  <2>1. NewPayment(w, h) \in Payment
    BY DEF NewPayment, Payment, CheckInternal
  <2> DEFINE call == [pc |-> IF NewPayment(w, h).internal THEN "settle" ELSE "send",
                      wallet |-> w, hash |-> h]
  <2>2. call \in PayCall
    BY DEF PayCall
  <2>3. pay' = [pay EXCEPT ![c] = call] /\ payments' = payments \cup {NewPayment(w, h)}
    BY <1>6 DEF PayBegin
  <2> HIDE DEF call
  <2> QED BY <1>6, <2>1, <2>2, <2>3 DEF PayBegin, node
<1>7. ASSUME NEW c \in Payers, PaySettle(c) PROVE TypeOK'
  <2>1. pay[c].hash \in Hashes
    BY <1>7, <1>c DEF PaySettle, PayCall
  <2>2. payments' \subseteq Payment
    BY <1>7, <1>m DEF PaySettle
  <2> QED BY <1>7, <2>1, <2>2 DEF PaySettle, node
<1>8. ASSUME NEW c \in Payers, PaySend(c) PROVE TypeOK'
  <2>1. pay[c] \in PayCall /\ pay[c].hash \in Hashes
    BY <1>8, <1>c DEF PaySend, PayCall
  <2>2. \A o \in {"sending", "failed"} : [pay[c] EXCEPT !.pc = o] \in PayCall
    BY <2>1 DEF PayCall
  <2>3. pay' \in [Payers -> PayCall \cup {NoCall}]
    BY <1>8, <2>2 DEF PaySend
  <2>4. sent' \in [Hashes -> {"none", "in_flight", "paid", "failed"}]
    BY <1>8, <2>1 DEF PaySend
  <2> QED BY <1>8, <2>3, <2>4 DEF PaySend
<1>9. ASSUME NEW c \in Payers, PayUnanswered(c) PROVE TypeOK'
  BY <1>9 DEF PayUnanswered, node
<1>10. ASSUME NEW c \in Payers, PayFinish(c) PROVE TypeOK'
  <2>1. payments' \subseteq Payment
    BY <1>10, <1>m DEF PayFinish, WithoutWalletPayment
  <2> QED BY <1>10, <2>1 DEF PayFinish, node
<1>11. ASSUME NEW k \in Checkers, NEW p \in payments, CheckRead(k, p) PROVE TypeOK'
  <2> DEFINE new == [pc |-> "query", hash |-> p.hash, incoming |-> p.incoming]
  <2>1. new \in Check
    BY DEF Check, Payment
  <2>2. check' = [check EXCEPT ![k] = new]
    BY <1>11 DEF CheckRead
  <2> HIDE DEF new
  <2> QED BY <1>11, <2>1, <2>2 DEF CheckRead, node
<1>12. ASSUME NEW k \in Checkers, CheckQuery(k) PROVE TypeOK'
  <2> DEFINE s == Status(check[k].hash, check[k].incoming)
  <2>1. s \in {"settled", "failed", "pending"}
    BY DEF Status
  <2>2. check[k] \in Check /\ check' = [check EXCEPT ![k].pc = s]
    BY <1>12, <1>k DEF CheckQuery
  <2> HIDE DEF s
  <2>3. [check[k] EXCEPT !.pc = s] \in Check
    BY <2>1, <2>2 DEF Check
  <2>4. check' \in [Checkers -> Check \cup {NoCheck}]
    BY <2>2, <2>3
  <2> QED BY <1>12, <2>4 DEF CheckQuery, node
<1>13. ASSUME NEW k \in Checkers, CheckApply(k) PROVE TypeOK'
  <2> DEFINE h == check[k].hash
             decision == Decision(check[k].pc, h, check[k].incoming)
  <2>1. decision \in {"delete", "settle", "keep"}
    BY DEF Decision
  <2>2. WithoutPayment(payments, h) \subseteq Payment
    BY DEF WithoutPayment
  <2>3. Settle(payments, h, check[k].incoming) \subseteq Payment
    BY MarkedRows DEF Settle
  <2>4. payments' = CASE decision = "delete" -> WithoutPayment(payments, h)
                      [] decision = "settle" -> Settle(payments, h, check[k].incoming)
                      [] decision = "keep"   -> payments
    BY <1>13 DEF CheckApply
  <2> HIDE DEF decision, h
  <2>5. payments' \subseteq Payment
    BY <2>1, <2>2, <2>3, <2>4
  <2> QED BY <1>13, <2>5 DEF CheckApply, node
<1>14. ASSUME CheckPending PROVE TypeOK'
  <2>1. \A p \in payments, in \in BOOLEAN : Settle({p}, p.hash, in) \subseteq Payment
    BY <1>m DEF Settle
  <2>2. payments' \subseteq Payment
    BY <1>14, <2>1 DEF CheckPending
  <2> QED BY <1>14, <2>2 DEF CheckPending, node
<1>15. ASSUME Crash PROVE TypeOK'
  BY <1>15, AmountsAssumption DEF Crash
<1> QED BY <1>0, <1>1, <1>2, <1>3, <1>4, <1>5, <1>6, <1>7, <1>8, <1>9, <1>10,
           <1>11, <1>12, <1>13, <1>14, <1>15
        DEF Next, PayStep, CheckStep

\* The rows, the calls in progress and the queues stay well formed.
THEOREM TypeCorrect == Spec => []TypeOK
<1>1. Init => TypeOK
  BY AmountsAssumption DEF Init, TypeOK, Hashes
<1> QED BY <1>1, TypeStep, PTL DEF Spec

-----------------------------------------------------------------------------
\* An own invoice is paid for: over Lightning, or from a wallet of the instance.
Backed(h) == \/ h \in received
             \/ \E d \in payments : d.internal /\ d.hash = h

\* The inductive invariant.  Whoever is about to mark an own invoice settled
\* knows that it is backed: the handler that has inserted a debit, the
\* listeners, and whoever has had an answer of the node.  None of them looks
\* again, so it must stay backed while they wait: no statement deletes a row
\* whose checking id is internal.
BackedInv ==
    /\ CreditBacked
    /\ \A p \in payments : p.incoming => p.hash \in Own
    /\ \A c \in Payers : pay[c].pc = "settle" => Backed(pay[c].hash)
    /\ \A c \in Payers : pay[c].pc = "paid" /\ pay[c].hash \in Own
                            => pay[c].hash \in received
    /\ \A k \in Checkers : check[k].pc = "settled" /\ check[k].hash \in Own
                            => check[k].hash \in received
    /\ \A h \in queue : Backed(h)
    /\ notices \subseteq received
    /\ \A h \in Own : sent[h] = "paid" => h \in received

\* What every handler does to the table: the internal rows stay, and the
\* incoming rows that become settled have a hash in S.
Keeps(rows, t, S) ==
    /\ \A p \in rows : p.internal => p \in t
    /\ \A q \in t : q.incoming =>
          /\ q.hash \in Own
          /\ \/ q.pending
             \/ q.hash \in S
             \/ \E p \in rows : p.hash = q.hash /\ p.incoming /\ ~p.pending

LEMMA KeptBacked ==
    ASSUME BackedInv, received \subseteq received', NEW S,
           Keeps(payments, payments', S), \A h \in S \cap Own : Backed(h)
    PROVE  /\ CreditBacked'
           /\ \A p \in payments' : p.incoming => p.hash \in Own
           /\ \A h : Backed(h) => Backed(h)'
<1>1. \A h : Backed(h) => Backed(h)'
  BY DEF Keeps, Backed
<1>2. ASSUME NEW q \in payments', q.incoming, ~q.pending PROVE Backed(q.hash)'
  <2>1. CASE q.hash \in S
    BY <1>1, <1>2, <2>1 DEF Keeps
  <2>2. CASE \E p \in payments : p.hash = q.hash /\ p.incoming /\ ~p.pending
    BY <1>1, <2>2 DEF BackedInv, CreditBacked, Backed
  <2> QED BY <1>2, <2>1, <2>2 DEF Keeps
<1> QED BY <1>1, <1>2 DEF Keeps, CreditBacked, Backed

\* The statements that settle or delete rows.
LEMMA MarkedKeeps ==
    ASSUME TypeOK, BackedInv, NEW h
    PROVE  \A t \in {MarkSettled(payments, h), MarkPaid(payments, h)} :
              Keeps(payments, t, {h})
<1> SUFFICES ASSUME NEW t \in {MarkSettled(payments, h), MarkPaid(payments, h)}
             PROVE  Keeps(payments, t, {h})
  OBVIOUS
<1>1. /\ \A p \in payments : p.internal => p \in t
      /\ \A q \in t : \E p \in payments :
            /\ q.hash = p.hash /\ q.incoming = p.incoming
            /\ q.pending = p.pending \/ q.hash = h
  BY MarkedRows DEF TypeOK
<1>2. \A p \in payments : p.incoming => p.hash \in Own
  BY DEF BackedInv
<1> QED BY <1>1, <1>2 DEF Keeps

LEMMA SameKeeps ==
    ASSUME BackedInv, NEW t, t \subseteq payments,
           \A p \in payments : p.internal => p \in t
    PROVE  Keeps(payments, t, {})
  BY DEF Keeps, BackedInv

\* A round of check_pending_payments settles what the node says is settled.
LEMMA RoundKeeps ==
    ASSUME TypeOK, BackedInv, CheckPending
    PROVE  \E S : Keeps(payments, payments', S) /\ \A h \in S \cap Own : Backed(h)
<1> DEFINE decided(d, in) == {p.hash : p \in {q \in Examined : q.incoming = in /\
              Decision(Status(q.hash, in), q.hash, in) = d}}
           S == decided("settle", TRUE) \cup decided("settle", FALSE)
           deleted == decided("delete", TRUE) \cup decided("delete", FALSE)
           kept == {p \in payments : p.internal \/ p.hash \notin deleted}
           to(p) == IF p.hash \in S
                    THEN Settle({p}, p.hash, p.hash \notin decided("settle", FALSE))
                    ELSE {p}
<1>1. payments' = UNION {to(p) : p \in kept}
  BY DEF CheckPending
<1>2. ASSUME NEW h \in S, h \in Own PROVE h \in received
  <2>1. PICK q \in Examined, in \in BOOLEAN :
          /\ h = q.hash /\ q.incoming = in
          /\ Decision(Status(q.hash, in), q.hash, in) = "settle"
    BY <1>2
  <2>2. Status(h, q.incoming) = "settled"
    BY <2>1 DEF Decision
  <2>3. CASE q.incoming
    BY <2>2, <2>3 DEF Status
  <2>4. CASE ~q.incoming
    BY <1>2, <2>2, <2>4 DEF Status, BackedInv
  <2> QED BY <2>3, <2>4
<1>3. ASSUME NEW p \in payments
      PROVE  /\ p.internal => p \in to(p)
             /\ \A q \in to(p) : /\ q.hash = p.hash /\ q.incoming = p.incoming
                                 /\ q.pending = p.pending \/ q.hash \in S
  <2>1. CASE p.hash \in S
    <3>1. {p} \in SUBSET Payment
      BY DEF TypeOK
    <3>2. \A t \in {MarkSettled({p}, p.hash), MarkPaid({p}, p.hash)} :
             /\ p.internal => p \in t
             /\ \A q \in t : q.hash = p.hash /\ q.incoming = p.incoming
      BY <3>1, MarkedRows
    <3>3. to(p) \in {MarkSettled({p}, p.hash), MarkPaid({p}, p.hash)}
      BY <2>1 DEF Settle
    <3> QED BY <2>1, <3>2, <3>3
  <2>2. CASE p.hash \notin S
    BY <2>2
  <2> QED BY <2>1, <2>2
<1> HIDE DEF S, to
<1>4. \A p \in payments : p.internal => p \in payments'
  BY <1>1, <1>3
<1>5. ASSUME NEW q \in payments', q.incoming
      PROVE  /\ q.hash \in Own
             /\ \/ q.pending
                \/ q.hash \in S
                \/ \E p \in payments : p.hash = q.hash /\ p.incoming /\ ~p.pending
  <2>1. PICK p \in payments : q \in to(p)
    BY <1>1
  <2> QED BY <1>3, <1>5, <2>1 DEF BackedInv
<1>6. Keeps(payments, payments', S)
  BY <1>4, <1>5 DEF Keeps
<1> QED BY <1>2, <1>6 DEF Backed

-----------------------------------------------------------------------------
LEMMA BackedStep == TypeOK /\ BackedInv /\ [Next]_vars => BackedInv'
<1> SUFFICES ASSUME TypeOK, BackedInv, [Next]_vars PROVE BackedInv'
  OBVIOUS
<1>t. /\ pay \in [Payers -> PayCall \cup {NoCall}]
      /\ check \in [Checkers -> Check \cup {NoCheck}]
      /\ sent \in [Hashes -> {"none", "in_flight", "paid", "failed"}]
  BY DEF TypeOK
<1>n. NoCall.pc = "idle" /\ NoCheck.pc = "idle"
  BY DEF NoCall, NoCheck
\* The table is unchanged, and nothing was forgotten of what was received.
<1>s. ASSUME payments' = payments, received \subseteq received'
      PROVE  /\ CreditBacked'
             /\ \A p \in payments' : p.incoming => p.hash \in Own
             /\ \A h : Backed(h) => Backed(h)'
  BY <1>s DEF BackedInv, CreditBacked, Backed
\* Only the table changes among what the invariant is about.
<1>e. ASSUME NEW S, Keeps(payments, payments', S), \A h \in S \cap Own : Backed(h),
             received' = received, sent' = sent, notices' \subseteq notices,
             \A c \in Payers : pay'[c] = pay[c] \/ pay'[c].pc = "idle",
             \A k \in Checkers : check'[k] = check[k] \/ check'[k].pc = "idle",
             \A h \in queue' : h \in queue \/ Backed(h)
      PROVE  BackedInv'
  <2>1. /\ CreditBacked'
        /\ \A p \in payments' : p.incoming => p.hash \in Own
        /\ \A h : Backed(h) => Backed(h)'
    BY <1>e, KeptBacked
  <2> QED BY <1>e, <2>1 DEF BackedInv
<1>0. CASE UNCHANGED vars
  BY <1>0, <1>s DEF vars, BackedInv
<1>1. ASSUME NEW h \in Own, CreateInvoice(h) PROVE BackedInv'
  <2>1. Keeps(payments, payments', {})
    BY <1>1 DEF CreateInvoice, Keeps, BackedInv
  <2> QED BY <1>1, <1>e, <2>1 DEF CreateInvoice, node
<1>2. ASSUME NEW h \in Own, NodeReceives(h) PROVE BackedInv'
  BY <1>2, <1>s DEF NodeReceives, BackedInv, server
<1>3. ASSUME NEW h \in Own, Listen(h) PROVE BackedInv'
  <2>1. Backed(h)
    BY <1>3 DEF Listen, InternalListener, InvoiceListener, BackedInv, Backed
  <2>2. Keeps(payments, payments', {h})
    <3>1. CASE payments' = MarkSettled(payments, h)
      BY <3>1, MarkedKeeps
    <3>2. CASE payments' = payments
      BY <3>2 DEF Keeps, BackedInv
    <3> QED BY <1>3, <3>1, <3>2 DEF Listen, InternalListener, InvoiceListener, Notified
  <2> QED BY <1>3, <1>e, <2>1, <2>2
          DEF Listen, InternalListener, InvoiceListener, node
<1>4. ASSUME NEW h \in Own, Expire(h) PROVE BackedInv'
  BY <1>4, <1>s DEF Expire, BackedInv, server
<1>5. ASSUME NEW h \in Hashes, NodeSends(h) PROVE BackedInv'
  <2>1. /\ payments' = payments /\ received \subseteq received'
        /\ check' = check /\ queue' = queue /\ notices' \subseteq received'
        /\ \A g \in Own : sent'[g] = "paid" => g \in received'
    BY <1>5, <1>t DEF NodeSends, NodePays, NodeFails, BackedInv, Hashes
  <2>2. ASSUME NEW c \in Payers
        PROVE  /\ pay'[c].pc = "settle" => pay'[c] = pay[c]
               /\ pay'[c].pc = "paid" /\ pay'[c].hash \in Own
                     => pay'[c].hash \in received'
    <3>1. PICK o \in {"paid", "failed"} :
            pay' = Answered(h, o) /\ (o = "paid" => received' = received \cup ({h} \cap Own))
      BY <1>5 DEF NodeSends, NodePays, NodeFails
    <3>2. CASE pay[c].pc = "sending" /\ pay[c].hash = h
      <4>1. pay[c] \in PayCall
        BY <1>t, <1>n, <3>2
      <4>2. pay'[c] = [pay[c] EXCEPT !.pc = o]
        BY <3>1, <3>2 DEF Answered
      <4>3. pay'[c].pc = o /\ pay'[c].hash = h
        BY <3>2, <4>1, <4>2 DEF PayCall
      <4> QED BY <3>1, <4>3
    <3>3. CASE ~(pay[c].pc = "sending" /\ pay[c].hash = h)
      <4>1. pay'[c] = pay[c]
        BY <3>1, <3>3 DEF Answered
      <4> QED BY <2>1, <4>1 DEF BackedInv
    <3> QED BY <3>2, <3>3
  <2> QED BY <1>s, <2>1, <2>2 DEF BackedInv
<1>6. ASSUME NEW c \in Payers, NEW w \in Wallets, NEW h \in Hashes, PayBegin(c, w, h)
      PROVE  BackedInv'
  <2> DEFINE row == NewPayment(w, h)
             call == [pc |-> IF row.internal THEN "settle" ELSE "send",
                      wallet |-> w, hash |-> h]
  <2>1. /\ ~row.incoming /\ row.hash = h
    BY DEF NewPayment
  <2>2. /\ payments' = payments \cup {row} /\ pay' = [pay EXCEPT ![c] = call]
        /\ received' = received
        /\ UNCHANGED <<check, queue, notices, sent>>
    BY <1>6 DEF PayBegin, node
  <2>3. call.hash = h /\ call.pc # "paid" /\ (call.pc = "settle" => row.internal)
    OBVIOUS
  <2> HIDE DEF row, call
  <2>4. Keeps(payments, payments', {})
    BY <2>1, <2>2 DEF Keeps, BackedInv
  <2>5. /\ CreditBacked'
        /\ \A p \in payments' : p.incoming => p.hash \in Own
        /\ \A g : Backed(g) => Backed(g)'
    BY <2>2, <2>4, KeptBacked
  <2>6. row.internal => Backed(h)'
    BY <2>1, <2>2 DEF Backed
  <2>7. /\ \A d \in Payers \ {c} : pay'[d] = pay[d]
        /\ pay'[c] = call
    BY <1>t, <2>2
  <2>8. (\A d \in Payers : pay[d].pc = "settle" => Backed(pay[d].hash))'
    BY <2>3, <2>5, <2>6, <2>7 DEF BackedInv, Backed
  <2>9. \A d \in Payers : pay'[d].pc = "paid" /\ pay'[d].hash \in Own
                              => pay'[d].hash \in received'
    BY <2>2, <2>3, <2>7 DEF BackedInv
  <2> QED BY <2>2, <2>5, <2>8, <2>9 DEF BackedInv
<1>7. ASSUME NEW c \in Payers, PaySettle(c) PROVE BackedInv'
  <2>1. Backed(pay[c].hash)
    BY <1>7 DEF PaySettle, BackedInv
  <2>2. Keeps(payments, payments', {pay[c].hash})
    BY <1>7, MarkedKeeps DEF PaySettle
  <2>3. \A d \in Payers : pay'[d] = pay[d] \/ pay'[d].pc = "idle"
    BY <1>7, <1>t, <1>n DEF PaySettle
  <2> QED BY <1>7, <1>e, <2>1, <2>2, <2>3 DEF PaySettle, node
<1>8. ASSUME NEW c \in Payers, PaySend(c) PROVE BackedInv'
  <2>1. /\ payments' = payments /\ received' = received
        /\ UNCHANGED <<check, queue, notices>>
        /\ \A h \in Own : sent'[h] = "paid" => sent[h] = "paid"
    BY <1>8, <1>t DEF PaySend, Hashes
  <2>2. pay[c] \in PayCall
    BY <1>8, <1>t, <1>n DEF PaySend
  <2>3. PICK o \in {"sending", "failed"} : pay' = [pay EXCEPT ![c].pc = o]
    BY <1>8 DEF PaySend
  <2>4. \A d \in Payers : pay'[d] = pay[d] \/ pay'[d].pc \in {"sending", "failed"}
    BY <1>t, <2>2, <2>3 DEF PayCall
  <2> QED BY <1>s, <2>1, <2>4 DEF BackedInv
<1>9. ASSUME NEW c \in Payers, PayUnanswered(c) PROVE BackedInv'
  <2>1. \A d \in Payers : pay'[d] = pay[d] \/ pay'[d].pc = "idle"
    BY <1>9, <1>t, <1>n DEF PayUnanswered
  <2>2. Keeps(payments, payments', {})
    BY <1>9 DEF PayUnanswered, Keeps, BackedInv
  <2> QED BY <1>9, <1>e, <2>1, <2>2 DEF PayUnanswered, node
<1>10. ASSUME NEW c \in Payers, PayFinish(c) PROVE BackedInv'
  <2>1. \A d \in Payers : pay'[d] = pay[d] \/ pay'[d].pc = "idle"
    BY <1>10, <1>t, <1>n DEF PayFinish
  <2>2. CASE pay[c].pc = "paid"
    <3>1. Keeps(payments, payments', {pay[c].hash})
      BY <1>10, <2>2, MarkedKeeps DEF PayFinish
    <3>2. pay[c].hash \in Own => Backed(pay[c].hash)
      BY <2>2 DEF BackedInv, Backed
    <3> QED BY <1>10, <1>e, <2>1, <3>1, <3>2 DEF PayFinish, node
  <2>3. CASE pay[c].pc = "failed"
    <3>1. /\ payments' \subseteq payments
          /\ \A p \in payments : p.internal => p \in payments'
      BY <1>10, <2>3 DEF PayFinish, WithoutWalletPayment, HasCheckingId
    <3>2. Keeps(payments, payments', {})
      BY <3>1, SameKeeps
    <3> QED BY <1>10, <1>e, <2>1, <3>2 DEF PayFinish, node
  <2> QED BY <1>10, <2>2, <2>3 DEF PayFinish
<1>11. ASSUME NEW k \in Checkers, NEW p \in payments, CheckRead(k, p)
       PROVE  BackedInv'
  <2> DEFINE new == [pc |-> "query", hash |-> p.hash, incoming |-> p.incoming]
  <2>1. new.pc # "settled" /\ check' = [check EXCEPT ![k] = new]
    BY <1>11 DEF CheckRead
  <2> HIDE DEF new
  <2>2. \A j \in Checkers : check'[j] = check[j] \/ check'[j].pc # "settled"
    BY <1>t, <2>1
  <2> QED BY <1>11, <1>s, <2>2 DEF CheckRead, BackedInv, node
<1>12. ASSUME NEW k \in Checkers, CheckQuery(k) PROVE BackedInv'
  <2> DEFINE s == Status(check[k].hash, check[k].incoming)
  <2>1. check[k] \in Check /\ check' = [check EXCEPT ![k].pc = s]
    BY <1>12, <1>t, <1>n DEF CheckQuery
  <2>2. s = "settled" /\ check[k].hash \in Own => check[k].hash \in received
    BY DEF Status, BackedInv
  <2> HIDE DEF s
  <2>3. /\ \A j \in Checkers \ {k} : check'[j] = check[j]
        /\ check'[k].pc = s /\ check'[k].hash = check[k].hash
    BY <1>t, <2>1 DEF Check
  <2> QED BY <1>12, <1>s, <2>2, <2>3 DEF CheckQuery, BackedInv, node
<1>13. ASSUME NEW k \in Checkers, CheckApply(k) PROVE BackedInv'
  <2> DEFINE h == check[k].hash
             decision == Decision(check[k].pc, h, check[k].incoming)
  <2>1. \A j \in Checkers : check'[j] = check[j] \/ check'[j].pc = "idle"
    BY <1>13, <1>t, <1>n DEF CheckApply
  <2>2. /\ decision \in {"delete", "settle", "keep"}
        /\ decision = "settle" => check[k].pc = "settled"
    BY DEF Decision
  <2>3. payments' = CASE decision = "delete" -> WithoutPayment(payments, h)
                      [] decision = "settle" -> Settle(payments, h, check[k].incoming)
                      [] decision = "keep"   -> payments
    BY <1>13 DEF CheckApply
  <2> HIDE DEF decision
  <2>4. CASE decision = "settle"
    <3>1. Keeps(payments, payments', {h})
      BY <2>3, <2>4, MarkedKeeps DEF Settle
    <3>2. h \in Own => Backed(h)
      BY <2>2, <2>4 DEF BackedInv, Backed
    <3> QED BY <1>13, <1>e, <2>1, <3>1, <3>2 DEF CheckApply, node
  <2>5. CASE decision # "settle"
    <3>1. payments' = payments \/ payments' = WithoutPayment(payments, h)
      BY <2>2, <2>3, <2>5
    <3>2. /\ payments' \subseteq payments
          /\ \A p \in payments : p.internal => p \in payments'
      BY <3>1 DEF WithoutPayment, HasCheckingId
    <3>3. Keeps(payments, payments', {})
      BY <3>2, SameKeeps
    <3> QED BY <1>13, <1>e, <2>1, <3>3 DEF CheckApply, node
  <2> QED BY <2>4, <2>5
<1>14. ASSUME CheckPending PROVE BackedInv'
  BY <1>14, <1>e, RoundKeeps DEF CheckPending, node
<1>15. ASSUME Crash PROVE BackedInv'
  BY <1>15, <1>s, <1>n DEF Crash, BackedInv
<1> QED BY <1>0, <1>1, <1>2, <1>3, <1>4, <1>5, <1>6, <1>7, <1>8, <1>9, <1>10,
           <1>11, <1>12, <1>13, <1>14, <1>15
        DEF Next, PayStep, CheckStep

\* Whatever the clients, the node and the crashes do, a wallet is credited with
\* an invoice only when it was paid over Lightning or a wallet of the instance
\* was debited for it, and the debit stays.
THEOREM CreditsAreBacked == Spec => []CreditBacked
<1>1. Init => BackedInv
  BY DEF Init, BackedInv, CreditBacked, NoCall, NoCheck, Hashes
<1>2. BackedInv => CreditBacked
  BY DEF BackedInv
<1> QED BY <1>1, <1>2, BackedStep, TypeCorrect, PTL DEF Spec

-----------------------------------------------------------------------------
\* Clients that behave: none pays an invoice that somebody has paid or tried to pay over
\* Lightning, and none asks for the status of an invoice that may expire.
Orderly == ~Reattempts /\ Polled \cap Expirable = {}

\* A payment over the node; an invoice has been used by one; a call that makes one.
Outside(p) == ~p.internal /\ ~p.incoming
Debited(h) == \E p \in payments : Outside(p) /\ p.hash = h
Trying(c)  == pay[c].pc \in {"send", "sending", "paid", "failed"}

\* There is no invoice of this instance for h, and none will be created.
Alone(h) == h \in Remote \cup issued /\ \A p \in payments : p.hash = h => ~p.incoming

\* The table: its key, whose the invoices are, that no invoice is paid outside as long as
\* it is in the table, and that the invoice of an internal payment is there until it expires.
TableInv ==
    /\ IsFiniteSet(payments)
    /\ \A p, q \in payments :
          p.wallet = q.wallet /\ p.hash = q.hash /\ p.internal = q.internal => p = q
    /\ \A p \in payments :
          /\ p.hash \in Remote \cup issued
          /\ p.incoming => ~p.internal /\ p.wallet = Owner[p.hash]
          /\ p.internal => p.hash \in Own
          /\ Outside(p) => p.fee \in {NodeFee, FeeReserve} /\ Alone(p.hash)
          /\ p.internal /\ p.hash \notin expired =>
                \E q \in payments : q.incoming /\ q.hash = p.hash
    /\ expired \subseteq Expirable

\* How far the node is with an invoice, as the call that tries it knows.
Known(pc) == IF pc = "send" THEN "none" ELSE IF pc = "sending" THEN "in_flight" ELSE pc

\* The calls and the checks: only one call tries an invoice, it agrees with the node about
\* how far it is, and who knows that a payment failed knows it for good.
CallsInv ==
    /\ \A c \in Payers : Trying(c) =>
          /\ Alone(pay[c].hash)
          /\ sent[pay[c].hash] = Known(pay[c].pc)
          /\ pay[c].pc # "failed" => Debited(pay[c].hash)
          /\ \A d \in Payers : Trying(d) /\ pay[c].hash = pay[d].hash => c = d
    /\ \A k \in Checkers : check[k].pc # "idle" =>
          /\ check[k].hash \in Polled
          /\ ~check[k].incoming => Alone(check[k].hash)
          /\ check[k].pc = "failed" => ~check[k].incoming /\ sent[check[k].hash] = "failed"
    /\ \A h \in Hashes : sent[h] \in {"in_flight", "paid"} => Debited(h)

OrderlyInv == TableInv /\ CallsInv

-----------------------------------------------------------------------------
\* What an UPDATE may make of a row.
Touched(p) ==
    {p, [p EXCEPT !.pending = FALSE],
     [p EXCEPT !.pending = FALSE, !.fee = IF p.incoming THEN 0 ELSE NodeFee]}

\* q is what has become of the row p: it is worth as much or more, and not pending again.
Grown(p, q) ==
    /\ q \in Payment /\ q.wallet = p.wallet /\ q.hash = p.hash
    /\ q.internal = p.internal /\ q.incoming = p.incoming
    /\ q.pending => p.pending
    /\ p.internal => q = p
    /\ Outside(p) => q.fee \in {p.fee, NodeFee}

\* The rows a DELETE may remove: a payment that failed, and an invoice that has expired.
Gone(p) ==
    \/ Outside(p) /\ sent[p.hash] = "failed"
    \/ p.incoming /\ p.pending /\ p.hash \in expired

\* t is the table after some UPDATEs and DELETEs; m says what became of the rows in K.
Becomes(t, m, K) ==
    /\ K \subseteq payments /\ t = {m[p] : p \in K}
    /\ \A p \in K : Grown(p, m[p])
    /\ \A p \in payments : p \notin K => Gone(p)

\* An UPDATE by checking id makes a row grow.
LEMMA TouchedGrows ==
    ASSUME NEW p \in Payment, NEW q \in Touched(p), p.internal => q = p
    PROVE  Grown(p, q)
<1>1. /\ q \in Payment /\ q.wallet = p.wallet /\ q.hash = p.hash
      /\ q.internal = p.internal /\ q.incoming = p.incoming
      /\ q.pending => p.pending
      /\ q.fee = p.fee \/ q.fee = IF p.incoming THEN 0 ELSE NodeFee
  <2>1. CASE q = p
    BY <2>1
  <2>2. CASE q = [p EXCEPT !.pending = FALSE]
    BY <2>2 DEF Payment
  <2>3. CASE q = [p EXCEPT !.pending = FALSE, !.fee = IF p.incoming THEN 0 ELSE NodeFee]
    BY <2>3 DEF Payment
  <2> QED BY <2>1, <2>2, <2>3 DEF Touched
<1> QED BY <1>1 DEF Grown, Outside

\* Rows that stay or are touched, and rows that may go.
LEMMA Updated ==
    ASSUME TypeOK, NEW K \in SUBSET payments, NEW m,
           \A p \in K : m[p] \in Touched(p) /\ (p.internal => m[p] = p),
           \A p \in payments : p \notin K => Gone(p)
    PROVE  Becomes({m[p] : p \in K}, m, K)
<1>1. \A p \in K : p \in Payment
  BY DEF TypeOK
<1>2. \A p \in K : Grown(p, m[p])
  BY <1>1, TouchedGrows
<1> QED BY <1>2 DEF Becomes

\* The UPDATEs by checking id.
LEMMA SettleBecomes ==
    ASSUME TypeOK, NEW h
    PROVE  \A t \in {payments, MarkSettled(payments, h), MarkPaid(payments, h)} :
              \E m : Becomes(t, m, payments)
<1> DEFINE i == [p \in payments |-> p]
           s == [p \in payments |-> IF HasCheckingId(p, h) THEN [p EXCEPT !.pending = FALSE] ELSE p]
           d == [p \in payments |->
                   IF HasCheckingId(p, h)
                   THEN [p EXCEPT !.pending = FALSE, !.fee = IF p.incoming THEN 0 ELSE NodeFee]
                   ELSE p]
<1>1. /\ payments = {i[p] : p \in payments}
      /\ MarkSettled(payments, h) = {s[p] : p \in payments}
      /\ MarkPaid(payments, h) = {d[p] : p \in payments}
  BY DEF MarkSettled, MarkPaid
<1>2. \A p \in payments : /\ i[p] \in Touched(p) /\ s[p] \in Touched(p) /\ d[p] \in Touched(p)
                          /\ p.internal => i[p] = p /\ s[p] = p /\ d[p] = p
  BY DEF Touched, HasCheckingId
<1> HIDE DEF i, s, d
<1>3. /\ Becomes({i[p] : p \in payments}, i, payments)
      /\ Becomes({s[p] : p \in payments}, s, payments)
      /\ Becomes({d[p] : p \in payments}, d, payments)
  BY <1>2, Updated
<1> QED BY <1>1, <1>3

\* The DELETEs, of rows that may go.
LEMMA DeleteBecomes ==
    ASSUME TypeOK, NEW K \in SUBSET payments, \A p \in payments : p \notin K => Gone(p)
    PROVE  \E m : Becomes(K, m, K)
<1> DEFINE m == [p \in K |-> p]
<1>1. K = {m[p] : p \in K} /\ \A p \in K : m[p] \in Touched(p) /\ m[p] = p
  BY DEF Touched
<1> HIDE DEF m
<1>2. Becomes({m[p] : p \in K}, m, K)
  BY <1>1, Updated
<1> QED BY <1>1, <1>2

\* A round of check_pending_payments deletes the payments that failed and the invoices that
\* have expired, which nobody has paid.
LEMMA RoundBecomes ==
    ASSUME TypeOK, TableInv, CheckPending
    PROVE  \E m, K : Becomes(payments', m, K)
<1> DEFINE decided(d, in) == {p.hash : p \in {q \in Examined : q.incoming = in /\
              Decision(Status(q.hash, in), q.hash, in) = d}}
           settled == decided("settle", TRUE) \cup decided("settle", FALSE)
           deleted == decided("delete", TRUE) \cup decided("delete", FALSE)
           kept == {p \in payments : p.internal \/ p.hash \notin deleted}
           over(p) == p.hash \notin decided("settle", FALSE)
           to(p) == IF p.hash \in settled THEN Settle({p}, p.hash, over(p)) ELSE {p}
           m == [p \in kept |->
                   IF p.hash \in settled /\ ~p.internal
                   THEN IF over(p) THEN [p EXCEPT !.pending = FALSE]
                        ELSE [p EXCEPT !.pending = FALSE, !.fee = IF p.incoming THEN 0 ELSE NodeFee]
                   ELSE p]
<1>1. payments' = UNION {to(p) : p \in kept}
  BY DEF CheckPending
<1>2. ASSUME NEW p \in kept PROVE to(p) = {m[p]} /\ m[p] \in Touched(p) /\ (p.internal => m[p] = p)
  <2> HIDE DEF settled, over, kept
  <2>1. m[p] \in Touched(p) /\ (p.internal => m[p] = p)
    BY DEF Touched
  <2>2. /\ MarkSettled({p}, p.hash) = {IF ~p.internal THEN [p EXCEPT !.pending = FALSE] ELSE p}
        /\ MarkPaid({p}, p.hash) =
             {IF ~p.internal
              THEN [p EXCEPT !.pending = FALSE, !.fee = IF p.incoming THEN 0 ELSE NodeFee] ELSE p}
    BY DEF MarkSettled, MarkPaid, HasCheckingId
  <2>3. to(p) = {m[p]}
    BY <2>2 DEF Settle
  <2> QED BY <2>1, <2>3
<1>3. ASSUME NEW p \in payments, p \notin kept PROVE Gone(p)
  <2>1. ~p.internal /\ p.hash \in deleted
    BY <1>3
  <2>2. PICK q \in Examined, in \in BOOLEAN :
           q.hash = p.hash /\ q.incoming = in /\ Decision(Status(q.hash, in), q.hash, in) = "delete"
    BY <2>1
  <2>3. q \in payments /\ q.pending /\ ~q.internal
    BY <2>2 DEF Examined
  <2>4. CASE in
    <3>1. q.incoming /\ q.hash \in expired
      BY <2>2, <2>4 DEF Decision
    <3>2. p.incoming
      BY <2>1, <2>2, <2>3, <3>1 DEF TableInv, Outside, Alone
    <3>3. p.wallet = Owner[p.hash] /\ q.wallet = Owner[q.hash] /\ ~p.internal /\ p.hash = q.hash
      BY <2>1, <2>2, <2>3, <3>1, <3>2 DEF TableInv
    <3>4. p.wallet = q.wallet /\ p.internal = q.internal
      <4>1. p \in Payment /\ q \in Payment
        BY <2>3 DEF TypeOK
      <4> QED BY <2>3, <3>3, <4>1 DEF Payment
    <3>5. p = q
      BY <2>3, <3>3, <3>4 DEF TableInv
    <3> QED BY <2>3, <3>1, <3>5 DEF Gone
  <2>5. CASE ~in
    <3>1. Outside(q) /\ sent[q.hash] = "failed"
      BY <2>2, <2>3, <2>5 DEF Decision, Status, Outside
    <3>2. ~p.incoming
      BY <2>2, <2>3, <3>1 DEF TableInv, Alone
    <3> QED BY <2>1, <2>2, <3>1, <3>2 DEF Gone, Outside
  <2> QED BY <2>4, <2>5
<1>4. kept \in SUBSET payments
  OBVIOUS
<1> HIDE DEF kept, to, m
<1>5. payments' = {m[p] : p \in kept}
  <2>1. \A q : q \in UNION {to(p) : p \in kept} <=> \E p \in kept : q \in {m[p]}
    BY <1>2
  <2> QED BY <1>1, <2>1
<1>6. Becomes({m[p] : p \in kept}, m, kept)
  BY <1>2, <1>3, <1>4, Updated
<1> QED BY <1>5, <1>6

\* Every step but the two that insert a row is some UPDATEs and DELETEs.
LEMMA StepBecomes ==
    ASSUME TypeOK, TableInv, CallsInv, Orderly, [Next]_vars,
           ~\E h \in Own : CreateInvoice(h),
           ~\E c \in Payers, w \in Wallets, h \in Hashes : PayBegin(c, w, h)
    PROVE  \E m, K : Becomes(payments', m, K)
<1>1. CASE payments' = payments
  BY <1>1, SettleBecomes
<1>2. ASSUME NEW h, payments' \in {payments, MarkSettled(payments, h), MarkPaid(payments, h)}
      PROVE  \E m, K : Becomes(payments', m, K)
  BY <1>2, SettleBecomes
<1>3. ASSUME NEW h \in Own, Listen(h) PROVE \E m, K : Becomes(payments', m, K)
  <2>1. payments' = payments \/ payments' = MarkSettled(payments, h)
    BY <1>3 DEF Listen, InternalListener, InvoiceListener, Notified
  <2> QED BY <1>2, <2>1
<1>4. ASSUME NEW c \in Payers, PaySettle(c) PROVE \E m, K : Becomes(payments', m, K)
  BY <1>2, <1>4 DEF PaySettle
<1>5. ASSUME NEW c \in Payers, PayFinish(c) PROVE \E m, K : Becomes(payments', m, K)
  <2> DEFINE h == pay[c].hash
             K == WithoutWalletPayment(payments, h, pay[c].wallet)
  <2>1. CASE pay[c].pc = "paid"
    BY <1>2, <1>5, <2>1 DEF PayFinish
  <2>2. CASE pay[c].pc = "failed"
    <3>1. payments' = K /\ K \in SUBSET payments
      BY <1>5, <2>2 DEF PayFinish, WithoutWalletPayment
    <3>2. Alone(h) /\ sent[h] = "failed"
      BY <2>2 DEF CallsInv, Trying, Known
    <3>3. \A p \in payments : p \notin K => Gone(p)
      BY <3>2 DEF WithoutWalletPayment, HasCheckingId, Gone, Outside, Alone
    <3> HIDE DEF K
    <3> QED BY <3>1, <3>3, DeleteBecomes
  <2> QED BY <1>5, <2>1, <2>2 DEF PayFinish
<1>6. ASSUME NEW k \in Checkers, CheckApply(k) PROVE \E m, K : Becomes(payments', m, K)
  <2> DEFINE h == check[k].hash
             decision == Decision(check[k].pc, h, check[k].incoming)
             K == WithoutPayment(payments, h)
  <2>1. check[k].pc # "idle"
    BY <1>6 DEF CheckApply
  <2>2. payments' = CASE decision = "delete" -> K
                      [] decision = "settle" -> Settle(payments, h, check[k].incoming)
                      [] decision = "keep"   -> payments
    BY <1>6 DEF CheckApply
  <2>3. decision \in {"delete", "settle", "keep"}
    BY DEF Decision
  <2>4. CASE decision = "delete"
    <3>1. ~check[k].incoming /\ check[k].pc = "failed"
      BY <2>1, <2>4 DEF Decision, CallsInv, TableInv, Orderly
    <3>2. Alone(h) /\ sent[h] = "failed"
      BY <2>1, <3>1 DEF CallsInv
    <3>3. K \in SUBSET payments /\ \A p \in payments : p \notin K => Gone(p)
      BY <3>2 DEF WithoutPayment, HasCheckingId, Gone, Outside, Alone
    <3>4. payments' = K
      BY <2>2, <2>4
    <3> HIDE DEF K
    <3> QED BY <3>3, <3>4, DeleteBecomes
  <2>5. CASE decision \in {"settle", "keep"}
    <3> HIDE DEF decision
    <3>1. payments' \in {payments, MarkSettled(payments, h), MarkPaid(payments, h)}
      BY <2>2, <2>5 DEF Settle
    <3> QED BY <1>2, <3>1
  <2> QED BY <2>3, <2>4, <2>5
<1>7. ASSUME CheckPending PROVE \E m, K : Becomes(payments', m, K)
  BY <1>7, RoundBecomes
<1> QED BY <1>1, <1>3, <1>4, <1>5, <1>6, <1>7
        DEF Next, vars, server, node, NodeReceives, Expire, NodeSends, NodePays, NodeFails, PayStep,
            PaySend, PayUnanswered, CheckRead, CheckStep, CheckQuery, Crash

-----------------------------------------------------------------------------
\* What a row counts for in its wallet's balance.
LEMMA Worth ==
    ASSUME NEW p \in Payment
    PROVE  /\ Contribution(p) \in Int
           /\ ~p.incoming => Contribution(p) <= 0
           /\ p.incoming => Contribution(p) = IF p.pending THEN 0 ELSE Amount[p.hash]
           /\ p.incoming => Contribution(p) \in Nat
<1> DEFINE a == Amount[p.hash]
<1>1. a \in Nat /\ p.fee \in Nat
  BY AmountsAssumption DEF Payment
<1>2. /\ p.incoming => Contribution(p) = IF p.pending THEN 0 ELSE a
      /\ ~p.incoming => Contribution(p) = -(a + p.fee)
  BY DEF Contribution
<1> HIDE DEF a
<1>3. /\ Contribution(p) \in Int
      /\ ~p.incoming => Contribution(p) <= 0
      /\ p.incoming => Contribution(p) \in Nat
  BY <1>1, <1>2
<1> QED BY <1>2, <1>3 DEF a

\* A row that grows is worth no less afterwards, and one that may go is worth nothing.
LEMMA GrownWorth ==
    ASSUME NEW p \in Payment, Outside(p) => p.fee \in {NodeFee, FeeReserve}
    PROVE  /\ \A q : Grown(p, q) => Contribution(p) <= Contribution(q)
           /\ Gone(p) => Contribution(p) <= 0
<1>1. ASSUME NEW q, Grown(p, q) PROVE Contribution(p) <= Contribution(q)
  <2>1. q \in Payment /\ q.hash = p.hash /\ q.incoming = p.incoming /\ (q.pending => p.pending)
        /\ (p.internal => q = p) /\ (Outside(p) => q.fee \in {p.fee, NodeFee})
    BY <1>1 DEF Grown
  <2>2. CASE p.internal
    BY <2>1, <2>2, Worth
  <2>3. CASE p.incoming
    <3> DEFINE a == Amount[p.hash]
    <3>1. a \in Nat
      BY AmountsAssumption DEF Payment
    <3>2. /\ Contribution(p) = IF p.pending THEN 0 ELSE a
          /\ Contribution(q) = IF q.pending THEN 0 ELSE a
      BY <2>1, <2>3, Worth
    <3> HIDE DEF a
    <3> QED BY <2>1, <3>1, <3>2
  <2>4. CASE Outside(p)
    <3> DEFINE a == Amount[p.hash]
    <3>1. a \in Nat /\ p.fee \in Nat /\ q.fee \in Nat /\ q.fee <= p.fee
      BY <2>1, <2>4, AmountsAssumption DEF Payment
    <3>2. Contribution(p) = -(a + p.fee) /\ Contribution(q) = -(a + q.fee)
      BY <2>1, <2>4 DEF Outside, Contribution
    <3> DEFINE x == p.fee
               y == q.fee
    <3> HIDE DEF a, x, y
    <3>3. -(a + x) <= -(a + y)
      BY <3>1 DEF x, y
    <3> QED BY <3>2, <3>3 DEF x, y
  <2> QED BY <2>2, <2>3, <2>4 DEF Outside
<1>2. ASSUME Gone(p) PROVE Contribution(p) <= 0
  BY <1>2, Worth DEF Gone, Outside
<1> QED BY <1>1, <1>2

\* A wallet's rows.
RowsOf(rows, w) == {p \in rows : p.wallet = w}

\* A balance is a number, and it grows when the wallet's rows do.
LEMMA BalanceGrows ==
    ASSUME NEW S \in SUBSET Payment, NEW T \in SUBSET Payment, IsFiniteSet(S), IsFiniteSet(T),
           NEW w \in Wallets, NEW m, NEW K,
           \A p \in RowsOf(S, w) :
              IF p \in K THEN m[p] \in RowsOf(T, w) /\ Contribution(p) <= Contribution(m[p])
              ELSE Contribution(p) <= 0,
           \A p, q \in RowsOf(S, w) : p \in K /\ q \in K /\ m[p] = m[q] => p = q,
           \A t \in RowsOf(T, w) :
              Contribution(t) \in Nat \/ \E p \in RowsOf(S, w) : p \in K /\ m[p] = t
    PROVE  Balance(S, w) \in Int /\ Balance(T, w) \in Int /\ Balance(S, w) <= Balance(T, w)
<1> DEFINE A == RowsOf(S, w)
           B == RowsOf(T, w)
           f == [p \in S |-> Contribution(p)]
           g == [p \in T |-> Contribution(p)]
           a == SumFunctionOnSet(f, A)
           b == SumFunctionOnSet(g, B)
<1>1. A \subseteq S /\ B \subseteq T /\ IsFiniteSet(A) /\ IsFiniteSet(B)
  <2>1. A \subseteq S /\ B \subseteq T
    BY DEF RowsOf
  <2> QED BY <2>1, FS_Subset
<1>2. /\ \A p \in A : f[p] = Contribution(p) /\ f[p] \in Int
      /\ \A p \in B : g[p] = Contribution(p) /\ g[p] \in Int
  BY <1>1, Worth
<1>3. Balance(S, w) = Funds[w] + a /\ Balance(T, w) = Funds[w] + b /\ Funds[w] \in Nat
  BY AmountsAssumption DEF Balance, RowsOf
<1>4. Moves(m, K, g, A, B)
  BY <1>2 DEF Moves
<1>5. /\ \A p \in A : IF p \in K THEN f[p] <= g[m[p]] ELSE f[p] <= 0
      /\ \A p, q \in A : p \in K /\ q \in K /\ m[p] = m[q] => p = q
  BY <1>2
<1> HIDE DEF A, B, f, g
<1>6. a <= b
  BY <1>1, <1>2, <1>4, <1>5, SumGrows
<1>7. a \in Int /\ b \in Int
  BY <1>1, <1>2, SumType
<1> HIDE DEF a, b
<1> QED BY <1>3, <1>6, <1>7

\* What UPDATEs and DELETEs leave true of the table.
LEMMA BecomesTable ==
    ASSUME TypeOK, TypeOK', TableInv, NEW m, NEW K, Becomes(payments', m, K), issued' = issued,
           expired \subseteq expired', expired' \subseteq Expirable
    PROVE  /\ TableInv'
           /\ \A h : Alone(h) => Alone(h)'
           /\ \A h : Debited(h) /\ sent[h] # "failed" => Debited(h)'
<1>1. /\ K \subseteq payments /\ payments' = {m[p] : p \in K}
      /\ \A p \in K : Grown(p, m[p])
      /\ \A p \in payments : p \notin K => Gone(p)
  BY DEF Becomes
<1>2. ASSUME NEW q \in payments'
      PROVE  \E p \in K : /\ q = m[p] /\ p \in payments
                          /\ q.wallet = p.wallet /\ q.hash = p.hash
                          /\ q.internal = p.internal /\ q.incoming = p.incoming
                          /\ Outside(p) => q.fee \in {p.fee, NodeFee}
  BY <1>1 DEF Grown
<1>3. IsFiniteSet(payments')
  <2>1. IsFiniteSet(K)
    BY <1>1, FS_Subset DEF TableInv
  <2> DEFINE g == [p \in K |-> m[p]]
  <2>2. g \in Surjection(K, payments')
    BY <1>1 DEF Surjection
  <2> HIDE DEF g
  <2> QED BY <2>1, <2>2, FS_Surjection
<1>4. \A h : Alone(h) => Alone(h)'
  BY <1>2 DEF Alone
<1>5. \A p, q \in payments' :
          p.wallet = q.wallet /\ p.hash = q.hash /\ p.internal = q.internal => p = q
  <2> SUFFICES ASSUME NEW p \in payments', NEW q \in payments', p.wallet = q.wallet,
                      p.hash = q.hash, p.internal = q.internal
               PROVE  p = q
    OBVIOUS
  <2>1. PICK r \in K : p = m[r] /\ r \in payments /\ p.wallet = r.wallet /\ p.hash = r.hash
                       /\ p.internal = r.internal
    BY <1>2
  <2>2. PICK s \in K : q = m[s] /\ s \in payments /\ q.wallet = s.wallet /\ q.hash = s.hash
                       /\ q.internal = s.internal
    BY <1>2
  <2>3. r = s
    BY <2>1, <2>2 DEF TableInv
  <2> QED BY <2>1, <2>2, <2>3
<1>6. ASSUME NEW q \in payments'
      PROVE  /\ q.hash \in Remote \cup issued'
             /\ q.incoming => ~q.internal /\ q.wallet = Owner[q.hash]
             /\ q.internal => q.hash \in Own
             /\ Outside(q) => q.fee \in {NodeFee, FeeReserve} /\ Alone(q.hash)
             /\ q.internal /\ q.hash \notin expired' =>
                   \E r \in payments' : r.incoming /\ r.hash = q.hash
  <2>1. PICK p \in K : /\ q = m[p] /\ p \in payments
                       /\ q.wallet = p.wallet /\ q.hash = p.hash
                       /\ q.internal = p.internal /\ q.incoming = p.incoming
                       /\ Outside(p) => q.fee \in {p.fee, NodeFee}
    BY <1>2
  <2>2. /\ p.hash \in Remote \cup issued
        /\ p.incoming => ~p.internal /\ p.wallet = Owner[p.hash]
        /\ p.internal => p.hash \in Own
        /\ Outside(p) => p.fee \in {NodeFee, FeeReserve} /\ Alone(p.hash)
        /\ p.internal /\ p.hash \notin expired =>
              \E r \in payments : r.incoming /\ r.hash = p.hash
    BY <2>1 DEF TableInv
  <2>3. ASSUME q.internal, q.hash \notin expired'
        PROVE  \E r \in payments' : r.incoming /\ r.hash = q.hash
    <3>1. PICK r \in payments : r.incoming /\ r.hash = q.hash
      BY <2>1, <2>2, <2>3
    <3>2. r \in K
      BY <1>1, <2>3, <3>1 DEF Gone, Outside
    <3>3. m[r] \in payments' /\ m[r].incoming /\ m[r].hash = q.hash
      BY <1>1, <3>1, <3>2 DEF Grown
    <3> QED BY <3>3
  <2>4. Outside(q) <=> Outside(p)
    BY <2>1 DEF Outside
  <2> QED BY <2>1, <2>2, <2>3, <2>4
<1>7. TableInv'
  <2>1. \A q \in payments' : Outside(q) => Alone(q.hash)'
    BY <1>4, <1>6
  <2>2. \A q \in payments' : Outside(q) => /\ q.hash \in Remote \cup issued'
                                           /\ \A p \in payments' : p.hash = q.hash => ~p.incoming
    BY <1>2, <1>6 DEF Alone
  <2> QED BY <1>3, <1>5, <1>6, <2>2 DEF TableInv, Alone, Outside
<1>8. ASSUME NEW h, Debited(h), sent[h] # "failed" PROVE Debited(h)'
  <2>1. PICK p \in payments : Outside(p) /\ p.hash = h
    BY <1>8 DEF Debited
  <2>2. p \in K
    BY <1>1, <1>8, <2>1 DEF Gone, Outside
  <2>3. m[p] \in payments' /\ Outside(m[p]) /\ m[p].hash = h
    BY <1>1, <2>1, <2>2 DEF Grown, Outside
  <2> QED BY <2>3 DEF Debited, Outside
<1> QED BY <1>4, <1>7, <1>8

\* No UPDATE and no DELETE takes anything from a wallet.
LEMMA BecomesWorth ==
    ASSUME TypeOK, TypeOK', TableInv, IsFiniteSet(payments'), NonNegative,
           NEW m, NEW K, Becomes(payments', m, K)
    PROVE  NonNegative'
<1>1. /\ K \subseteq payments /\ payments' = {m[p] : p \in K}
      /\ \A p \in K : Grown(p, m[p])
      /\ \A p \in payments : p \notin K => Gone(p)
  BY DEF Becomes
<1>2. payments \in SUBSET Payment /\ payments' \in SUBSET Payment
  BY DEF TypeOK
<1>3. \A p \in payments : Outside(p) => p.fee \in {NodeFee, FeeReserve}
  BY DEF TableInv
<1>4. ASSUME NEW w \in Wallets PROVE Balance(payments', w) >= 0
  <2> DEFINE T == payments'
  <2>1. ASSUME NEW p \in RowsOf(payments, w)
        PROVE  IF p \in K THEN m[p] \in RowsOf(T, w) /\ Contribution(p) <= Contribution(m[p])
               ELSE Contribution(p) <= 0
    BY <1>1, <1>2, <1>3, GrownWorth DEF RowsOf, Grown
  <2>2. ASSUME NEW p \in RowsOf(payments, w), NEW q \in RowsOf(payments, w), p \in K, q \in K,
               m[p] = m[q]
        PROVE  p = q
    <3>1. Grown(p, m[p]) /\ Grown(q, m[q])
      BY <1>1, <2>2
    <3>2. p.wallet = q.wallet /\ p.hash = q.hash /\ p.internal = q.internal
      BY <2>2, <3>1 DEF Grown
    <3> QED BY <3>2 DEF RowsOf, TableInv
  <2>3. \A t \in RowsOf(T, w) : \E p \in RowsOf(payments, w) : p \in K /\ m[p] = t
    BY <1>1 DEF RowsOf, Grown
  <2>4. T \in SUBSET Payment /\ IsFiniteSet(T) /\ IsFiniteSet(payments)
    BY <1>2 DEF TableInv
  <2> HIDE DEF T
  <2>5. Balance(payments, w) \in Int /\ Balance(T, w) \in Int
        /\ Balance(payments, w) <= Balance(T, w)
    BY <1>2, <2>1, <2>2, <2>3, <2>4, BalanceGrows
  <2>6. Balance(payments, w) >= 0
    BY DEF NonNegative
  <2>7. Balance(T, w) >= 0
    BY <2>5, <2>6
  <2> QED BY <2>7 DEF T
<1> QED BY <1>4 DEF NonNegative

\* A row that is inserted takes nothing from the other wallets, and an invoice from none.
LEMMA InsertedWorth ==
    ASSUME TypeOK, IsFiniteSet(payments), NonNegative, NEW row \in Payment, NEW w \in Wallets,
           row.wallet # w \/ row.incoming
    PROVE  Balance(payments \cup {row}, w) >= 0
<1> DEFINE T == payments \cup {row}
           m == [p \in payments |-> p]
           K == payments
<1>1. payments \in SUBSET Payment /\ T \in SUBSET Payment /\ IsFiniteSet(T)
  BY FS_AddElement DEF TypeOK
<1>2. \A p \in RowsOf(payments, w) :
         p \in K /\ m[p] = p /\ p \in RowsOf(T, w) /\ Contribution(p) <= Contribution(p)
  <2>1. \A p \in payments : Contribution(p) \in Int
    BY <1>1, Worth
  <2>2. \A p \in RowsOf(payments, w) : p \in payments /\ p \in RowsOf(T, w)
    BY DEF RowsOf
  <2> QED BY <2>1, <2>2
<1>3. \A t \in RowsOf(T, w) : t \in RowsOf(payments, w) \/ Contribution(t) \in Nat
  BY Worth DEF RowsOf
<1> HIDE DEF T, m, K
<1>4. Balance(payments, w) \in Int /\ Balance(T, w) \in Int /\ Balance(payments, w) <= Balance(T, w)
  <2>1. \A p \in RowsOf(payments, w) :
           IF p \in K THEN m[p] \in RowsOf(T, w) /\ Contribution(p) <= Contribution(m[p])
           ELSE Contribution(p) <= 0
    BY <1>2
  <2>2. \A p, q \in RowsOf(payments, w) : p \in K /\ q \in K /\ m[p] = m[q] => p = q
    BY <1>2
  <2>3. \A t \in RowsOf(T, w) :
           Contribution(t) \in Nat \/ \E p \in RowsOf(payments, w) : p \in K /\ m[p] = t
    BY <1>2, <1>3
  <2> QED BY <1>1, <2>1, <2>2, <2>3, BalanceGrows
<1>5. Balance(payments, w) >= 0
  BY DEF NonNegative
<1>6. Balance(T, w) >= 0
  BY <1>4, <1>5
<1> QED BY <1>6 DEF T

\* A new invoice.
LEMMA CreatedTable ==
    ASSUME TypeOK, TypeOK', TableInv, NonNegative, NEW h \in Own, CreateInvoice(h)
    PROVE  /\ TableInv' /\ NonNegative'
           /\ \A g : Alone(g) => Alone(g)'
           /\ \A g : Debited(g) => Debited(g)'
<1> DEFINE row == [wallet |-> Owner[h], hash |-> h, internal |-> FALSE,
                   incoming |-> TRUE, fee |-> 0, pending |-> TRUE]
<1>1. /\ row \in Payment /\ row.incoming /\ row.wallet = Owner[h] /\ row.hash = h
      /\ ~row.internal
  BY SetsAssumption DEF Payment, Hashes
<1>2. /\ payments' = payments \cup {row} /\ issued' = issued \cup {h} /\ expired' = expired
      /\ h \notin issued
  BY DEF CreateInvoice, node
<1> HIDE DEF row
<1>3. ASSUME NEW p \in payments PROVE p.hash # h
  BY <1>2, SetsAssumption DEF TableInv
<1>4. ASSUME NEW g, Alone(g) PROVE Alone(g)'
  <2>1. g # h /\ g \in Remote \cup issued' /\ \A p \in payments : p.hash = g => ~p.incoming
    BY <1>2, <1>4, SetsAssumption DEF Alone
  <2> QED BY <1>1, <1>2, <2>1 DEF Alone
<1>5. ASSUME NEW g, Debited(g) PROVE Debited(g)'
  BY <1>2, <1>5 DEF Debited, Outside
<1>6. IsFiniteSet(payments')
  BY <1>2, FS_AddElement DEF TableInv
<1>7. \A p, q \in payments' :
          p.wallet = q.wallet /\ p.hash = q.hash /\ p.internal = q.internal => p = q
  BY <1>1, <1>2, <1>3 DEF TableInv
<1>8. ASSUME NEW q \in payments'
      PROVE  /\ q.hash \in Remote \cup issued'
             /\ q.incoming => ~q.internal /\ q.wallet = Owner[q.hash]
             /\ q.internal => q.hash \in Own
             /\ Outside(q) => q.fee \in {NodeFee, FeeReserve} /\ Alone(q.hash)'
             /\ q.internal /\ q.hash \notin expired' =>
                   \E r \in payments' : r.incoming /\ r.hash = q.hash
  <2>1. CASE q = row
    BY <1>1, <1>2, <2>1 DEF Outside
  <2>2. CASE q \in payments
    BY <1>2, <1>4, <2>2 DEF TableInv
  <2> QED BY <1>2, <2>1, <2>2
<1>9. TableInv'
  <2>1. \A q \in payments' : Outside(q) => /\ q.hash \in Remote \cup issued'
                                           /\ \A p \in payments' : p.hash = q.hash => ~p.incoming
    BY <1>8 DEF Alone
  <2>2. expired' \subseteq Expirable
    BY <1>2 DEF TableInv
  <2> QED BY <1>6, <1>7, <1>8, <2>1, <2>2 DEF TableInv, Alone, Outside
<1>10. NonNegative'
  <2>1. \A w \in Wallets : Balance(payments \cup {row}, w) >= 0
    BY <1>1, InsertedWorth DEF TableInv
  <2>2. \A w \in Wallets : Balance(payments', w) >= 0
    BY <1>2, <2>1
  <2> QED BY <2>2 DEF NonNegative
<1> QED BY <1>4, <1>5, <1>9, <1>10

\* A new payment: it is internal when the invoice is in the table and not settled; otherwise

\* nobody has paid the invoice, so that it is not in the table settled either.
LEMMA BegunTable ==
    ASSUME TypeOK, TypeOK', TableInv, BackedInv, Orderly, NonNegative,
           NEW c \in Payers, NEW w \in Wallets, NEW h \in Hashes, PayBegin(c, w, h)
    PROVE  /\ TableInv' /\ NonNegative'
           /\ \A g : Alone(g) => Alone(g)'
           /\ \A g : Debited(g) => Debited(g)'
           /\ ~NewPayment(w, h).internal => Untried(h) /\ Alone(h)' /\ Debited(h)'
<1> DEFINE row == NewPayment(w, h)
<1>1. /\ row \in Payment /\ ~row.incoming /\ row.wallet = w /\ row.hash = h
      /\ row.internal = CheckInternal(h)
      /\ ~row.internal => row.fee = FeeReserve
  BY DEF NewPayment, Payment, CheckInternal
<1>2. /\ payments' = payments \cup {row} /\ issued' = issued /\ expired' = expired
      /\ h \in Remote \cup issued
      /\ row.internal \/ Untried(h)
      /\ ~\E p \in payments : p.wallet = w /\ p.hash = h /\ p.internal = row.internal
      /\ CanAfford(row)
  BY DEF PayBegin, node, Orderly
<1> HIDE DEF row
<1>3. ASSUME row.internal PROVE h \in Own /\ \E r \in payments : r.incoming /\ r.hash = h
  BY <1>1, <1>3 DEF CheckInternal, BackedInv
<1>4. ASSUME NEW g, Alone(g) PROVE Alone(g)'
  BY <1>1, <1>2, <1>4 DEF Alone
<1>5. ASSUME NEW g, Debited(g) PROVE Debited(g)'
  BY <1>2, <1>5 DEF Debited, Outside
<1>6. ASSUME ~row.internal PROVE Untried(h) /\ Alone(h) /\ Debited(h)'
  <2>1. Untried(h)
    BY <1>2, <1>6
  <2>2. ASSUME NEW p \in payments, p.hash = h PROVE ~p.incoming
    <3> SUFFICES ASSUME p.incoming PROVE FALSE
      OBVIOUS
    <3>1. ~p.pending
      BY <1>1, <1>6, <2>2 DEF CheckInternal
    <3>2. h \notin received /\ \A d \in payments : d.hash = h => d.incoming
      BY <2>1 DEF Untried
    <3>3. PICK d \in payments : d.internal /\ d.hash = h
      BY <2>2, <3>1, <3>2 DEF BackedInv, CreditBacked
    <3> QED BY <3>2, <3>3 DEF TableInv
  <2>3. Debited(h)'
    BY <1>1, <1>2, <1>6 DEF Debited, Outside
  <2> QED BY <1>2, <2>1, <2>2, <2>3 DEF Alone
<1>7. IsFiniteSet(payments')
  BY <1>2, FS_AddElement DEF TableInv
<1>8. \A p, q \in payments' :
          p.wallet = q.wallet /\ p.hash = q.hash /\ p.internal = q.internal => p = q
  <2>1. \A p \in payments : ~(p.wallet = row.wallet /\ p.hash = row.hash /\ p.internal = row.internal)
    BY <1>1, <1>2
  <2>2. \A p \in payments' : p \in payments \/ p = row
    BY <1>2
  <2>3. \A p, q \in payments :
          p.wallet = q.wallet /\ p.hash = q.hash /\ p.internal = q.internal => p = q
    BY DEF TableInv
  <2>4. \A p \in payments : ~(row.wallet = p.wallet /\ row.hash = p.hash /\ row.internal = p.internal)
    BY <2>1
  <2> QED BY <2>1, <2>2, <2>3, <2>4
<1>9. ASSUME NEW q \in payments'
      PROVE  /\ q.hash \in Remote \cup issued'
             /\ q.incoming => ~q.internal /\ q.wallet = Owner[q.hash]
             /\ q.internal => q.hash \in Own
             /\ Outside(q) => q.fee \in {NodeFee, FeeReserve} /\ Alone(q.hash)'
             /\ q.internal /\ q.hash \notin expired' =>
                   \E r \in payments' : r.incoming /\ r.hash = q.hash
  <2>1. CASE q = row
    <3>1. row.internal => h \in Own /\ \E r \in payments' : r.incoming /\ r.hash = h
      BY <1>2, <1>3
    <3>2. ~row.internal => Alone(h)'
      BY <1>4, <1>6
    <3> QED BY <1>1, <1>2, <2>1, <3>1, <3>2 DEF Outside
  <2>2. CASE q \in payments
    BY <1>2, <1>4, <2>2 DEF TableInv
  <2> QED BY <1>2, <2>1, <2>2
<1>10. TableInv'
  <2>1. \A q \in payments' : Outside(q) => /\ q.hash \in Remote \cup issued'
                                           /\ \A p \in payments' : p.hash = q.hash => ~p.incoming
    BY <1>9 DEF Alone
  <2>2. expired' \subseteq Expirable
    BY <1>2 DEF TableInv
  <2> QED BY <1>7, <1>8, <1>9, <2>1, <2>2 DEF TableInv, Alone, Outside
<1>11. NonNegative'
  <2>1. ASSUME NEW v \in Wallets PROVE Balance(payments \cup {row}, v) >= 0
    <3>1. CASE v = w
      BY <1>1, <1>2, <3>1 DEF CanAfford
    <3>2. CASE v # w
      BY <1>1, <3>2, InsertedWorth DEF TableInv
    <3> QED BY <3>1, <3>2
  <2>2. \A v \in Wallets : Balance(payments', v) >= 0
    BY <1>2, <2>1
  <2> QED BY <2>2 DEF NonNegative
<1> QED BY <1>4, <1>5, <1>6, <1>10, <1>11 DEF row

\* No step breaks the table, takes a balance below zero, gives an invoice back to the table

\* once it has been tried, or forgets a payment over the node that did not fail.
LEMMA TableStep ==
    ASSUME TypeOK, TypeOK', BackedInv, OrderlyInv, Orderly, NonNegative, [Next]_vars
    PROVE  /\ TableInv' /\ NonNegative'
           /\ \A h : Alone(h) => Alone(h)'
           /\ \A h : Debited(h) /\ sent[h] # "failed" => Debited(h)'
<1>1. ASSUME NEW h \in Own, CreateInvoice(h)
      PROVE  /\ TableInv' /\ NonNegative'
             /\ \A g : Alone(g) => Alone(g)'
             /\ \A g : Debited(g) => Debited(g)'
  BY <1>1, CreatedTable DEF OrderlyInv
<1>2. ASSUME NEW c \in Payers, NEW w \in Wallets, NEW h \in Hashes, PayBegin(c, w, h)
      PROVE  /\ TableInv' /\ NonNegative'
             /\ \A g : Alone(g) => Alone(g)'
             /\ \A g : Debited(g) => Debited(g)'
  BY <1>2, BegunTable DEF OrderlyInv
<1>3. ASSUME ~\E h \in Own : CreateInvoice(h),
             ~\E c \in Payers, w \in Wallets, h \in Hashes : PayBegin(c, w, h)
      PROVE  /\ TableInv' /\ NonNegative'
             /\ \A h : Alone(h) => Alone(h)'
             /\ \A h : Debited(h) /\ sent[h] # "failed" => Debited(h)'
  <2>1. PICK m, K : Becomes(payments', m, K)
    BY <1>3, StepBecomes DEF OrderlyInv
  <2>2. /\ issued' = issued /\ expired \subseteq expired'
        /\ expired' \subseteq expired \cup Expirable
    BY <1>3 DEF Next, vars, server, node, NodeReceives, Listen, InternalListener, InvoiceListener,
       Expire, NodeSends, NodePays, NodeFails, PayStep, PaySettle, PaySend, PayUnanswered,
       PayFinish, CheckRead, CheckStep, CheckQuery, CheckApply, CheckPending, Crash
  <2>3. TableInv /\ expired' \subseteq Expirable
    BY <2>2 DEF OrderlyInv, TableInv
  <2>4. /\ TableInv'
        /\ \A h : Alone(h) => Alone(h)'
        /\ \A h : Debited(h) /\ sent[h] # "failed" => Debited(h)'
    BY <2>1, <2>2, <2>3, BecomesTable
  <2>5. IsFiniteSet(payments')
    BY <2>4 DEF TableInv
  <2>6. NonNegative'
    BY <2>1, <2>3, <2>5, BecomesWorth
  <2> QED BY <2>4, <2>6
<1> QED BY <1>1, <1>2, <1>3

\* The calls, the checks and the node, over a step.
LEMMA CallsStep ==
    ASSUME TypeOK, TypeOK', BackedInv, OrderlyInv, Orderly, NonNegative, [Next]_vars
    PROVE  CallsInv'
<1>i. TableInv /\ CallsInv
  BY DEF OrderlyInv
<1>t. /\ pay \in [Payers -> PayCall \cup {NoCall}]
      /\ check \in [Checkers -> Check \cup {NoCheck}]
      /\ sent \in [Hashes -> {"none", "in_flight", "paid", "failed"}]
  BY DEF TypeOK
<1>n. /\ NoCall.pc = "idle" /\ NoCheck.pc = "idle"
      /\ \A c \in Payers : pay[c].pc # "idle" => pay[c] \in PayCall
      /\ \A k \in Checkers : check[k].pc # "idle" => check[k] \in Check
  BY <1>t DEF NoCall, NoCheck
<1>m. /\ \A h : Alone(h) => Alone(h)'
      /\ \A h : Debited(h) /\ sent[h] # "failed" => Debited(h)'
  BY TableStep
\* What holds of a call that has got as far as pc with the invoice h, and of a check of h.
<1> DEFINE CallOK(c, h, pc) ==
             /\ Alone(h)
             /\ sent[h] = Known(pc)
             /\ pc # "failed" => Debited(h)
             /\ \A d \in Payers : Trying(d) /\ h = pay[d].hash => c = d
           CheckOK(pc, h, in) ==
             /\ h \in Polled
             /\ ~in => Alone(h)
             /\ pc = "failed" => ~in /\ sent[h] = "failed"
<1>p. /\ \A c \in Payers : Trying(c) => CallOK(c, pay[c].hash, pay[c].pc)
      /\ \A k \in Checkers : check[k].pc # "idle" =>
            CheckOK(check[k].pc, check[k].hash, check[k].incoming)
      /\ \A h \in Hashes : sent[h] \in {"in_flight", "paid"} => Debited(h)
  BY <1>i DEF CallsInv
<1>q. ASSUME \A c \in Payers : \A h, pc :
                (Trying(c)' /\ h = pay'[c].hash /\ pc = pay'[c].pc) => CallOK(c, h, pc)',
             \A k \in Checkers : \A pc, h, in :
                (check'[k].pc # "idle" /\ pc = check'[k].pc /\ h = check'[k].hash
                   /\ in = check'[k].incoming) => CheckOK(pc, h, in)',
             \A h \in Hashes : sent'[h] \in {"in_flight", "paid"} => Debited(h)'
      PROVE  CallsInv'
  BY <1>q DEF CallsInv, Alone, Debited, Trying, Outside
<1> HIDE DEF CallOK, CheckOK
\* A call and a check that stay as they are, while the node's answer stays.
<1>c. ASSUME NEW c \in Payers, pay'[c] = pay[c], Trying(c), NEW h, NEW pc, h = pay[c].hash,
             pc = pay[c].pc, sent'[h] = sent[h],
             \A d \in Payers \ {c} : pay'[d] = pay[d] \/ (Trying(d)' => pay'[d].hash # h)
      PROVE  CallOK(c, h, pc)'
  <2>1. CallOK(c, h, pc)
    BY <1>c, <1>p
  <2>2. sent[h] # "failed" \/ pc = "failed"
    BY <1>c, <2>1 DEF CallOK, Known, Trying
  <2>3. ASSUME NEW d \in Payers, Trying(d)', h = pay'[d].hash PROVE c = d
    BY <1>c, <2>1, <2>3 DEF CallOK, Trying
  <2> QED BY <1>c, <1>m, <2>1, <2>2, <2>3 DEF CallOK
<1>k. ASSUME NEW k \in Checkers, check'[k] = check[k], check[k].pc # "idle",
             NEW pc, NEW h, NEW in, pc = check[k].pc, h = check[k].hash, in = check[k].incoming,
             sent[h] = "failed" => sent'[h] = "failed"
      PROVE  CheckOK(pc, h, in)'
  BY <1>k, <1>m, <1>p DEF CheckOK
\* The steps after which the node is where it was.
<1>s. ASSUME sent' = sent,
             \A c \in Payers : pay'[c] = pay[c] \/ pay'[c].pc \in {"idle", "settle"},
             \A k \in Checkers : check'[k] = check[k] \/ check'[k].pc = "idle"
      PROVE  CallsInv'
  <2>1. ASSUME NEW c \in Payers, NEW h, NEW pc, Trying(c)', h = pay'[c].hash, pc = pay'[c].pc
        PROVE  CallOK(c, h, pc)'
    <3>1. pay'[c] = pay[c] /\ Trying(c)
      BY <1>s, <2>1 DEF Trying
    <3>2. \A d \in Payers \ {c} : pay'[d] = pay[d] \/ (Trying(d)' => pay'[d].hash # h)
      BY <1>s DEF Trying
    <3> QED BY <1>c, <1>s, <2>1, <3>1, <3>2
  <2>2. ASSUME NEW k \in Checkers, NEW pc, NEW h, NEW in, check'[k].pc # "idle",
               pc = check'[k].pc, h = check'[k].hash, in = check'[k].incoming
        PROVE  CheckOK(pc, h, in)'
    BY <1>k, <1>s, <2>2
  <2>3. ASSUME NEW h \in Hashes, sent'[h] \in {"in_flight", "paid"} PROVE Debited(h)'
    BY <1>m, <1>p, <1>s, <2>3
  <2> QED BY <1>q, <2>1, <2>2, <2>3
<1>1. ASSUME NEW c \in Payers, NEW w \in Wallets, NEW g \in Hashes, PayBegin(c, w, g)
      PROVE  CallsInv'
  <2> DEFINE row == NewPayment(w, g)
             call == [pc |-> IF row.internal THEN "settle" ELSE "send", wallet |-> w, hash |-> g]
  <2>1. /\ ~row.internal => Untried(g) /\ Alone(g)' /\ Debited(g)'
        /\ pay' = [pay EXCEPT ![c] = call] /\ UNCHANGED <<check, sent>>
    BY <1>1, <1>i, BegunTable DEF PayBegin, node
  <2>2. call.pc = (IF row.internal THEN "settle" ELSE "send") /\ call.hash = g
    OBVIOUS
  <2> HIDE DEF call, row
  <2>3. pay'[c] = call /\ \A d \in Payers \ {c} : pay'[d] = pay[d]
    BY <1>t, <2>1
  <2>4. CASE row.internal
    BY <1>s, <2>1, <2>2, <2>3, <2>4
  <2>5. CASE ~row.internal
    <3>1. sent[g] = "none" /\ \A d \in Payers : pay[d].hash # g
      BY <2>1, <2>5 DEF Untried
    <3>2. ASSUME NEW b \in Payers, NEW h, NEW pc, Trying(b)', h = pay'[b].hash, pc = pay'[b].pc
          PROVE  CallOK(b, h, pc)'
      <4>1. CASE b = c
        <5>1. h = g /\ pc = "send"
          BY <2>2, <2>3, <2>5, <3>2, <4>1
        <5>2. \A d \in Payers : Trying(d)' /\ h = pay'[d].hash => d = b
          BY <2>3, <3>1, <4>1, <5>1
        <5> QED BY <2>1, <2>5, <3>1, <5>1, <5>2 DEF CallOK, Known
      <4>2. CASE b # c
        <5>1. pay'[b] = pay[b] /\ Trying(b) /\ h # g
          BY <2>3, <3>1, <3>2, <4>2 DEF Trying
        <5>2. \A d \in Payers \ {b} : pay'[d] = pay[d] \/ (Trying(d)' => pay'[d].hash # h)
          BY <2>2, <2>3, <5>1
        <5> QED BY <1>c, <2>1, <3>2, <5>1, <5>2
      <4> QED BY <4>1, <4>2
    <3>3. ASSUME NEW k \in Checkers, NEW pc, NEW h, NEW in, check'[k].pc # "idle",
                 pc = check'[k].pc, h = check'[k].hash, in = check'[k].incoming
          PROVE  CheckOK(pc, h, in)'
      BY <1>k, <2>1, <3>3
    <3>4. ASSUME NEW h \in Hashes, sent'[h] \in {"in_flight", "paid"} PROVE Debited(h)'
      BY <1>m, <1>p, <2>1, <3>4
    <3> QED BY <1>q, <3>2, <3>3, <3>4
  <2> QED BY <2>4, <2>5
\* The invoice g gets on from old to new at the node, and the call that tries it knows.
<1>g. ASSUME NEW g \in Hashes, NEW new \in {"in_flight", "paid", "failed"},
             sent[g] # "failed", sent' = [sent EXCEPT ![g] = new], check' = check,
             new = "failed" \/ Debited(g),
             \A c \in Payers : Trying(c)' => /\ Trying(c) /\ pay'[c].hash = pay[c].hash
                                            /\ \/ pay[c].hash # g /\ pay'[c] = pay[c]
                                               \/ pay[c].hash = g /\ Known(pay'[c].pc) = new
      PROVE  CallsInv'
  <2>1. sent'[g] = new /\ \A h \in Hashes \ {g} : sent'[h] = sent[h]
    BY <1>g, <1>t
  <2>2. ASSUME NEW c \in Payers, NEW h, NEW pc, Trying(c)', h = pay'[c].hash, pc = pay'[c].pc
        PROVE  CallOK(c, h, pc)'
    <3>1. Trying(c) /\ h = pay[c].hash /\ h \in Hashes
      BY <1>g, <1>n, <2>2 DEF Trying, PayCall
    <3>2. CallOK(c, h, pay[c].pc)
      BY <1>p, <3>1
    <3>3. \A d \in Payers : Trying(d)' /\ h = pay'[d].hash => c = d
      BY <1>g, <3>2 DEF CallOK
    <3>4. CASE h # g
      BY <1>c, <1>g, <2>1, <2>2, <3>1, <3>3, <3>4
    <3>5. CASE h = g
      <4>1. Known(pc) = new
        BY <1>g, <2>2, <3>1, <3>5
      <4>2. pc # "failed" => Debited(h)'
        BY <1>g, <1>m, <3>5, <4>1 DEF Known
      <4> QED BY <1>m, <2>1, <3>2, <3>3, <3>5, <4>1, <4>2 DEF CallOK
    <3> QED BY <3>4, <3>5
  <2>3. ASSUME NEW k \in Checkers, NEW pc, NEW h, NEW in, check'[k].pc # "idle",
               pc = check'[k].pc, h = check'[k].hash, in = check'[k].incoming
        PROVE  CheckOK(pc, h, in)'
    <3>1. h \in Hashes /\ (sent[h] = "failed" => sent'[h] = "failed")
      BY <1>g, <1>n, <2>1, <2>3 DEF Check
    <3> QED BY <1>g, <1>k, <2>3, <3>1
  <2>4. ASSUME NEW h \in Hashes, sent'[h] \in {"in_flight", "paid"} PROVE Debited(h)'
    BY <1>g, <1>m, <1>p, <2>1, <2>4
  <2> QED BY <1>q, <2>2, <2>3, <2>4
<1>2. ASSUME NEW c \in Payers, PaySend(c) PROVE CallsInv'
  <2> DEFINE g == pay[c].hash
  <2>1. pay[c].pc = "send" /\ pay[c] \in PayCall /\ g \in Hashes /\ Trying(c)
    BY <1>2, <1>n DEF PaySend, Trying, PayCall
  <2>2. CallOK(c, g, "send")
    BY <1>p, <2>1
  <2>3. sent[g] = "none" /\ Debited(g)
    BY <2>2 DEF CallOK, Known
  <2>4. /\ sent' = [sent EXCEPT ![g] = "in_flight"] /\ check' = check
        /\ pay' = [pay EXCEPT ![c].pc = "sending"]
    BY <1>2, <2>3 DEF PaySend
  <2> HIDE DEF g
  <2>5. /\ pay'[c].pc = "sending" /\ pay'[c].hash = pay[c].hash
        /\ \A d \in Payers \ {c} : pay'[d] = pay[d]
    BY <1>t, <2>1, <2>4 DEF PayCall
  <2>6. ASSUME NEW d \in Payers, Trying(d)'
        PROVE  /\ Trying(d) /\ pay'[d].hash = pay[d].hash
               /\ \/ pay[d].hash # g /\ pay'[d] = pay[d]
                  \/ pay[d].hash = g /\ Known(pay'[d].pc) = "in_flight"
    <3>1. CASE d = c
      BY <2>1, <2>5, <3>1 DEF Known, g
    <3>2. CASE d # c
      BY <2>2, <2>5, <2>6, <3>2 DEF CallOK, Trying
    <3> QED BY <3>1, <3>2
  <2> QED BY <1>g, <2>1, <2>3, <2>4, <2>6
<1>3. ASSUME NEW g \in Hashes, NodeSends(g) PROVE CallsInv'
  <2>1. PICK o \in {"paid", "failed"} :
          /\ sent[g] = "in_flight" /\ sent' = [sent EXCEPT ![g] = o]
          /\ pay' = Answered(g, o) /\ check' = check
    BY <1>3 DEF NodeSends, NodePays, NodeFails
  <2>2. ASSUME NEW d \in Payers, Trying(d)'
        PROVE  /\ Trying(d) /\ pay'[d].hash = pay[d].hash
               /\ \/ pay[d].hash # g /\ pay'[d] = pay[d]
                  \/ pay[d].hash = g /\ Known(pay'[d].pc) = o
    <3>1. CASE pay[d].pc = "sending" /\ pay[d].hash = g
      <4>1. pay[d] \in PayCall /\ pay'[d] = [pay[d] EXCEPT !.pc = o]
        BY <1>n, <2>1, <3>1 DEF Answered
      <4>2. pay'[d].pc = o /\ pay'[d].hash = pay[d].hash
        BY <4>1 DEF PayCall
      <4> QED BY <3>1, <4>2 DEF Trying, Known
    <3>2. CASE ~(pay[d].pc = "sending" /\ pay[d].hash = g)
      <4>1. pay'[d] = pay[d] /\ Trying(d)
        BY <2>1, <2>2, <3>2 DEF Answered, Trying
      <4>2. pay[d].hash = g => Known(pay[d].pc) = "in_flight"
        BY <1>p, <2>1, <4>1 DEF CallOK
      <4>3. pay[d].hash # g
        BY <3>2, <4>1, <4>2 DEF Known, Trying
      <4> QED BY <4>1, <4>3
    <3> QED BY <3>1, <3>2
  <2>3. Debited(g)
    BY <1>p, <2>1
  <2> QED BY <1>g, <2>1, <2>2, <2>3
\* Only a check gets on.
<1>h. ASSUME NEW k \in Checkers, NEW pc, NEW g, NEW in, sent' = sent, pay' = pay,
             check'[k].pc = pc, check'[k].hash = g, check'[k].incoming = in,
             CheckOK(pc, g, in), \A j \in Checkers \ {k} : check'[j] = check[j]
      PROVE  CallsInv'
  <2>1. ASSUME NEW c \in Payers, NEW h, NEW q, Trying(c)', h = pay'[c].hash, q = pay'[c].pc
        PROVE  CallOK(c, h, q)'
    BY <1>c, <1>h, <2>1 DEF Trying
  <2>2. ASSUME NEW j \in Checkers, NEW q, NEW h, NEW i, check'[j].pc # "idle",
               q = check'[j].pc, h = check'[j].hash, i = check'[j].incoming
        PROVE  CheckOK(q, h, i)'
    <3>1. CASE j = k
      BY <1>h, <1>m, <2>2, <3>1 DEF CheckOK
    <3>2. CASE j # k
      BY <1>h, <1>k, <2>2, <3>2
    <3> QED BY <3>1, <3>2
  <2>3. ASSUME NEW h \in Hashes, sent'[h] \in {"in_flight", "paid"} PROVE Debited(h)'
    BY <1>h, <1>m, <1>p, <2>3
  <2> QED BY <1>q, <2>1, <2>2, <2>3
<1>4. ASSUME NEW k \in Checkers, NEW p \in payments, CheckRead(k, p) PROVE CallsInv'
  <2> DEFINE new == [pc |-> "query", hash |-> p.hash, incoming |-> p.incoming]
  <2>1. /\ p.hash \in Polled /\ ~p.internal
        /\ check' = [check EXCEPT ![k] = new] /\ pay' = pay /\ sent' = sent
    BY <1>4 DEF CheckRead, node
  <2>2. new.pc = "query" /\ new.hash = p.hash /\ new.incoming = p.incoming
    OBVIOUS
  <2> HIDE DEF new
  <2>3. check'[k] = new /\ \A j \in Checkers \ {k} : check'[j] = check[j]
    BY <1>t, <2>1
  <2>4. CheckOK("query", p.hash, p.incoming)
    BY <1>i, <2>1 DEF CheckOK, TableInv, Outside
  <2> QED BY <1>h, <2>1, <2>2, <2>3, <2>4
<1>5. ASSUME NEW k \in Checkers, CheckQuery(k) PROVE CallsInv'
  <2> DEFINE g == check[k].hash
             in == check[k].incoming
             s == Status(g, in)
  <2>1. /\ check[k].pc = "query" /\ check' = [check EXCEPT ![k].pc = s]
        /\ pay' = pay /\ sent' = sent
    BY <1>5 DEF CheckQuery, node
  <2>2. s = "failed" => ~in /\ sent[g] = "failed"
    BY DEF Status
  <2>3. CheckOK("query", g, in)
    BY <1>p, <2>1
  <2>4. CheckOK(s, g, in)
    BY <2>2, <2>3 DEF CheckOK
  <2>5. check[k] \in Check
    BY <1>n, <2>1
  <2> HIDE DEF s
  <2>6. /\ check'[k].pc = s /\ check'[k].hash = g /\ check'[k].incoming = in
        /\ \A j \in Checkers \ {k} : check'[j] = check[j]
    BY <1>t, <2>1, <2>5 DEF Check
  <2> HIDE DEF g, in
  <2> QED BY <1>h, <2>1, <2>4, <2>6
<1>6. ASSUME NEW c \in Payers, PaySettle(c) \/ PayUnanswered(c) \/ PayFinish(c) PROVE CallsInv'
  <2>1. pay' = [pay EXCEPT ![c] = NoCall] /\ sent' = sent /\ check' = check
    BY <1>6 DEF PaySettle, PayUnanswered, PayFinish, node
  <2>2. \A d \in Payers : pay'[d] = pay[d] \/ pay'[d].pc = "idle"
    BY <1>n, <1>t, <2>1
  <2> QED BY <1>s, <2>1, <2>2
<1>7. ASSUME NEW k \in Checkers, CheckApply(k) PROVE CallsInv'
  <2>1. check' = [check EXCEPT ![k] = NoCheck] /\ sent' = sent /\ pay' = pay
    BY <1>7 DEF CheckApply, node
  <2>2. \A j \in Checkers : check'[j] = check[j] \/ check'[j].pc = "idle"
    BY <1>n, <1>t, <2>1
  <2> QED BY <1>s, <2>1, <2>2
<1>8. ASSUME Crash PROVE CallsInv'
  BY <1>8, <1>n, <1>s DEF Crash
<1>9. CASE UNCHANGED <<pay, check, sent>>
  BY <1>9, <1>s
<1>10. \/ UNCHANGED <<pay, check, sent>> \/ Crash
       \/ \E c \in Payers, w \in Wallets, h \in Hashes : PayBegin(c, w, h)
       \/ \E c \in Payers : PayStep(c)
       \/ \E k \in Checkers, p \in payments : CheckRead(k, p)
       \/ \E k \in Checkers : CheckStep(k)
       \/ \E h \in Hashes : NodeSends(h)
  BY DEF Next, vars, server, node, CreateInvoice, NodeReceives, Listen, InternalListener,
     InvoiceListener, Expire, CheckPending
<1> QED BY <1>1, <1>2, <1>3, <1>4, <1>5, <1>6, <1>7, <1>8, <1>9, <1>10 DEF PayStep, CheckStep

\* The inductive step: the table, the calls and the balances hold one another up.
LEMMA OrderlyStep ==
    ASSUME Orderly
    PROVE  TypeOK /\ TypeOK' /\ BackedInv /\ OrderlyInv /\ NonNegative /\ [Next]_vars
             => OrderlyInv' /\ NonNegative'
<1> SUFFICES ASSUME TypeOK, TypeOK', BackedInv, OrderlyInv, NonNegative, [Next]_vars
             PROVE  OrderlyInv' /\ NonNegative'
  OBVIOUS
<1>1. TableInv' /\ NonNegative'
  BY TableStep
<1>2. CallsInv'
  BY CallsStep
<1> QED BY <1>1, <1>2 DEF OrderlyInv

\* An empty table.
LEMMA OrderlyInit == Init => OrderlyInv /\ NonNegative
<1> SUFFICES ASSUME Init PROVE OrderlyInv /\ NonNegative
  OBVIOUS
<1>1. TableInv
  BY FS_EmptySet DEF Init, TableInv
<1>2. CallsInv
  BY DEF Init, CallsInv, Trying, NoCall, NoCheck
<1>3. ASSUME NEW w \in Wallets PROVE Balance(payments, w) >= 0
  <2> DEFINE f == [p \in payments |-> Contribution(p)]
  <2>1. {p \in payments : p.wallet = w} = {}
    BY DEF Init
  <2>2. Balance(payments, w) = Funds[w] + SumFunctionOnSet(f, {})
    BY <2>1 DEF Balance
  <2> HIDE DEF f
  <2>3. SumFunctionOnSet(f, {}) = 0 /\ Funds[w] \in Nat
    BY SumEmpty, AmountsAssumption
  <2> QED BY <2>2, <2>3
<1> QED BY <1>1, <1>2, <1>3 DEF OrderlyInv, NonNegative

\* The table, the calls and the balances.
LEMMA OrderlyAlways ==
    ASSUME Orderly
    PROVE  Spec => [](TypeOK /\ BackedInv /\ OrderlyInv /\ NonNegative)
<1>1. Init => TypeOK /\ BackedInv /\ OrderlyInv /\ NonNegative
  <2>1. Init => TypeOK
    BY AmountsAssumption DEF Init, TypeOK, Hashes
  <2>2. Init => BackedInv
    BY DEF Init, BackedInv, CreditBacked, NoCall, NoCheck, Hashes
  <2> QED BY <2>1, <2>2, OrderlyInit
<1>2. TypeOK /\ TypeOK' /\ BackedInv /\ OrderlyInv /\ NonNegative /\ [Next]_vars
        => OrderlyInv' /\ NonNegative'
  BY OrderlyStep
<1> QED BY <1>1, <1>2, TypeStep, BackedStep, PTL DEF Spec

\* However the payments of a wallet overlap, fail, are checked and settled, and whenever
\* the process dies, the wallet does not spend more than it has.
THEOREM BalancesHold == ASSUME Orderly PROVE Spec => []NonNegative
BY OrderlyAlways, PTL

\* A payment the node has made stays in the table, whatever becomes of its call.
THEOREM PaidStaysDebited == ASSUME Orderly PROVE Spec => []PaidIsDebited
<1>1. OrderlyInv => PaidIsDebited
  BY DEF OrderlyInv, CallsInv, PaidIsDebited, Debited, Outside, HasCheckingId
<1> QED BY <1>1, OrderlyAlways, PTL

-----------------------------------------------------------------------------
\* The invoices that were credited, and the wallets debited for one.
Credited == {p.hash : p \in {q \in payments : q.incoming /\ ~q.pending}}
Debits   == {<<p.wallet, p.hash>> : p \in {q \in payments : q.internal}}

\* No UPDATE and no DELETE takes a credit or an internal debit back, or makes a debit.
LEMMA BecomesFinal ==
    ASSUME TypeOK, TableInv, NEW m, NEW K, Becomes(payments', m, K)
    PROVE  /\ \A p \in payments : p.internal => p \in payments'
           /\ \A p \in payments' : p.internal => p \in payments
           /\ \A p \in payments : p.incoming /\ ~p.pending =>
                 \E q \in payments' : HasCheckingId(q, p.hash) /\ q.incoming /\ ~q.pending
           /\ Credited \subseteq Credited' /\ Debits' = Debits
<1>1. /\ K \subseteq payments /\ payments' = {m[p] : p \in K}
      /\ \A p \in K : Grown(p, m[p])
      /\ \A p \in payments : p \notin K => Gone(p)
  BY DEF Becomes
<1>2. ASSUME NEW p \in payments, p.internal PROVE p \in payments'
  <2>1. ~p.incoming
    BY <1>2 DEF TableInv
  <2>2. p \in K
    BY <1>1, <1>2, <2>1 DEF Gone, Outside
  <2> QED BY <1>1, <1>2, <2>2 DEF Grown
<1>3. ASSUME NEW q \in payments', q.internal PROVE q \in payments
  BY <1>1, <1>3 DEF Grown
<1>4. ASSUME NEW p \in payments, p.incoming, ~p.pending
      PROVE  \E q \in payments' : HasCheckingId(q, p.hash) /\ q.incoming /\ ~q.pending
  <2>1. p \in K /\ ~p.internal
    BY <1>1, <1>4 DEF Gone, Outside, TableInv
  <2>2. m[p] \in payments' /\ Grown(p, m[p])
    BY <1>1, <2>1
  <2> QED BY <1>4, <2>1, <2>2 DEF Grown, HasCheckingId
<1>5. Credited \subseteq Credited'
  BY <1>4 DEF Credited, HasCheckingId
<1>6. Debits' = Debits
  BY <1>2, <1>3 DEF Debits
<1> QED BY <1>2, <1>3, <1>4, <1>5, <1>6

\* A credited invoice is in the table with no other, pending row.
LEMMA OneInvoice ==
    ASSUME TypeOK, TableInv, NEW p \in payments, NEW q \in payments, p.incoming, q.incoming,
           p.hash = q.hash
    PROVE  p = q
<1>1. p.wallet = q.wallet /\ ~p.internal /\ ~q.internal
  BY DEF TableInv
<1>2. p.internal = q.internal
  BY <1>1 DEF TypeOK, Payment
<1> QED BY <1>1, <1>2 DEF TableInv

\* The settle call of a debit: only the step that settles the invoice, or a crash, ends it.
LEMMA SettleCalls ==
    ASSUME TypeOK, [Next]_vars, NEW c \in Payers, pay[c].pc = "settle", ~PaySettle(c), ~Crash
    PROVE  pay'[c] = pay[c]
<1>1. pay \in [Payers -> PayCall \cup {NoCall}]
  BY DEF TypeOK
<1>2. ASSUME NEW d \in Payers, PayStep(d) PROVE d # c /\ pay'[c] = pay[c]
  BY <1>1, <1>2 DEF PayStep, PaySettle, PaySend, PayUnanswered, PayFinish
<1>3. ASSUME NEW d \in Payers, NEW w \in Wallets, NEW h \in Hashes, PayBegin(d, w, h)
      PROVE  d # c /\ pay'[c] = pay[c]
  BY <1>1, <1>3 DEF PayBegin
<1>4. ASSUME NEW h \in Hashes, NodeSends(h) PROVE pay'[c] = pay[c]
  BY <1>4 DEF NodeSends, NodePays, NodeFails, Answered
<1> QED BY <1>2, <1>3, <1>4
        DEF Next, vars, server, node, CreateInvoice, NodeReceives, Listen, InternalListener,
            InvoiceListener, Expire, CheckRead, CheckStep, CheckQuery, CheckApply, CheckPending

\* A debit and its credit, over a step.
LEMMA SettlesStep ==
    ASSUME Orderly
    PROVE  TypeOK /\ OrderlyInv /\ InternalDebitSettles /\ [Next]_vars => InternalDebitSettles'
<1> SUFFICES ASSUME TypeOK, OrderlyInv, InternalDebitSettles, [Next]_vars
             PROVE  InternalDebitSettles'
  OBVIOUS
<1>i. TableInv /\ CallsInv
  BY DEF OrderlyInv
<1>t. pay \in [Payers -> PayCall \cup {NoCall}] /\ crashes \in Nat
  BY AmountsAssumption DEF TypeOK
<1>0. CASE Crash
  BY <1>0, <1>t DEF Crash, InternalDebitSettles
<1>1. crashes' = crashes \/ Crash
  BY DEF Next, vars, server, node, CreateInvoice, NodeReceives, Listen, InternalListener,
     InvoiceListener, Expire, NodeSends, NodePays, NodeFails, PayBegin, PayStep, PaySettle, PaySend,
     PayUnanswered, PayFinish, CheckRead, CheckStep, CheckQuery, CheckApply, CheckPending
<1>2. expired \subseteq expired'
  BY DEF Next, vars, server, node, CreateInvoice, NodeReceives, Listen, InternalListener,
     InvoiceListener, Expire, NodeSends, NodePays, NodeFails, PayBegin, PayStep, PaySettle, PaySend,
     PayUnanswered, PayFinish, CheckRead, CheckStep, CheckQuery, CheckApply, CheckPending, Crash
\* Every debit is an old one, or one whose call has just begun.
<1>3. ASSUME ~Crash, NEW b \in Payers, NEW w \in Wallets, NEW h \in Hashes, PayBegin(b, w, h)
      PROVE  InternalDebitSettles'
  <2> DEFINE row == NewPayment(w, h)
             call == [pc |-> IF row.internal THEN "settle" ELSE "send", wallet |-> w, hash |-> h]
  <2>1. /\ pay[b].pc = "idle" /\ pay' = [pay EXCEPT ![b] = call]
        /\ payments' = payments \cup {row} /\ row.hash = h
    BY <1>3 DEF PayBegin, NewPayment
  <2>2. row.internal => call.pc = "settle" /\ call.hash = h
    OBVIOUS
  <2> HIDE DEF row, call
  <2>3. pay'[b] = call /\ \A c \in Payers \ {b} : pay'[c] = pay[c]
    BY <1>t, <2>1
  <2>4. ASSUME NEW d \in payments', d.internal, crashes' = 0, d.hash \notin expired'
        PROVE  \/ \E p \in payments' : HasCheckingId(p, d.hash) /\ p.incoming /\ ~p.pending
               \/ \E c \in Payers : pay'[c].pc = "settle" /\ pay'[c].hash = d.hash
    <3>1. CASE d = row
      BY <2>1, <2>2, <2>3, <2>4, <3>1
    <3>2. CASE d \in payments
      <4>1. \/ \E p \in payments : HasCheckingId(p, d.hash) /\ p.incoming /\ ~p.pending
            \/ \E c \in Payers : pay[c].pc = "settle" /\ pay[c].hash = d.hash
        BY <1>1, <1>2, <1>3, <2>4, <3>2 DEF InternalDebitSettles
      <4> QED BY <2>1, <2>3, <4>1
    <3> QED BY <2>1, <2>4, <3>1, <3>2
  <2> QED BY <2>4 DEF InternalDebitSettles, HasCheckingId
<1>4. ASSUME ~Crash, ~\E c \in Payers, w \in Wallets, h \in Hashes : PayBegin(c, w, h)
      PROVE  InternalDebitSettles'
  <2>1. /\ \A p \in payments' : p.internal => p \in payments
        /\ \A p \in payments : p.incoming /\ ~p.pending =>
              \E q \in payments' : HasCheckingId(q, p.hash) /\ q.incoming /\ ~q.pending
    <3>1. CASE \E h \in Own : CreateInvoice(h)
      BY <1>i, <3>1 DEF CreateInvoice, HasCheckingId, TableInv
    <3>2. CASE ~\E h \in Own : CreateInvoice(h)
      <4>1. PICK m, K : Becomes(payments', m, K)
        BY <1>4, <1>i, <3>2, StepBecomes
      <4> QED BY <1>i, <4>1, BecomesFinal
    <3> QED BY <3>1, <3>2
  <2>2. ASSUME NEW d \in payments', d.internal, crashes' = 0, d.hash \notin expired'
        PROVE  \/ \E p \in payments' : HasCheckingId(p, d.hash) /\ p.incoming /\ ~p.pending
               \/ \E c \in Payers : pay'[c].pc = "settle" /\ pay'[c].hash = d.hash
    <3>1. d \in payments /\ crashes = 0 /\ d.hash \notin expired
      BY <1>1, <1>2, <1>4, <2>1, <2>2
    <3>2. CASE \E p \in payments : HasCheckingId(p, d.hash) /\ p.incoming /\ ~p.pending
      BY <2>1, <3>2 DEF HasCheckingId
    <3>3. ASSUME NEW c \in Payers, pay[c].pc = "settle", pay[c].hash = d.hash
          PROVE  \/ \E p \in payments' : HasCheckingId(p, d.hash) /\ p.incoming /\ ~p.pending
                 \/ pay'[c].pc = "settle" /\ pay'[c].hash = d.hash
      <4>1. CASE PaySettle(c)
        <5>1. payments' = MarkSettled(payments, d.hash)
          BY <3>3, <4>1 DEF PaySettle
        <5>2. PICK q \in payments : q.incoming /\ q.hash = d.hash
          BY <1>i, <2>2, <3>1 DEF TableInv
        <5>3. q \in Payment /\ HasCheckingId(q, d.hash)
          BY <1>i, <5>2 DEF TableInv, TypeOK, HasCheckingId
        <5> DEFINE r == [q EXCEPT !.pending = FALSE]
        <5>4. r \in payments' /\ HasCheckingId(r, d.hash) /\ r.incoming /\ ~r.pending
          BY <5>1, <5>2, <5>3 DEF MarkSettled, HasCheckingId, Payment
        <5> QED BY <5>4
      <4>2. CASE ~PaySettle(c)
        BY <1>4, <3>3, <4>2, SettleCalls
      <4> QED BY <4>1, <4>2
    <3> QED BY <2>2, <3>1, <3>2, <3>3 DEF InternalDebitSettles
  <2> QED BY <2>2 DEF InternalDebitSettles, HasCheckingId
<1> QED BY <1>0, <1>3, <1>4

\* The two transactions of an internal payment: a wallet that has paid an invoice of the
\* instance has paid its owner, or the call that will is still running.
THEOREM DebitsSettle == ASSUME Orderly PROVE Spec => []InternalDebitSettles
<1>1. Init => InternalDebitSettles
  BY DEF Init, InternalDebitSettles
<1> QED BY <1>1, SettlesStep, OrderlyAlways, PTL DEF Spec

\* What a step is for a holder of the wallets' money.
LEMMA CustodyStep ==
    ASSUME Orderly
    PROVE  TypeOK /\ TypeOK' /\ BackedInv /\ BackedInv' /\ OrderlyInv /\ [Next]_vars
             => [Custody!Next]_Custody!cvars
<1> SUFFICES ASSUME TypeOK, TypeOK', BackedInv, BackedInv', OrderlyInv, [Next]_vars
             PROVE  [Custody!Next]_Custody!cvars
  OBVIOUS
<1>i. TableInv /\ CallsInv
  BY DEF OrderlyInv
<1>c. /\ Custody!cvars = <<Credited, Debits, received>>
      /\ Custody!cvars' = <<Credited', Debits', received'>>
  BY DEF Custody!cvars, Credited, Debits
<1>s. ASSUME Credited' = Credited, Debits' = Debits, received' = received
      PROVE  [Custody!Next]_Custody!cvars
  BY <1>c, <1>s
<1>1. ASSUME NEW h \in Own, h \notin received, received' = received \cup {h}, payments' = payments
      PROVE  Custody!Next
  <2>1. Custody!Arrive(h)
    BY <1>1 DEF Custody!Arrive
  <2> QED BY <2>1 DEF Custody!Next
<1>2. ASSUME NEW h \in Own, NodeReceives(h) PROVE [Custody!Next]_Custody!cvars
  BY <1>1, <1>2 DEF NodeReceives, Payable, server
<1>3. ASSUME NEW h \in Hashes, NodeSends(h) PROVE [Custody!Next]_Custody!cvars
  <2>1. payments' = payments
    BY <1>3 DEF NodeSends, NodePays, NodeFails
  <2>2. CASE h \in Own /\ NodePays(h)
    BY <1>1, <2>1, <2>2 DEF NodePays, Payable
  <2>3. CASE ~(h \in Own /\ NodePays(h))
    <3>1. received' = received
      BY <1>3, <2>3 DEF NodeSends, NodePays, NodeFails
    <3>2. Credited' = Credited /\ Debits' = Debits
      BY <2>1 DEF Credited, Debits
    <3> QED BY <1>s, <3>1, <3>2
  <2> QED BY <2>2, <2>3
<1>4. ASSUME NEW h \in Own, CreateInvoice(h) PROVE [Custody!Next]_Custody!cvars
  <2> DEFINE row == [wallet |-> Owner[h], hash |-> h, internal |-> FALSE,
                     incoming |-> TRUE, fee |-> 0, pending |-> TRUE]
  <2>1. payments' = payments \cup {row} /\ received' = received /\ row.pending /\ ~row.internal
    BY <1>4 DEF CreateInvoice, node
  <2> HIDE DEF row
  <2>2. Credited' = Credited /\ Debits' = Debits
    BY <2>1 DEF Credited, Debits
  <2> QED BY <1>s, <2>1, <2>2
<1>5. ASSUME NEW b \in Payers, NEW w \in Wallets, NEW h \in Hashes, PayBegin(b, w, h)
      PROVE  [Custody!Next]_Custody!cvars
  <2> DEFINE row == NewPayment(w, h)
  <2>1. /\ payments' = payments \cup {row} /\ received' = received
        /\ ~row.incoming /\ row.hash = h /\ row.wallet = w /\ row.internal = CheckInternal(h)
        /\ ~\E p \in payments : p.wallet = w /\ p.hash = h /\ p.internal = row.internal
    BY <1>5 DEF PayBegin, NewPayment, node
  <2> HIDE DEF row
  <2>2. Credited' = Credited
    BY <2>1 DEF Credited
  <2>3. CASE ~row.internal
    <3>1. Debits' = Debits
      BY <2>1, <2>3 DEF Debits
    <3> QED BY <1>s, <2>1, <2>2, <3>1
  <2>4. CASE row.internal
    <3>1. PICK p \in payments : p.hash = h /\ p.incoming /\ p.pending
      BY <2>1, <2>4 DEF CheckInternal
    <3>2. h \in Own
      BY <3>1 DEF BackedInv
    <3>3. h \notin Credited
      BY <1>i, <3>1, OneInvoice DEF Credited
    <3>4. <<w, h>> \notin Debits
      <4>1. ASSUME NEW d \in payments, d.internal, <<d.wallet, d.hash>> = <<w, h>> PROVE FALSE
        <5>1. d.wallet = w /\ d.hash = h
          BY <4>1
        <5>2. d.internal = row.internal
          <6>1. d.internal \in BOOLEAN /\ row.internal \in BOOLEAN
            BY <2>1 DEF TypeOK, Payment, CheckInternal
          <6> QED BY <2>4, <4>1, <6>1
        <5> QED BY <2>1, <5>1, <5>2
      <4> QED BY <4>1 DEF Debits
    <3>5. Debits' = Debits \cup {<<w, h>>}
      BY <2>1, <2>4 DEF Debits
    <3>6. Custody!Debit(w, h)
      BY <2>1, <2>2, <3>3, <3>4, <3>5 DEF Custody!Debit, Credited, Debits
    <3> QED BY <3>2, <3>6 DEF Custody!Next
  <2> QED BY <2>3, <2>4
<1>6. ASSUME ~\E h \in Own : CreateInvoice(h), ~\E h \in Own : NodeReceives(h),
             ~\E h \in Hashes : NodeSends(h),
             ~\E c \in Payers, w \in Wallets, h \in Hashes : PayBegin(c, w, h)
      PROVE  [Custody!Next]_Custody!cvars
  <2>1. received' = received
    BY <1>6 DEF Next, vars, server, node, Listen, InternalListener, InvoiceListener, Expire,
       PayStep, PaySettle, PaySend, PayUnanswered, PayFinish, CheckRead, CheckStep, CheckQuery,
       CheckApply, CheckPending, Crash
  <2>2. PICK m, K : Becomes(payments', m, K)
    BY <1>6, <1>i, StepBecomes
  <2>3. Credited \subseteq Credited' /\ Debits' = Debits
    BY <1>i, <2>2, BecomesFinal
  <2>4. ASSUME NEW h \in Credited'
        PROVE  h \in Own /\ (h \in received \/ \E w \in Wallets : <<w, h>> \in Debits')
    <3>1. PICK q \in payments' : q.incoming /\ ~q.pending /\ q.hash = h
      BY DEF Credited
    <3>2. h \in Own
      BY <3>1 DEF BackedInv
    <3>3. h \in received' \/ \E d \in payments' : d.internal /\ d.hash = h
      BY <3>1 DEF BackedInv, CreditBacked
    <3>4. ASSUME NEW d \in payments', d.internal, d.hash = h
          PROVE  \E w \in Wallets : <<w, h>> \in Debits'
      <4>1. d.wallet \in Wallets
        BY DEF TypeOK, Payment
      <4>2. <<d.wallet, h>> \in Debits'
        BY <3>4 DEF Debits
      <4> QED BY <4>1, <4>2
    <3> QED BY <2>1, <3>2, <3>3, <3>4
  <2> DEFINE S == Credited' \ Credited
  <2>5. CASE S = {}
    <3>1. Credited' = Credited
      BY <2>3, <2>5
    <3> QED BY <1>s, <2>1, <2>3, <3>1
  <2>6. CASE S # {}
    <3>1. /\ S \in SUBSET Own /\ S \cap Credited = {} /\ Credited' = Credited \cup S
          /\ \A h \in S : h \in received \/ \E w \in Wallets : <<w, h>> \in Debits
      BY <2>3, <2>4
    <3> HIDE DEF S
    <3>2. ASSUME NEW T \in SUBSET Own, T = S PROVE Custody!Next
      <4>1. Custody!Credit(T)
        BY <2>1, <2>3, <2>6, <3>1, <3>2 DEF Custody!Credit, Credited, Debits
      <4> QED BY <4>1 DEF Custody!Next
    <3>3. Custody!Next
      BY <3>1, <3>2
    <3> QED BY <3>3
  <2> QED BY <2>5, <2>6
<1> QED BY <1>2, <1>3, <1>4, <1>5, <1>6

\* A credit is given once, after somebody has paid, and neither it nor the debit it was paid
\* with is ever undone: not by a failed payment, a status check, a round of the periodic check
\* or a restart.
THEOREM CustodyIsKept == ASSUME Orderly PROVE Spec => RefinesCustody
<1>1. Init => Custody!Init
  BY DEF Init, Custody!Init
<1> QED BY <1>1, CustodyStep, OrderlyAlways, PTL DEF Spec, RefinesCustody, Custody!Spec
=============================================================================
