------------------------------ MODULE Custody ------------------------------
(***************************************************************************)
(* What an instance that keeps the wallets of several accounts promises    *)
(* about the invoices it creates: an invoice is credited at most once,     *)
(* after it was paid, over Lightning or by a wallet of the instance, and   *)
(* neither the credit nor the debit of that wallet is ever undone.         *)
(***************************************************************************)
CONSTANTS Own, Wallets

VARIABLES
    credited,   \* invoices whose amount their owner may spend
    debited,    \* <<wallet, invoice>>: paid from a wallet of the instance
    arrived     \* invoices paid over Lightning

cvars == <<credited, debited, arrived>>

Init == credited = {} /\ debited = {} /\ arrived = {}

Debit(w, h) ==
    /\ h \notin credited
    /\ <<w, h>> \notin debited
    /\ debited' = debited \cup {<<w, h>>}
    /\ UNCHANGED <<credited, arrived>>

Arrive(h) ==
    /\ h \notin arrived
    /\ arrived' = arrived \cup {h}
    /\ UNCHANGED <<credited, debited>>

\* Several at once: one round of a periodic check.
Credit(S) ==
    /\ S # {} /\ S \cap credited = {}
    /\ \A h \in S : h \in arrived \/ \E w \in Wallets : <<w, h>> \in debited
    /\ credited' = credited \cup S
    /\ UNCHANGED <<debited, arrived>>

Next ==
    \/ \E w \in Wallets, h \in Own : Debit(w, h)
    \/ \E h \in Own : Arrive(h)
    \/ \E S \in SUBSET Own : Credit(S)

Spec == Init /\ [][Next]_cvars
=============================================================================
