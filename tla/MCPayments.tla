----------------------------- MODULE MCPayments -----------------------------
(* Small instances of Payments for TLC. *)
EXTENDS Payments, TLC

CONSTANTS alice, bob, fare, bounty, remote

\* One invoice of each wallet, and an invoice of another node.
MCOwner == [h \in Own |-> IF h = fare THEN bob ELSE alice]
MCAmount == [h \in Hashes |-> 1]
\* Alice can pay for one thing at a time, with the fee reserve; Bob as well,
\* once he is credited.
MCFunds == [w \in Wallets |-> IF w = alice THEN 2 ELSE 1]
\* Alice can pay again, with the fee reserve, what she has paid for; Bob has only
\* what he is credited.
MCFundsAgain == [w \in Wallets |-> IF w = alice THEN 3 ELSE 0]

Symmetry == Permutations(Payers) \cup Permutations(Checkers)
=============================================================================
