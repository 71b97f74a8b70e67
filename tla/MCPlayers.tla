----------------------------- MODULE MCPlayers -----------------------------
(* Small instances of Players for TLC. *)
EXTENDS Players, TLC

\* Requests and the accounts other than the creator's are interchangeable.
Symmetry == Permutations(Requests) \cup Permutations(Clients \ {Creator})
=============================================================================
