------------------------------- MODULE MCCards -------------------------------
(* Small instances of Cards for TLC. *)
EXTENDS Cards, TLC

\* The accounts other than the creator's are interchangeable.
Symmetry == Permutations(Clients \ {Creator})
=============================================================================
