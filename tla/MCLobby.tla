------------------------------- MODULE MCLobby -------------------------------
(* A small instance of Lobby for TLC. *)
EXTENDS Lobby, TLC

CONSTANTS ann, bob, cat, hal, len

\* Guests and names are interchangeable, and nothing depends on their order.
Interchangeable == Permutations(Guests) \cup Permutations(Names)
=============================================================================
