------------------------------- MODULE MCPages -------------------------------
(* Small instances of Pages for TLC. *)
EXTENDS Pages, TLC

CONSTANTS hall, mill

\* Player 1 has one card of the color, the other is still with the market.
MCDealt == << [deed |-> hall, owner |-> 1, level |-> 0] >>
=============================================================================
