------------------------------- MODULE MCBoard -------------------------------
(* Small instances of Board for TLC. *)
EXTENDS Board, TLC

CONSTANTS ann, bob, cat, hall, mill, dam

\* Two properties are owned, one of them three steps up the ladder; one is not.
MCDealt == << [deed |-> hall, owner |-> ann, level |-> 3, income |-> 0],
              [deed |-> mill, owner |-> bob, level |-> 0, income |-> 0] >>
=============================================================================
