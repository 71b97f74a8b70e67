----------------------------- MODULE TurnOrder -----------------------------
(***************************************************************************)
(* What the game promises about the turn, without requests or database     *)
(* accesses: players join while there is room, one of them is drawn to     *)
(* begin, the turn passes from its holder to the next active player in     *)
(* joining order, and a player is only deactivated once the turn is with   *)
(* somebody else.                                                          *)
(***************************************************************************)
EXTENDS Naturals, Sequences, FiniteSets

CONSTANT MaxPlayers     \* games.max_players_count

VARIABLES
    roster,     \* the players in joining order
    started,
    holder      \* the index that has the turn, 0 before the start

tvars == <<roster, started, holder>>

Active == {i \in DOMAIN roster : roster[i].active}

\* Position j is the next active one after i, in the circle of the roster.
Succeeds(i, j) ==
    /\ j \in Active
    /\ IF \E k \in Active : k > i
       THEN j > i /\ \A k \in Active : k > i => j <= k
       ELSE \A k \in Active : j <= k

Init == /\ roster = <<[player_index |-> 1, active |-> TRUE]>>
        /\ started = FALSE
        /\ holder = 0

\* A new index, one more than the number of players, and never over the limit.
Join == /\ ~started
        /\ Cardinality(Active) < MaxPlayers
        /\ LET index == Cardinality(Active) + 1
           IN  /\ \A i \in DOMAIN roster : roster[i].player_index # index
               /\ roster' = Append(roster, [player_index |-> index, active |-> TRUE])
        /\ UNCHANGED <<started, holder>>

\* The draw of the first player.
Start == /\ ~started
         /\ started' = TRUE
         /\ \E i \in Active : holder' = roster[i].player_index
         /\ UNCHANGED roster

Pass == /\ started
        /\ \E i, j \in Active : /\ roster[i].player_index = holder
                                /\ Succeeds(i, j)
                                /\ holder' = roster[j].player_index
        /\ UNCHANGED <<roster, started>>

Deactivate(i) ==
    /\ started
    /\ i \in Active
    /\ roster[i].player_index # holder
    /\ roster' = [roster EXCEPT ![i].active = FALSE]
    /\ UNCHANGED <<started, holder>>

Next == Join \/ Start \/ Pass \/ \E i \in DOMAIN roster : Deactivate(i)

Spec == Init /\ [][Next]_tvars
=============================================================================
