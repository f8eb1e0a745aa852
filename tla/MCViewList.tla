------------------------------ MODULE MCViewList ------------------------------
(* Two players, or a player and a monster, on a line of three places: in   *)
(* the range that wakes the monster, in the view only, and out of it.      *)
EXTENDS ViewList

CONSTANTS p1, p2, m1

MCPlayers == {p1, p2}
MCNpcs    == {m1}
MCPlaces  == 0..2
MCCrowds  == {{p1, p2}, {p1, m1}}
MCLeavers == {p2, m1}
=============================================================================
