------------------------------- MODULE MCTrips -------------------------------
(* Small instances of Trips for TLC: u1 rides with u2, or with u2 or u3.   *)
EXTENDS Trips, TLC

CONSTANTS u1, u2, u3

MCBoardings == {<<u1, u2>>}
MCChoice == {<<u1, u2>>, <<u1, u3>>}
MCOpening == [u \in Users |-> IF u = u1 THEN 2 ELSE 1]
MCQuotes == { [fare |-> 2, share |-> 1], [fare |-> 3, share |-> 3] }

Symmetry == Permutations(Calls) \cup Permutations(Trips)
=============================================================================
