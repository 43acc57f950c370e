---------------------------- MODULE MCBulkLocks ----------------------------
(* One route's two departures, one of them short of seats, and a bulk lock  *)
(* over both that a booking draws on.                                       *)
EXTENDS BulkLocks, TLC

CONSTANTS b1, a1, a2

BulkBoat == (b1 :> 3)
NoDraws == [l \in LockIds |-> 0]
Seat(pax, draws) == [mode |-> "seat", pax |-> pax, boat |-> NoBoat, draws |-> draws, displaced |-> FALSE]
Drawing(l) == [j \in LockIds |-> IF j = l THEN 1 ELSE 0]
BulkTrips == {Seat(1, NoDraws), Seat(1, Drawing(1)), Seat(1, Drawing(3))}
Sellers == Permutations(Agents)
Chosen == {{1}, {1, 2}}
=============================================================================
