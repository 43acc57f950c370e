----------------------------- MODULE MCSeatPool -----------------------------
(* Small instances of SeatPool: the trips clients send, the boats and their *)
(* licences, and the symmetry of bookings and agents.                       *)
EXTENDS SeatPool, TLC

CONSTANTS b1, b2

OneBoat == (b1 :> 3)
TwoBoats == (b1 :> 3 @@ b2 :> 2)

NoDraws == [l \in LockIds |-> 0]
Seat(pax, draws) == [mode |-> "seat", pax |-> pax, boat |-> NoBoat, draws |-> draws, displaced |-> FALSE]
Charter(boat, pax) == [mode |-> "charter", pax |-> pax, boat |-> boat, draws |-> NoDraws, displaced |-> FALSE]

Drawing(ls) == [l \in LockIds |-> IF l \in ls THEN 1 ELSE 0]
LockTrips == {Seat(1, NoDraws), Seat(1, Drawing({1})), Seat(1, Drawing({2})), Seat(2, Drawing({1, 2}))}
AgentTrips == {Seat(1, NoDraws), Seat(2, Drawing({1}))}
BothGroups == {Seat(2, Drawing({2, 3}))}
OneBoatTrips == {Seat(1, NoDraws), Charter(b1, 1)}
MixedTrips == {Seat(1, NoDraws), Seat(2, NoDraws), Charter(b1, 1), Charter(b2, 2)}

Symmetric == Permutations(Bookings)
=============================================================================
