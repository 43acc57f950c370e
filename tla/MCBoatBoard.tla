---------------------------- MODULE MCBoatBoard ----------------------------
(* Small instances of BoatBoard: the trips clients send, the licences, the  *)
(* splits, and the symmetry of the ids.                                    *)
EXTENDS BoatBoard, TLC

CONSTANTS b1, b2

Licences == (b1 :> 2 @@ b2 :> 1)
Capacities == (b1 :> 1 @@ b2 :> 1)
Seat(pax) == [mode |-> "seat", pax |-> pax, boat |-> NoBoat]
Charter(boat, pax) == [mode |-> "charter", pax |-> pax, boat |-> boat]

SeatsOrBoat == {Seat(1), Charter(b1, 2)}
\* A passenger each, or all on the other boat.
SplitOver == {b1 :> 1 @@ b2 :> 1, b1 :> 0 @@ b2 :> 2}

Symmetric == Permutations(Routes) \cup Permutations(Bookings)
=============================================================================
