----------------------------- MODULE SeatRules -----------------------------
(***************************************************************************)
(* The pure seat arithmetic both stores share: domain/capacity.ts (one     *)
(* route's pool on one day, and the check before a sale), the lock tree of *)
(* domain/seat-locks.ts, and the itinerary helpers of domain/operations.ts.*)
(* Nothing here has state: SeatPool gathers the rows and asks.             *)
(*                                                                         *)
(* A trip is [mode, pax, boat, draws, displaced]; a booking has at most    *)
(* one trip per route and day, so what it asks of a day is one trip.       *)
(***************************************************************************)
EXTENDS Totals, FiniteSetsExt

CONSTANTS
    Boats,      \* boats of the fleet
    NoBoat,     \* a seat trip, or a charter whose boat is unknown
    Licence,    \* [Boats -> Nat]: registered passengers of each boat
    LockIds,    \* seat locks, numbered in creation order
    NoLock,     \* a top-level lock has no parent
    Office      \* holder of a lock that any booking may draw on

ASSUME BoatAssumption == IsFiniteSet(Boats) /\ NoBoat \notin Boats /\ Licence \in [Boats -> Nat]
ASSUME LockAssumption == IsFiniteSet(LockIds) /\ LockIds \subseteq Nat /\ NoLock \notin LockIds

-----------------------------------------------------------------------------
(* Trips                                                                   *)

DrawnTotal(trip) == Total(trip.draws)
General(trip) == trip.pax - DrawnTotal(trip)

\* Seats drawn from locks older than l: draws are kept sorted by lock.
DrawnBefore(trip, l) == Total([j \in {i \in LockIds : i < l} |-> trip.draws[j]])

\* A smaller head count keeps the lock seats and drops the general ones first.
ClampDraws(trip, pax) ==
    [l \in LockIds |-> Least(trip.draws[l], Clip(pax - DrawnBefore(trip, l)))]

\* Named passengers leaving give their lock seats back first, lowest lock first.
ReturnDrawsFirst(trip, count) ==
    [l \in LockIds |-> Clip(trip.draws[l] - Clip(count - DrawnBefore(trip, l)))]

\* Whether an itinerary asks the pool for anything the old one did not hold.
ClaimsMoreSeats(old, new) ==
    \E d \in DOMAIN new :
        \/ d \notin DOMAIN old
        \/ old[d].mode # new[d].mode \/ old[d].boat # new[d].boat
        \/ new[d].pax > old[d].pax \/ General(new[d]) > General(old[d])
        \/ \E l \in LockIds : new[d].draws[l] > old[d].draws[l]

-----------------------------------------------------------------------------
(* A lock and its sub-groups, in numbers                                   *)

(* node[l] is [pax, pending, drawn, released]; pax is asked less released. *)
LockTree(top, kids, node) ==
    LET n == node[top]
        own(k) == IF node[k].released THEN 0 ELSE Clip(node[k].pax - node[k].drawn)
        used == n.drawn + Total([k \in kids |-> node[k].drawn])
        pend == Clip(Least(n.pending, n.pax - used))
        held == Clip(n.pax - used - pend)
        allocated == Total([k \in kids |-> node[k].pax])
        unallocated == Clip(n.pax - allocated)
        room == Clip(unallocated - n.drawn)
        ahead(k) == IF pend > 0 THEN Total([j \in {i \in kids : i < k} |-> own(j)]) ELSE 0
        unsplit == IF pend > 0 THEN Clip(held - Total([k \in kids |-> own(k)])) ELSE held
    IN  [used |-> used, pend |-> pend, held |-> held, allocated |-> allocated,
         unallocated |-> unallocated, room |-> room,
         remaining |-> [k \in kids \cup {top} |->
             IF k = top THEN Least(room, unsplit) ELSE Least(own(k), Clip(held - ahead(k)))]]

KidsIn(rows, top) == {k \in DOMAIN rows : rows[k].parent = top}
TopOf(rows, l) == IF rows[l].parent = NoLock THEN l ELSE rows[l].parent

NodesOf(rows, drawn) ==
    [l \in DOMAIN rows |->
        [pax |-> rows[l].pax - rows[l].released, pending |-> rows[l].pending,
         drawn |-> drawn[l], released |-> rows[l].status = "released"]]

TreeOf(rows, drawn, top) == LockTree(top, KidsIn(rows, top), NodesOf(rows, drawn))

-----------------------------------------------------------------------------
(* One route's seat pool on one day                                        *)

Sellable(b, capacity) == Least(capacity, Licence[b])

(* deps: capacity of each boat deployed; trips: the day's trip of every    *)
(* booking that holds seats; boatsOf: the boats each of them takes whole   *)
(* if it is a charter (charterBoatsOf); held: boats held whole; rows: the  *)
(* holding locks of the day with their sub-groups; drawn: seats drawn from *)
(* each lock.                                                              *)
DayCapacity(deps, trips, boatsOf, held, rows, drawn, land) ==
    LET charters == {x \in DOMAIN trips : trips[x].mode = "charter"}
        taken == (held \cup UNION {boatsOf[x] : x \in charters}) \cap DOMAIN deps
        open == DOMAIN deps \ taken
        tops == {l \in DOMAIN rows : rows[l].parent = NoLock}
        tree == [t \in tops |-> TreeOf(rows, drawn, t)]
        locked == Total([t \in tops |-> tree[t].held])
        booked == Total([x \in DOMAIN trips \ charters |-> trips[x].pax])
        unplaced == Total([x \in {y \in charters : boatsOf[y] \cap DOMAIN deps = {}} |-> trips[x].pax])
        seats == Total([b \in open |-> Sellable(b, deps[b])])
        licensed == Total([b \in open |-> Licence[b]])
        pooled == ~land /\ DOMAIN deps # {}
    IN  [pooled |-> pooled, deps |-> deps, open |-> open, locked |-> locked, rows |-> rows,
         available |-> IF pooled THEN seats - unplaced - booked - locked ELSE 0,
         licensedFree |-> IF pooled THEN licensed - unplaced - booked ELSE 0,
         remaining |-> [l \in DOMAIN rows |-> tree[TopOf(rows, l)].remaining[l]]]

SellsUngated(day) == ~day.pooled

\* Free seats a lock could hold on a pooled day, counting what it holds there already.
FreeForLock(day, ownHeld) == Clip(day.available + ownHeld)

\* The seats a lock would still need beyond what is free; 0 on a day sold ungated.
ShortBy(day, ownHeld, want) ==
    IF SellsUngated(day) THEN 0 ELSE Clip(Clip(want) - FreeForLock(day, ownHeld))

-----------------------------------------------------------------------------
(* The check before a sale                                                 *)

\* Mutant: any agent may draw on a lock.
DrawableByAnyone(day, trip, agent) ==
    \A l \in {j \in LockIds : trip.draws[j] > 0} :
        l \in DOMAIN day.rows /\ trip.draws[l] <= day.remaining[l]

(* Each lock is checked on its own: holding that day, the agent's own or   *)
(* the office's, and with that many seats left.                            *)
Drawable(day, trip, agent) ==
    \A l \in {j \in LockIds : trip.draws[j] > 0} :
        /\ l \in DOMAIN day.rows
        /\ day.rows[l].holder \in {Office, agent}
        /\ trip.draws[l] <= day.remaining[l]

\* Mutant: a boat already chartered can be taken again.
BoatTakenTwice(day, trip) ==
    /\ trip.boat \in DOMAIN day.deps
    /\ trip.pax <= Licence[trip.boat]

\* A charter needs its boat deployed, free, and licensed for its passengers.
BoatCanBeTaken(day, trip) ==
    /\ trip.boat \in day.open
    /\ trip.pax <= Licence[trip.boat]

TakenSeats(day, trip) ==
    IF trip.boat = NoBoat THEN trip.pax ELSE Sellable(trip.boat, day.deps[trip.boat])

\* Mutant: a charter takes its boat's seats though they are sold.
WeighCharterByBoat(day, trip, anyway) ==
    IF trip.boat = NoBoat \/ BoatCanBeTaken(day, trip) THEN "fits" ELSE "refused"

(* weighDay: "fits", "over" (past the allotment, within the licence),      *)
(* "displaced" (a charter that takes seats already sold, allowed only when *)
(* the caller said so) or "refused".                                       *)
WeighCharter(day, trip, anyway) ==
    IF trip.boat # NoBoat /\ ~BoatCanBeTaken(day, trip) THEN "refused"
    ELSE LET taken == TakenSeats(day, trip)
         IN  IF SellsUngated(day) \/ taken = 0 \/ taken <= day.available THEN "fits"
             ELSE IF trip.boat # NoBoat /\ anyway THEN "displaced" ELSE "refused"

\* Mutant: seats past the allotment are sold as if they were free.
WeighSeatsByLicence(day, trip, agent) ==
    IF Drawable(day, trip, agent) /\ (SellsUngated(day) \/ General(trip) <= day.licensedFree)
    THEN "fits" ELSE "refused"

WeighSeats(day, trip, agent) ==
    LET need == Clip(General(trip))
    IN  IF ~Drawable(day, trip, agent) THEN "refused"
        ELSE IF SellsUngated(day) \/ need = 0 \/ need <= day.available THEN "fits"
        ELSE IF need <= day.available + day.locked \/ need > day.licensedFree THEN "refused" ELSE "over"

WeighDay(day, trip, agent, anyway) ==
    IF trip.mode = "charter" THEN WeighCharter(day, trip, anyway) ELSE WeighSeats(day, trip, agent)

\* assertDayFits, as a reschedule asks it: over the allotment is refused.
AssertDayFits(day, trip, agent) == WeighDay(day, trip, agent, FALSE) = "fits"
=============================================================================
