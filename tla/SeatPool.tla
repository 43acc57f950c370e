------------------------------ MODULE SeatPool ------------------------------
(***************************************************************************)
(* The seat pool of one route: bookings, seat locks with their sub-groups, *)
(* and the boats deployed each day, with every command that moves seats.   *)
(* Each command is one transaction, so one action: the stores run them one *)
(* after another (OperationsStore.transaction) or serializably             *)
(* (PostgresOperationsStore.transaction, modelled in TxGate).              *)
(*                                                                         *)
(* Bookings here carry no free passengers and no discount, so the only     *)
(* approval they wait for is the over-allotment one; BookingApproval       *)
(* models the three approvals together.                                    *)
(***************************************************************************)
EXTENDS SeatRules

CONSTANTS
    Bookings,     \* booking ids
    Agents,       \* agents that book and hold locks
    Days,         \* the route's service dates, as consecutive numbers
    Land,         \* days of a land route, which has no seat pool
    TripChoices,  \* the trips clients send
    Intents,      \* the intents clients send with a new booking
    Capacities,   \* the capacities a boat is deployed with
    Movable,      \* the boats put on and taken off during a run; the others stay
    Holders,      \* the holders locks are made for
    MaxLockPax,   \* bound: seats asked of one lock
    MaxKids,      \* bound: sub-groups of one lock
    Relapse       \* whether an edit of a lock's expiry date is explored

\* "cancelled" stands for cancelled_weather too: both give the seats back the same way.
Statuses == {"quote", "confirmed", "pending_approval", "rejected", "cancelled"}
Releasing == {"cancelled", "rejected"}
Draws == [LockIds -> 0..MaxLockPax]
Trips == [mode : {"seat", "charter"}, pax : Nat, boat : Boats \cup {NoBoat}, draws : Draws, displaced : BOOLEAN]
NoTarget == "none"
\* The over-allotment approval; one rejected or replaced is read by nothing, so it is "none".
Approvals == [state : {"none", "pending", "approved"}, target : {"quote", "confirmed", NoTarget}]
NoBooking == [status |-> "absent"]
LockRows == [day : Days, pax : Nat, pending : Nat, released : Nat, holder : Agents \cup {Office},
             status : {"active", "released"}, lapsed : BOOLEAN, parent : LockIds \cup {NoLock}]

ASSUME PoolAssumption ==
    /\ Days \subseteq Nat /\ IsFiniteSet(Days) /\ Land \subseteq Days
    /\ IsFiniteSet(Bookings)
    /\ Intents \subseteq {"quote", "confirm"}
    /\ TripChoices \subseteq {t \in Trips :
          /\ (t.mode = "charter") = (t.boat # NoBoat)
          /\ t.mode = "charter" => \A l \in LockIds : t.draws[l] = 0
          /\ DrawnTotal(t) <= t.pax /\ ~t.displaced}
    /\ Capacities \subseteq Nat /\ Movable \subseteq Boats
    /\ Holders \subseteq Agents \cup {Office} /\ Office \notin Agents
    /\ MaxLockPax \in Nat /\ MaxKids \in Nat /\ Relapse \in BOOLEAN

VARIABLES
    booking,    \* [Bookings -> booking record or NoBooking]
    lock,       \* the lock rows made so far, by id
    deployed    \* [Days -> [boats deployed -> capacity]]

vars == <<booking, lock, deployed>>

-----------------------------------------------------------------------------
(* Reads                                                                   *)

Exists(b) == booking[b].status # "absent"

\* Waiting over the allotment: the booking has asked for seats it was not given.
WaitsForSeats(bk) == bk.status = "pending_approval" /\ bk.approval.state = "pending"

HoldsSeats(bk) == bk.status \notin Releasing \cup {"absent"} /\ ~WaitsForSeats(bk)

(* The reads take the rows they read, so that a property can read the rows *)
(* of the next state; the actions read them as they stand (Day, Tree).     *)

\* The bookings a read counts: those holding seats, the one being edited aside.
Counted(bks, except) == {b \in Bookings \ except : HoldsSeats(bks[b])}

DrawnBy(bk, l) == Total([d \in DOMAIN bk.trips |-> bk.trips[d].draws[l]])

DrawnByLock(bks, except) ==
    [l \in LockIds |-> Total([b \in Counted(bks, except) |-> DrawnBy(bks[b], l)])]

IsHolding(lks, l) == lks[l].status = "active" /\ ~lks[l].lapsed

PoolLocks(lks, d) ==
    LET ids == {l \in DOMAIN lks : lks[l].day = d /\ IsHolding(lks, TopOf(lks, l))}
    IN  [l \in ids |-> lks[l]]

TripsOn(bks, d, except) ==
    LET here == {b \in Counted(bks, except) : d \in DOMAIN bks[b].trips}
    IN  [b \in here |-> bks[b].trips[d]]

DayOf(bks, lks, deps, d, except) ==
    LET trips == TripsOn(bks, d, except)
    IN  DayCapacity(deps[d], trips, [b \in DOMAIN trips |-> {trips[b].boat}], {},
                    PoolLocks(lks, d), DrawnByLock(bks, except), d \in Land)

Day(d, except) == DayOf(booking, lock, deployed, d, except)

\* The tree of a top-level lock, whether it holds or not.
Tree(top) == TreeOf(lock, DrawnByLock(booking, {}), top)
Drawn(l) == DrawnByLock(booking, {})[l]

-----------------------------------------------------------------------------
(* Weighing an itinerary                                                   *)

(* demandByDay: what a booking command reads of every day, its own booking *)
(* left out. The command's other inputs are weighed against it.            *)
Seen(b) == [d \in Days |-> Day(d, {b})]

\* weighTrips: every day of the itinerary.
Weighed(seen, trips, agent, anyway) ==
    [d \in DOMAIN trips |-> WeighDay(seen[d], trips[d], agent, anyway)]

Refused(weights) == \E d \in DOMAIN weights : weights[d] = "refused"
OverAllotment(weights) == \E d \in DOMAIN weights : weights[d] = "over"

\* stampDisplaced: ops' acknowledgement on each charter that took a sold boat.
Stamped(trips, weights) ==
    [d \in DOMAIN trips |-> [trips[d] EXCEPT !.displaced = @ \/ weights[d] = "displaced"]]

\* planTrips: the acknowledgement stays while the trip keeps that boat on that day.
Planned(old, trips) ==
    [d \in DOMAIN trips |-> [trips[d] EXCEPT !.displaced =
        /\ trips[d].mode = "charter" /\ d \in DOMAIN old /\ old[d].mode = "charter"
        /\ old[d].boat = trips[d].boat /\ old[d].displaced]]

Unweighed(trips) == [d \in DOMAIN trips |-> "fits"]

Asking(target) == [state |-> "pending", target |-> target]
NotAsked == [state |-> "none", target |-> NoTarget]
Granted == [state |-> "approved", target |-> NoTarget]
Replaced(approval) == IF approval.state = "pending" THEN NotAsked ELSE approval

\* Itineraries a client can send: a draw names a lock of the table (a foreign key).
Itineraries ==
    {t \in UNION {[D -> TripChoices] : D \in (SUBSET Days) \ {{}}} :
        \A d \in DOMAIN t : {l \in LockIds : t[d].draws[l] > 0} \subseteq DOMAIN lock}

-----------------------------------------------------------------------------
(* Bookings                                                                *)

(* POST /v1/bookings: weighed first, then decided. Over the allotment the  *)
(* booking waits, remembering where it would otherwise have gone.          *)
CreateBooking(b, seen, intent, agent, trips, anyway) ==
    LET weights == Weighed(seen, trips, agent, anyway)
        base == IF intent = "quote" THEN "quote" ELSE "confirmed"
        over == OverAllotment(weights)
    IN  /\ ~Exists(b)
        /\ ~Refused(weights)
        /\ booking' = [booking EXCEPT ![b] =
              [status |-> IF over THEN "pending_approval" ELSE base, agent |-> agent,
               trips |-> Stamped(Planned(<<>>, trips), weights),
               approval |-> IF over THEN Asking(base) ELSE NotAsked]]
        /\ UNCHANGED <<lock, deployed>>

\* Where a booking that now waits was going, or goes on going.
TargetOf(bk) == IF WaitsForSeats(bk) THEN bk.approval.target
                ELSE IF bk.status = "pending_approval" THEN "confirmed" ELSE bk.status

(* PATCH /v1/bookings/{id} with an itinerary. A booking holding its seats  *)
(* is weighed only when it asks for more; one that waits, always; a closed *)
(* one (edit_anyway) never.                                                *)
AmendBooking(b, seen, trips, anyway) ==
    LET bk == booking[b]
        planned == Planned(bk.trips, trips)
        reweighs == IF HoldsSeats(bk) THEN ClaimsMoreSeats(bk.trips, trips)
                    ELSE bk.status = "pending_approval"
        weights == IF reweighs THEN Weighed(seen, trips, bk.agent, anyway) ELSE Unweighed(trips)
        over == OverAllotment(weights)
        fits == reweighs /\ ~over /\ WaitsForSeats(bk)
    IN  /\ Exists(b)
        /\ ~Refused(weights)
        /\ booking' = [booking EXCEPT ![b] = [bk EXCEPT
              !.trips = Stamped(planned, weights),
              !.status = IF over THEN "pending_approval" ELSE IF fits THEN TargetOf(bk) ELSE bk.status,
              !.approval = IF over THEN Asking(TargetOf(bk))
                           ELSE IF fits THEN Replaced(bk.approval) ELSE bk.approval]]
        /\ UNCHANGED <<lock, deployed>>

\* Open: neither cancelled nor rejected (nothing ever completes a booking).
IsOpen(bk) == bk.status \notin Releasing \cup {"absent"}

(* /cancel and /cancel-weather. An approval still waiting is left as it is. *)
CancelBooking(b) ==
    /\ IsOpen(booking[b])
    /\ booking' = [booking EXCEPT ![b].status = "cancelled"]
    /\ UNCHANGED <<lock, deployed>>

(* /confirm: a quote already holds its seats, so nothing is weighed.       *)
Confirm(b) ==
    /\ booking[b].status = "quote"
    /\ booking' = [booking EXCEPT ![b].status = "confirmed"]
    /\ UNCHANGED <<lock, deployed>>

(* /unconfirm: back to a quote. A booking that waited is weighed again as  *)
(* the quote, and waits on if it is still over.                            *)
Unconfirm(b, seen) ==
    LET bk == booking[b]
        weights == IF WaitsForSeats(bk) THEN Weighed(seen, bk.trips, bk.agent, FALSE)
                   ELSE Unweighed(bk.trips)
        over == OverAllotment(weights)
    IN  /\ bk.status \in {"confirmed", "pending_approval"}
        /\ ~Refused(weights)
        /\ booking' = [booking EXCEPT ![b] = [bk EXCEPT
              !.status = IF over THEN "pending_approval" ELSE "quote",
              !.approval = IF over THEN Asking("quote") ELSE Replaced(bk.approval)]]
        /\ UNCHANGED <<lock, deployed>>

(* /approve and /reject. Approving gives the booking its seats, past the   *)
(* licence if need be: nothing is weighed, only a warning is answered.     *)
Approve(b) ==
    /\ WaitsForSeats(booking[b])
    /\ booking' = [booking EXCEPT ![b] =
          [booking[b] EXCEPT !.status = booking[b].approval.target, !.approval = Granted]]
    /\ UNCHANGED <<lock, deployed>>

Reject(b) ==
    /\ WaitsForSeats(booking[b])
    /\ booking' = [booking EXCEPT ![b] =
          [booking[b] EXCEPT !.status = "rejected", !.approval = NotAsked]]
    /\ UNCHANGED <<lock, deployed>>

-----------------------------------------------------------------------------
(* Restore, partial cancel, reschedule                                     *)

BoatTaken(day, trip) ==
    /\ trip.mode = "charter" /\ trip.boat \in DOMAIN day.deps
    /\ trip.boat \notin day.open

(* restoreTrips: a charter whose boat was taken loses it; lock seats come  *)
(* back as far as each lock has any left on the first day that draws it.   *)
RestoredTrips(b, seen) ==
    LET trips == booking[b].trips
        drawing == {d \in DOMAIN trips : ~BoatTaken(seen[d], trips[d])}
        ahead(d, l) == {e \in drawing : e < d /\ trips[e].draws[l] > 0}
        left(d, l) == LET first == Min(ahead(d, l) \cup {d})
                      IN  IF l \in DOMAIN seen[first].remaining THEN seen[first].remaining[l] ELSE 0
        spent(d, l) == Total([e \in ahead(d, l) |-> trips[e].draws[l]])
    IN  [d \in DOMAIN trips |->
            IF d \notin drawing THEN [trips[d] EXCEPT !.boat = NoBoat]
            ELSE [trips[d] EXCEPT !.draws =
                    [l \in LockIds |-> Least(@[l], Clip(left(d, l) - spent(d, l)))]]]

(* /restore: a booking that gave its seats back is confirmed again, always.*)
RestoreBooking(b, seen) ==
    /\ booking[b].status \in Releasing
    /\ booking' = [booking EXCEPT ![b] = [booking[b] EXCEPT
          !.status = "confirmed", !.trips = Planned(booking[b].trips, RestoredTrips(b, seen))]]
    /\ UNCHANGED <<lock, deployed>>

\* A booking's trip on one day written anew, nothing weighed.
TripWritten(b, d, trip) ==
    /\ booking' = [booking EXCEPT ![b].trips = Planned(booking[b].trips, [booking[b].trips EXCEPT ![d] = trip])]
    /\ UNCHANGED <<lock, deployed>>

\* Mutant: the lock seats go back, the head count stays.
ShrunkDraws(b, d, pax, draws) == TripWritten(b, d, [booking[b].trips[d] EXCEPT !.draws = draws])

\* A partial cancel writes fewer passengers and the draws left on one trip.
Shrunk(b, d, pax, draws) == TripWritten(b, d, [booking[b].trips[d] EXCEPT !.pax = pax, !.draws = draws])

(* /partial-cancel { pax_to_cancel }: a count off a single-trip booking.   *)
PartialCancelCount(b, count) ==
    /\ IsOpen(booking[b])
    /\ \E d \in DOMAIN booking[b].trips :
          LET trip == booking[b].trips[d] IN
          /\ DOMAIN booking[b].trips = {d}
          /\ count \in 1..trip.pax
          /\ Shrunk(b, d, trip.pax - count, ClampDraws(trip, trip.pax - count))

(* /partial-cancel by passenger: one trip loses some, never all of them.   *)
PartialCancelRecord(b, d, count) ==
    /\ IsOpen(booking[b])
    /\ d \in DOMAIN booking[b].trips
    /\ LET trip == booking[b].trips[d] IN
          /\ count \in 1..trip.pax - 1
          /\ Shrunk(b, d, trip.pax - count, ReturnDrawsFirst(trip, count))

(* /reschedule: the trip on one day moves to another, its lock draws       *)
(* returned; every day of the itinerary must fit. A waiting booking's      *)
(* status and approval are left as they are.                               *)
Reschedule(b, seen, from, to) ==
    LET bk == booking[b]
        move(d) == IF d = to THEN [bk.trips[from] EXCEPT !.draws = [l \in LockIds |-> 0]] ELSE bk.trips[d]
        trips == [d \in (DOMAIN bk.trips \ {from}) \cup {to} |-> move(d)]
    IN  /\ IsOpen(bk)
        /\ from \in DOMAIN bk.trips /\ to \in Days \ DOMAIN bk.trips
        /\ \A d \in DOMAIN trips : AssertDayFits(seen[d], trips[d], bk.agent)
        /\ booking' = [booking EXCEPT ![b].trips = Planned(@, trips)]
        /\ UNCHANGED <<lock, deployed>>

-----------------------------------------------------------------------------
(* Seat locks                                                              *)

Kids(top) == KidsIn(lock, top)
IsTop(l) == l \in DOMAIN lock /\ lock[l].parent = NoLock
NextLockId == {l \in LockIds \ DOMAIN lock : \A j \in LockIds \ DOMAIN lock : l <= j}

WriteLock(l, row) ==
    /\ lock' = [j \in DOMAIN lock \cup {l} |-> IF j = l THEN row ELSE lock[j]]
    /\ UNCHANGED <<booking, deployed>>

(* POST /v1/seat-locks: short of seats it needs a choice, "split" (keep    *)
(* the shortfall pending) or "all" (keep everything pending).              *)
CreateLock(l, d, pax, holder, lapsed, choice) ==
    LET short == ShortBy(Day(d, {}), 0, pax)
    IN  /\ l \in NextLockId
        /\ short > 0 => choice \in {"split", "all"}
        /\ WriteLock(l, [day |-> d, pax |-> pax, released |-> 0, holder |-> holder, status |-> "active",
                         pending |-> IF short = 0 THEN 0 ELSE IF choice = "all" THEN pax ELSE short,
                         lapsed |-> lapsed, parent |-> NoLock])

(* PATCH of a top-level lock: pax, day, holder and expiry together. Only   *)
(* more seats or another day are weighed.                                  *)
AmendLock(l, pax, d, holder, lapsed) ==
    LET row == lock[l]
        tree == Tree(l)
        moving == d # row.day
        holderChanged == holder # row.holder
        floor == row.released + Drawn(l) + tree.allocated
        kept == IF moving THEN 0
                ELSE IF pax < row.pax THEN Clip(row.pending - (row.pax - pax)) ELSE row.pending
        used == IF moving THEN 0 ELSE tree.used
        ownHeld == IF moving \/ ~IsHolding(lock, l) THEN 0 ELSE tree.held
        short == IF pax > row.pax \/ moving THEN ShortBy(Day(d, {}), ownHeld, pax - row.released - used) ELSE 0
        pending == IF short > (IF moving THEN 0 ELSE tree.pend) THEN short ELSE kept
    IN  /\ IsTop(l)
        /\ (moving \/ holderChanged) => tree.used = 0
        /\ pax >= floor
        /\ lapsed # row.lapsed => Relapse
        /\ lock' = [j \in DOMAIN lock |->
              IF j = l THEN [row EXCEPT !.pax = pax, !.day = d, !.holder = holder, !.lapsed = lapsed, !.pending = pending]
              ELSE IF j \in Kids(l) THEN [lock[j] EXCEPT !.day = d, !.holder = holder]
              ELSE lock[j]]
        /\ UNCHANGED <<booking, deployed>>

(* PATCH of a sub-group's seats: within the parent's room.                 *)
AmendSubGroup(l, pax) ==
    /\ l \in DOMAIN lock /\ ~IsTop(l)
    /\ pax >= lock[l].released + Drawn(l)
    /\ pax - lock[l].pax <= Tree(lock[l].parent).room
    /\ WriteLock(l, [lock[l] EXCEPT !.pax = pax])

(* "+ seats": more seats, and the lock active again if it was released.    *)
AddSeats(l, n) ==
    LET row == lock[l]
        tree == Tree(l)
        more == row.pax + n
        ownHeld == IF IsHolding(lock, l) THEN tree.held ELSE 0
        short == ShortBy(Day(row.day, {}), ownHeld, more - row.released - tree.used)
        pending == IF short > (IF IsHolding(lock, l) THEN tree.pend ELSE 0) THEN short ELSE row.pending
    IN  /\ IsTop(l)
        /\ WriteLock(l, [row EXCEPT !.pax = more, !.status = "active", !.pending = pending])

AddToSubGroup(l, n) ==
    /\ l \in DOMAIN lock /\ ~IsTop(l)
    /\ n <= Tree(lock[l].parent).room
    /\ WriteLock(l, [lock[l] EXCEPT !.pax = @ + n, !.status = "active"])

(* Release: n undrawn seats back, pending ones first; a parent releases    *)
(* only its seats in no sub-group. With nothing left the lock is released. *)
ReleaseSeats(l, n) ==
    LET row == lock[l]
        own == Drawn(l)
        mine == IF IsTop(l) THEN Tree(l).unallocated ELSE row.pax - row.released
        pending == Clip(row.pending - n)
        done == row.pax - row.released - n <= own /\ (IsTop(l) => pending = 0 /\ Kids(l) = {})
    IN  /\ l \in DOMAIN lock /\ row.status = "active"
        /\ n \in 1..Clip(mine - own)
        /\ WriteLock(l, [row EXCEPT !.released = @ + n, !.pending = pending,
                                    !.status = IF done THEN "released" ELSE @])

\* Mutant: the seats bookings have drawn are released too.
ReleaseDrawnToo(l) ==
    /\ IsTop(l) /\ lock[l].status = "active"
    /\ WriteLock(l, [lock[l] EXCEPT !.status = "released", !.pending = 0, !.released = lock[l].pax])

(* "Release this departure" and the overdue sweep: everything the lock     *)
(* holds, its sub-groups' and pending seats included. Their rows stay.     *)
ReleasedWhole(l) ==
    [lock[l] EXCEPT !.status = "released", !.pending = 0,
                    !.released = Least(lock[l].pax, Max({@, lock[l].pax - Tree(l).used}))]

ReleaseDeparture(l) ==
    /\ IsTop(l) /\ lock[l].status = "active"
    /\ WriteLock(l, ReleasedWhole(l))

\* Mutant: more seats are confirmed than wait.
ConfirmMoreThanPending(l, n) ==
    /\ IsTop(l) /\ IsHolding(lock, l)
    /\ WriteLock(l, [lock[l] EXCEPT !.pending = @ - n])

(* Pending seats become held ones, as far as seats are free now.           *)
ConfirmPending(l, n) ==
    LET tree == Tree(l)
        day == Day(lock[l].day, {})
        can == IF SellsUngated(day) THEN tree.pend ELSE Least(tree.pend, FreeForLock(day, 0))
    IN  /\ IsTop(l) /\ IsHolding(lock, l)
        /\ n \in 1..can
        /\ WriteLock(l, [lock[l] EXCEPT !.pending = tree.pend - n])

(* A named slice of a holding lock's seats, out of its room.               *)
CreateSubGroup(l, top, pax) ==
    /\ l \in NextLockId
    /\ IsTop(top) /\ IsHolding(lock, top)
    /\ Cardinality(Kids(top)) < MaxKids
    /\ pax <= Tree(top).room
    /\ WriteLock(l, [day |-> lock[top].day, pax |-> pax, released |-> 0, holder |-> lock[top].holder,
                     status |-> "active", pending |-> 0, lapsed |-> FALSE, parent |-> top])

(* The Bangkok day passes a lock's expiry: worked out on read, no job runs.*)
Lapse(l) ==
    /\ IsTop(l) /\ ~lock[l].lapsed
    /\ WriteLock(l, [lock[l] EXCEPT !.lapsed = TRUE])

-----------------------------------------------------------------------------
(* Deployments                                                             *)

(* A boat put on the route that day, or its capacity that day changed.     *)
Deploy(d, boat, capacity) ==
    /\ deployed' = [deployed EXCEPT ![d] =
          [x \in DOMAIN @ \cup {boat} |-> IF x = boat THEN capacity ELSE @[x]]]
    /\ deployed' # deployed
    /\ UNCHANGED <<booking, lock>>

\* placedOn: a charter claims its boat unless its booking gave its seats back or is a quote.
ClaimedByCharter(d, boat) ==
    \E b \in Bookings :
        /\ booking[b].status \notin Releasing \cup {"quote", "absent"}
        /\ d \in DOMAIN booking[b].trips
        /\ booking[b].trips[d].mode = "charter" /\ booking[b].trips[d].boat = boat

(* A boat leaves the route unless a charter claims it (remove_anyway       *)
(* covers the bookings only placed on it).                                 *)
Undeploy(d, boat) ==
    /\ boat \in DOMAIN deployed[d]
    /\ ~ClaimedByCharter(d, boat)
    /\ deployed' = [deployed EXCEPT ![d] = [x \in DOMAIN @ \ {boat} |-> @[x]]]
    /\ UNCHANGED <<booking, lock>>

-----------------------------------------------------------------------------
Init ==
    /\ booking = [b \in Bookings |-> NoBooking]
    /\ lock = <<>>
    /\ deployed \in [Days -> UNION {[D -> Capacities] : D \in {E \in SUBSET Boats : Boats \ Movable \subseteq E}}]

BookingStep(b) ==
    \/ \E seen \in {Seen(b)} :
          \/ \E intent \in Intents, agent \in Agents, trips \in Itineraries, anyway \in BOOLEAN :
                CreateBooking(b, seen, intent, agent, trips, anyway)
          \/ \E trips \in Itineraries, anyway \in BOOLEAN : AmendBooking(b, seen, trips, anyway)
          \/ Unconfirm(b, seen) \/ RestoreBooking(b, seen)
          \/ \E from, to \in Days : Reschedule(b, seen, from, to)
    \/ CancelBooking(b) \/ Confirm(b) \/ Approve(b) \/ Reject(b)
    \/ \E n \in 1..MaxLockPax : PartialCancelCount(b, n)
    \/ \E d \in Days, n \in 1..MaxLockPax : PartialCancelRecord(b, d, n)

LockStep(l) ==
    \/ \E d \in Days, pax \in 1..MaxLockPax, h \in Holders, lapsed \in BOOLEAN, choice \in {"split", "all"} :
          CreateLock(l, d, pax, h, lapsed /\ Relapse, choice)
    \/ \E pax \in 1..MaxLockPax, d \in Days, h \in Holders, lapsed \in BOOLEAN : AmendLock(l, pax, d, h, lapsed)
    \/ \E pax \in 1..MaxLockPax : AmendSubGroup(l, pax)
    \/ \E n \in 1..MaxLockPax :
          /\ l \in DOMAIN lock /\ lock[l].pax + n <= MaxLockPax
          /\ AddSeats(l, n) \/ AddToSubGroup(l, n)
    \/ \E n \in 1..MaxLockPax : ReleaseSeats(l, n) \/ ConfirmPending(l, n)
    \/ ReleaseDeparture(l) \/ Lapse(l)
    \/ \E top \in DOMAIN lock, pax \in 1..MaxLockPax : CreateSubGroup(l, top, pax)

DeploymentStep(d) ==
    \/ \E boat \in Movable, c \in Capacities : Deploy(d, boat, c)
    \/ \E boat \in Movable : Undeploy(d, boat)

Next ==
    \/ \E b \in Bookings : BookingStep(b)
    \/ \E l \in LockIds : LockStep(l)
    \/ \E d \in Days : DeploymentStep(d)

Spec == Init /\ [][Next]_vars

-----------------------------------------------------------------------------
(* Properties                                                              *)

\* Every row is one the tables can hold: a lock's seats released are among those asked.
TypeOK ==
    /\ \A b \in Bookings : Exists(b) =>
          /\ booking[b].status \in Statuses /\ booking[b].agent \in Agents
          /\ booking[b].approval \in Approvals
          /\ DOMAIN booking[b].trips \in (SUBSET Days) \ {{}}
          /\ \A d \in DOMAIN booking[b].trips : booking[b].trips[d] \in Trips
    /\ DOMAIN lock \subseteq LockIds
    /\ \A l \in DOMAIN lock : lock[l] \in LockRows /\ lock[l].released <= lock[l].pax
    /\ DOMAIN deployed = Days
    /\ \A d \in Days : DOMAIN deployed[d] \subseteq Boats /\ \A x \in DOMAIN deployed[d] : deployed[d][x] \in Capacities

\* The three consents that may put a booking into seats nobody weighed for it.
Approved(b) == Exists(b) /\ booking[b].approval.state = "pending" /\ booking'[b].approval.state = "approved"
Restored(b) == booking[b].status \in Releasing /\ booking'[b].status = "confirmed"
DisplacedAnyway(b, d) ==
    /\ d \in DOMAIN booking'[b].trips /\ booking'[b].trips[d].displaced
    /\ ~(/\ HoldsSeats(booking[b]) /\ d \in DOMAIN booking[b].trips /\ booking[b].trips[d].displaced
         /\ booking[b].trips[d].boat = booking'[b].trips[d].boat)

Available(d) == Day(d, {}).available
AvailableAfter(d) == DayOf(booking', lock', deployed', d, {}).available

\* A booking that holds seats draws on a lock of another day: the lock moved while it waited, or it was restored.
StrayDraws(b) ==
    /\ HoldsSeats(booking[b])
    /\ \E d \in DOMAIN booking[b].trips, l \in DOMAIN lock : booking[b].trips[d].draws[l] > 0 /\ lock[l].day # d

(* Seats a top-level lock has given or still keeps waiting beyond what it  *)
(* was asked for and has not released.                                     *)
Overcommitted(bks, lks, l) ==
    Clip(TreeOf(lks, DrawnByLock(bks, {}), l).used + lks[l].pending - (lks[l].pax - lks[l].released))

(* A booking draws at once on several locks of one tree, each weighed on    *)
(* its own, and together they pass what the tree still held.               *)
DrawsTogether(b, d) ==
    /\ Exists(b)' /\ booking'[b] # booking[b] /\ d \in DOMAIN booking'[b].trips
    /\ \E top \in DOMAIN lock :
          /\ IsTop(top) /\ lock[top].day = d
          /\ \E l, k \in Kids(top) \cup {top} : l # k /\ booking'[b].trips[d].draws[l] > 0 /\ booking'[b].trips[d].draws[k] > 0
          /\ Overcommitted(booking', lock', top) > 0

\* A lapsed lock is brought back by an edit of its expiry date.
Revived(d) == \E l \in DOMAIN lock : lock[l].lapsed /\ ~lock'[l].lapsed /\ lock'[l].day = d

(* A pooled day is put past its seats, or further past them, only by a      *)
(* booking whose over-allotment was approved, that was restored, or whose  *)
(* charter was let through anyway; by an edit that brings a lapsed lock    *)
(* back; or by the command of a booking that draws on a lock of another    *)
(* day, or on several locks of one tree at once: never by another sale,    *)
(* edit, lock, release or confirmation (README: the serialized capacity    *)
(* guard). Draws are checked lock by lock and an expiry is not weighed.    *)
OversellNeedsConsent ==
    [][\A d \in Days :
          deployed'[d] = deployed[d] /\ AvailableAfter(d) < Least(0, Available(d)) =>
             \/ Revived(d)
             \/ \E b \in Bookings :
                   \/ Approved(b) \/ Restored(b) \/ (Exists(b)' /\ DisplacedAnyway(b, d))
                   \/ (booking'[b] # booking[b] /\ StrayDraws(b)) \/ DrawsTogether(b, d)]_vars

\* A lock of the tree whose own seats were drawn past by an approved booking.
Overdrawn(top) ==
    \E l \in Kids(top) \cup {top} : Drawn(l) > lock[l].pax - lock[l].released

(* The seats of a lock tree that are drawn, kept waiting and released are   *)
(* never the same seat (seat-locks.ts lockTree): an approval, which weighs *)
(* nothing, makes them overlap, or a booking that draws on several locks   *)
(* of the tree at once, each weighed alone; and only a tree that was       *)
(* overdrawn can come to overlap more.                                     *)
LockNeverOvercommitted ==
    [][\A l \in DOMAIN lock :
          IsTop(l) /\ Overcommitted(booking', lock', l) > Overcommitted(booking, lock, l) =>
             Overdrawn(l) \/ \E b \in Bookings : Approved(b) \/ DrawsTogether(b, lock[l].day)]_vars

GivesBack(b) ==
    \/ CancelBooking(b) \/ Reject(b)
    \/ \E n \in 1..MaxLockPax : PartialCancelCount(b, n) \/ \E d \in Days : PartialCancelRecord(b, d, n)

(* Cancelling, rejecting and partially cancelling only free seats: no day   *)
(* loses availability and no lock on any day has fewer seats to draw,      *)
(* whichever way the lock seats go back (clampDraws, returnDrawsFirst). A   *)
(* booking drawing on a lock of another day gives its seats to that day.   *)
GivingBackFreesSeats ==
    [][(\E b \in Bookings : GivesBack(b) /\ ~StrayDraws(b)) =>
          \A d \in Days :
             /\ AvailableAfter(d) >= Available(d)
             /\ \A l \in DOMAIN Day(d, {}).remaining :
                DayOf(booking', lock', deployed', d, {}).remaining[l] >= Day(d, {}).remaining[l]]_vars

CharterCount(bks, d, boat) ==
    Cardinality({b \in Counted(bks, {}) : d \in DOMAIN bks[b].trips
        /\ bks[b].trips[d].mode = "charter" /\ bks[b].trips[d].boat = boat})

(* While a boat is deployed, it comes to carry two charters on one day      *)
(* only by an approval: creating, amending, moving, restoring never do it. *)
CharterExclusive ==
    [][\A d \in Days : \A boat \in DOMAIN deployed[d] :
          CharterCount(booking', d, boat) > Max({1, CharterCount(booking, d, boat)}) => \E b \in Bookings : Approved(b)]_vars

\* Draws of a booking holding seats on a lock of another agent, or of another day than the trip's.
AlienDraws(b) ==
    IF ~HoldsSeats(booking[b]) THEN {}
    ELSE {x \in (DOMAIN booking[b].trips) \X DOMAIN lock :
            LET d == x[1]
                l == x[2]
            IN  /\ booking[b].trips[d].draws[l] > 0
                /\ lock[l].day # d \/ lock[l].holder \notin {Office, booking[b].agent}}

(* A booking that holds seats comes to draw on another agent's lock, or on *)
(* another day's, only by being approved or restored: a lock that bookings *)
(* draw on cannot change holder or day (seat-lock-service.ts amend).       *)
DrawsStayHome ==
    [][\A b \in Bookings : ~(AlienDraws(b)' \subseteq AlienDraws(b)) => Approved(b) \/ Restored(b)]_vars
=============================================================================
