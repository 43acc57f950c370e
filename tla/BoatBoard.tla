----------------------------- MODULE BoatBoard -----------------------------
(***************************************************************************)
(* Whose boat is it today? The boat board of the fleet: the boats of the   *)
(* catalogue, the route each sails on each day, the seats it sells from    *)
(* that day, and everything that lays hand on it: charters, whole-boat     *)
(* holds, and the boat or boats a trip's passengers are put on (dispatch). *)
(* The seat pool of a route-day is SeatRules'; the locks that hold seats   *)
(* rather than boats are SeatPool's, and are left out here.                *)
(*                                                                         *)
(* Each action is one request, run as one transaction. A booking has one   *)
(* trip, without free passengers or a discount.                            *)
(***************************************************************************)
EXTENDS SeatRules

CONSTANTS
    Bookings,     \* booking ids; LockIds are the ids of the holds
    Routes,       \* routes with a pier: a land route has no boat to hold
    Off,          \* the route of a boat that is not deployed
    Days,         \* service dates
    TripChoices,  \* what clients ask for: [mode, pax, boat]
    Capacity,     \* [Boats -> Nat]: the seats of each boat in the catalogue
    DaySeatChoices, \* the seats a boat is given for one day
    Deals,        \* the deals holds are made with
    Splits,       \* the splits of a trip's passengers that are sent: [boats -> pax]
    Minimums      \* the seats a hold promises

NoCap == -1
Nobody == Off
NoSplit == [b \in {} |-> 0]
BOAT_TOLERANCE == 2
\* "cancelled" stands for cancelled_weather and rejected too: all give the boat and seats back, and restore alike.
Releasing == {"cancelled"}
Statuses == {"quote", "confirmed", "pending_approval"} \cup Releasing
NoTarget == "none"   \* or, over the allotment, what the booking is to become
NoBooking == [status |-> "absent"]
\* A hold released or converted is read by nothing: its row is left out, and its id stands for a later hold.
NoHold == [status |-> "absent"]

ASSUME BoardAssumption ==
    /\ IsFiniteSet(Bookings) /\ Off \notin Bookings /\ Off \notin Routes
    /\ Capacity \in [Boats -> Nat] /\ DaySeatChoices \subseteq Nat
    /\ Deals \subseteq {"fixed", "any"} /\ Minimums \subseteq Nat \ {0}
    /\ TripChoices \subseteq [mode : {"seat", "charter"}, pax : Nat \ {0}, boat : Boats \cup {NoBoat}]
    /\ \A t \in TripChoices : (t.mode = "charter") <=> (t.boat \in Boats)
    /\ \A s \in Splits : s \in [DOMAIN s -> Nat] /\ DOMAIN s \subseteq Boats /\ Cardinality(DOMAIN s) > 1

VARIABLES
    retired,    \* the boats retired from the catalogue
    board,      \* [Days -> [Boats -> route, or Off]]: the deployments, with the catalogue's seats
    override,   \* [Days -> [Boats -> seats for that day, or NoCap]]
    hold,       \* [LockIds -> whole-boat hold or NoHold]
    booking     \* [Bookings -> booking with its trip and dispatch, or NoBooking]

vars == <<retired, board, override, hold, booking>>

-----------------------------------------------------------------------------
(* Reads                                                                   *)

Exists(k) == booking[k].status # "absent"
IsOpen(k) == booking[k].status \notin Releasing \cup {"absent"}

\* Over the allotment: asked for seats it was not given (the only approval modelled here).
Waits(k) == booking[k].status = "pending_approval"
HoldsSeats(k) == IsOpen(k) /\ ~Waits(k)

Active(h) == hold[h].status = "active"
ActiveOn(d, b) == {h \in LockIds : Active(h) /\ hold[h].day = d /\ hold[h].boat = b}

\* The seats a boat is sold with that day: the day's own, else its deployment's.
DaySeats(d, b) == IF override[d][b] # NoCap THEN override[d][b] ELSE Capacity[b]
Deployed(d, r) == {b \in Boats : board[d][b] = r}

NoDraws == [l \in LockIds |-> 0]
Asks(t) == [mode |-> t.mode, pax |-> t.pax, boat |-> t.boat, draws |-> NoDraws, displaced |-> FALSE]

\* charterBoatsOf: a charter takes its boat and every boat it is split over.
CharterBoatsOf(k) == {booking[k].boat} \cup DOMAIN booking[k].split

(* day(): one route's pool that day, a booking and a hold left out. A hold *)
(* whose boat does not sail there keeps its promised seats as a plain lock.*)
Day(d, r, exceptBooking, exceptHold) ==
    LET here == {k \in Bookings \ {exceptBooking} :
                    HoldsSeats(k) /\ booking[k].day = d /\ booking[k].route = r}
        holding == {h \in LockIds \ {exceptHold} : Active(h) /\ hold[h].day = d /\ hold[h].route = r}
        taking == {h \in holding : hold[h].boat \in Deployed(d, r)}
        plain == holding \ taking
    IN  DayCapacity([b \in Deployed(d, r) |-> DaySeats(d, b)],
                    [k \in here |-> Asks(booking[k])],
                    [k \in here |-> CharterBoatsOf(k)],
                    {hold[h].boat : h \in taking},
                    [h \in plain |-> [parent |-> NoLock, pax |-> hold[h].pax, pending |-> 0,
                                      released |-> 0, status |-> "active", holder |-> Office]],
                    NoDraws, FALSE)

\* paxByBoat: the passengers a booking puts on a boat, whole or its share of a split.
PaxOn(bk, b) == IF bk.onto = b THEN bk.pax ELSE IF b \in DOMAIN bk.split THEN bk.split[b] ELSE 0

\* The passengers bookings put on boats of a route-day, whether they hold seats or wait.
LoadOn(d, r, b, except) ==
    Total([k \in {j \in Bookings \ {except} : IsOpen(j) /\ booking[j].day = d /\ booking[j].route = r} |->
              PaxOn(booking[k], b)])

-----------------------------------------------------------------------------
(* Bookings                                                                *)

\* charterSynced: after a save, a charter trip that is not split is put on its charter boat.
Synced(bk) ==
    IF bk.mode = "charter" /\ bk.boat # NoBoat /\ DOMAIN bk.split = {} THEN [bk EXCEPT !.onto = bk.boat] ELSE bk

(* retrip: a trip moved to another route or day loses its dispatch, and one *)
(* whose passengers changed loses its split.                               *)
Retripped(bk, r, d, t) ==
    LET moved == bk.route # r \/ bk.day # d
    IN  [bk EXCEPT !.route = r, !.day = d, !.mode = t.mode, !.pax = t.pax, !.boat = t.boat,
            !.onto = IF moved THEN NoBoat ELSE @,
            !.split = IF moved \/ bk.pax # t.pax THEN NoSplit ELSE @]

\* claimsMoreSeats, of the one trip.
AsksMore(bk, r, d, t) ==
    ClaimsMoreSeats([x \in {<<bk.route, bk.day>>} |-> Asks(bk)], [x \in {<<r, d>>} |-> Asks(t)])

Write(k, bk) ==
    /\ booking' = [booking EXCEPT ![k] = bk]
    /\ UNCHANGED <<retired, board, override>>

(* What a create writes, weighed on the day read with the hold it converts *)
(* left out; over the allotment it waits for the approval.                 *)
Created(k, day, r, d, t, intent, anyway) ==
    LET weight == WeighDay(day, Asks(t), Office, anyway)
        base == IF intent = "quote" THEN "quote" ELSE "confirmed"
        over == weight = "over"
    IN  /\ ~Exists(k)
        /\ weight # "refused"
        /\ Write(k, Synced([status |-> IF over THEN "pending_approval" ELSE base, target |-> IF over THEN base ELSE NoTarget,
                            route |-> r, day |-> d, mode |-> t.mode, pax |-> t.pax, boat |-> t.boat,
                            onto |-> NoBoat, split |-> NoSplit]))

(* POST /v1/bookings.                                                      *)
CreateBooking(k, day, r, d, t, intent, anyway) ==
    /\ Created(k, day, r, d, t, intent, anyway)
    /\ UNCHANGED hold

(* PATCH /v1/bookings/{id}. One that holds its seats is weighed only when  *)
(* it asks for more, one that waits always, a closed one never.            *)
AmendBooking(k, day, r, d, t, anyway) ==
    LET bk == booking[k]
        next == Synced(Retripped(bk, r, d, t))
        weight == IF Waits(k) \/ (HoldsSeats(k) /\ AsksMore(bk, r, d, t))
                  THEN WeighDay(day, Asks(t), Office, anyway) ELSE "unweighed"
        going == IF Waits(k) THEN bk.target ELSE bk.status
    IN  /\ Exists(k)
        /\ weight # "refused"
        /\ Write(k, IF weight = "over" THEN [next EXCEPT !.status = "pending_approval", !.target = going]
                    ELSE IF weight = "unweighed" THEN next
                    ELSE [next EXCEPT !.status = going, !.target = NoTarget])
        /\ UNCHANGED hold

SetStatus(k, status) ==
    /\ Write(k, [booking[k] EXCEPT !.status = status, !.target = NoTarget])
    /\ UNCHANGED hold

(* /cancel and /reject, /confirm of a quote, and /approve: nothing is       *)
(* weighed, and the dispatch stays as it was.                              *)
Cancel(k) == IsOpen(k) /\ SetStatus(k, "cancelled")
Confirm(k) == booking[k].status = "quote" /\ SetStatus(k, "confirmed")
Approve(k) == Waits(k) /\ SetStatus(k, booking[k].target)

(* /unconfirm: one that waited is weighed again, as the quote.             *)
Unconfirm(k, day) ==
    LET bk == booking[k]
        weight == IF Waits(k) THEN WeighDay(day, Asks(bk), Office, FALSE) ELSE "fits"
    IN  /\ bk.status \in {"confirmed", "pending_approval"} /\ weight # "refused"
        /\ Write(k, IF weight = "over" THEN [bk EXCEPT !.target = "quote"]
                    ELSE [bk EXCEPT !.status = "quote", !.target = NoTarget])
        /\ UNCHANGED hold

(* /restore: always confirmed; a charter whose boat sails its route for    *)
(* another keeps no boat, and its dispatch stays.                          *)
Restore(k, day) ==
    LET bk == booking[k]
        taken == bk.mode = "charter" /\ bk.boat \in DOMAIN day.deps \ day.open
    IN  /\ bk.status \in Releasing
        /\ Write(k, [bk EXCEPT !.status = "confirmed", !.boat = IF taken THEN NoBoat ELSE @])
        /\ UNCHANGED hold

\* Mutant: a split keeps passengers that were cancelled.
PartialCancelSplit(k, n) ==
    LET bk == booking[k]
    IN  /\ IsOpen(k) /\ n < bk.pax
        /\ Write(k, Synced([bk EXCEPT !.pax = @ - n]))
        /\ UNCHANGED hold

(* /partial-cancel of a count: fewer passengers, so a split goes.          *)
PartialCancel(k, n) ==
    LET bk == booking[k]
    IN  /\ IsOpen(k) /\ n < bk.pax
        /\ Write(k, Synced([bk EXCEPT !.pax = @ - n, !.split = NoSplit]))
        /\ UNCHANGED hold

-----------------------------------------------------------------------------
(* Dispatch: PATCH /operations/trip-ops/{trip}                             *)

\* The boats must sail the trip's route that day, and a split must add up.
Dispatchable(bk, onto, split) ==
    /\ ({onto} \ {NoBoat}) \cup DOMAIN split \subseteq Deployed(bk.day, bk.route)
    /\ DOMAIN split # {} => onto = NoBoat /\ Total(split) = bk.pax

\* Each boat's passengers if the trip goes as next: the others of its route-day, and its own.
LoadWith(k, next) ==
    [b \in Boats |-> LoadOn(next.day, next.route, b, k) + PaxOn(next, b)]

\* A boat may be filled to its seats that day and a few more (BOAT_TOLERANCE).
Overfull(d, b, load) == load > Sellable(b, DaySeats(d, b)) + BOAT_TOLERANCE

\* Mutant: a seat trip may be put on a boat that is taken.
MayCarryAnyone(open, d, b, load) == ~Overfull(d, b, load) \/ load - BOAT_TOLERANCE <= Licence[b]

(* checkBoatAssignment, of one boat of a seat trip: not chartered nor held *)
(* whole. Overfull, its seats that day must be raised (raise_capacity),    *)
(* which the licence still has to bear.                                    *)
MayCarry(open, d, b, load) ==
    /\ b \in open
    /\ ~Overfull(d, b, load) \/ load - BOAT_TOLERANCE <= Licence[b]

(* The trip's passengers go on a boat, or on several. A charter's boat is  *)
(* its charter boat, and its splits go anywhere its route sails.           *)
Assign(k, onto, split) ==
    LET bk == booking[k]
        next == [bk EXCEPT !.onto = onto, !.split = split]
        boats == ({onto} \ {NoBoat}) \cup DOMAIN split
        load == LoadWith(k, next)
        raised == {b \in boats : Overfull(bk.day, b, load[b])}
    IN  /\ IsOpen(k) /\ next # bk
        /\ Dispatchable(bk, onto, split)
        /\ IF bk.mode = "charter"
           THEN /\ DOMAIN split = {} => onto = bk.boat /\ onto # NoBoat
                /\ override' = override
           ELSE /\ \E open \in {Day(bk.day, bk.route, Nobody, NoLock).open} :
                      \A b \in boats : MayCarry(open, bk.day, b, load[b])
                /\ override' = [override EXCEPT ![bk.day] =
                      [b \in Boats |-> IF b \in raised THEN Least(Licence[b], load[b]) ELSE @[b]]]
        /\ booking' = [booking EXCEPT ![k] = next]
        /\ UNCHANGED <<retired, board, hold>>

-----------------------------------------------------------------------------
(* Whole-boat holds                                                        *)

OpenSeats(day) == Total([b \in day.open |-> Sellable(b, day.deps[b])])
Sold(day) == Clip(OpenSeats(day) - day.available - day.locked)

\* Mutant: the route's sales are not looked at.
CanTakeSold(d, b, r, own) ==
    LET mine == own # NoLock /\ hold[own].boat = b /\ hold[own].day = d
        here == {k \in Bookings : HoldsSeats(k) /\ booking[k].day = d}
    IN  /\ ~\E k \in here : booking[k].mode = "charter" /\ booking[k].boat = b
        /\ ActiveOn(d, b) \subseteq {own}
        /\ mine \/ board[d][b] \in {Off, r}
        /\ \A k \in here : PaxOn(booking[k], b) = 0

(* holdBlockers and canTake: no charter, no other hold, not on another     *)
(* route, nobody put on it, and the route's sales can lose it. own is the  *)
(* hold being edited.                                                      *)
CanTake(d, b, r, own) ==
    LET mine == own # NoLock /\ hold[own].boat = b /\ hold[own].day = d
        day == Day(d, r, Nobody, NoLock)
        here == {k \in Bookings : HoldsSeats(k) /\ booking[k].day = d}
    IN  /\ ~\E k \in here : booking[k].mode = "charter" /\ booking[k].boat = b
        /\ ActiveOn(d, b) \subseteq {own}
        /\ mine \/ board[d][b] \in {Off, r}
        /\ \A k \in here : PaxOn(booking[k], b) = 0
        /\ ~mine /\ b \in day.open => Sold(day) + Sellable(b, day.deps[b]) <= OpenSeats(day)

\* assertBigEnough: an "any" hold promises a boat that big.
BigEnough(d, b, deal, pax) ==
    LET seats == IF board[d][b] # Off THEN DaySeats(d, b) ELSE Capacity[b]
    IN  deal = "any" => Sellable(b, seats) >= pax

(* place: the boat held sails the hold's route, put or moved there.        *)
Place(d, r, b) == board' = [board EXCEPT ![d][b] = r]

(* POST /v1/seat-locks with a boat. Readiness of the boat and the route's  *)
(* calendar may refuse it too.                                             *)
CreateHold(h, r, d, b, deal, pax) ==
    /\ hold[h] = NoHold
    /\ b \notin retired
    /\ CanTake(d, b, r, NoLock)
    /\ BigEnough(d, b, deal, pax)
    /\ Place(d, r, b)
    /\ hold' = [hold EXCEPT ![h] = [status |-> "active", route |-> r, day |-> d, boat |-> b, deal |-> deal, pax |-> pax]]
    /\ UNCHANGED <<retired, override, booking>>

(* PATCH of a hold. A boat left behind keeps its deployment. A "fixed"     *)
(* boat is changed only when the caller says so (change_boat_anyway).      *)
AmendHold(h, r, d, b, deal, pax) ==
    LET row == hold[h]
        moved == b # row.boat \/ d # row.day \/ r # row.route
    IN  /\ Active(h)
        /\ b \notin retired
        /\ moved => CanTake(d, b, r, h)
        /\ BigEnough(d, b, deal, pax)
        /\ hold' = [hold EXCEPT ![h] = [row EXCEPT !.route = r, !.day = d, !.boat = b, !.deal = deal, !.pax = pax]]
        /\ IF moved THEN Place(d, r, b) ELSE board' = board
        /\ UNCHANGED <<retired, override, booking>>

(* Release: the boat is back in the pool at once, still deployed.          *)
ReleaseHold(h) ==
    /\ Active(h)
    /\ hold' = [hold EXCEPT ![h] = NoHold]
    /\ UNCHANGED <<retired, board, override, booking>>

\* Mutant: the hold is left as it was.
ConvertAndKeep(h, k, t, anyway) ==
    /\ Active(h) /\ t.mode = "charter" /\ t.boat = hold[h].boat
    /\ Created(k, Day(hold[h].day, hold[h].route, k, h), hold[h].route, hold[h].day, t, "confirm", anyway)
    /\ hold' = hold

(* /convert: a charter of the held boat on its route and day, not a quote, *)
(* weighed with the hold left out; the hold ends in the same transaction.  *)
ConvertHold(h, k, t, anyway) ==
    /\ Active(h) /\ t.mode = "charter" /\ t.boat = hold[h].boat
    /\ Created(k, Day(hold[h].day, hold[h].route, k, h), hold[h].route, hold[h].day, t, "confirm", anyway)
    /\ hold' = [hold EXCEPT ![h] = NoHold]

-----------------------------------------------------------------------------
(* Deployments and the catalogue                                           *)

\* placedOn: a charter claims its boat unless it gave it back or is a quote.
ClaimedOn(d, r, b) ==
    \E k \in Bookings :
        /\ IsOpen(k) /\ booking[k].status # "quote"
        /\ booking[k].day = d /\ booking[k].route = r
        /\ booking[k].mode = "charter" /\ booking[k].boat = b

\* Mutant: a boat held whole may be taken off its route.
FreeToLeaveHeld(d, b) == board[d][b] # Off => ~ClaimedOn(d, board[d][b], b)

\* Mutant: a chartered boat may be taken off its route.
FreeToLeaveClaimed(d, b) ==
    board[d][b] # Off => ~\E h \in ActiveOn(d, b) : hold[h].route = board[d][b]

(* checkDeploymentChange: a boat leaves its route unless a charter claims  *)
(* it or a hold takes it there. Passengers put on it are warned about.     *)
FreeToLeave(d, b) ==
    board[d][b] # Off =>
        /\ ~ClaimedOn(d, board[d][b], b)
        /\ ~\E h \in ActiveOn(d, b) : hold[h].route = board[d][b]

(* POST /operations/deployments, a day's board cell written over.          *)
Deploy(d, b, r) ==
    /\ b \notin retired
    /\ r # board[d][b] => FreeToLeave(d, b)
    /\ board' = [board EXCEPT ![d][b] = r]
    /\ UNCHANGED <<retired, override, hold, booking>>

(* DELETE /operations/deployments/{day}/{boat}.                            *)
Undeploy(d, b) ==
    /\ board[d][b] # Off /\ FreeToLeave(d, b)
    /\ board' = [board EXCEPT ![d][b] = Off]
    /\ UNCHANGED <<retired, override, hold, booking>>

(* PUT and DELETE of a boat's seats for one day: never past its licence;   *)
(* the normal number removes the override.                                 *)
SetDaySeats(d, b, capacity) ==
    /\ capacity <= Licence[b]
    /\ override' = [override EXCEPT ![d][b] = IF capacity = Capacity[b] THEN NoCap ELSE capacity]
    /\ UNCHANGED <<retired, board, hold, booking>>

ClearDaySeats(d, b) ==
    /\ override[d][b] # NoCap
    /\ override' = [override EXCEPT ![d][b] = NoCap]
    /\ UNCHANGED <<retired, board, hold, booking>>

(* /retire: only a boat deployed on no day from today on.                  *)
RetireBoat(b) ==
    /\ b \notin retired
    /\ \A d \in Days : board[d][b] = Off
    /\ retired' = retired \cup {b}
    /\ UNCHANGED <<board, override, hold, booking>>

RestoreBoat(b) ==
    /\ b \in retired
    /\ retired' = retired \ {b}
    /\ UNCHANGED <<board, override, hold, booking>>

-----------------------------------------------------------------------------
Init ==
    /\ retired = {}
    /\ board = [d \in Days |-> [b \in Boats |-> Off]]
    /\ override = [d \in Days |-> [b \in Boats |-> NoCap]]
    /\ hold = [h \in LockIds |-> NoHold]
    /\ booking = [k \in Bookings |-> NoBooking]

\* displace_anyway says something of a charter only.
Answers(t) == IF t.mode = "charter" THEN BOOLEAN ELSE {FALSE}

BookingStep(k) ==
    \/ \E r \in Routes, d \in Days : \E day \in {Day(d, r, k, NoLock)} :
          \/ \E t \in TripChoices : \E anyway \in Answers(t) :
                \/ \E intent \in {"quote", "confirm"} : CreateBooking(k, day, r, d, t, intent, anyway)
                \/ AmendBooking(k, day, r, d, t, anyway)
          \/ Exists(k) /\ booking[k].route = r /\ booking[k].day = d /\ (Unconfirm(k, day) \/ Restore(k, day))
    \/ Cancel(k) \/ Confirm(k) \/ Approve(k)
    \/ PartialCancel(k, 1)
    \/ \E onto \in Boats \cup {NoBoat} : Assign(k, onto, NoSplit)
    \/ \E split \in Splits : Assign(k, NoBoat, split)

HoldStep(h) ==
    \/ \E r \in Routes, d \in Days, b \in Boats, deal \in Deals, pax \in Minimums :
          CreateHold(h, r, d, b, deal, pax) \/ AmendHold(h, r, d, b, deal, pax)
    \/ ReleaseHold(h)
    \/ \E k \in Bookings, t \in TripChoices, anyway \in BOOLEAN : ConvertHold(h, k, t, anyway)

BoatStep(b) ==
    \/ \E d \in Days : \/ \E r \in Routes : Deploy(d, b, r)
                       \/ Undeploy(d, b) \/ ClearDaySeats(d, b)
                       \/ \E c \in DaySeatChoices : SetDaySeats(d, b, c)
    \/ RetireBoat(b) \/ RestoreBoat(b)

Next ==
    \/ \E k \in Bookings : BookingStep(k)
    \/ \E h \in LockIds : HoldStep(h)
    \/ \E b \in Boats : BoatStep(b)

Spec == Init /\ [][Next]_vars

-----------------------------------------------------------------------------
(* Properties                                                              *)

BoatDays == Days \X Boats

(* Every row is one the tables can hold; a split always adds up to the     *)
(* passengers it splits (a cancelled passenger drops it), and no day sells *)
(* a boat past its licence.                                                *)
TypeOK ==
    /\ retired \subseteq Boats /\ board \in [Days -> [Boats -> Routes \cup {Off}]]
    /\ \A d \in Days, b \in Boats : override[d][b] \in NoCap..Licence[b]
    /\ \A h \in LockIds : hold[h].status \in {"absent", "active"}
    /\ \A k \in Bookings : Exists(k) =>
          /\ booking[k].status \in Statuses /\ booking[k].target \in IF Waits(k) THEN {"quote", "confirmed"} ELSE {NoTarget}
          /\ booking[k].pax > 0
          /\ DOMAIN booking[k].split # {} => booking[k].onto = NoBoat /\ Total(booking[k].split) = booking[k].pax

(* The boat board keeps its promises: a boat held whole sails the hold's   *)
(* route that day, and a retired boat sails on no day (deployment guards,  *)
(* place, retiredBoat).                                                    *)
BoardKeepsPromises ==
    /\ TypeOK
    /\ \A h \in LockIds : Active(h) => board[hold[h].day][hold[h].boat] = hold[h].route
    /\ \A b \in retired : \A d \in Days : board[d][b] = Off

\* A booking that has its boat whole that day; a quote only keeps it out of the pool.
Claims(k, d, b) ==
    /\ HoldsSeats(k) /\ booking[k].status # "quote"
    /\ booking[k].day = d /\ booking[k].mode = "charter" /\ booking[k].boat = b

Claimants(d, b) == {k \in Bookings : Claims(k, d, b)} \cup ActiveOn(d, b)

\* A charter that claims a boat sailing another route that day, or none.
AdriftFrom(k, d, b) == Claims(k, d, b) /\ board[d][b] # booking[k].route
Adrift(k) == \E b \in Boats : AdriftFrom(k, booking[k].day, b)

\* Restored, or a quote confirmed: neither weighs the boat again.
ComesBack(k) == booking[k].status \in Releasing \cup {"quote"} /\ booking'[k].status = "confirmed"

(* A charter that claims a boat never loses it to another route: it comes  *)
(* adrift only by coming back to a boat that had left meanwhile.           *)
ClaimKeepsBoat == \A k \in Bookings : Exists(k) /\ Adrift(k)' => Adrift(k) \/ ComesBack(k)

(* One boat, one day, one claimant: charter or hold, on any route. A second *)
(* one comes only by coming back, or where a charter adrift already        *)
(* claims that boat from another route (boat-holds.ts, deployment guards).  *)
OneClaimant ==
    \A d \in Days, b \in Boats :
        Cardinality(Claimants(d, b)') > 1 /\ Cardinality(Claimants(d, b)') > Cardinality(Claimants(d, b)) =>
            \E k \in Bookings : (ComesBack(k) /\ Claims(k, d, b)') \/ AdriftFrom(k, d, b)

(* Who has a boat whole that day keeps it, and is the only one.            *)
BoatsAreClaimedOnce == [][ClaimKeepsBoat /\ OneClaimant]_vars

\* Bookings with passengers on a boat held whole.
Aboard(h) == {k \in Bookings : Active(h) /\ HoldsSeats(k) /\ booking[k].day = hold[h].day /\ PaxOn(booking[k], hold[h].boat) > 0}

\* A charter that has the held boat whole as well: it came back to it, restored, after the hold was taken.
HasItToo(k, h) ==
    /\ HoldsSeats(k) /\ booking[k].mode = "charter"
    /\ booking[k].day = hold'[h].day /\ booking[k].boat = hold'[h].boat

(* The boat held for an agent stays empty: passengers come to be on it only *)
(* with a booking restored or approved (its dispatch was kept meanwhile),  *)
(* with a charter that has the boat too, or by splitting a charter over    *)
(* it, which is not checked.                                               *)
HeldBoatStaysEmpty ==
    \A h \in LockIds : \A k \in Aboard(h)' \ Aboard(h) :
        \/ Exists(k) /\ (~HoldsSeats(k) \/ HasItToo(k, h))
        \/ booking'[k].mode = "charter" /\ hold'[h].boat \in DOMAIN booking'[k].split

HereOn(d, r) == {k \in Bookings : HoldsSeats(k) /\ booking[k].day = d /\ booking[k].route = r}
Charters(d, r) == {k \in HereOn(d, r) : booking[k].mode = "charter"}

\* Passengers with no boat of their own: by the seat, or of a charter whose boats are all elsewhere.
Standing(d, r) ==
    (HereOn(d, r) \ Charters(d, r)) \cup {k \in Charters(d, r) : CharterBoatsOf(k) \cap Deployed(d, r) = {}}

\* The boats of a route-day that nobody has whole.
Left(d, r) ==
    {b \in Deployed(d, r) : /\ \A k \in Charters(d, r) : b \notin CharterBoatsOf(k)
                            /\ \A h \in LockIds : Active(h) /\ hold[h].day = d => hold[h].boat # b}

PaxOf(S) == Total([k \in S |-> booking[k].pax])
RoomOn(d, S) == Total([b \in S |-> Sellable(b, DaySeats(d, b))])

\* Passengers sold on a route-day beyond the seats of the boats nobody has whole.
Unseated(d, r) == Clip(PaxOf(Standing(d, r)) - RoomOn(d, Left(d, r)))

\* A charter split over a boat on which it puts nobody.
EmptyShare(k, d, r) ==
    /\ Exists(k) /\ booking[k].mode = "charter" /\ booking[k].day = d /\ booking[k].route = r
    /\ \E b \in DOMAIN booking[k].split : booking[k].split[b] = 0

(* Holding a boat, changing the hold, releasing or converting it never     *)
(* leaves a route with more passengers sold than it has seats for: a hold  *)
(* takes unsold boats only (holdBlockers). A boat a charter is split over  *)
(* with nobody on it counts as empty, and may be the last the charter had. *)
HoldStrandsNobody ==
    hold' # hold => \A d \in Days, r \in Routes :
        Unseated(d, r)' <= Unseated(d, r) \/ \E k \in Bookings : EmptyShare(k, d, r)

(* A hold takes an unsold boat, and keeps it unsold.                       *)
HoldsTakeUnsoldBoats == [][HeldBoatStaysEmpty /\ HoldStrandsNobody]_vars
=============================================================================
