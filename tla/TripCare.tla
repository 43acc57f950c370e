------------------------------ MODULE TripCare ------------------------------
(***************************************************************************)
(* What happens to a booking's trips after the sale: a departure closed    *)
(* for weather and the follow-up of every booking on it (weather.ts), a    *)
(* trip moved up to another programme and back (upgrades.ts), the customer *)
(* asked to reconfirm (reconfirm.ts) and the agent's papers checked        *)
(* (doc-check.ts).  A departure is a record [route, day].  Seats: Room on  *)
(* every departure, one party per booking.                                 *)
(***************************************************************************)
EXTENDS Naturals, Sequences, FiniteSets

CONSTANTS
    Guests,         \* bookings
    Sold,           \* booking |-> the departures it was sold, one trip each
    Routes, Days,
    Room,           \* parties a departure seats
    Closures,       \* closure ids, 1 .. some bound
    Papers,         \* what the agent's document is compared on
    MaxCares        \* bound: requests of a history

VARIABLES
    state,          \* booking |-> "confirmed", "cancelled" or "cancelled_weather"
    trips,          \* booking |-> its trips' departures
    closure,        \* closure |-> NoClosure, or [route, day, open]
    case,           \* closure, booking |-> NoCase, or [status, outcome, newDay]
    upgrades,       \* booking_trip_upgrades, oldest first
    sales,          \* booking |-> the charges of its upgrades, [id, collected]
    reconfirm,      \* booking |-> [status, sent], status NoStatus when nothing was said
    check,          \* booking |-> [status, ticked], status NoStatus when nothing was checked
    cares

careVars == <<state, trips, closure, case, upgrades, sales, reconfirm, check, cares>>

Departures == [route: Routes, day: Days]
NoClosure == [route |-> "none", day |-> 0, open |-> FALSE]
NoCase == [status |-> "none", outcome |-> "none", newDay |-> 0]
Awaiting == [status |-> "awaiting", outcome |-> "none", newDay |-> 0]
NoStatus == "none"
Unsaid == [status |-> NoStatus, sent |-> FALSE]
Unchecked == [status |-> NoStatus, ticked |-> {}]

Holds(b) == state[b] = "confirmed"
TripsOf(b) == 1 .. Len(trips[b])
At(k) == [route |-> closure[k].route, day |-> closure[k].day]

-----------------------------------------------------------------------------
(* Weather. *)

OnTripOf(status, list, k) ==
    /\ status = "confirmed"
    /\ \E t \in DOMAIN list : list[t] = At(k)
OnTrip(b, k) == OnTripOf(state[b], trips[b], k)

OpenOn(d) == {k \in Closures : closure[k].open /\ At(k) = d}

\* The list is worked out on every read: who is on the trip, and who has a row.
FollowUps(k) == {b \in Guests : \/ case[k, b] # NoCase
                                \/ closure[k].open /\ OnTrip(b, k)}
TripStatusOn(k, b) == IF case[k, b] = NoCase THEN "awaiting" ELSE case[k, b].status

Close(k, d) ==
    /\ closure[k] = NoClosure /\ \A j \in Closures : j < k => closure[j] # NoClosure
    /\ OpenOn(d) = {}
    /\ closure' = [closure EXCEPT ![k] = [route |-> d.route, day |-> d.day, open |-> TRUE]]
    /\ UNCHANGED <<state, trips, case, upgrades, sales, reconfirm, check>>

Notify(k, b) ==
    /\ closure[k].open
    /\ b \in FollowUps(k) /\ TripStatusOn(k, b) = "awaiting"
    /\ case' = [case EXCEPT ![k, b] = [Awaiting EXCEPT !.status = "notified"]]
    /\ UNCHANGED <<state, trips, closure, upgrades, sales, reconfirm, check>>

\* The bookings that go back to normal when a closure is undone.
Back(k) == {b \in FollowUps(k) : TripStatusOn(k, b) # "resolved"}

Reopen(k, anyway) ==
    /\ closure[k].open
    /\ (\E b \in FollowUps(k) : TripStatusOn(k, b) = "resolved") => anyway
    /\ closure' = [closure EXCEPT ![k].open = FALSE]
    /\ case' = [x \in DOMAIN case |-> IF x[1] = k /\ x[2] \in Back(k) THEN NoCase ELSE case[x]]
    /\ UNCHANGED <<state, trips, upgrades, sales, reconfirm, check>>

\* The closures a command reads: those of the trips it had, and those it has rows on.
ReadClosures(b) ==
    {k \in Closures : \/ closure[k].open /\ \E t \in TripsOf(b) : trips[b][t] = At(k)
                      \/ case[k, b] # NoCase}

ResolvedAgain(b, status, list, allRows) ==
    {k \in ReadClosures(b) : closure[k].open /\ OnTrip(b, k) /\ ~OnTripOf(status, list, k)}
ResolvedRows(b, status, list, allRows) ==
    {k \in ReadClosures(b) :
        /\ closure[k].open
        /\ case[k, b].status # "resolved"
        /\ \/ OnTrip(b, k) /\ ~OnTripOf(status, list, k)
           \/ allRows /\ case[k, b] # NoCase}

ResolveWeather(b, status, list, outcome, newDay, allRows) ==
    LET found == ResolvedRows(b, status, list, allRows)
    IN  case' = [x \in DOMAIN case |-> IF x[2] = b /\ x[1] \in found
                    THEN [status |-> "resolved", outcome |-> outcome, newDay |-> newDay]
                    ELSE case[x]]

CancelWeather(b, outcome) ==
    /\ Holds(b)
    /\ state' = [state EXCEPT ![b] = "cancelled_weather"]
    /\ ResolveWeather(b, "cancelled_weather", trips[b], outcome, 0, TRUE)
    /\ UNCHANGED <<trips, closure, upgrades, sales, reconfirm, check>>

Taken(d, b) == Cardinality({c \in Guests \ {b} : Holds(c) /\ \E t \in TripsOf(c) : trips[c][t] = d})
HasRoom(d, b) == Taken(d, b) < Room

Moved(b, from, to) == [t \in TripsOf(b) |->
    IF trips[b][t].day = from THEN [trips[b][t] EXCEPT !.day = to] ELSE trips[b][t]]

\* A reschedule moves every trip of a date.
RescheduleGuest(b, from, to) ==
    /\ Holds(b) /\ from # to
    /\ \E t \in TripsOf(b) : trips[b][t].day = from
    /\ \A t \in TripsOf(b) : trips[b][t].day = from => HasRoom([trips[b][t] EXCEPT !.day = to], b)
    /\ trips' = [trips EXCEPT ![b] = Moved(b, from, to)]
    /\ ResolveWeather(b, state[b], Moved(b, from, to), "reschedule", to, FALSE)
    /\ UNCHANGED <<state, closure, upgrades, sales, reconfirm, check>>

\* An ordinary edit moves a trip anywhere and leaves the follow-ups alone.
AmendGuest(b, t, d) ==
    /\ Holds(b) /\ trips[b][t] # d /\ HasRoom(d, b)
    /\ trips' = [trips EXCEPT ![b][t] = d]
    /\ UNCHANGED <<state, closure, case, upgrades, sales, reconfirm, check>>

CancelGuest(b) ==
    /\ Holds(b)
    /\ state' = [state EXCEPT ![b] = "cancelled"]
    /\ UNCHANGED <<trips, closure, case, upgrades, sales, reconfirm, check>>

\* A restore takes its seats back even on a full departure.
RestoreGuest(b) ==
    /\ ~Holds(b)
    /\ state' = [state EXCEPT ![b] = "confirmed"]
    /\ UNCHANGED <<trips, closure, case, upgrades, sales, reconfirm, check>>

-----------------------------------------------------------------------------
(* Route upgrades: [b, t, from, to, sale, undone], sale 0 when it was free. *)

LiveUpgrades(b, t) ==
    {i \in DOMAIN upgrades : upgrades[i].b = b /\ upgrades[i].t = t /\ ~upgrades[i].undone}
NewestOf(S) == CHOOSE i \in S : \A j \in S : j <= i

MayUpgrade(b, t, to) == LiveUpgrades(b, t) = {} /\ trips[b][t].route # to

Upgrade(b, t, to, charged) ==
    LET d == [trips[b][t] EXCEPT !.route = to]
        id == Len(upgrades) + 1
    IN  /\ Holds(b) /\ MayUpgrade(b, t, to) /\ HasRoom(d, b)
        /\ trips' = [trips EXCEPT ![b][t] = d]
        /\ sales' = IF charged THEN [sales EXCEPT ![b] = @ \cup {[id |-> id, collected |-> FALSE]}]
                               ELSE sales
        /\ upgrades' = Append(upgrades, [b |-> b, t |-> t, from |-> trips[b][t].route, to |-> to,
                                         sale |-> IF charged THEN id ELSE 0, undone |-> FALSE])
        /\ UNCHANGED <<state, closure, case, reconfirm, check>>

KeptAfterUndoAll(b, sale) == sales[b]
\* A charge already collected stays on the booking; one not collected goes with the upgrade.
KeptAfterUndo(b, sale) == {s \in sales[b] : s.id = sale => s.collected}

UndoUpgrade(b, t) ==
    /\ Holds(b) /\ LiveUpgrades(b, t) # {}
    /\ LET i == NewestOf(LiveUpgrades(b, t))
           d == [trips[b][t] EXCEPT !.route = upgrades[i].from]
       IN  /\ HasRoom(d, b)
           /\ trips' = [trips EXCEPT ![b][t] = d]
           /\ sales' = [sales EXCEPT ![b] = KeptAfterUndo(b, upgrades[i].sale)]
           /\ upgrades' = [upgrades EXCEPT ![i].undone = TRUE]
    /\ UNCHANGED <<state, closure, case, reconfirm, check>>

Collect(b, s) ==
    /\ s \in sales[b] /\ ~s.collected
    /\ sales' = [sales EXCEPT ![b] = (@ \ {s}) \cup {[s EXCEPT !.collected = TRUE]}]
    /\ UNCHANGED <<state, trips, closure, case, upgrades, reconfirm, check>>

-----------------------------------------------------------------------------
(* The customer asked, and the agent's papers. *)

\* From the reconfirm page whether the list was sent stays; from the board the record is replaced.
WithStatus(r, said, via) == [status |-> said, sent |-> via = "reconfirm" /\ r.sent]
WithoutStatus(r, all) == IF all THEN Unsaid ELSE [r EXCEPT !.status = NoStatus]

Say(b, said, via) ==
    /\ reconfirm' = [reconfirm EXCEPT ![b] = WithStatus(@, said, via)]
    /\ UNCHANGED <<state, trips, closure, case, upgrades, sales, check>>
Unsay(b, all) ==
    /\ reconfirm' = [reconfirm EXCEPT ![b] = WithoutStatus(@, all)]
    /\ UNCHANGED <<state, trips, closure, case, upgrades, sales, check>>

\* A list sent passes over the bookings that gave their seats back.
Sendable(S) == {b \in S : Holds(b)}
SendList(S, sent) ==
    /\ reconfirm' = [b \in Guests |->
            IF b \in (IF sent THEN Sendable(S) ELSE S)
            THEN [reconfirm[b] EXCEPT !.sent = sent] ELSE reconfirm[b]]
    /\ UNCHANGED <<state, trips, closure, case, upgrades, sales, check>>

Started(c) == IF c.status = NoStatus THEN [c EXCEPT !.status = "pending"] ELSE c
Tick(b, item, on) ==
    /\ check' = [check EXCEPT ![b] =
            [Started(@) EXCEPT !.ticked = IF on THEN @ \cup {item} ELSE @ \ {item}]]
    /\ UNCHANGED <<state, trips, closure, case, upgrades, sales, reconfirm>>
\* Verified does not need every tick.
Judge(b, verdict) ==
    /\ check' = [check EXCEPT ![b].status = verdict]
    /\ UNCHANGED <<state, trips, closure, case, upgrades, sales, reconfirm>>

\* The browser's reading ticks what it matched and never unticks.
PreChecked(c, matched) == [Started(c) EXCEPT !.ticked = @ \cup matched]
PreCheck(b, matched, autoTick) ==
    /\ check' = [check EXCEPT ![b] = PreChecked(@, IF autoTick THEN matched ELSE {})]
    /\ UNCHANGED <<state, trips, closure, case, upgrades, sales, reconfirm>>

-----------------------------------------------------------------------------

CareInit ==
    /\ state = [b \in Guests |-> "confirmed"]
    /\ trips = Sold
    /\ closure = [k \in Closures |-> NoClosure]
    /\ case = [x \in Closures \X Guests |-> NoCase]
    /\ upgrades = <<>>
    /\ sales = [b \in Guests |-> {}]
    /\ reconfirm = [b \in Guests |-> Unsaid]
    /\ check = [b \in Guests |-> Unchecked]
    /\ cares = 0

WeatherStep ==
    \/ \E k \in Closures, d \in Departures : Close(k, d)
    \/ \E k \in Closures, b \in Guests : Notify(k, b)
    \/ \E k \in Closures, anyway \in BOOLEAN : Reopen(k, anyway)
    \/ \E b \in Guests, o \in {"cancel", "refund"} : CancelWeather(b, o)
BookedStep ==
    \/ \E b \in Guests, from, to \in Days : RescheduleGuest(b, from, to)
    \/ \E b \in Guests, d \in Departures : \E t \in TripsOf(b) : AmendGuest(b, t, d)
    \/ \E b \in Guests : CancelGuest(b) \/ RestoreGuest(b)
UpgradeStep ==
    \/ \E b \in Guests, to \in Routes, charged \in BOOLEAN : \E t \in TripsOf(b) : Upgrade(b, t, to, charged)
    \/ \E b \in Guests : \E t \in TripsOf(b) : UndoUpgrade(b, t)
    \/ \E b \in Guests : \E s \in sales[b] : Collect(b, s)
PaperStep ==
    \/ \E b \in Guests, via \in {"reconfirm", "phone"} : Say(b, "done", via)
    \/ \E b \in Guests, all \in BOOLEAN : Unsay(b, all)
    \/ \E S \in (SUBSET Guests) \ {{}}, sent \in BOOLEAN : SendList(S, sent)
    \/ \E b \in Guests, item \in Papers, on \in BOOLEAN : Tick(b, item, on)
    \/ \E b \in Guests, verdict \in {"verified", "issue"} : Judge(b, verdict)
    \/ \E b \in Guests, matched \in SUBSET Papers, auto \in BOOLEAN : PreCheck(b, matched, auto)

AskCare == cares < MaxCares /\ cares' = cares + 1
TripStep == AskCare /\ (WeatherStep \/ BookedStep \/ UpgradeStep)
DeskStep == AskCare /\ (PaperStep \/ BookedStep)
CareNext == TripStep \/ DeskStep

CareSpec == CareInit /\ [][CareNext]_careVars

-----------------------------------------------------------------------------

\* The rows the tables hold.
ClosureRows == [route: Routes, day: Days, open: BOOLEAN]
CaseRows == [status: {"none", "notified", "resolved"}, outcome: {"none", "cancel", "refund", "reschedule"},
             newDay: Days \cup {0}]
SaleRows == [id: 1 .. MaxCares, collected: BOOLEAN]
ReconfirmRows == [status: {NoStatus, "done"}, sent: BOOLEAN]
CheckRows == [status: {NoStatus, "pending", "verified", "issue"}, ticked: SUBSET Papers]

\* Every row has its type.
CareTypeOK ==
    /\ state \in [Guests -> {"confirmed", "cancelled", "cancelled_weather"}]
    /\ \A b \in Guests : trips[b] \in Seq(Departures)
    /\ closure \in [Closures -> {NoClosure} \cup ClosureRows]
    /\ case \in [Closures \X Guests -> CaseRows]
    /\ sales \in [Guests -> SUBSET SaleRows]
    /\ reconfirm \in [Guests -> ReconfirmRows]
    /\ check \in [Guests -> CheckRows]

\* A departure is closed for weather once at a time, so that its follow-up is one list.
OneOpenClosure == \A j, k \in Closures :
    closure[j].open /\ closure[k].open /\ At(j) = At(k) => j = k

\* A weather cancel settles the booking everywhere: nothing is left to ask it on any closed departure,
\* those it had left by an edit or an upgrade included (weather.ts resolvedRows, allOpenRows).
CancelledIsAskedNothing == \A b \in Guests, k \in Closures :
    state[b] = "cancelled_weather" /\ closure[k].open => case[k, b].status # "notified"

\* A charge still to be collected is of an upgrade in force, and a trip has one upgrade in force.
ChargeFollowsUpgrade ==
    /\ \A b \in Guests : \A t \in TripsOf(b) : Cardinality(LiveUpgrades(b, t)) <= 1
    /\ \A b \in Guests : \A s \in sales[b] : s.collected \/ ~upgrades[s.id].undone
    /\ \A i \in DOMAIN upgrades : upgrades[i].sale # 0 /\ ~upgrades[i].undone
            => \E s \in sales[upgrades[i].b] : s.id = upgrades[i].sale

CareKept == OneOpenClosure /\ CancelledIsAskedNothing /\ ChargeFollowsUpgrade

\* What a booking was first settled with on a closed departure is never changed nor lost, whatever
\* moves it again and whether the closure is undone; a reschedule or a weather cancel never leaves a
\* closed departure without settling the booking there; and money collected for an upgrade stays.
SettledStays ==
    /\ \A x \in DOMAIN case : case[x].status = "resolved" => case'[x] = case[x]
    /\ \A b \in Guests, k \in Closures :
        /\ closure[k].open /\ OnTrip(b, k) /\ ~OnTrip(b, k)'
        /\ (\E from, to \in Days : RescheduleGuest(b, from, to)) \/ (\E o \in {"cancel", "refund"} : CancelWeather(b, o))
        => case'[k, b].status = "resolved"
    /\ \A b \in Guests : \A s \in sales[b] : s.collected => s \in sales'[b]
=============================================================================
