----------------------------- MODULE ChangeRows -----------------------------
(***************************************************************************)
(* What each write is recorded as having changed (routes/change-tracking.ts*)
(* and domain/changes.ts): the store's transaction notes, before the work, *)
(* what the request's path says it is about to change, and afterwards      *)
(* compares. The rows it answers go into the change feed with the write    *)
(* (ChangeFeed numbers and delivers them); a record it does not name is    *)
(* never refetched by any screen. The draw lines of the lock log are       *)
(* written from the same comparison.                                       *)
(*                                                                         *)
(* A record's own fields are a mark that a write flips. The kinds named    *)
(* only by their path (hand-overs, petty cash, deposits, boat days) are    *)
(* left out: the path is the record.                                       *)
(***************************************************************************)
EXTENDS Naturals, FiniteSets

CONSTANTS
    FeedBookings, FeedLocks, FeedInvoices,   \* record ids
    FeedRoutes, FeedDates,                   \* a route-day is a pair of them
    Gone,                                    \* the record does not exist
    MaxWrites                                \* bound: writes in one run

ASSUME RowsAssumption == MaxWrites \in Nat

VARIABLES
    world,    \* the records: bookings, locks, the boat's deployments, invoices, a held order, the routes' places
    told,     \* the change rows of the last write
    log,      \* [FeedLocks -> seats the lock's log says are drawn]
    written   \* writes so far

rowVars == <<world, told, log, written>>

RouteDays == FeedRoutes \X FeedDates
Flip(mark) == 1 - mark

Booked(w) == {b \in FeedBookings : w.book[b] # Gone}
Locked(w) == {l \in FeedLocks : w.lock[l] # Gone}
Issued(w) == {i \in FeedInvoices : w.inv[i] # Gone}
KidsOf(w, l) == {k \in Locked(w) : w.lock[k].parent = l}

-----------------------------------------------------------------------------
(* A request: where its path goes, the records the path or body names, and *)
(* the records its answer names (lockIdsIn, the booking it made).          *)

Request(at, named, answer) == [at |-> at, named |-> named, answer |-> answer]

\* Mutant: an invoice's endpoints do not name its bookings.
BookingsOfBody(req, was) ==
    IF req.at \in {"booking", "bookings' invoice"} THEN req.named ELSE {}

(* bookingIdsBefore: the booking in the path, those of a new invoice, or   *)
(* those on the invoice's lines as they were.                              *)
BookingIdsBefore(req, was) ==
    CASE req.at \in {"booking", "bookings' invoice"} -> req.named
      [] req.at = "invoice" -> UNION {was.inv[i].lines : i \in req.named}
      [] OTHER -> {}

\* The bookings compared before and after: those, and the one the write made.
BookingsOf(req, was) ==
    BookingIdsBefore(req, was) \cup (IF req.at \in {"bookings", "convert"} THEN req.answer ELSE {})

\* Mutant: a cancelled booking is still counted as drawing.
DrawsWhileStored(w, b) == IF b \in Booked(w) THEN w.book[b].draws ELSE {}

\* drawsOf: the locks a booking draws on, while it holds seats.
DrawsOf(w, b) == IF b \in Booked(w) /\ w.book[b].holds THEN w.book[b].draws ELSE {}

\* The locks these bookings draw on more or less than before (drawChanges).
DrawnMore(bs, was, now, l) == {b \in bs : l \in DrawsOf(now, b) \ DrawsOf(was, b)}
DrawnLess(bs, was, now, l) == {b \in bs : l \in DrawsOf(was, b) \ DrawsOf(now, b)}
DrawEvents(bs, was, now) == {l \in FeedLocks : DrawnMore(bs, was, now, l) \cup DrawnLess(bs, was, now, l) # {}}

-----------------------------------------------------------------------------
(* describe                                                                *)

Row(kind, id, action, days) == [kind |-> kind, id |-> id, action |-> action, days |-> days]
DaysOf(w, b) == IF b \in Booked(w) THEN w.book[b].days ELSE {}

\* Mutant: only the days a booking is left on.
DaysAfter(was, now, b) == DaysOf(now, b)

\* bookingDays: a moved trip frees one day and fills another.
BookingDays(was, now, b) == DaysOf(was, b) \cup DaysOf(now, b)

BookingRows(req, was, now) ==
    {Row("booking", b, IF b \in BookingIdsBefore(req, was) THEN "updated" ELSE "created", BookingDays(was, now, b)) :
        b \in BookingsOf(req, was) \cap (Booked(was) \cup Booked(now))}

\* A van group write: the bookings of its route and day whose parts changed.
VanRows(req, was, now) ==
    IF req.at # "van group" THEN {} ELSE
    {Row("booking", b, "updated", {req.named}) :
        b \in {x \in Booked(now) : req.named \in now.book[x].days /\ was.book[x].part # now.book[x].part}}

\* Mutant: only the lock the path names.
LockIdsOfPath(req, was, now) ==
    (IF req.at \in {"lock", "convert"} THEN req.named ELSE {}) \cup DrawEvents(BookingsOf(req, was), was, now)

(* The lock in the path, those the answer names, and those whose draws     *)
(* changed.                                                                *)
LockIds(req, was, now) ==
    (IF req.at \in {"lock", "convert"} THEN req.named ELSE {})
    \cup (IF req.at \in {"locks", "lock"} THEN req.answer ELSE {})
    \cup DrawEvents(BookingsOf(req, was), was, now)

LockRows(req, was, now) ==
    {Row("seat_lock", l, IF l \in Locked(was) THEN "updated" ELSE "created", {now.lock[l].day}) :
        l \in LockIds(req, was, now) \cap Locked(now)}

Placed(w, date) == IF w.dep[date] = Gone THEN {} ELSE {<<w.dep[date].route, date>>}
DeploymentRow(was, now, date) ==
    Row("deployment", date,
        IF now.dep[date] = Gone THEN "deleted" ELSE IF was.dep[date] = Gone THEN "created" ELSE "updated",
        Placed(was, date) \cup Placed(now, date))

\* The days a whole-boat hold write may place its boat on: the hold's, before and after.
HoldDates(req, was, now) ==
    LET holds(w) == {l \in (req.named \cup req.answer) \cap Locked(w) : w.lock[l].boat}
    IN  {was.lock[l].day[2] : l \in holds(was)} \cup {now.lock[l].day[2] : l \in holds(now)}

(* A deployment by its own endpoints, or a hold that placed its boat on a  *)
(* route or took it to another.                                            *)
DeploymentRows(req, was, now) ==
    CASE req.at = "deployment" -> {DeploymentRow(was, now, date) : date \in req.named}
      [] req.at \in {"locks", "lock"} ->
            {DeploymentRow(was, now, date) :
                date \in {d \in HoldDates(req, was, now) : Placed(was, d) # Placed(now, d)}}
      [] OTHER -> {}

\* invoicePrints: the invoices of the bookings noted before, then and now.
InvoiceRows(req, was, now) ==
    LET of(w) == {i \in Issued(w) : w.inv[i].lines \cap BookingIdsBefore(req, was) # {}}
    IN  {Row("invoice", i, IF i \in of(was) THEN "updated" ELSE "created", {}) :
            i \in {j \in of(now) : j \notin of(was) \/ was.inv[j] # now.inv[j]}}

\* Ops settled the held order, or Love Kingdom's create did (its external id is the booking's).
OrderRows(req, was, now) ==
    IF req.at = "held order" \/ (req.at = "bookings" /\ was.order = "open" /\ now.order # "open")
    THEN {Row("b2c_held_order", "order", "updated", {})} ELSE {}

\* A boat write: the days whose deployment it rewrote.
BoatRows(req, was, now) ==
    IF req.at # "boat" THEN {} ELSE
    {Row("boat", "boat", "updated", UNION {Placed(now, d) : d \in {e \in FeedDates : was.dep[e] # now.dep[e]}})}

\* A reorder: the routes whose place changed.
RouteRows(req, was, now) ==
    IF req.at # "route order" THEN {} ELSE
    {Row("route", r, "updated", {}) : r \in {x \in FeedRoutes : was.place[x] # now.place[x]}}

(* mergeChanges: one row per record; created beats updated, the days add up.*)
Merged(rows) ==
    LET same(r) == {q \in rows : q.kind = r.kind /\ q.id = r.id}
        action(r) == IF \E q \in same(r) : q.action = "created" THEN "created" ELSE r.action
    IN  {Row(r.kind, r.id, action(r), UNION {q.days : q \in same(r)}) : r \in rows}

Describe(req, was, now) ==
    Merged(BookingRows(req, was, now) \cup VanRows(req, was, now) \cup LockRows(req, was, now)
           \cup DeploymentRows(req, was, now) \cup InvoiceRows(req, was, now) \cup OrderRows(req, was, now)
           \cup BoatRows(req, was, now) \cup RouteRows(req, was, now))

(* trackChanges: the work, then its rows, in one transaction; drawEvents   *)
(* writes the lock log from the same bookings.                             *)
Write(req, now) ==
    /\ world' = now
    /\ told' = Describe(req, world, now)
    /\ log' = [l \in FeedLocks |->
          log[l] + Cardinality(DrawnMore(BookingsOf(req, world), world, now, l))
                 - Cardinality(DrawnLess(BookingsOf(req, world), world, now, l))]

-----------------------------------------------------------------------------
(* The writes                                                              *)

NewBooking(days, draws) == [days |-> days, draws |-> draws, holds |-> TRUE, part |-> 0, mark |-> 0]
Drawable(w) == {l \in Locked(w) : ~w.lock[l].boat}

\* A create, which may settle the order Love Kingdom had held for it.
CreateBooking(b, days, draws) ==
    /\ b \notin Booked(world)
    /\ \E order \in {world.order} \cup (IF world.order = "open" THEN {"settled"} ELSE {}) :
          Write(Request("bookings", {}, {b}),
                [world EXCEPT !.book[b] = NewBooking(days, draws), !.order = order])

\* An edit: its days, its draws, or any other of its fields. A moved trip loses its van parts.
EditBooking(b, days, draws) ==
    /\ b \in Booked(world)
    /\ Write(Request("booking", {b}, {}),
             [world EXCEPT !.book[b] = [@ EXCEPT !.days = days, !.draws = draws, !.mark = Flip(@),
                                                 !.part = IF days = world.book[b].days THEN @ ELSE 0]])

\* A cancel or a restore: the seats, and with a cancel the invoices of the booking.
CancelOrRestore(b) ==
    /\ b \in Booked(world)
    /\ LET voided == IF world.book[b].holds THEN {i \in Issued(world) : b \in world.inv[i].lines} ELSE {}
       IN  Write(Request("booking", {b}, {}),
                 [world EXCEPT !.book[b].holds = ~@,
                               !.inv = [i \in FeedInvoices |->
                                  IF i \in voided THEN [@[i] EXCEPT !.mark = Flip(@)] ELSE @[i]]])

\* Van parts and groups of one route-day: some of its bookings take another van.
WriteVanGroup(day, bs) ==
    /\ bs # {} /\ \A b \in bs : day \in DaysOf(world, b)
    /\ Write([at |-> "van group", named |-> day, answer |-> {}],
             [world EXCEPT !.book = [b \in FeedBookings |->
                 IF b \in bs THEN [@[b] EXCEPT !.part = Flip(@)] ELSE @[b]]])

NewLock(day, boat, parent) == [day |-> day, boat |-> boat, parent |-> parent, mark |-> 0]

\* The deployment of a hold's boat: placed on the hold's route that day.
BoatPlaced(w, day, boat) ==
    [d \in FeedDates |->
        IF ~boat \/ d # day[2] THEN w.dep[d]
        ELSE IF w.dep[d] = Gone THEN [route |-> day[1], mark |-> 0] ELSE [w.dep[d] EXCEPT !.route = day[1]]]

CreateLock(l, day, boat) ==
    /\ l \notin Locked(world)
    /\ Write(Request("locks", {}, {l}),
             [world EXCEPT !.lock[l] = NewLock(day, boat, Gone), !.dep = BoatPlaced(world, day, boat)])

\* A sub-group: its parent is stamped as well.
CreateSubGroup(l, top) ==
    /\ l \notin Locked(world) /\ top \in Locked(world)
    /\ ~world.lock[top].boat /\ world.lock[top].parent = Gone
    /\ Write(Request("lock", {top}, {l}),
             [world EXCEPT !.lock[l] = NewLock(world.lock[top].day, FALSE, top), !.lock[top].mark = Flip(@)])

\* A lock moved to another day, its sub-groups with it; never one drawn on.
MoveLock(l, day) ==
    /\ l \in Locked(world) /\ world.lock[l].parent = Gone /\ day # world.lock[l].day
    /\ \A b \in FeedBookings : DrawsOf(world, b) \cap ({l} \cup KidsOf(world, l)) = {}
    /\ Write(Request("lock", {l}, {l}),
             [world EXCEPT !.dep = BoatPlaced(world, day, world.lock[l].boat),
                           !.lock = [k \in FeedLocks |->
                              IF k \in {l} \cup KidsOf(world, l) THEN [@[k] EXCEPT !.day = day, !.mark = Flip(@)]
                              ELSE @[k]]])

\* Any other command on one lock, or a bulk or overdue one whose answer names every lock it wrote.
WriteLocks(ls) ==
    /\ ls # {} /\ ls \subseteq Locked(world)
    /\ Write(IF Cardinality(ls) = 1 THEN Request("lock", ls, ls) ELSE Request("locks", {}, ls),
             [world EXCEPT !.lock = [l \in FeedLocks |->
                 IF l \in ls THEN [@[l] EXCEPT !.mark = Flip(@)] ELSE @[l]]])

\* A hold becomes a booking.
Convert(l, b) ==
    /\ l \in Locked(world) /\ world.lock[l].boat /\ b \notin Booked(world)
    /\ Write(Request("convert", {l}, {b}),
             [world EXCEPT !.book[b] = NewBooking({world.lock[l].day}, {}), !.lock[l].mark = Flip(@)])

WriteDeployment(date, dep) ==
    /\ dep # world.dep[date]
    /\ Write(Request("deployment", {date}, {}), [world EXCEPT !.dep[date] = dep])

\* A boat's new capacity or licence rewrites its deployments.
WriteBoat(dates) ==
    /\ dates \subseteq {d \in FeedDates : world.dep[d] # Gone}
    /\ Write(Request("boat", {}, {}),
             [world EXCEPT !.dep = [d \in FeedDates |->
                 IF d \in dates THEN [@[d] EXCEPT !.mark = Flip(@)] ELSE @[d]]])

IssueInvoice(i, bs) ==
    /\ i \notin Issued(world) /\ bs # {} /\ bs \subseteq Booked(world)
    /\ Write(Request("bookings' invoice", bs, {}), [world EXCEPT !.inv[i] = [lines |-> bs, mark |-> 0]])

\* Edited, voided or paid by its own endpoints.
WriteInvoice(i) ==
    /\ i \in Issued(world)
    /\ Write(Request("invoice", {i}, {}), [world EXCEPT !.inv[i].mark = Flip(@)])

SettleOrder ==
    /\ world.order = "open"
    /\ Write(Request("held order", {}, {}), [world EXCEPT !.order = "settled"])

OrderTheRoutes(place) ==
    /\ place # world.place
    /\ Write(Request("route order", {}, {}), [world EXCEPT !.place = place])

-----------------------------------------------------------------------------
RowsInit ==
    /\ world = [book |-> [b \in FeedBookings |-> Gone], lock |-> [l \in FeedLocks |-> Gone],
                dep |-> [d \in FeedDates |-> Gone], inv |-> [i \in FeedInvoices |-> Gone],
                order |-> "open", place |-> [r \in FeedRoutes |-> 0]]
    /\ told = {} /\ log = [l \in FeedLocks |-> 0] /\ written = 0

DaySets == (SUBSET RouteDays) \ {{}}

BookingWrite(b) ==
    \/ \E days \in DaySets, draws \in SUBSET Drawable(world) : CreateBooking(b, days, draws) \/ EditBooking(b, days, draws)
    \/ CancelOrRestore(b)
    \/ \E l \in FeedLocks : Convert(l, b)

LockWrite(l) ==
    \/ \E day \in RouteDays : MoveLock(l, day) \/ \E boat \in BOOLEAN : CreateLock(l, day, boat)
    \/ \E top \in FeedLocks : CreateSubGroup(l, top)

DeskWrite ==
    \/ \E day \in RouteDays, bs \in SUBSET FeedBookings : WriteVanGroup(day, bs)
    \/ \E ls \in SUBSET FeedLocks : WriteLocks(ls)
    \/ \E date \in FeedDates, r \in FeedRoutes : WriteDeployment(date, [route |-> r, mark |-> 0]) \/ WriteDeployment(date, Gone)
    \/ \E dates \in SUBSET FeedDates : WriteBoat(dates)
    \/ \E i \in FeedInvoices : WriteInvoice(i) \/ \E bs \in SUBSET FeedBookings : IssueInvoice(i, bs)
    \/ SettleOrder
    \/ \E place \in [FeedRoutes -> {0, 1}] : OrderTheRoutes(place)

RowsNext ==
    /\ written < MaxWrites /\ written' = written + 1
    /\ DeskWrite \/ (\E b \in FeedBookings : BookingWrite(b)) \/ (\E l \in FeedLocks : LockWrite(l))

RowsSpec == RowsInit /\ [][RowsNext]_rowVars

-----------------------------------------------------------------------------
ToldAs(kind, id) == {r \in told' : r.kind = kind /\ r.id = id}
Action(before, after) == IF before = Gone THEN "created" ELSE IF after = Gone THEN "deleted" ELSE "updated"

\* A changed record has a row, saying whether it is new or gone, with at least these days.
Told(kind, id, before, after, days) ==
    before # after => \E r \in ToldAs(kind, id) : r.action = Action(before, after) /\ days \subseteq r.days

\* The bookings holding seats that draw on a lock.
Drawing(w, l) == {b \in Booked(w) : w.book[b].holds /\ l \in w.book[b].draws}

\* A lock that changed, or that other bookings draw on than before.
LockTouched(l) == world.lock[l] # world'.lock[l] \/ Drawing(world, l) # Drawing(world', l)
Followed(l) ==
    l \in Locked(world) /\ world.lock[l].parent # Gone /\ world.lock[l].day # world'.lock[l].day

(* A write that commits always has its change (README, Live updates): each *)
(* booking, invoice, deployment, held order and route it changed has one   *)
(* row, and so has each lock it wrote or whose draws it changed; a booking *)
(* names the days it left as well as those it went to. Two exceptions, in  *)
(* which the code says less: the sub-groups that follow a moved lock, and  *)
(* a deployment whose seats a boat write changed, told by the boat's row.  *)
EveryWriteIsTold ==
    /\ \A b \in FeedBookings :
          Told("booking", b, world.book[b], world'.book[b],
               IF b \in Booked(world) /\ b \in Booked(world') /\ world.book[b].days = world'.book[b].days
               THEN {} ELSE DaysOf(world, b) \cup DaysOf(world', b))
    /\ \A l \in FeedLocks : LockTouched(l) /\ ~Followed(l) => ToldAs("seat_lock", l) # {}
    /\ \A d \in FeedDates :
          \/ Told("deployment", d, world.dep[d], world'.dep[d], Placed(world, d) \cup Placed(world', d))
          \/ \E r \in ToldAs("boat", "boat") : Placed(world', d) \subseteq r.days
    /\ \A i \in FeedInvoices : Told("invoice", i, world.inv[i], world'.inv[i], {})
    /\ Told("b2c_held_order", "order", world.order, world'.order, {})
    /\ \A r \in FeedRoutes : Told("route", r, world.place[r], world'.place[r], {})
    /\ \A q, r \in told' : q.kind = r.kind /\ q.id = r.id => q = r

(* The lock log's draw and return lines add up to the seats bookings that  *)
(* hold seats draw from the lock, whichever command changed the draws.     *)
LogMatchesDraws ==
    \A l \in FeedLocks : log[l] = Cardinality(Drawing(world, l))
=============================================================================
