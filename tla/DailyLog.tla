------------------------------ MODULE DailyLog ------------------------------
(***************************************************************************)
(* The Daily Fleet Log (fleet-daily.ts): what each boat burned, carried    *)
(* and read on its meters a day, kept under the pier the boat worked from  *)
(* that day (fleet-assignments.ts), and closed by that pier's day lock;    *)
(* and the monthly fuel report worked out of it (fleet-reports.ts).        *)
(* Water, issued items and extra items are one count; engine meters, which *)
(* follow the same lock, are left out.  Days are naturals of one month.    *)
(***************************************************************************)
EXTENDS Integers, Sequences, FiniteSets, FiniteSetsExt, Functions

CONSTANTS
    LogBoats, LogPiers, LogRoutes,
    LogDays,        \* 1 .. some day of the month
    HomeAtFirst,    \* boat |-> its home pier, NoHome when it has none
    OwnBoats,       \* the boats neither chartered nor retired
    BookedPax,      \* day, boat |-> the pax booked on each of its routes
    FamilyOf,       \* route |-> its programme family
    Fuel, Prices,   \* what may be keyed in
    NoHome,
    MaxLog          \* bound: requests of a history

NotKeyed == -1

VARIABLES
    logDay, home,
    moves,          \* boat_assignments, oldest first
    atShop,         \* the <<day, boat>> held by a started job at a shop (fleet-jobs.ts)
    noted,          \* day, boat |-> the pier its status entry names, or NoHome
    row,            \* day, boat |-> [kept, fuel, pax, extras]; pax None: as booked
    price,          \* day, pier or boat |-> baht per litre, None when not set
    outsiders,      \* day, pier |-> what outsiders drew
    locks,          \* the locked <<day, pier>>
    logged

logVars == <<logDay, home, moves, atShop, noted, row, price, outsiders, locks, logged>>

EmptyRow == [kept |-> FALSE, fuel |-> 0, pax |-> NotKeyed, extras |-> 0]
Keyed == LogBoats \union LogPiers

-----------------------------------------------------------------------------
(* Where a boat works from. *)

Covers(m, d) == ~m.cancelled /\ m.first <= d /\ d <= m.last
MovesCovering(b, d) == {i \in DOMAIN moves : moves[i].boat = b /\ Covers(moves[i], d)}

PierOn(b, d) ==
    IF MovesCovering(b, d) # {} THEN moves[Min(MovesCovering(b, d))].to
    ELSE IF noted[d, b] # NoHome THEN noted[d, b] ELSE home[b]

DailyPier(b, d) == IF <<d, b>> \in atShop THEN home[b] ELSE PierOn(b, d)

ActiveOn(m, d) == Covers(m, d)
\* Mutant: a move may end before it begins.
InAnyOrder(first, last) == TRUE
InOrder(first, last) == first <= last
Assign(b, kind, from, to, first, last) ==
    LET m == [boat |-> b, kind |-> kind, to |-> to, first |-> first, last |-> last,
              cancelled |-> FALSE]
    IN /\ from # to /\ InOrder(first, last)
       /\ moves' = Append(moves, m)
       /\ home' = IF kind = "permanent" /\ ActiveOn(m, logDay) THEN [home EXCEPT ![b] = to]
                  ELSE home
       /\ UNCHANGED <<logDay, atShop, noted, row, price, outsiders, locks>>

CancelAssignment(i) ==
    /\ ~moves[i].cancelled
    /\ moves' = [moves EXCEPT ![i].cancelled = TRUE]
    /\ UNCHANGED <<logDay, home, atShop, noted, row, price, outsiders, locks>>

NextLogDay ==
    /\ logDay + 1 \in LogDays /\ logDay' = logDay + 1
    /\ UNCHANGED <<home, moves, atShop, noted, row, price, outsiders, locks>>

\* What the status log names from a day on, and on some days.
DaysFrom(d) == {x \in LogDays : d <= x}
Noting(b, days, p) == [x \in DOMAIN noted |-> IF x[1] \in days /\ x[2] = b THEN p ELSE noted[x]]

(* POST /v1/fleet/jobs/{id}/start, at a shop: the boat is held from the    *)
(* job's start date, and its status log names the shop's place (a pier's,  *)
(* or none) from today, or from tomorrow when it sailed today.             *)
ShopHolds(b, since, from, p) ==
    /\ \A d \in LogDays : <<d, b>> \notin atShop
    /\ since <= from
    /\ atShop' = atShop \union (DaysFrom(since) \X {b})
    /\ noted' = [Noting(b, DaysFrom(from), p) EXCEPT ![logDay, b] = IF from = logDay THEN p ELSE NoHome]
    /\ UNCHANGED <<logDay, home, moves, row, price, outsiders, locks>>
\* .../close: the boat is where its status log had it today.
ShopReturns(b) ==
    /\ \E d \in LogDays : <<d, b>> \in atShop
    /\ atShop' = {x \in atShop : x[2] # b}
    /\ noted' = Noting(b, DaysFrom(logDay), noted[logDay, b])
    /\ UNCHANGED <<logDay, home, moves, row, price, outsiders, locks>>
\* The status log's routes: some days have an entry that names a pier, or none any more.
Note(b, p, first, last) ==
    /\ first <= last /\ noted' = Noting(b, first .. last, p)
    /\ UNCHANGED <<logDay, home, moves, atShop, row, price, outsiders, locks>>

-----------------------------------------------------------------------------
(* The log. *)

DayOpen(d, p) == p = NoHome \/ <<d, p>> \notin locks

SaveBoatDayAtHome(d, b, fuel, pax) ==
    /\ DayOpen(d, home[b])
    /\ row' = [row EXCEPT ![d, b].kept = TRUE, ![d, b].fuel = fuel, ![d, b].pax = pax]
    /\ UNCHANGED <<logDay, home, moves, atShop, noted, price, outsiders, locks>>
SaveBoatDay(d, b, fuel, pax) ==
    /\ DayOpen(d, DailyPier(b, d))
    /\ row' = [row EXCEPT ![d, b].kept = TRUE, ![d, b].fuel = fuel, ![d, b].pax = pax]
    /\ UNCHANGED <<logDay, home, moves, atShop, noted, price, outsiders, locks>>

SaveExtras(d, b, n) ==
    /\ DayOpen(d, DailyPier(b, d))
    /\ row' = [row EXCEPT ![d, b].extras = n]
    /\ UNCHANGED <<logDay, home, moves, atShop, noted, price, outsiders, locks>>

\* The pier whose lock guards a price: the pier's own, or the boat's that day.
PriceLock(d, k) == IF k \in LogBoats THEN DailyPier(k, d) ELSE k

\* Several prices of a day at once, all or none.
SetPricesSplit(d, some) ==
    LET open == {k \in DOMAIN some : DayOpen(d, PriceLock(d, k))}
    IN /\ open # {}
       /\ price' = [x \in DOMAIN price |-> IF x[1] = d /\ x[2] \in DOMAIN some THEN some[x[2]]
                                           ELSE price[x]]
       /\ UNCHANGED <<logDay, home, moves, atShop, noted, row, outsiders, locks>>
SetPrices(d, some) ==
    /\ \A k \in DOMAIN some : DayOpen(d, PriceLock(d, k))
    /\ price' = [x \in DOMAIN price |-> IF x[1] = d /\ x[2] \in DOMAIN some THEN some[x[2]]
                                        ELSE price[x]]
    /\ UNCHANGED <<logDay, home, moves, atShop, noted, row, outsiders, locks>>

\* A request is added (n = 1) or taken off (n = -1).
Ask(d, p, n) ==
    /\ DayOpen(d, p)
    /\ outsiders[d, p] + n \in 0 .. 1
    /\ outsiders' = [outsiders EXCEPT ![d, p] = @ + n]
    /\ UNCHANGED <<logDay, home, moves, atShop, noted, row, price, locks>>

LockDay(d, p) ==
    /\ locks' = locks \union {<<d, p>>}
    /\ UNCHANGED <<logDay, home, moves, atShop, noted, row, price, outsiders>>
UnlockDay(d, p) ==
    /\ locks' = locks \ {<<d, p>>}
    /\ UNCHANGED <<logDay, home, moves, atShop, noted, row, price, outsiders>>

-----------------------------------------------------------------------------
(* What a day shows. *)

RoutesOf(d, b) == {r \in LogRoutes : BookedPax[d, b][r] # NotKeyed}
Booked(d, b) == MapThenSumSet(LAMBDA r : BookedPax[d, b][r], RoutesOf(d, b))
LoggedBoats(d) == {b \in LogBoats : row[d, b].kept \/ row[d, b].extras > 0}

\* The footer counts the boats logged, and what was booked on the others.
PaxOfDayTwice(d) ==
    MapThenSumSet(LAMBDA b : IF row[d, b].pax # NotKeyed THEN row[d, b].pax ELSE Booked(d, b),
                  LoggedBoats(d))
    + MapThenSumSet(LAMBDA b : Booked(d, b), LogBoats)
PaxOfDay(d) ==
    MapThenSumSet(LAMBDA b : IF row[d, b].pax # NotKeyed THEN row[d, b].pax ELSE Booked(d, b),
                  LoggedBoats(d))
    + MapThenSumSet(LAMBDA b : Booked(d, b), LogBoats \ LoggedBoats(d))

\* Between a boat's price, its pier's and a sister boat's, the nearest of the day; else the
\* latest such day of the 30 before.
PricesFor(b, d) ==
    LET sisters == {k \in LogBoats \ {b} : home[b] # NoHome /\ home[k] = home[b] /\ price[d, k] # NotKeyed}
    IN IF price[d, b] # NotKeyed THEN {price[d, b]}
       ELSE IF home[b] # NoHome /\ price[d, home[b]] # NotKeyed THEN {price[d, home[b]]}
       ELSE {price[d, k] : k \in sisters}
PriceDays(b, d) == {k \in LogDays : k <= d /\ d - k <= 30 /\ PricesFor(b, k) # {}}
EffectivePrice(b, d) ==
    IF PriceDays(b, d) = {} THEN {0} ELSE PricesFor(b, Max(PriceDays(b, d)))

-----------------------------------------------------------------------------
(* The month's fuel report: the days the company's boats ran. *)

Ran(d, b) == row[d, b].kept /\ (RoutesOf(d, b) # {} \/ row[d, b].fuel > 0)
FuelDays == {x \in LogDays \X OwnBoats : Ran(x[1], x[2])}

\* The price of the day or of the home pier; a missing one costs nothing.
CostOf(d, b) ==
    row[d, b].fuel * (IF price[d, b] # NotKeyed THEN price[d, b]
                      ELSE IF home[b] # NoHome /\ price[d, home[b]] # NotKeyed
                           THEN price[d, home[b]] ELSE 0)

\* A route's part of a boat-day: by pax, or equally when nobody was carried.
ShareByPax(d, b, r, n) == IF Booked(d, b) > 0 THEN (n * BookedPax[d, b][r]) \div Booked(d, b) ELSE 0
Share(d, b, r, n) ==
    IF Booked(d, b) > 0 THEN (n * BookedPax[d, b][r]) \div Booked(d, b)
    ELSE n \div Cardinality(RoutesOf(d, b))

SumDays(f(_, _), S) == MapThenSumSet(LAMBDA x : f(x[1], x[2]), S)
OnRoutes(d, b, n) == MapThenSumSet(LAMBDA r : Share(d, b, r, n), RoutesOf(d, b))
Unrouted == {x \in FuelDays : RoutesOf(x[1], x[2]) = {}}
FamilyFuel(f) ==
    SumDays(LAMBDA d, b : MapThenSumSet(LAMBDA r : Share(d, b, r, row[d, b].fuel),
                                        {r \in RoutesOf(d, b) : FamilyOf[r] = f}), FuelDays)

-----------------------------------------------------------------------------
LogInit ==
    /\ logDay = Min(LogDays) /\ home = HomeAtFirst /\ moves = <<>> /\ atShop = {}
    /\ noted = [x \in LogDays \X LogBoats |-> NoHome]
    /\ row = [x \in LogDays \X LogBoats |-> EmptyRow]
    /\ price = [x \in LogDays \X Keyed |-> NotKeyed]
    /\ outsiders = [x \in LogDays \X LogPiers |-> 0]
    /\ locks = {} /\ logged = 0

PierStep ==
    \/ \E b \in LogBoats, kind \in {"temporary", "permanent"}, p, q \in LogPiers, f, l \in LogDays :
          Assign(b, kind, p, q, f, l)
    \/ \E i \in DOMAIN moves : CancelAssignment(i)
    \/ NextLogDay
    \/ \E b \in LogBoats, since \in LogDays, from \in {logDay, logDay + 1}, p \in LogPiers \union {NoHome} : ShopHolds(b, since, from, p)
    \/ \E b \in LogBoats : ShopReturns(b)
    \/ \E b \in LogBoats, p \in LogPiers \union {NoHome}, f, l \in LogDays : Note(b, p, f, l)
RowStep ==
    \/ \E d \in LogDays, b \in LogBoats, n \in Fuel, pax \in {NotKeyed, 1} : SaveBoatDay(d, b, n, pax)
    \/ \E d \in LogDays, b \in LogBoats, n \in 0 .. 1 : SaveExtras(d, b, n)
    \/ \E d \in LogDays, ks \in SUBSET Keyed : \E some \in [ks -> Prices] :
          Cardinality(ks) \in 1 .. 2 /\ SetPrices(d, some)
    \/ \E d \in LogDays, p \in LogPiers, n \in {-1, 1} : Ask(d, p, n)
LockStep ==
    \/ \E d \in LogDays, p \in LogPiers : LockDay(d, p)
    \/ \E d \in LogDays, p \in LogPiers : UnlockDay(d, p)

LogNext == logged < MaxLog /\ logged' = logged + 1 /\ (PierStep \/ RowStep \/ LockStep)
LogSpec == LogInit /\ [][LogNext]_logVars

-----------------------------------------------------------------------------
LogTypeOK ==
    /\ logDay \in LogDays /\ home \in [LogBoats -> LogPiers \union {NoHome}]
    /\ \A i \in DOMAIN moves : /\ moves[i].boat \in LogBoats /\ moves[i].to \in LogPiers
                               /\ moves[i].first <= moves[i].last
    /\ atShop \subseteq LogDays \X LogBoats /\ noted \in [LogDays \X LogBoats -> LogPiers \union {NoHome}]
    /\ row \in [LogDays \X LogBoats -> [kept : BOOLEAN, fuel : Fuel, pax : {NotKeyed, 1}, extras : 0 .. 1]]
    /\ price \in [LogDays \X Keyed -> Prices \union {NotKeyed}]
    /\ outsiders \in [LogDays \X LogPiers -> 0 .. 1]
    /\ locks \subseteq LogDays \X LogPiers

\* The report and the footer count every litre and every passenger once: what the routes (or
\* the families) of the boats took, and what was burned on no route, is what was burned; the
\* day's pax are the boats' own, logged or booked; and where the day has a price of the boat
\* or of its pier, the log's price is the report's.
FuelAccountedFor ==
    LET burned == SumDays(LAMBDA d, b : row[d, b].fuel, FuelDays)
        loose == SumDays(LAMBDA d, b : row[d, b].fuel, Unrouted)
    IN /\ SumDays(LAMBDA d, b : OnRoutes(d, b, row[d, b].fuel), FuelDays) + loose = burned
       /\ SumDays(LAMBDA d, b : OnRoutes(d, b, CostOf(d, b)), FuelDays)
          + SumDays(CostOf, Unrouted) = SumDays(CostOf, FuelDays)
       /\ MapThenSumSet(FamilyFuel, Range(FamilyOf)) + loose = burned
PaxAccountedFor ==
    \A d \in LogDays : PaxOfDay(d) = MapThenSumSet(
        LAMBDA b : IF row[d, b].pax # NotKeyed THEN row[d, b].pax ELSE Booked(d, b), LogBoats)
PricesAgree ==
    \A d \in LogDays, b \in LogBoats : CostOf(d, b) > 0 =>
        \E n \in EffectivePrice(b, d) : CostOf(d, b) = row[d, b].fuel * n
LogAccounts == FuelAccountedFor /\ PaxAccountedFor /\ PricesAgree

\* "Save day" keeps a pier's day (fleet-daily.ts, decision 8): while it stays locked nothing
\* of it changes - its requests, its price, and the row and price of every boat that worked
\* from it before the step and after.  And a day every pier has saved is final: moving a boat
\* from one locked pier to another opens nothing.
SavedDayStands ==
    LET kept == locks \intersect locks'
    IN /\ \A x \in kept :
            /\ outsiders'[x] = outsiders[x] /\ price'[x] = price[x]
            /\ \A b \in LogBoats :
                 x[2] = DailyPier(b, x[1]) /\ x[2] = DailyPier(b, x[1])' =>
                    row'[x[1], b] = row[x[1], b] /\ price'[x[1], b] = price[x[1], b]
       /\ \A d \in LogDays : {d} \X LogPiers \subseteq kept =>
            \A b \in LogBoats : DailyPier(b, d) # NoHome => row'[d, b] = row[d, b]
=============================================================================
