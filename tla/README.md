# A verification of the operations backend

`src/` is the backend of a boat-tour operator: agents and direct customers book
seats or whole boats on day trips, operations staff deploy boats, put passengers
on vans and boats and check them in, the pier sells and takes cash, the office
invoices, and the fleet department repairs the boats. It is a Fastify server in
TypeScript over PostgreSQL, with an in-memory twin of its stores for development
and tests. This directory keeps TLA+ models of its logic, the TLC configurations
that check them on small instances, and TLAPS proofs of what holds for any
instance.

All paths below are inside the repository (`domain/` is `src/src/domain/`, a
README line is of `src/README.md`) unless they are a module or a `.cfg`.

## 1. Inventory

| Component | Code | State it keeps | Operations | Modules |
|---|---|---|---|---|
| Seat pool and capacity | `domain/capacity.ts`, `operations.ts` | none of its own: a read of bookings, locks and deployments of a route and day | `dayCapacity`, `weighTrips`, every booking command | `Totals`, `SeatRules`, `SeatPool` |
| Seat locks | `seat-locks.ts`, `seat-lock-service.ts` | lock rows, sub-groups of them, bulk locks over a range of departures | create, amend, add, release, release departure, confirm pending, overdue sweep, sub-groups, and the same over a bulk lock | `SeatPool`, `BulkLocks` |
| Whole-boat holds | `boat-holds.ts`, `boat-hold-service.ts` | holds of a boat on a day | hold, edit, release, convert | `BoatBoard` |
| Deployments | `deployment-guards.ts`, `catalogue.ts` | the boats on each route and day, a day's own seats | deploy, move, undeploy, edit a boat, retire it | `SeatPool`, `BoatBoard`, `BoatSeats` |
| Booking lifecycle | `booking-approvals.ts`, `booking-actions.ts` | a booking's status, approvals, who confirmed it | create, edit, confirm, approve, reject, unconfirm, cancel, restore | `BookingApproval`, `BookingLifecycle` |
| Transactions | `PostgresOperationsStore.transaction` | an advisory lock (the gate), retries | run a unit of work | `TxGate`, `SerialStore` |
| Change feed | `changes.ts`, `routes/operations.ts`, `routes/change-tracking.ts` | numbered change rows, a listening connection per instance, open event streams | record, notify, subscribe, stream, reconnect; which rows a write names | `ChangeFeed`, `ChangeRows` |
| Edit conflicts | `versions.ts` | a version number per row | read, save, If-Match | `EditConflicts` |
| Prices and contracts | `pricing.ts`, `contracts.ts`, `rate-seasons.ts`, `agents.ts` | rates, seasons, contracts, promotions, templates | price, approve, re-price an edit | `Pricing`, `Deals` |
| Invoices and credit | `invoices.ts`, `refunds.ts`, `credit.ts` | invoices with lines, payments, refunds, credit | bill, pay, correct, refund, cancel and restore a billed booking | `Ledger` |
| Pier money and office | `pier-money.ts`, `upgrades.ts`, `pier-cash.ts`, `pier-office.ts` | sales on tour, takings, handovers, commission; a cash book; lists | sell, collect, pay out, hand over, void; keep the book | `PierMoney`, `PierOffice` |
| Vans | `van-*.ts`, `checkin.ts` | a trip's parts, van groups, matrix, check-ins, sheets, bills | split, group, assign, check in, issue, bill | `VanDay`, `VanPapers` |
| Guests' care | `weather.ts`, `upgrades.ts`, `reconfirm.ts`, `doc-check.ts` | closures, their cases, upgrades, reconfirmations | close, resolve, move, undo, reconfirm | `TripCare` |
| B2C orders | `b2c.ts` | orders of the web shop, some held | push, hold, decide | `HeldOrders` |
| Trip profit | `costing.ts`, `trip-pl.ts`, `trip-actuals.ts` | templates, plans, actual lines, closes | price, replace, close, reopen | `TripProfit` |
| Calendar and people | `calendar.ts`, `catalogue.ts`, `staff.ts` | seasons, closed days, route list, staff quotas | edit, order, close | `RouteDays`, `RouteList`, `StaffSeats` |
| Fleet work and gear | `fleet-jobs.ts`, `fleet-availability.ts`, `fleet-projects.ts`, `fleet-assets.ts` | jobs, a boat's availability log, engines, gearboxes, propellers | open, close, split, swap, install, stash | `FleetWork`, `FleetGear` |
| Fleet stock, books, papers | `fleet-memos.ts`, `routes/fleet-stock.ts`, `fleet-insights.ts`, `fleet-reports.ts`, `fleet-certificates.ts`, `fleet-daily.ts` | stock movements, memos, certificates, daily logs | buy, receive, withdraw, reverse, renew, log, report | `FleetStock`, `FleetBooks`, `DailyLog` |
| Other reports, HTTP and login, migrations | see `PROJECT.json` | none, or rows stored as sent | parse, compute, run once | not modelled |

**How they interact.** Every write is one unit of work inside
`OperationsStore.transaction`: it reads bookings, locks and deployments, decides,
writes, and records which records it touched (`ChangeRows`); the change is
numbered and told to every screen (`ChangeFeed`). A read of the seat pool
combines bookings, locks and deployments. A booking weighed over the allotment
becomes an approval request, whose decision gives it the seats. A cancelled
booking touches its invoices, its van parts and its weather case. A repair job
writes the availability log that deployments ask, and takes parts from the store.

**What is hard.**
- *Shared seats.* Bookings, charters, holds, locks and sub-groups take the same
  seats by different rules, some counted when made, some worked out on read (an
  expired lock holds nothing, with no step of its own).
- *Long legal sequences.* Cancel, change the world, restore; raise, approve,
  lower, raise; refund, correct, refund again; swap gear there and back.
- *Concurrency.* Serializable transactions are cancelled and retried; the retry
  takes a lock that others share; connections are lost with it. Two people edit
  from copies. A check made before its transaction is acted on inside it.
- *Ordering.* Change numbers must be seen in order although transactions commit
  in any; a notification may come while a stream is reading, or before `LISTEN`.
- *Stale papers.* Pickup sheets, bills, contracts and closes are issued from rows
  that change afterwards.

**What makes each part correct.** A day is never sold past its seats, nor a boat
promised twice, without somebody's consent; a lock never gives a seat twice and
draws stay with their agent and day. A booking waits for exactly what it needs
and is confirmed only as asked. A unit of work takes effect once. A client that
has read up to a number has read everything before it, and every change is sent.
Nothing is billed, refunded, paid out or counted twice, and what was settled
stays. Passengers are on exactly one van part, and a boat sails only on days it
is free. `PROJECT.json` lists the 40 hazards, each at its line, with the
properties that would catch it.

## 2. Modules

```
Totals <- SeatRules <- SeatPool <- BulkLocks <- SeatPoolProofs <- SeatSaleProofs
          SeatRules <- BoatBoard <- BoatBoardProofs
Totals <- Ledger, PierMoney, Pricing <- Deals;  with PierOffice <- MCMoney <- MoneyProofs
Totals <- TotalsProofs <- SeatPoolProofs, BoatBoardProofs, MoneyProofs
BookingLifecycle <~ BookingApproval <- BookingApprovalProofs
SerialStore <~ TxGate <- TxGateProofs          ChangeFeed <- ChangeFeedProofs
MCMoney:      Ledger  PierMoney  PierOffice  Pricing <- Deals
MCFleet:      FleetStock  FleetWork  FleetGear  FleetBooks  DailyLog
MCOperations: VanDay  VanPapers  TripCare  HeldOrders  TripProfit  RouteDays
              BoatSeats  StaffSeats  RouteList  ChangeRows  EditConflicts
```
(`<-` extended by, `<~` implemented by, through an `INSTANCE`.) In every module a
request handled in one transaction is one action, with everything it plans,
weighs, stamps and saves; `PROJECT.json` names the lines of each definition.

**Totals, SeatRules, SeatPool.** `Totals` holds sums and clipped numbers, for seats
and money alike. `SeatRules` is the arithmetic both stores share:
`LockTree` (`lockTree`), `DayCapacity`, `WeighDay` with `WeighSeats` and
`WeighCharter`, and the two ways lock seats go back, `ClampDraws` and
`ReturnDrawsFirst`. `SeatPool` keeps `booking`, `lock` and `deployed`, the three
tables of one route, and has every command on them, `CreateBooking` to
`Reschedule`, `CreateLock` to `CreateSubGroup`, `Deploy` and `Undeploy`. `Lapse`
is the Bangkok day passing a lock's expiry: the code runs nothing then, and reads
differently. `cancelled` stands for `cancelled_weather` too.

**BulkLocks** adds `bulk`, one bulk lock, and `today`. Its departures are locks of
`SeatPool`, so `RowStep` is what may be asked of one of them and `GroupStep` what
is asked of them all: create over a range, amend, add, release, split into
sub-groups, sweep the overdue. `NextRows` gives new rows the next ids in the order
of their days. Departures already past are not weighed, as in the code.

**BoatBoard** is the catalogue's boats over several routes: deployments, charters
kept, split over boats and cancelled in part, passengers put on a boat, a boat
assigned, and whole-boat holds with their conversion into a charter. **BoatSeats**
is one boat's numbers as the catalogue, its deployments, the day's own seats and
the passengers on it see them.

**BookingApproval** sees the booking commands from one booking, with the three
reasons to wait (free passengers, a discount, seats over the allotment) together;
what the pool answers is an input. `unasked` is a history variable: the status
was imported or set by `/restore`, so no rule decided it. **BookingLifecycle** is
what a reader of a booking relies on.

**SerialStore** is the promise of `transaction()`: each unit takes effect at most
once, on the rows earlier ones left, and is answered; a failed answer may have
taken effect (its connection was lost at the commit). **TxGate** is the code:
connect, take the gate (`pg_advisory_lock_shared` at first, `pg_advisory_lock`
from the second attempt on), begin, work, commit or fail with 40001/40P01, unlock,
release, retry. PostgreSQL is external, modelled by what the code relies on: a
first come first served lock queue, snapshots, no commit over a stale read,
spurious cancellations of transactions that ran beside another, and locks that go
with a lost session.

**ChangeFeed.** A write takes its number in `Record` (under
`pg_advisory_xact_lock`, held to the end), then commits or rolls back. A client
that got a change opens its stream with that number (`Last-Event-ID`); one that
got none names a number it asked for (`AskStart`, `GET /v1/changes`) or kept, or
nothing, and then starts from now: what was committed while it was away is not
sent. The stream subscribes (which may mean connecting
and listening first), then reads pages and sends them until nothing is left;
`Notify` wakes it, or sets `again` while it is busy. `Drop` loses a client,
`Crash` an instance. **ChangeRows** is what each write names as changed, worked
out from the rows before and after. **EditConflicts** is what a save from a copy
may overwrite: a record's content is the set of writes it reflects.

**Money.** `Ledger` is one agent's invoices, payments, credit and refunds, and
what cancelling, restoring, moving or weather-cancelling a booking does to them.
`PierMoney` is sales on tour and upgrades, each with a seller's commission, the
day's takings and their handover; `PierOffice` the cash book that carries from day
to day and the ordered lists. `Pricing` is `priceBooking` as operators over one
question asked; `Deals` keeps rates, seasons, contracts, promotions and templates,
and re-prices an edit.

**Operations.** `VanDay` is a trip's parts, its van groups, the month's vans and
check-in by part; `VanPapers` the driver's sheet with its fingerprint and the
partner's bill. `TripCare` is weather closures and their cases, programme upgrades
and reconfirmation; `HeldOrders` pushes that are booked or held; `TripProfit` what a
trip costs and earns, by model and by actual lines;
`RouteDays`, `RouteList` and `StaffSeats` the calendar, the route list and staff's
free seats (where a create checks before its transaction: two actions).

**Fleet.** `FleetStock` is what each warehouse holds, with memos, receipts, draws,
merges and reversals; `FleetWork` the availability log that jobs, the project and
people write; `FleetGear` engines, gearboxes and propellers through swaps and
jobs; `FleetBooks` the reports computed from jobs and memos, and the certificates'
renewals; `DailyLog` the boats' daily rows, fuel and day lock, by the pier a boat
works from that day: its moves, the jobs that hold it at a shop and what its status
log names. A memo's line may be renamed or linked anew between two of its rounds;
its goods go to the item linked when that has the line's name, else to the one of
that name or a new one.


## 3. Runs

| Run | Instance | Properties |
|---|---|---|
| `SeatPoolLocks` | 1 day, a boat of 2 seats licensed for 3, a lock with a sub-group, 1 booking of 1 or 2 that draws on either | `TypeOK`, `OversellNeedsConsent`, `GivingBackFreesSeats` |
| `SeatPoolCharter` | 1 day, 2 boats that come and go, 2 bookings of seats or a boat | `CharterExclusive` |
| `BulkLocks` | 2 days of 2 seats, a bulk lock held by either of 2 agents or the office, a sub-group each, 1 booking, 3 commands | `OneHolder`, `SubGroupsStayInside`, `DeparturesKeepTheirSeats`, `DrawsStayHome` |
| `BookingApproval` | up to 2 free passengers, with or without a reason, a discount or none, 2 approvals, made here or imported | `TypeOK`, `AtMostOnePending`, `WaitsForSomething`, `ConfirmedAsAsked`, `LifecycleSpec`, `ApprovalsAppendOnly` |
| `TxGate` | 3 units on one pool of 2 seats, 2 connections that may be lost | `GateKept`, `RetryRunsAlone`, `CollisionCostsOneRetry`, `ImplementsSerialStore`, `EveryUnitAnswered` |
| `ChangeFeed` | 2 writes, 2 clients of one instance, one break | `TypeOK`, `NeverMissesEarlier`, `EveryChangeSent` |
| `BoatBoard` | 1 day, 2 boats, 2 routes, 2 bookings of a seat, or of a boat for 2 that is split 1-1 or 0-2, 1 hold | `BoardKeepsPromises`, `BoatsAreClaimedOnce`, `HoldsTakeUnsoldBoats` |
| `Money` | each part alone: 2 bookings and 6 requests on the ledger; a booking, 2 days and 2 sellers at the pier; a pier's box over 3 days; 2 rows per list; every quote of a small price list; 2 rates, templates and promotions | `MoneyTypes`, `LedgerKept`, `SalesKept`, `SumsAgree`, `MoneyHistory` |
| `Fleet` | each part alone: 4 items under 2 names, 2 of them duplicates, in 2 warehouses and a memo of 1 or 2 in rounds; 2 jobs and a project; 2 of each gear; 2 jobs and a purchase; 3 certificates; 2 boats' logs | `FleetTypes`, `StockKept`, `BoatsKept`, `FiguresKept`, `FleetHistory` |
| `Operations` | each part alone: 2 trips, groups and vans; 2 guests, 2 closures; 2 orders; 2 parties on 2 vessels; a ship and 2 days; 2 bookings on a boat; 2 staff orders over 2 years; 3 routes; 2 bookings and locks; 2 callers | `OpsTypes`, `VansKept`, `SeatsAndDaysKept`, `RecordsKept`, `OpsHistory` |
| `EditAsksFirst` | the instance of `Operations` | violated: §5 |
| `NothingCountsTwice` | the instance of `Fleet` | violated: §5 |

**What the composed properties say.** Each is a conjunction of named parts, one
or more per module, with a comment above each part in its module.
- `LedgerKept`: an invoice totals its lines, a charge is billed once, bills follow
  their bookings' status, no credit is spent twice, nothing is returned that was
  not paid. `SalesKept`: a commission is paid once and on the terms it was paid out
  on; the lists stay numbered; the main contract follows its agent,
  nothing refers to a deleted row, one template prints. `SumsAgree`: the box's days
  carry over whole; one adult more is never cheaper, the longtail join is charged
  once. `MoneyHistory`: bills keep their paper trail, an accepted handover stands, a
  kept price stands.
- `StockKept`: what is held is what came in less what went out, below zero only
  where somebody said so, and a memo's line received what the memo's rounds
  brought. `BoatsKept`: a boat sails only on a day its log, jobs and
  project leave it free; gear has one parent. `FiguresKept`: the reports tell the
  same costs; a day's fuel is shared out whole. `FleetHistory`: paid memos, past
  days, saved days and the longest renewal stand; goods go under the name their
  line has when they come; an incident closes with its last job.
- `VansKept`: a main part takes whom the others leave, a run stays in one zone, the
  sheets carry every passenger, a bill counts each ride once. `SeatsAndDaysKept`:
  nobody is stranded on a closed day or oversold without a word, quotas hold, the
  route list stays whole. `RecordsKept`: guests' cases, held orders, reports, lock
  log lines and saves agree with the bookings. `OpsHistory`: what was settled,
  paid or decided stands, no van is loaded past its seats by a step that asks, and
  every write is told.
- `BoardKeepsPromises`, `BoatsAreClaimedOnce`, `HoldsTakeUnsoldBoats`: passengers
  put on a boat have its seats, a boat is promised to one party, and a hold takes
  only a boat nobody travels on; each names its exceptions (§4).

**Why parts are checked alone.** `MCMoney`, `MCFleet` and `MCOperations` choose an
`area` at the start and let that part run; the others keep one first state. Those
parts share rows the server reads, not state they both write within what is
modelled (a booking's cancellation, which several read, is an action of each), so
a history of one part is a history of the system. Where state *is* shared, the
modules are extended and run together: bookings, locks, deployments and bulk locks
in `BulkLocks`; boats, holds and charters in `BoatBoard`; prices under deals.

**Why the bounds are enough.** A day interferes with a sale through its general
seats, a lock's seats, the licence above the capacity, and charters: a boat of 2
seats licensed for 3 has every answer of `weighDay` for parties of 1 and 2, and
one lock with one sub-group every term of `lockTree`. Two bookings are what it
takes to claim a boat twice, two days what a draw can go wrong over, two
departures what a bulk command can treat unlike. A boat's seats raised as it is
filled take more passengers than the boat board's run has: §4 covers that. One free passenger and a
discount give every combination of reasons; two free passengers are needed to
raise, lower and raise again, and two approvals an answered one with one that
waits. Three units on two connections have a first attempt beside a retry beside
one waiting for a connection. Two writes can be numbered and committed in
different orders. A memo of two comes in one round or in two, is short-closed after
one, and can be edited in between; a second name is what an edit can turn its line
to, and an item of it not made yet what its goods then make. In the composed runs a request bound of 2 to 6 was chosen as
the largest for which the run ends in minutes, and each property has a mutant of
the code, a plausible bug, that the run finds within it. Two narrower bounds of
`MCFleet` are stated there: `OneStore` (a memo is made for two of something; the
second of the duplicate items is on a memo only once the first is gone, a memo of
labour names no item, and a job without parts is not deleted) and `OneSheet` (one boat and day of the log are worked on). The bounds are constants
(`MaxLockPax`, `MaxKids`, `MaxBulk`, `MaxFoc`, `MaxDiscount`, `MaxApprovals`,
`Reasons`, `Breaks`, `Page`, and the `Max...` of each part), all in guards;
§4 removes those of the core.

`Relapse` is TRUE in `SeatPoolLocks`: an edit of an expiry date brings a lapsed
lock back without weighing it (§5), which the property names (`Revived`); it is
FALSE in the other runs, for size. Symmetry is over ids the actions
treat alike.

**Deadlock** is checked in `SeatPoolLocks`, `SeatPoolCharter`, `BookingApproval`,
`TxGate` and `BoatBoard`. The other runs bound their requests, or have a finite
number of writes, and then sit idle as the server does.

**Fairness.** `TxGate`: weak fairness of each unit's next step, since each is a
query PostgreSQL answers or a promise the event loop settles; losing a connection
is never required. Weak is enough because the lock's queue is first come first
served and a freed connection stays free until one of finitely many units takes
it. `ChangeFeed`: weak fairness of ending a write begun, of serving a stream that is
open and of delivering a notification. No write need begin, nothing need break, and
no client need open a stream or come back: it is a reader the repository does not
hold (`routes/operations.ts:1806`). `EveryChangeSent` is about the streams that are
open: whenever one owes its client a committed change, the client gets it or is
lost first. When it comes back it is owed what lies after the number it starts from,
and the property holds again from there. It excepts a stream that read before
`LISTEN` took effect (§5).

## 4. Proofs

TLAPS proves the following for every value of the constants.

| Module | Theorem | What |
|---|---|---|
| `TxGateProofs` | `GateStaysKept` | who waits, is connected and is in line always agree |
| | `RetriesRunAlone`, `OneRetryIsEnough` | a retry has nobody beside it; no unit is retried twice |
| | `TransactionIsSerial` | `TxGate` implements `SerialStore` |
| | `GateNeverOversells` | no pool is sold past its seats |
| `BookingApprovalProofs` | `BookingTypes` | the type invariant |
| | `OneApprovalWaits`, `ApprovalsOnlyGrow` | one approval of a kind waits; approvals are never forgotten, a verdict is final |
| | `WaitsForWhatItNeeds` | a booking that waits has the approval it waits for |
| | `ConfirmedOnlyAsAsked` | free passengers and discounts of a confirmed booking were asked for; it is stamped once |
| | `BookingLives` | `BookingApproval` implements `BookingLifecycle` |
| `ChangeFeedProofs` | `FeedTypes`, `NoneMissedEarlier` | the types; a client that got a change misses no earlier one |
| `SeatPoolProofs` | `PoolTypes` | the type invariant |
| | `BoatIsCharteredOnce` | a deployed boat comes to carry two charters only by an approval |
| | `DrawsAreHome` | no lock is moved or handed over under a booking that draws on it |
| | `GroupHasOneHolder`, `GroupDrawsAreHome` | a bulk lock's rows share its holder; its commands move no lock under a draw |
| `SeatSaleProofs` | `DayIsNotOversold` | no day is put past its seats but by an approval, a restore, a charter let through anyway, a revived lock or draws that are not weighed together |
| | `GivingBackFrees` | a cancel, rejection or partial cancel leaves no day and no lock with fewer seats |
| | `TripsStaySized` | the seats a trip draws never pass its party; only a charter has a boat |
| | `SubGroupsAreInside` | the sub-groups of a departure and the seats drawn outside them never come to ask for more than it has |
| | `DeparturesKeepSeats` | no command puts a departure to come past its seats, or makes seats drawn, waiting and released overlap, but a restore, draws that are not weighed together, or on a departure already overdrawn |
| `BoatBoardProofs` | `BoardTypes` | rows stay ones the tables can hold, splits add up, no day sells a boat past its licence |
| | `PromisesAreKept` | a held boat sails its hold's route; a retired one sails on no day |
| | `ClaimedOnce` | a charter never loses its boat to another route; a second claimant only comes back unweighed, or beside a charter adrift from that boat |
| | `HoldsTakeUnsold` | a hold leaves no route with more passengers than seats, and its boat stays empty |
| `MoneyProofs` | `LedgerIsKept` | an invoice totals its lines; a booking is billed once, as its status and charges say; no credit is overdrawn; what is returned was paid |
| | `PierIsKept` | a commission is paid once and on the terms it was paid out on; the office's lists stay whole |
| | `DealsAreKept` | the main contract follows its agent, nothing refers to a deleted row, one template prints |
| | `SalesAreKept` | both of these |
| | `HistoryStands` | settled papers and accepted handovers stand; an edit that keeps its rate keeps its price |

**Assumptions.** The named `ASSUME`s of each module: the constants are sets and
numbers of the right kind; `Boats`, `LockIds`, `Days`, `Bookings`, `Units`, `Writes`
and the ids of the office's lists are finite, as is each season table; boats, locks
and holders are told apart from `NoBoat`, `NoLock` and `Office`, a row of the deals
from `Nil`, a pier from `NoPier`; a charter sent by a client draws on no lock (the
routes refuse one that does). TLC evaluates them on the runs.

*TxGate.* `RetryRunsAlone` and `CollisionCostsOneRetry` are not inductive: they
need who holds the gate. `Safe` adds that a unit runs only with the gate
(`Holding`), that the gate held by a retry is held by it alone, and that whoever
may be cancelled is on its first attempt (`CancelledOnce`): a retry has nobody
beside it, so it is never cancelled, so there is no third attempt. `Orderly` adds
what the queue and the connections know of each other. For the refinement,
`Serial` says that what a running unit sees is what is there unless it is stale,
and that a unit has rows only from an attempt whose outcome says so; a commit is
then a step of the serial store on the current rows.

*BookingApproval.* `AtMostOnePending` holds after an ask only because the ask
closes what was pending of its kind: `Sound` is the type invariant and `OneEach`,
and every command's approvals are one of `Later` (closed, asked or decided from
the earlier ones), for which growth is proved once. `WaitsForSomething` and
`ConfirmedAsAsked` need `Asking`: unless the status was imported or restored, a
booking on its way somewhere has no stray approval (`NoStray`), a waiting one is
awaited in its status (`Awaited`), and free passengers and discount are covered by
what was granted or is waiting (`Covered`); no approval goes on to a rejection
(`GoesOn`). The refinement reads the lifecycle's state off the status and uses
the same invariant at each command.

*ChangeFeed.* `NeverMissesEarlier` speaks of what was received and committed.
`FeedInv` adds that numbers are drawn once and the last one drawn is under the
lock until its write ends (`Drawn`, `LastRecorded`): so whatever has a smaller
number than a committed change has committed or rolled back. `Pages` says a page
in hand has every committed change between the cursor and its end, `Cursors` that
a cursor never passes what was received, `Caught` that what lies below it was.

*SeatPool.* Every booking command is shown to be a `BookingMoved`: it writes one
booking, an `Admissible` row, whose charters and draws it was entitled to when
they were weighed, unless by an approval or a restore. Every lock command is a
`LockMoved`: it keeps the parents of rows, and the day and holder of every lock
drawn on. These two facts, each proved command by command, carry all results on
the pool. `PoolInv` says the rows are ones the tables can hold, that a sub-group
has its parent's day and holder (`Family`, without which the check of one lock
would say nothing of its tree), and that draws are on locks that exist. Counting
charters is a cardinality, and sums of draws are cardinalities of sets of seats
(`Seats`), so that they can be reasoned about without induction. `BulkInv` adds
that departures are top-level locks of the bulk lock's holder; every command on
one row keeps its home (`KeepsHomes`), and the one that changes the holder writes
it on every row and only while none is drawn on.

*Seats sold.* What a day has left is capacity less what its bookings cost and its
lock trees hold: sums over bookings, over locks, over the sub-groups of a lock,
each a cardinality (`TotalSplit`, `TotalAdd`, `TotalGroups` take one apart and put
it together). `DayBeside` and `LocksBeside` say what one booking adds to a day:
its cost, less what its draws take off seats a lock held (`TreeFalls`, which needs
`Family`: a sub-group's seats lie inside its parent's). With them each booking
command is `Answered`: it leaves the booking with no more than it had (`Yields`),
or it was weighed against what the day had without it, or it is an approval or a
restore. `AllTripsSized` is the invariant that makes a weighed sale fit: a party
whose draws passed it would free seats it never took. Each lock command raises
what at most one lock holds, by at most the free seats it was weighed on, or
confirms seats it already held (`LockFits`). Giving back is `Yields` again, for
both orders of returning lock seats. `SubGroupsAreInside` follows each command of
a bulk lock through every row it writes: what the sub-groups of a departure ask
for is a sum (`Split`) that a release lowers, a new sub-group raises by no more
than is left (`SubGroupInside`), and a smaller departure may not go below
(`AmendGroupInside`). A booking draws outside them no more than the lock has left
beside them (`LeftBeside`), also when it is restored over several days
(`RestoredWithin`: each day gives back what the days before it did not take).
`DeparturesKeepSeats` adds two invariants (`KeepInv`): the departures of a bulk
lock have each a day of its own (`DaysApart`), so that a command on all of them
holds more on at most one lock a day (`OneDayFits`), and a booking draws on its own
days' locks (`AllAtHome`), so that a restore finds on each lock all it had left
(`RestoredDraws`). A command on locks leaves each row `Light`: no more waiting against
what it asks than before, or room for all of it beside what is drawn (`UsedInside`, which
fails on an overdrawn tree: hence the exception); draws each lock had left overlap
no tree further, unless drawn together (`DropHeld`).

*BoatBoard.* `BoardInv` adds to the types that a split adds up to its party, that
only passengers by the seat wait over the allotment (a charter is let in or
refused), and that a held boat sails its hold's route. Each booking command is
shown to be `Moved`: it writes one sound row; if that row comes to have a boat
whole, it had it, came back to it, or was weighed on a day where the boat was free
(`Entitled`); and whoever comes to be on a boat was there, came back with the
booking, was put on a free boat, or is of a charter that has the boat or is split
over it (`Boarded`). A boat is `Free` on a route that day if it sails there and no
charter or hold of that route has it; with `BoardInv`, a free boat then has no
claimant but a charter adrift from it (`FreeIsAlone`), which is all `ClaimedOnce`
needs. `HoldStrandsNobody` compares sums: what the code counts as sold and open on
a day are the passengers standing and the seats of the boats nobody has whole
(`DaySold`); a boat that `CanTake` lets go has seats those passengers do not need
(`TakenWasUnsold`); and where they stand as before and no boat is lost, the day is
no worse (`NoWorse`). `TotalsProofs` holds the facts on sums that these
components and the money use.

*Money.* The invariant `MoneyInv` is one for each part, with step lemmas of its own
(`LedgerStep`, `PierStep`, `ListsStep`, `DealsStep`): the part whose history it is
keeps it by its step, the others by resting (`MoneySteps`).

On the ledger, `TotalFollowsLines` is not inductive without what the lines are: a
row is sound (`RowOk`) when its total is that of its lines and a booking's lines
come together, so that an invoice of one booking's fee is no invoice of its trip.
A request then leaves each row standing, or voided, or with a booking's lines off
(`RowStands`): no such step adds a bill, so one bill a booking (`OneBill`), its
fee items and cash on tour (`BillsCharges`) and its status (`BillsFollowStatus`)
hold after it. The requests that do add a bill (issue, restore, cancel with a
charge, a fee or cash on tour on the newest bill) find none, or change exactly
that row. For the cash, what an invoice returned and was paid, and the credit
left, are sums over growing tables: a row added adds its amount (`AmountPlus`), a
row taken out of the set never raises the sum (`AmountGrows`). A refund gives back
no more than the share freed of what is paid and not yet returned (`FreedWasPaid`),
and a weather cancel of a shared invoice does so row by row (`RefundsAdded`).

At the pier, `CommissionPaidOnce` speaks of rows paid; `PierInv` adds that ids are
never handed out again (a new sale is on no payout) and that only one handover of
a day is not void. `ListInv` says who is placed where; a list put in order gives
each row its own place (`OrderPlaces`) and a new one comes last (`LastPlace`).
`DealsInv` adds that one template is the default and is active, without which a
deletion or an edit could leave none to print. A booking refers to a rate through
its agent's seasons, its promotion or its agent's rate, and each of these is a row
there is (`RateForKnown`, `WinnerHits`, `WonKnown`).

The attempts found what small instances had not shown. In `SeatPool` the step
fails, and the code does so, when a lapsed lock is brought back (`Revived`), when
one booking draws on two locks of one tree, each checked alone (`DrawsTogether`), and when a
booking whose draws are on a lock of another day changes (`StrayDraws`). The
properties were too strong there and now name the three, with `Relapse` TRUE in
the run. In `BoatBoard`, a charter restored to a boat held meanwhile has it as
well, with whoever it puts aboard (`HasItToo`); and a charter split over a boat
with a share of zero, which `dispatch.ts` takes, counts as nobody aboard, so the
boat can be held and may be the last the charter had (`EmptyShare`; such a split
was added to the run). `OneClaimant` was too weak: any charter adrift anywhere
excused a second claimant, where the proof shows it takes one adrift from that
very boat and day. `DeparturesKeepTheirSeats` was too strong the same way as
`OversellNeedsConsent`: two sub-groups a departure and one given back whole show it. In `Deals`, the guard of `ChangeRate` was mistranslated: two
conditions read as one, so that giving an agent the rate it has already was taken
as a change; the proof of `DealsAreKept` asked for the guard the route has.

**Only model-checked.** Liveness (`EveryUnitAnswered`, `EveryChangeSent`), which
the prover's backends do not reach. `MoneyTypes` and `SumsAgree`:
the amounts a cash box pulls, the price of a quote and the longtail join are folds,
for which the installed provers have no induction with an operator parameter. The
composed properties of `Fleet` and `Operations`, many of them about such folds, and
and the two runs that end in a counterexample.


## 5. What the code does otherwise than it says

Two end in a counterexample of a run.
- `EditAsksFirst` (README.md:442): an edit of a boat weighs the boat's old and new
  numbers, while a deployment to come may carry numbers of its own; the edit
  rewrites it and a day ends with more passengers than seats without being asked.
- `NothingCountsTwice` (`fleet-replace.ts:118`): a part the replacement wizard
  buys is in its job's parts at its price and again among the memos of no job.

The others were met while modelling. They are in the model as the code has them,
and the properties that touch them name the exception.

*Seats and locks.* Draws of one booking on two sub-groups are checked lock by
lock (README.md:3874), so together they can pass what the tree still holds, once an
approval has drawn one of them past its seats or a departure given back whole was
opened again below what its sub-groups ask (`DrawsTogether`). Moving the
expiry of a lapsed lock later holds its seats again though they were sold
(README.md:4332; `Revived`). A lock can be moved to another day while only a
waiting booking draws on it, because `amend` counts the draws of bookings that
hold seats; once approved, that booking draws on another day's lock, and editing
it or giving its seats back can put that day past its seats (`StrayDraws`). `restoreTrips`
takes a boat off a restored charter only when the boat is deployed and chartered,
so two charters cancelled and restored while it is off the route keep it. A
restored booking draws on its locks again even if they went to another agent. A
departure of a bulk lock released whole keeps its sub-groups' rows, and asks for
more than it has when reopened.

*Bookings.* `/restore` confirms a booking without the stamp of who confirmed it.
`settleEdit` asks for free passengers also for a booking that waits as a quote,
where its comment says only one on its way to confirmed is asked. `/approve` and
`/confirm` weigh nothing: a decision of the code that the properties name. An
edit with `edit_anyway` of an imported completed booking past the allotment sends
it to `pending_approval`.

*Change feed and versions.* `subscribeChanges` sets `this.listener` before
`LISTEN` is done, so a second stream may read before it takes effect and miss a
change until the next (README.md:3754; `early`). A lost listening connection is
never replaced. Sub-groups that follow a moved lock, and bookings sharing an
invoice with a cancelled one, are not named in the feed. A PATCH of a bulk lock
checks the bulk lock's version only and overwrites its departures' seats
(README.md:1762).

*Money.* Whether a cancel voids an invoice it shares differs between the route's
comment (`routes/operations.ts:1496`) and `invoices.ts`; cancelling one booking of
a shared invoice voids it for the others. Corrections after a refund can leave
more returned than paid. Upgrades keep no terms once paid; a pier payment that
covers a `cot` sale and a later `/collect` count twice; a two-day booking's cash is
due on each day. An edit kept under a discount promotion is priced from today's
main rate (README.md:1961).

*Operations.* A van can be overfilled by a restore or an amendment, and checked-in
passengers can exceed a part booked smaller later. `van-bills.ts` puts "the
remainder on the last", which rounding denies with four vans or more; a split
booking's return passengers count whole in each part. Restoring a
weather-cancelled booking leaves its case resolved, and other ways off a closed
trip resolve nothing. An order staff keyed in leaves the held create open. A trip's
van cost differs between the P&L and the Daily Report in two zones. Closing a day
does not ask about locks. Two creates at once pass a staff quota (README.md:832).

*Fleet.* A short close counts what was received (README.md:4107), but an edit of
the memo before it is paid works its total out of the quantities ordered again
(`planMemoPatch`), and that is what is paid. Stock can land on a merged or deleted item; a received parts memo patched
to labour can never be paid. Closing overlaps can bring a stale entry back;
deleting a job in progress leaves the boat down; a cascade-closed or cancelled last
job leaves its incident open. Two gearboxes waiting at one place can share an
engine. Ordering an approved memo takes its cost out of the reports until it is
received. The day lock follows the boat's pier, so a boat without one is never
locked, and a locked day's shown fuel price can change.

## 6. What is left out

- Parsing, permissions, responses, names, notes, texts, colours, contact data and
  files: stored as sent. The input checks the rules rely on constrain the inputs.
- *Pool*: past-date and admin rules, readiness of a deployment, the lock event log
  but for its draw lines. A deployment's capacity stands for the day's own seats,
  which `BoatSeats` models. The cutoff's hour is abstracted by `late`.
- *BoatBoard*: rescheduling, catalogue edits (in `BoatSeats`), expiry of holds.
- *Ledger*: VAT, withholding tax, numbering, due dates; one agent, and a booking's
  price is constant (it changes in `Deals`). *Pier*: slips, license types.
- *Deals*: deleting an agent, markets, documents, transfers; a plan made before its
  transaction (a create reads prices and the agent first) is one action with it.
- *Vans*: deleting a van, pickup times, order in a group, extra bill lines, pull
  rates, overnight and self-return. *Care*: contact history.
- *Fleet*: charter boats, costs of jobs, hours, labels, brands, suppliers, VAT, more
  than one line on a memo, engine meters, inspections.
- Two instances' pools of connections, and the loss of the listening connection
  alone: the code handles no error of it.
- Read-only reports (`sales-board.ts`, `money-reports.ts`, `pfm.ts`), login, routes,
  migrations and import tools.

## 7. What is left to do

In this order.
1. `LockNeverOvercommitted`, checked and proved for bulk locks, for the commands
   they do not allow: a lock moved to another day, booking edits, reschedules.
2. The history properties of `EditConflicts` (`NothingOverwritten`) and `HeldOrders`
   (`DecisionsStand`), which no run's bound should be able to limit.
3. Rescheduling on the boat board, and stock lots with more than one memo line.
