----------------------------- MODULE BulkLocks -----------------------------
(***************************************************************************)
(* Bulk seat locks (domain/seat-lock-service.ts, Bulk locks): one request  *)
(* that locks the same seats on every departure of a range, then amends,   *)
(* adds, splits or releases them on all of them at once, on top of the     *)
(* bookings and the single-lock commands of SeatPool. A departure of a     *)
(* bulk lock is a seat lock like any other: it can be amended, added to    *)
(* and released on its own, and bookings draw on it.                       *)
(***************************************************************************)
EXTENDS SeatPool

CONSTANTS
    RunsOn,       \* days of the range on which the route runs
    Weekdays,     \* the sets of days the chosen weekdays can select
    Cutoffs,      \* days before departure a bulk lock is due back, or NoCutoff
    NoCutoff,
    MaxBulk       \* bound: commands on locks, and days passed, in one run

ASSUME BulkAssumption ==
    /\ RunsOn \subseteq Days /\ Weekdays \subseteq SUBSET Days
    /\ Cutoffs \subseteq Nat \cup {NoCutoff} /\ NoCutoff \notin Nat /\ MaxBulk \in Nat

VARIABLES
    bulk,     \* the bulk lock: its holder, seats per departure, cutoff and departures
    today,    \* the Bangkok day
    asked     \* lock commands so far

bulkVars == <<booking, lock, deployed, bulk, today, asked>>

NoBulk == [rows |-> {}]
Made == bulk.rows # {}

\* Every row of the bulk lock: its departures and their sub-groups.
BulkRows == {l \in DOMAIN lock : TopOf(lock, l) \in bulk.rows}
\* The departures a bulk write changes: those not released.
Departures == {l \in bulk.rows : lock[l].status = "active"}

\* A departure that has left is never short of seats.
ShortOn(d, ownHeld, want) == IF d < today THEN 0 ELSE ShortBy(Day(d, {}), ownHeld, want)

WriteRows(rows) ==
    /\ lock' = [l \in DOMAIN lock \cup DOMAIN rows |-> IF l \in DOMAIN rows THEN rows[l] ELSE lock[l]]
    /\ UNCHANGED <<booking, deployed>>

Unused == LockIds \ DOMAIN lock
\* New rows take the next ids in the order of their days.
NextRows(D) ==
    {row \in [D -> Unused] :
        /\ \A d, e \in D : d < e => row[d] < row[e]
        /\ \A d \in D, l \in Unused : l < row[d] => \E e \in D : row[e] = l}

(* POST /v1/seat-lock-groups: one lock on each chosen day the route runs.  *)
(* A short day keeps the shortfall pending ("split") or all of it ("all"). *)
CreateGroup(days, pax, holder, cutoff, choice) ==
    LET open == days \cap RunsOn
        pending(d) == LET short == ShortOn(d, 0, pax)
                      IN  IF short > 0 /\ choice = "all" THEN pax ELSE short
    IN  /\ ~Made /\ open # {}
        /\ \E row \in NextRows(open) :
              LET ids == {row[d] : d \in open}
                  dayOf(l) == CHOOSE d \in open : row[d] = l
              IN  /\ WriteRows([l \in ids |->
                        [day |-> dayOf(l), pax |-> pax, released |-> 0, holder |-> holder, status |-> "active",
                         pending |-> pending(dayOf(l)), lapsed |-> FALSE, parent |-> NoLock]])
                  /\ bulk' = [rows |-> ids, pax |-> pax, holder |-> holder, cutoff |-> cutoff]

\* More seats on one departure: the shortfall waits when it exceeds what already waits.
Grown(l, pax) ==
    LET row == lock[l]
        tree == Tree(l)
        short == ShortOn(row.day, tree.held, pax - row.released - tree.used)
    IN  [row EXCEPT !.pax = pax, !.pending = IF short > tree.pend THEN short ELSE @]

\* Fewer seats on one departure take its pending ones off first.
Lowered(l, pax) ==
    [lock[l] EXCEPT !.pax = pax, !.pending = Clip(@ - (lock[l].pax - pax))]

\* Mutant: seats in sub-groups do not keep a departure's seats up.
FloorOfDrawn(l) == lock[l].released + Drawn(l)

\* What a departure cannot go below: released, drawn and in sub-groups.
Floor(l) == lock[l].released + Drawn(l) + Tree(l).allocated

\* Mutant: the new holder reaches the departures only.
HeldByDepartures(rows, holder) ==
    [l \in DOMAIN rows |-> IF l \in bulk.rows THEN [rows[l] EXCEPT !.holder = holder] ELSE rows[l]]

\* The holder of a bulk lock is the holder of every row, sub-groups and released ones included.
HeldBy(rows, holder) == [l \in DOMAIN rows |-> [rows[l] EXCEPT !.holder = holder]]

\* Mutant: only the departures' own draws keep the holder.
UndrawnTop == \A l \in bulk.rows : Drawn(l) = 0

Undrawn == \A l \in BulkRows : Drawn(l) = 0

(* PATCH: the seats of every departure, the holder (while nothing is       *)
(* drawn) and the cutoff together.                                         *)
AmendGroup(pax, holder, cutoff) ==
    LET resized(l) == IF pax = bulk.pax \/ l \notin Departures THEN lock[l]
                      ELSE IF pax < lock[l].pax THEN Lowered(l, pax) ELSE Grown(l, pax)
        rows == [l \in BulkRows |-> resized(l)]
    IN  /\ Made
        /\ holder # bulk.holder => Undrawn
        /\ pax # bulk.pax => \A l \in Departures : pax >= Floor(l)
        /\ WriteRows(IF holder = bulk.holder THEN rows ELSE HeldBy(rows, holder))
        /\ bulk' = [bulk EXCEPT !.pax = pax, !.holder = holder, !.cutoff = cutoff]

(* "+ seats" on every departure not released.                              *)
AddGroup(n) ==
    /\ Made
    /\ \A l \in Departures : lock[l].pax + n <= MaxLockPax
    /\ WriteRows([l \in Departures |-> Grown(l, lock[l].pax + n)])
    /\ bulk' = [bulk EXCEPT !.pax = @ + n]

Releasable(l) == Clip(Tree(l).unallocated - Drawn(l))

\* Mutant: as much as any departure can give.
MostReleasable == Max({Releasable(l) : l \in Departures})

\* The same seats off every departure: as much as the busiest one can give.
GroupReleasable == Min({Releasable(l) : l \in Departures})

ReleaseGroup(n) ==
    LET given(l) == [lock[l] EXCEPT !.released = @ + n, !.pending = Clip(@ - n)]
        done(l) == given(l).pax - given(l).released <= Drawn(l) /\ given(l).pending = 0 /\ Kids(l) = {}
    IN  /\ Made /\ Departures # {}
        /\ n \in 1..GroupReleasable
        /\ WriteRows([l \in Departures |->
              IF done(l) THEN [given(l) EXCEPT !.status = "released"] ELSE given(l)])
        /\ UNCHANGED bulk

\* Mutant: each departure takes the sub-group that has room for it.
RoomOnSome(parents, pax) == \E l \in parents : pax <= Tree(l).room

RoomOnAll(parents, pax) == \A l \in parents : pax <= Tree(l).room

(* The same sub-group on every departure from today on that holds: all or  *)
(* none.                                                                   *)
GroupSubGroups(pax) ==
    LET parents == {l \in Departures : lock[l].day >= today}
        days == {lock[l].day : l \in parents}
    IN  /\ parents # {}
        /\ \A l \in parents : Cardinality(Kids(l)) < MaxKids
        /\ RoomOnAll(parents, pax)
        /\ \E row \in NextRows(days) :
              LET parentOf(k) == CHOOSE l \in parents : row[lock[l].day] = k
              IN  WriteRows([k \in {row[d] : d \in days} |->
                     [day |-> lock[parentOf(k)].day, pax |-> pax, released |-> 0, holder |-> bulk.holder,
                      status |-> "active", pending |-> 0, lapsed |-> FALSE, parent |-> parentOf(k)]])
        /\ UNCHANGED bulk

\* Past its cutoff and still holding seats; late: the hour of the cutoff's day has come.
Overdue(l, late) ==
    /\ l \in Departures /\ bulk.cutoff # NoCutoff
    /\ today > lock[l].day - bulk.cutoff \/ (late /\ today = lock[l].day - bulk.cutoff)
    /\ Tree(l).held > 0

(* POST /v1/seat-locks/release-overdue: every overdue lock of one day, its *)
(* sub-groups and pending seats included. A cutoff never acts by itself.   *)
ReleaseOverdue(d, late) ==
    LET due == {l \in bulk.rows : lock[l].day = d /\ Overdue(l, late)}
    IN  /\ due # {}
        /\ WriteRows([l \in due |-> ReleasedWhole(l)])
        /\ UNCHANGED bulk

-----------------------------------------------------------------------------
BulkInit == Init /\ bulk = NoBulk /\ today = 0 /\ asked = 0

GroupStep ==
    \/ \E days \in Weekdays, pax \in 1..MaxLockPax, h \in Holders, c \in Cutoffs, choice \in {"split", "all"} :
          CreateGroup(days, pax, h, c, choice)
    \/ Made /\ \E pax \in 1..MaxLockPax, h \in Holders, c \in Cutoffs : AmendGroup(pax, h, c)
    \/ \E n \in 1..MaxLockPax : AddGroup(n) \/ ReleaseGroup(n) \/ GroupSubGroups(n)
    \/ Made /\ \E d \in Days, late \in BOOLEAN : ReleaseOverdue(d, late)

(* What may be asked of one departure or sub-group: seats, never its day,  *)
(* holder or expiry (amend). Departures to come only, as SeatPool weighs.  *)
RowStep(l) ==
    /\ l \in BulkRows /\ lock[l].day >= today
    /\ \/ \E pax \in 1..MaxLockPax : \/ AmendLock(l, pax, lock[l].day, lock[l].holder, lock[l].lapsed)
                                     \/ AmendSubGroup(l, pax)
       \/ \E n \in 1..MaxLockPax : /\ lock[l].pax + n <= MaxLockPax
                                   /\ AddSeats(l, n) \/ AddToSubGroup(l, n)
       \/ \E n \in 1..MaxLockPax : ReleaseSeats(l, n) \/ ConfirmPending(l, n)
       \/ ReleaseDeparture(l)
    /\ UNCHANGED bulk

GuestStep(b) ==
    \/ \E seen \in {Seen(b)}, agent \in Agents, trips \in Itineraries :
          CreateBooking(b, seen, "confirm", agent, trips, FALSE)
    \/ CancelBooking(b)
    \/ \E seen \in {Seen(b)} : RestoreBooking(b, seen)

BulkNext ==
    \/ /\ asked < MaxBulk /\ asked' = asked + 1 /\ UNCHANGED today
       /\ GroupStep \/ \E l \in LockIds : RowStep(l)
    \/ /\ asked < MaxBulk /\ asked' = asked + 1
       /\ \E d \in Days : d > today /\ today' = d
       /\ UNCHANGED <<booking, lock, deployed, bulk>>
    \/ \E b \in Bookings : GuestStep(b) /\ UNCHANGED <<bulk, today, asked>>

BulkSpec == BulkInit /\ [][BulkNext]_bulkVars

-----------------------------------------------------------------------------
(* Every row of a bulk lock, sub-groups and released departures included,  *)
(* is held by the bulk lock's holder, so a booking that may draw on one    *)
(* departure may draw on them all (amend refuses a departure's own holder).*)
OneHolder == \A l \in BulkRows : lock[l].holder = bulk.holder

(* A departure's sub-groups and the seats drawn outside them never come to *)
(* ask for more than it has, whichever commands, on one departure or on    *)
(* all of them, lower, release or split it, and whichever bookings draw on *)
(* it; only a departure given back whole and opened again is excepted.     *)
Fits(lks, bks, l) ==
    LET tree == TreeOf(lks, DrawnByLock(bks, {}), l)
    IN  DrawnByLock(bks, {})[l] + tree.allocated <= lks[l].pax - lks[l].released
GoesOnFitting(l) ==
    lock[l].status = "active" /\ lock'[l].status = "active" /\ Fits(lock, booking, l) => Fits(lock', booking', l)
SubGroupsStayInside == [][\A l \in bulk.rows : GoesOnFitting(l)]_bulkVars

(* No command on a bulk lock or on one of its departures puts a departure  *)
(* to come past its seats, or makes seats drawn, waiting and released      *)
(* overlap: only a restored booking takes seats nobody weighed, and only   *)
(* one that draws on several locks of a departure at once, each weighed    *)
(* alone, can draw it past what it holds.                                  *)
DeparturesKeepTheirSeats ==
    /\ LockNeverOvercommitted
    /\ [][\A d \in Days :
             d >= today /\ AvailableAfter(d) < Least(0, Available(d)) =>
                \E b \in Bookings : Restored(b) \/ DrawsTogether(b, d)]_bulkVars
=============================================================================
