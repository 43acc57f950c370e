--------------------------- MODULE SeatPoolProofs ---------------------------
(***************************************************************************)
(* What the seat pool promises for any number of bookings, agents, days,   *)
(* boats and locks: its types, that a boat is not chartered twice and that *)
(* no booking comes to draw on a lock that is not its day's or its agent's *)
(* to draw on; and that a bulk lock has one holder.                        *)
(***************************************************************************)
EXTENDS BulkLocks, TotalsProofs

-----------------------------------------------------------------------------
(* Numbers of a lock tree and of a day                                     *)

\* What LockTree reads of a lock is in seats.
IsNode(n) == n.pax \in Nat /\ n.pending \in Nat /\ n.drawn \in Nat

\* What it answers is in seats too; a tree nobody draws on has no draws anywhere.
SoundTree(tree, top, kids, node) ==
    /\ tree.used \in Nat /\ tree.pend \in Nat /\ tree.held \in Nat
    /\ tree.allocated \in Nat /\ tree.unallocated \in Nat /\ tree.room \in Nat
    /\ tree.unallocated <= node[top].pax
    /\ \A k \in kids \cup {top} : tree.remaining[k] \in Nat
    /\ tree.used = 0 => \A k \in kids \cup {top} : node[k].drawn = 0

LEMMA LockTreeNumbers ==
    ASSUME NEW top, NEW kids, IsFiniteSet(kids), NEW node, \A k \in kids \cup {top} : IsNode(node[k])
    PROVE  SoundTree(LockTree(top, kids, node), top, kids, node)
<1> DEFINE n == node[top]
           own(k) == IF node[k].released THEN 0 ELSE Clip(node[k].pax - node[k].drawn)
           drawn == [k \in kids |-> node[k].drawn]
           sought == [k \in kids |-> node[k].pax]
           owns == [k \in kids |-> own(k)]
           used == n.drawn + Total(drawn)
           pend == Clip(Least(n.pending, n.pax - used))
           held == Clip(n.pax - used - pend)
           allocated == Total(sought)
           unallocated == Clip(n.pax - allocated)
           room == Clip(unallocated - n.drawn)
           before(k) == [j \in {i \in kids : i < k} |-> own(j)]
           ahead(k) == IF pend > 0 THEN Total(before(k)) ELSE 0
           unsplit == IF pend > 0 THEN Clip(held - Total(owns)) ELSE held
           remaining == [k \in kids \cup {top} |->
              IF k = top THEN Least(room, unsplit) ELSE Least(own(k), Clip(held - ahead(k)))]
<1>1. LockTree(top, kids, node) =
        [used |-> used, pend |-> pend, held |-> held, allocated |-> allocated,
         unallocated |-> unallocated, room |-> room, remaining |-> remaining]
  BY DEF LockTree
<1>2. \A k \in kids \cup {top} : node[k].pax \in Nat /\ node[k].pending \in Nat /\ node[k].drawn \in Nat
  BY DEF IsNode
<1>3. \A k \in kids : own(k) \in Nat
  BY <1>2, ClipIsNat
<1>4. Total(drawn) \in Nat /\ Total(sought) \in Nat
  BY <1>2, TotalIsNat
<1> HIDE DEF own
<1>5. Total(owns) \in Nat
  BY <1>3, TotalIsNat
<1>6. ASSUME NEW k \in kids PROVE Total(before(k)) \in Nat
  <2>1. IsFiniteSet({i \in kids : i < k})
    BY FS_Subset
  <2> QED
    BY <1>3, <2>1, TotalIsNat
<1>7. used \in Nat /\ n.pax \in Nat /\ n.pending \in Nat /\ n.drawn \in Nat
  BY <1>2, <1>4
<1>8. used = 0 => n.drawn = 0 /\ \A k \in kids : node[k].drawn = 0
  <2>1. ASSUME used = 0 PROVE n.drawn = 0 /\ Total(drawn) = 0
    BY <1>4, <1>7, <2>1
  <2>2. ASSUME Total(drawn) = 0 PROVE \A k \in kids : drawn[k] = 0
    <3>1. DOMAIN drawn = kids /\ \A k \in kids : drawn[k] \in Nat
      BY <1>2
    <3> QED
      BY <2>2, <3>1, TotalZero
  <2> QED
    BY <2>1, <2>2
<1> HIDE DEF used, drawn, sought, owns, before
<1>9. pend \in Nat
  BY <1>7 DEF Clip, Least
<1> HIDE DEF pend
<1>10. held \in Nat
  BY <1>7, <1>9, ClipIsNat
<1>11. allocated \in Nat /\ unallocated \in Nat /\ unallocated <= n.pax
  BY <1>4, <1>7 DEF Clip
<1> HIDE DEF held, unallocated
<1>12. room \in Nat
  BY <1>7, <1>11, ClipIsNat
<1>13. unsplit \in Nat
  BY <1>5, <1>10, ClipIsNat
<1>14. ASSUME NEW k \in kids PROVE ahead(k) \in Nat
  BY <1>6
<1> HIDE DEF room, unsplit, ahead
<1>15. ASSUME NEW k \in kids \cup {top} PROVE remaining[k] \in Nat
  <2>1. CASE k = top
    BY <1>12, <1>13, <2>1, LeastOfNats
  <2>2. CASE k # top
    <3>1. k \in kids
      BY <2>2
    <3>2. Clip(held - ahead(k)) \in Nat
      BY <1>10, <1>14, <3>1, ClipIsNat
    <3> QED
      BY <1>3, <2>2, <3>1, <3>2, LeastOfNats
  <2> QED
    BY <2>1, <2>2
<1> HIDE DEF remaining, allocated
<1> QED
  BY <1>1, <1>7, <1>8, <1>9, <1>10, <1>11, <1>12, <1>15 DEF SoundTree

-----------------------------------------------------------------------------
(* Rows the tables can hold                                                *)

\* A charter takes a boat, and draws on no lock.
SoldTrips == {t \in Trips : t.mode = "charter" => \A l \in LockIds : t.draws[l] = 0}
TripPlans == UNION {[D -> SoldTrips] : D \in (SUBSET Days) \ {{}}}
\* An approval that waits says where its booking goes.
SoundApprovals == {a \in Approvals : a.state = "pending" => a.target \in {"quote", "confirmed"}}
BookingRows == [status : Statuses, agent : Agents, trips : TripPlans, approval : SoundApprovals]

IsBookings(bks) == bks \in [Bookings -> BookingRows \cup {NoBooking}]

IsLocks(lks) ==
    /\ DOMAIN lks \subseteq LockIds
    /\ \A l \in DOMAIN lks : lks[l] \in LockRows /\ lks[l].released <= lks[l].pax

\* A sub-group's parent is a lock of its own day and holder, and no sub-group.
Family(lks) ==
    \A l \in DOMAIN lks : lks[l].parent # NoLock =>
        LET top == lks[l].parent
        IN  /\ top \in DOMAIN lks /\ lks[top].parent = NoLock
            /\ lks[top].day = lks[l].day /\ lks[top].holder = lks[l].holder

IsDeployed(deps) ==
    /\ DOMAIN deps = Days
    /\ \A d \in Days : DOMAIN deps[d] \subseteq Boats /\ \A x \in DOMAIN deps[d] : deps[d][x] \in Capacities

\* What a booking draws on is in the table: locks are never deleted.
DrawsExist(bks, lks) ==
    \A b \in Bookings : bks[b].status # "absent" =>
        \A d \in DOMAIN bks[b].trips, l \in LockIds : bks[b].trips[d].draws[l] > 0 => l \in DOMAIN lks

PoolInv ==
    /\ IsBookings(booking) /\ IsLocks(lock) /\ Family(lock) /\ IsDeployed(deployed)
    /\ DrawsExist(booking, lock)

LEMMA PlanFacts ==
    ASSUME NEW trips \in TripPlans
    PROVE  /\ DOMAIN trips \subseteq Days /\ DOMAIN trips # {} /\ IsFiniteSet(DOMAIN trips)
           /\ trips = [d \in DOMAIN trips |-> trips[d]]
           /\ \A d \in DOMAIN trips : trips[d] \in SoldTrips /\ trips[d] \in Trips
<1>1. PICK D \in (SUBSET Days) \ {{}} : trips \in [D -> SoldTrips]
  BY DEF TripPlans
<1>2. IsFiniteSet(Days) /\ DOMAIN trips \in SUBSET Days
  BY <1>1, PoolAssumption
<1>3. IsFiniteSet(DOMAIN trips)
  BY <1>2, FS_Subset
<1>4. trips = [d \in DOMAIN trips |-> trips[d]]
  BY <1>1
<1>5. DOMAIN trips # {} /\ \A d \in DOMAIN trips : trips[d] \in SoldTrips /\ trips[d] \in Trips
  BY <1>1 DEF SoldTrips
<1> QED
  BY <1>2, <1>3, <1>4, <1>5

LEMMA PlanMade ==
    ASSUME NEW trips, trips = [d \in DOMAIN trips |-> trips[d]], DOMAIN trips \subseteq Days, DOMAIN trips # {},
           \A d \in DOMAIN trips : trips[d] \in SoldTrips
    PROVE  trips \in TripPlans
<1>1. DOMAIN trips \in (SUBSET Days) \ {{}}
  OBVIOUS
<1>2. trips \in [DOMAIN trips -> SoldTrips]
  OBVIOUS
<1> QED
  BY <1>1, <1>2 DEF TripPlans

LEMMA TripFacts ==
    ASSUME NEW trip \in Trips
    PROVE  /\ trip.mode \in {"seat", "charter"} /\ trip.pax \in Nat /\ trip.boat \in Boats \cup {NoBoat}
           /\ trip.displaced \in BOOLEAN
           /\ trip.draws \in [LockIds -> Nat] /\ \A l \in LockIds : trip.draws[l] \in 0..MaxLockPax
  BY PoolAssumption DEF Trips, Draws

LEMMA BookingFacts ==
    ASSUME NEW bks, IsBookings(bks), NEW b \in Bookings, bks[b].status # "absent"
    PROVE  /\ bks[b] \in BookingRows /\ bks[b].trips \in TripPlans
           /\ bks[b].status \in Statuses /\ bks[b].agent \in Agents
           /\ bks[b].approval \in Approvals /\ bks[b].approval \in SoundApprovals
  BY DEF IsBookings, BookingRows, NoBooking, SoundApprovals

\* Seats a booking draws from a lock, over its days; none in all is none on any.
LEMMA DrawnByFacts ==
    ASSUME NEW bk \in BookingRows, NEW l \in LockIds
    PROVE  /\ DrawnBy(bk, l) \in Nat
           /\ DrawnBy(bk, l) = 0 => \A d \in DOMAIN bk.trips : bk.trips[d].draws[l] = 0
<1> DEFINE f == [d \in DOMAIN bk.trips |-> bk.trips[d].draws[l]]
<1>1. bk.trips \in TripPlans
  BY DEF BookingRows
<1>2. IsFiniteSet(DOMAIN bk.trips) /\ \A d \in DOMAIN bk.trips : bk.trips[d] \in Trips
  BY <1>1, PlanFacts
<1>3. \A d \in DOMAIN bk.trips : bk.trips[d].draws[l] \in Nat
  BY <1>2, TripFacts
<1>4. DOMAIN f = DOMAIN bk.trips /\ \A d \in DOMAIN f : f[d] \in Nat
  BY <1>3
<1>5. Total(f) \in Nat /\ (Total(f) = 0 => \A d \in DOMAIN f : f[d] = 0)
  BY <1>2, <1>4, TotalIsNat, TotalZero
<1> QED
  BY <1>4, <1>5 DEF DrawnBy

LEMMA CountedFacts ==
    ASSUME NEW bks, IsBookings(bks), NEW except
    PROVE  /\ IsFiniteSet(Counted(bks, except)) /\ Counted(bks, except) \subseteq Bookings
           /\ \A b \in Counted(bks, except) : HoldsSeats(bks[b]) /\ bks[b] \in BookingRows
<1>1. IsFiniteSet(Bookings) /\ Counted(bks, except) \in SUBSET Bookings
  BY PoolAssumption DEF Counted
<1>2. IsFiniteSet(Counted(bks, except))
  BY <1>1, FS_Subset
<1>3. \A b \in Counted(bks, except) : HoldsSeats(bks[b]) /\ bks[b].status # "absent"
  BY DEF Counted, HoldsSeats
<1> QED
  BY <1>1, <1>2, <1>3, BookingFacts

LEMMA DrawnByLockFacts ==
    ASSUME NEW bks, IsBookings(bks), NEW except, NEW l \in LockIds
    PROVE  /\ DrawnByLock(bks, except)[l] \in Nat
           /\ DrawnByLock(bks, except)[l] = 0 =>
                 \A b \in Counted(bks, except) : \A d \in DOMAIN bks[b].trips : bks[b].trips[d].draws[l] = 0
<1> DEFINE C == Counted(bks, except)
           f == [b \in C |-> DrawnBy(bks[b], l)]
<1>1. IsFiniteSet(C) /\ \A b \in C : bks[b] \in BookingRows
  BY CountedFacts
<1> HIDE DEF C
<1>2. DOMAIN f = C /\ \A b \in C : f[b] = DrawnBy(bks[b], l) /\ f[b] \in Nat
  BY <1>1, DrawnByFacts
<1>3. Total(f) \in Nat /\ (Total(f) = 0 => \A b \in C : f[b] = 0)
  BY <1>1, <1>2, TotalIsNat, TotalZero
<1>4. DrawnByLock(bks, except)[l] = Total(f)
  BY DEF DrawnByLock, C
<1>5. ASSUME NEW b \in C, f[b] = 0 PROVE \A d \in DOMAIN bks[b].trips : bks[b].trips[d].draws[l] = 0
  BY <1>1, <1>2, <1>5, DrawnByFacts
<1> HIDE DEF f
<1> QED
  BY <1>3, <1>4, <1>5 DEF C

\* The numbers of a lock tree, among any rows of the table.
LEMMA TreeNumbers ==
    ASSUME NEW rows, IsLocks(rows), NEW drawn \in [LockIds -> Nat], NEW top \in DOMAIN rows
    PROVE  LET tree == TreeOf(rows, drawn, top)
           IN  /\ tree.used \in Nat /\ tree.pend \in Nat /\ tree.held \in Nat
               /\ tree.allocated \in Nat /\ tree.unallocated \in Nat /\ tree.room \in Nat
               /\ tree.unallocated <= rows[top].pax - rows[top].released
               /\ \A k \in KidsIn(rows, top) \cup {top} : tree.remaining[k] \in Nat
               /\ tree.used = 0 => \A k \in KidsIn(rows, top) \cup {top} : drawn[k] = 0
<1> DEFINE kids == KidsIn(rows, top)
           node == NodesOf(rows, drawn)
<1>1. kids \in SUBSET LockIds /\ kids \subseteq DOMAIN rows /\ IsFiniteSet(LockIds)
  BY LockAssumption DEF KidsIn, IsLocks
<1>2. IsFiniteSet(kids)
  BY <1>1, FS_Subset
<1>3. \A k \in DOMAIN rows : node[k].drawn = drawn[k] /\ node[k].pax = rows[k].pax - rows[k].released
  BY DEF NodesOf
<1>4. \A k \in DOMAIN rows : IsNode(node[k])
  BY DEF NodesOf, IsNode, IsLocks, LockRows
<1>5. kids \cup {top} \subseteq DOMAIN rows /\ \A k \in kids \cup {top} : IsNode(node[k])
  BY <1>1, <1>4
<1> HIDE DEF kids, node
<1>6. SoundTree(LockTree(top, kids, node), top, kids, node)
  BY <1>2, <1>5, LockTreeNumbers
<1> QED
  BY <1>3, <1>5, <1>6 DEF TreeOf, SoundTree, kids, node

LEMMA DrawnIsFunction ==
    ASSUME NEW bks, IsBookings(bks), NEW except
    PROVE  DrawnByLock(bks, except) \in [LockIds -> Nat]
<1>1. \A l \in LockIds : DrawnByLock(bks, except)[l] \in Nat
  BY DrawnByLockFacts
<1>2. DrawnByLock(bks, except) = [l \in LockIds |-> DrawnByLock(bks, except)[l]]
  BY DEF DrawnByLock
<1> QED
  BY <1>1, <1>2

\* The holding locks of a day, with their sub-groups: of that day, and their parents among them.
LEMMA PoolLocksFacts ==
    ASSUME NEW lks, IsLocks(lks), Family(lks), NEW d
    PROVE  LET rows == PoolLocks(lks, d)
           IN  /\ IsLocks(rows)
               /\ \A l \in DOMAIN rows : l \in DOMAIN lks /\ rows[l] = lks[l] /\ lks[l].day = d
               /\ \A l \in DOMAIN rows : TopOf(rows, l) \in DOMAIN rows /\ rows[TopOf(rows, l)].parent = NoLock
<1> DEFINE rows == PoolLocks(lks, d)
<1>1. DOMAIN rows = {l \in DOMAIN lks : lks[l].day = d /\ IsHolding(lks, TopOf(lks, l))}
      /\ \A l \in DOMAIN rows : rows[l] = lks[l]
  BY DEF PoolLocks
<1>2. IsLocks(rows)
  BY <1>1 DEF IsLocks
<1>3. ASSUME NEW l \in DOMAIN rows PROVE TopOf(rows, l) \in DOMAIN rows /\ rows[TopOf(rows, l)].parent = NoLock
  <2>1. TopOf(rows, l) = TopOf(lks, l) /\ l \in DOMAIN lks /\ lks[l].day = d /\ IsHolding(lks, TopOf(lks, l))
    BY <1>1 DEF TopOf
  <2> DEFINE top == TopOf(lks, l)
  <2>2. top \in DOMAIN lks /\ lks[top].parent = NoLock /\ lks[top].day = d
    BY <2>1 DEF Family, TopOf
  <2>3. TopOf(lks, top) = top
    BY <2>2 DEF TopOf
  <2>4. top \in DOMAIN rows
    BY <1>1, <2>1, <2>2, <2>3
  <2> QED
    BY <1>1, <2>1, <2>2, <2>4
<1> HIDE DEF rows
<1> QED
  BY <1>1, <1>2, <1>3 DEF rows

\* What a day answers: seats in whole numbers, its own locks, and no boat a counted charter takes.
SoundDay(day, d, except) ==
    /\ day.available \in Int /\ day.licensedFree \in Int /\ day.locked \in Nat
    /\ \A l \in DOMAIN day.rows :
          l \in DOMAIN lock /\ lock[l].day = d /\ day.rows[l] = lock[l] /\ day.remaining[l] \in Nat
    /\ DOMAIN day.remaining = DOMAIN day.rows
    /\ day.deps = deployed[d] /\ day.open \subseteq Boats
    /\ \A b \in Counted(booking, except) :
          d \in DOMAIN booking[b].trips /\ booking[b].trips[d].mode = "charter" =>
             booking[b].trips[d].boat \notin day.open

LEMMA DayNumbers ==
    ASSUME PoolInv, NEW d \in Days, NEW except
    PROVE  SoundDay(Day(d, except), d, except)
<1> DEFINE deps == deployed[d]
           trips == TripsOn(booking, d, except)
           boatsOf == [b \in DOMAIN trips |-> {trips[b].boat}]
           rows == PoolLocks(lock, d)
           drawn == DrawnByLock(booking, except)
           charters == {x \in DOMAIN trips : trips[x].mode = "charter"}
           taken == ({} \cup UNION {boatsOf[x] : x \in charters}) \cap DOMAIN deps
           open == DOMAIN deps \ taken
           tops == {l \in DOMAIN rows : rows[l].parent = NoLock}
           tree == [t \in tops |-> TreeOf(rows, drawn, t)]
           lockedBy == [t \in tops |-> tree[t].held]
           bookedBy == [x \in DOMAIN trips \ charters |-> trips[x].pax]
           unplacedBy == [x \in {y \in charters : boatsOf[y] \cap DOMAIN deps = {}} |-> trips[x].pax]
           seatsOf == [b \in open |-> Sellable(b, deps[b])]
           licensedOf == [b \in open |-> Licence[b]]
           pooled == ~(d \in Land) /\ DOMAIN deps # {}
           remaining == [l \in DOMAIN rows |-> tree[TopOf(rows, l)].remaining[l]]
<1>1. Day(d, except) =
        [pooled |-> pooled, deps |-> deps, open |-> open, locked |-> Total(lockedBy), rows |-> rows,
         available |-> IF pooled THEN Total(seatsOf) - Total(unplacedBy) - Total(bookedBy) - Total(lockedBy) ELSE 0,
         licensedFree |-> IF pooled THEN Total(licensedOf) - Total(unplacedBy) - Total(bookedBy) ELSE 0,
         remaining |-> remaining]
  BY DEF Day, DayOf, DayCapacity
<1>2. IsBookings(booking) /\ IsLocks(lock) /\ Family(lock)
      /\ DOMAIN deps \subseteq Boats /\ \A x \in DOMAIN deps : deps[x] \in Nat
  BY PoolAssumption DEF PoolInv, IsDeployed
<1>3. DOMAIN trips = {b \in Counted(booking, except) : d \in DOMAIN booking[b].trips}
      /\ \A b \in DOMAIN trips : trips[b] = booking[b].trips[d]
  BY DEF TripsOn
<1>4. IsFiniteSet(DOMAIN trips) /\ \A b \in DOMAIN trips : trips[b].pax \in Nat
  <2>1. IsFiniteSet(Counted(booking, except))
    BY <1>2, CountedFacts
  <2>2. IsFiniteSet(DOMAIN trips)
    BY <1>3, <2>1, FS_Subset
  <2>3. ASSUME NEW b \in DOMAIN trips PROVE trips[b].pax \in Nat
    <3>1. booking[b] \in BookingRows /\ d \in DOMAIN booking[b].trips
      BY <1>2, <1>3, CountedFacts
    <3>2. booking[b].trips \in TripPlans
      BY <3>1 DEF BookingRows
    <3>3. booking[b].trips[d] \in Trips
      BY <3>1, <3>2, PlanFacts
    <3> QED
      BY <1>3, <3>3, TripFacts
  <2> QED
    BY <2>2, <2>3
<1>5. drawn \in [LockIds -> Nat]
  BY <1>2, DrawnIsFunction
<1>6. /\ IsLocks(rows)
      /\ \A l \in DOMAIN rows : l \in DOMAIN lock /\ rows[l] = lock[l] /\ lock[l].day = d
      /\ \A l \in DOMAIN rows : TopOf(rows, l) \in DOMAIN rows /\ rows[TopOf(rows, l)].parent = NoLock
  BY <1>2, PoolLocksFacts
<1> HIDE DEF trips, drawn, rows
<1>7. Total(bookedBy) \in Nat /\ Total(unplacedBy) \in Nat
  <2>1. IsFiniteSet(DOMAIN trips \ charters) /\ IsFiniteSet({y \in charters : boatsOf[y] \cap DOMAIN deps = {}})
    BY <1>4, FS_Subset
  <2> QED
    BY <1>4, <2>1, TotalIsNat
<1>8. Total(seatsOf) \in Nat /\ Total(licensedOf) \in Nat
  <2>1. IsFiniteSet(open) /\ open \subseteq Boats
    BY <1>2, BoatAssumption, FS_Subset
  <2>2. \A b \in open : Licence[b] \in Nat /\ deps[b] \in Nat
    BY <1>2, BoatAssumption
  <2>3. \A b \in open : Sellable(b, deps[b]) \in Nat
    BY <2>2, LeastOfNats DEF Sellable
  <2> HIDE DEF open, deps
  <2> QED
    BY <2>1, <2>2, <2>3, TotalIsNat
<1>9. ASSUME NEW t \in tops
      PROVE  tree[t].held \in Nat /\ \A k \in KidsIn(rows, t) \cup {t} : tree[t].remaining[k] \in Nat
  BY <1>5, <1>6, TreeNumbers
<1>10. Total(lockedBy) \in Nat
  <2>1. tops \in SUBSET LockIds
    BY <1>6 DEF IsLocks
  <2>2. IsFiniteSet(tops)
    BY <2>1, LockAssumption, FS_Subset
  <2> HIDE DEF tree, tops
  <2> QED
    BY <1>9, <2>2, TotalIsNat
<1>11. ASSUME NEW l \in DOMAIN rows PROVE remaining[l] \in Nat
  <2> DEFINE t == TopOf(rows, l)
  <2>1. t \in tops /\ (l = t \/ l \in KidsIn(rows, t))
    BY <1>6 DEF TopOf, KidsIn
  <2> HIDE DEF tree, tops, t
  <2>2. tree[t].remaining[l] \in Nat
    BY <1>9, <2>1
  <2> QED
    BY <2>2 DEF t
<1>12. ASSUME NEW b \in Counted(booking, except), d \in DOMAIN booking[b].trips, booking[b].trips[d].mode = "charter"
       PROVE  booking[b].trips[d].boat \notin open
  <2>1. b \in charters /\ boatsOf[b] = {booking[b].trips[d].boat}
    BY <1>3, <1>12
  <2> QED
    BY <2>1
<1>13. open \subseteq Boats
  BY <1>2
<1> HIDE DEF remaining, open, lockedBy, bookedBy, unplacedBy, seatsOf, licensedOf, pooled
<1>14. DOMAIN remaining = DOMAIN rows
  BY DEF remaining
<1> QED
  BY <1>1, <1>6, <1>7, <1>8, <1>10, <1>11, <1>12, <1>13, <1>14 DEF SoundDay

-----------------------------------------------------------------------------
(* Itineraries a command writes                                            *)

\* The same trips but for the acknowledgement on them.
SameButMarked(trips, marked) ==
    /\ DOMAIN marked = DOMAIN trips
    /\ \A d \in DOMAIN trips :
          /\ marked[d].mode = trips[d].mode /\ marked[d].pax = trips[d].pax
          /\ marked[d].boat = trips[d].boat /\ marked[d].draws = trips[d].draws

IsOld(old) == \A d \in DOMAIN old : old[d] \in Trips

LEMMA MarkedTrip ==
    ASSUME NEW t \in SoldTrips, NEW x \in BOOLEAN
    PROVE  LET marked == [t EXCEPT !.displaced = x]
           IN  /\ marked \in SoldTrips /\ marked.mode = t.mode /\ marked.pax = t.pax
               /\ marked.boat = t.boat /\ marked.draws = t.draws
  BY DEF SoldTrips, Trips

LEMMA PlannedFacts ==
    ASSUME NEW trips \in TripPlans, NEW old, IsOld(old)
    PROVE  Planned(old, trips) \in TripPlans /\ SameButMarked(trips, Planned(old, trips))
<1> DEFINE kept(d) == /\ trips[d].mode = "charter" /\ d \in DOMAIN old /\ old[d].mode = "charter"
                      /\ old[d].boat = trips[d].boat /\ old[d].displaced
           planned == [d \in DOMAIN trips |-> [trips[d] EXCEPT !.displaced = kept(d)]]
<1>1. Planned(old, trips) = planned
  BY DEF Planned
<1>2. DOMAIN trips \subseteq Days /\ DOMAIN trips # {} /\ \A d \in DOMAIN trips : trips[d] \in SoldTrips
  BY PlanFacts
<1>3. ASSUME NEW d \in DOMAIN trips PROVE kept(d) \in BOOLEAN
  BY TripFacts DEF IsOld
<1> HIDE DEF kept
<1>4. ASSUME NEW d \in DOMAIN trips
      PROVE  /\ planned[d] \in SoldTrips /\ planned[d].mode = trips[d].mode /\ planned[d].pax = trips[d].pax
             /\ planned[d].boat = trips[d].boat /\ planned[d].draws = trips[d].draws
  BY <1>2, <1>3, MarkedTrip
<1>5. DOMAIN planned = DOMAIN trips /\ planned = [d \in DOMAIN planned |-> planned[d]]
  OBVIOUS
<1> HIDE DEF planned
<1>6. planned \in TripPlans
  BY <1>2, <1>4, <1>5, PlanMade
<1> QED
  BY <1>1, <1>4, <1>5, <1>6 DEF SameButMarked

LEMMA StampedFacts ==
    ASSUME NEW trips \in TripPlans, NEW weights
    PROVE  Stamped(trips, weights) \in TripPlans /\ SameButMarked(trips, Stamped(trips, weights))
<1> DEFINE mark(d) == trips[d].displaced \/ weights[d] = "displaced"
           stamped == [d \in DOMAIN trips |-> [trips[d] EXCEPT !.displaced = mark(d)]]
<1>1. Stamped(trips, weights) = stamped
  BY DEF Stamped
<1>2. DOMAIN trips \subseteq Days /\ DOMAIN trips # {} /\ \A d \in DOMAIN trips : trips[d] \in SoldTrips /\ trips[d] \in Trips
  BY PlanFacts
<1>3. ASSUME NEW d \in DOMAIN trips PROVE mark(d) \in BOOLEAN
  BY <1>2, TripFacts
<1> HIDE DEF mark
<1>4. ASSUME NEW d \in DOMAIN trips
      PROVE  /\ stamped[d] \in SoldTrips /\ stamped[d].mode = trips[d].mode /\ stamped[d].pax = trips[d].pax
             /\ stamped[d].boat = trips[d].boat /\ stamped[d].draws = trips[d].draws
  BY <1>2, <1>3, MarkedTrip
<1>5. DOMAIN stamped = DOMAIN trips /\ stamped = [d \in DOMAIN stamped |-> stamped[d]]
  OBVIOUS
<1> HIDE DEF stamped
<1>6. stamped \in TripPlans
  BY <1>2, <1>4, <1>5, PlanMade
<1> QED
  BY <1>1, <1>4, <1>5, <1>6 DEF SameButMarked

LEMMA MarkedTwice ==
    ASSUME NEW a, NEW b, NEW c, SameButMarked(a, b), SameButMarked(b, c)
    PROVE  SameButMarked(a, c)
  BY DEF SameButMarked

\* Itineraries clients send are plans, and draw on locks of the table.
LEMMA ItineraryFacts ==
    ASSUME NEW trips \in Itineraries
    PROVE  /\ trips \in TripPlans
           /\ \A d \in DOMAIN trips, l \in LockIds : trips[d].draws[l] > 0 => l \in DOMAIN lock
<1>1. PICK D \in (SUBSET Days) \ {{}} : trips \in [D -> TripChoices]
  BY DEF Itineraries
<1>2. ASSUME NEW t \in TripChoices PROVE t \in SoldTrips
  <2>1. t \in Trips /\ (t.mode = "charter" => \A l \in LockIds : t.draws[l] = 0)
    BY PoolAssumption
  <2> QED
    BY <2>1 DEF SoldTrips
<1>3. trips \in [D -> SoldTrips]
  BY <1>1, <1>2
<1> QED
  BY <1>3 DEF TripPlans, Itineraries

-----------------------------------------------------------------------------
(* What a weighing answers                                                 *)

\* No boat of a plan's charters is taken, and its draws are of the day's own locks, its agent's to draw on.
Claimable(seen, trips, agent) ==
    \A d \in DOMAIN trips :
        /\ trips[d].mode = "charter" /\ trips[d].boat # NoBoat => trips[d].boat \in seen[d].open
        /\ \A l \in LockIds : trips[d].draws[l] > 0 =>
              l \in DOMAIN seen[d].rows /\ seen[d].rows[l].holder \in {Office, agent}

LEMMA WeighedDay ==
    ASSUME NEW day, NEW trip \in SoldTrips, NEW agent, NEW anyway, WeighDay(day, trip, agent, anyway) # "refused"
    PROVE  /\ trip.mode = "charter" /\ trip.boat # NoBoat => trip.boat \in day.open
           /\ \A l \in LockIds : trip.draws[l] > 0 => l \in DOMAIN day.rows /\ day.rows[l].holder \in {Office, agent}
<1>1. CASE trip.mode = "charter"
  <2>1. trip.boat # NoBoat => BoatCanBeTaken(day, trip)
    BY <1>1 DEF WeighDay, WeighCharter
  <2>2. \A l \in LockIds : trip.draws[l] = 0
    BY <1>1 DEF SoldTrips
  <2> QED
    BY <2>1, <2>2 DEF BoatCanBeTaken
<1>2. CASE trip.mode # "charter"
  <2>1. WeighSeats(day, trip, agent) # "refused"
    BY <1>2 DEF WeighDay
  <2>2. Drawable(day, trip, agent)
    <3>1. ~Drawable(day, trip, agent) => WeighSeats(day, trip, agent) = "refused"
      BY DEF WeighSeats
    <3> QED
      BY <2>1, <3>1
  <2> QED
    BY <1>2, <2>2 DEF Drawable
<1> QED
  BY <1>1, <1>2

LEMMA WeighedPlan ==
    ASSUME NEW seen, NEW trips \in TripPlans, NEW agent, NEW anyway, ~Refused(Weighed(seen, trips, agent, anyway))
    PROVE  Claimable(seen, trips, agent)
<1> SUFFICES ASSUME NEW d \in DOMAIN trips
             PROVE  /\ trips[d].mode = "charter" /\ trips[d].boat # NoBoat => trips[d].boat \in seen[d].open
                    /\ \A l \in LockIds : trips[d].draws[l] > 0 =>
                          l \in DOMAIN seen[d].rows /\ seen[d].rows[l].holder \in {Office, agent}
  BY DEF Claimable
<1>1. WeighDay(seen[d], trips[d], agent, anyway) # "refused"
  BY DEF Refused, Weighed
<1>2. trips[d] \in SoldTrips
  BY PlanFacts
<1> QED
  BY <1>1, <1>2, WeighedDay

LEMMA MarkedClaimable ==
    ASSUME NEW seen, NEW trips, NEW marked, NEW agent, Claimable(seen, trips, agent), SameButMarked(trips, marked)
    PROVE  Claimable(seen, marked, agent)
  BY DEF Claimable, SameButMarked

-----------------------------------------------------------------------------
(* What a booking command writes                                           *)

ByApproval(b, row) == Exists(b) /\ booking[b].approval.state = "pending" /\ row.approval.state = "approved"
ByRestore(b, row) == booking[b].status \in Releasing /\ row.status = "confirmed"

\* A boat a booking charters it had already, or nobody has, or is not on the route that day.
ChartersEntitled(b, row) ==
    \A d \in DOMAIN row.trips : row.trips[d].mode = "charter" /\ row.trips[d].boat # NoBoat =>
        \/ /\ HoldsSeats(booking[b]) /\ d \in DOMAIN booking[b].trips
           /\ booking[b].trips[d].mode = "charter" /\ booking[b].trips[d].boat = row.trips[d].boat
        \/ row.trips[d].boat \in Day(d, {b}).open
        \/ row.trips[d].boat \notin DOMAIN deployed[d]

\* A lock a booking draws on it drew on already that day, or is that day's and its agent's to draw on.
DrawsEntitled(b, row) ==
    \A d \in DOMAIN row.trips, l \in LockIds : row.trips[d].draws[l] > 0 =>
        \/ HoldsSeats(booking[b]) /\ d \in DOMAIN booking[b].trips /\ booking[b].trips[d].draws[l] > 0
        \/ lock[l].day = d /\ lock[l].holder \in {Office, row.agent}

DrawsKnown(row) == \A d \in DOMAIN row.trips, l \in LockIds : row.trips[d].draws[l] > 0 => l \in DOMAIN lock

Admissible(b, row) ==
    /\ row \in BookingRows /\ DrawsKnown(row)
    /\ Exists(b) => row.agent = booking[b].agent
    /\ HoldsSeats(row) /\ ~ByApproval(b, row) => ChartersEntitled(b, row)
    /\ HoldsSeats(row) /\ ~ByApproval(b, row) /\ ~ByRestore(b, row) => DrawsEntitled(b, row)

\* One booking is written, admissibly, and nothing else.
BookingMoved(b) ==
    /\ booking' = [booking EXCEPT ![b] = booking'[b]] /\ UNCHANGED <<lock, deployed>>
    /\ Admissible(b, booking'[b])

LEMMA MovedTo ==
    ASSUME PoolInv, NEW b \in Bookings, NEW row, Admissible(b, row),
           booking' = [booking EXCEPT ![b] = row], UNCHANGED <<lock, deployed>>
    PROVE  BookingMoved(b)
<1>1. booking'[b] = row
  BY DEF PoolInv, IsBookings
<1> QED
  BY <1>1 DEF BookingMoved

\* What the weighing against the day let through is an entitlement.
LEMMA ClaimsAreEntitled ==
    ASSUME PoolInv, NEW b \in Bookings, NEW row, row.trips \in TripPlans, Claimable(Seen(b), row.trips, row.agent)
    PROVE  ChartersEntitled(b, row) /\ DrawsEntitled(b, row) /\ DrawsKnown(row)
<1>1. ASSUME NEW d \in DOMAIN row.trips
      PROVE  Seen(b)[d] = Day(d, {b}) /\ SoundDay(Seen(b)[d], d, {b})
  BY <1>1, PlanFacts, DayNumbers DEF Seen
<1>2. ChartersEntitled(b, row)
  BY <1>1 DEF Claimable, ChartersEntitled
<1>3. ASSUME NEW d \in DOMAIN row.trips, NEW l \in LockIds, row.trips[d].draws[l] > 0
      PROVE  l \in DOMAIN lock /\ lock[l].day = d /\ lock[l].holder \in {Office, row.agent}
  BY <1>1, <1>3 DEF Claimable, SoundDay
<1> QED
  BY <1>2, <1>3 DEF DrawsEntitled, DrawsKnown

\* An itinerary that keeps to another's boats, and draws nowhere more.
Within(old, new) ==
    \A d \in DOMAIN new :
        /\ d \in DOMAIN old /\ old[d].mode = new[d].mode /\ old[d].boat = new[d].boat
        /\ \A l \in LockIds : ~(new[d].draws[l] > old[d].draws[l])

LEMMA WithinIsEntitled ==
    ASSUME PoolInv, NEW b \in Bookings, Exists(b), NEW row, row.trips \in TripPlans,
           Within(booking[b].trips, row.trips)
    PROVE  DrawsKnown(row) /\ (HoldsSeats(booking[b]) => ChartersEntitled(b, row) /\ DrawsEntitled(b, row))
<1>1. booking[b].trips \in TripPlans
  BY BookingFacts DEF Exists, PoolInv
<1>2. ASSUME NEW d \in DOMAIN row.trips, NEW l \in LockIds, row.trips[d].draws[l] > 0
      PROVE  d \in DOMAIN booking[b].trips /\ booking[b].trips[d].draws[l] > 0
  <2>1. d \in DOMAIN booking[b].trips /\ ~(row.trips[d].draws[l] > booking[b].trips[d].draws[l])
    BY DEF Within
  <2>2. row.trips[d] \in Trips /\ booking[b].trips[d] \in Trips
    BY <1>1, <2>1, PlanFacts
  <2>3. row.trips[d].draws[l] \in Nat /\ booking[b].trips[d].draws[l] \in Nat
    BY <2>2, TripFacts
  <2> QED
    BY <1>2, <2>1, <2>3
<1>3. HoldsSeats(booking[b]) => ChartersEntitled(b, row)
  BY DEF Within, ChartersEntitled
<1>4. (HoldsSeats(booking[b]) => DrawsEntitled(b, row)) /\ DrawsKnown(row)
  BY <1>2 DEF DrawsEntitled, DrawsKnown, PoolInv, DrawsExist, Exists
<1> QED
  BY <1>3, <1>4

\* A booking that asks for no more keeps to what it has.
LEMMA NoMoreIsWithin ==
    ASSUME NEW old, NEW new, ~ClaimsMoreSeats(old, new)
    PROVE  Within(old, new)
  BY DEF ClaimsMoreSeats, Within

LEMMA MarkedIsWithin ==
    ASSUME NEW old \in TripPlans, NEW new, SameButMarked(old, new)
    PROVE  Within(old, new)
<1> SUFFICES ASSUME NEW d \in DOMAIN new
             PROVE  /\ d \in DOMAIN old /\ old[d].mode = new[d].mode /\ old[d].boat = new[d].boat
                    /\ \A l \in LockIds : ~(new[d].draws[l] > old[d].draws[l])
  BY DEF Within
<1>1. d \in DOMAIN old /\ old[d] \in Trips
  BY PlanFacts DEF SameButMarked
<1>2. new[d].mode = old[d].mode /\ new[d].boat = old[d].boat /\ new[d].draws = old[d].draws
  BY <1>1 DEF SameButMarked
<1>3. \A l \in LockIds : old[d].draws[l] \in Nat
  BY <1>1, TripFacts
<1> QED
  BY <1>1, <1>2, <1>3

\* A booking kept to its itinerary may go on holding seats; to come to hold them it is weighed or approved.
LEMMA WithinIsAdmissible ==
    ASSUME PoolInv, NEW b \in Bookings, Exists(b), NEW row \in BookingRows,
           Within(booking[b].trips, row.trips), row.agent = booking[b].agent,
           HoldsSeats(row) => HoldsSeats(booking[b]) \/ ByApproval(b, row) \/ Claimable(Seen(b), row.trips, row.agent)
    PROVE  Admissible(b, row)
<1>1. row.trips \in TripPlans
  BY DEF BookingRows
<1>2. DrawsKnown(row) /\ (HoldsSeats(booking[b]) => ChartersEntitled(b, row) /\ DrawsEntitled(b, row))
  BY <1>1, WithinIsEntitled
<1>3. Claimable(Seen(b), row.trips, row.agent) => ChartersEntitled(b, row) /\ DrawsEntitled(b, row)
  BY <1>1, ClaimsAreEntitled
<1> QED
  BY <1>2, <1>3 DEF Admissible

-----------------------------------------------------------------------------
(* The booking commands, one by one                                        *)

LEMMA CreateMoves ==
    ASSUME PoolInv, NEW b \in Bookings, NEW intent, NEW agent \in Agents, NEW trips \in Itineraries,
           NEW anyway \in BOOLEAN, CreateBooking(b, Seen(b), intent, agent, trips, anyway)
    PROVE  BookingMoved(b)
<1> DEFINE weights == Weighed(Seen(b), trips, agent, anyway)
           base == IF intent = "quote" THEN "quote" ELSE "confirmed"
           over == OverAllotment(weights)
           planned == Planned(<<>>, trips)
           made == Stamped(planned, weights)
           row == [status |-> IF over THEN "pending_approval" ELSE base, agent |-> agent,
                   trips |-> made, approval |-> IF over THEN Asking(base) ELSE NotAsked]
<1>1. ~Exists(b) /\ ~Refused(weights) /\ booking' = [booking EXCEPT ![b] = row] /\ UNCHANGED <<lock, deployed>>
  BY DEF CreateBooking
<1>2. trips \in TripPlans
  BY ItineraryFacts
<1>3. Claimable(Seen(b), trips, agent)
  BY <1>1, <1>2, WeighedPlan
<1>4. planned \in TripPlans /\ SameButMarked(trips, planned)
  BY <1>2, PlannedFacts DEF IsOld
<1>5. made \in TripPlans /\ SameButMarked(planned, made)
  BY <1>4, StampedFacts
<1> HIDE DEF weights, over, planned, made
<1>6. Claimable(Seen(b), made, agent)
  BY <1>3, <1>4, <1>5, MarkedTwice, MarkedClaimable
<1>7. base \in {"quote", "confirmed"}
  OBVIOUS
<1> HIDE DEF base
<1>8. row.trips = made /\ row.agent = agent /\ row \in BookingRows
  BY <1>5, <1>7 DEF BookingRows, Statuses, SoundApprovals, Approvals, Asking, NotAsked, NoTarget
<1> HIDE DEF row
<1>9. Admissible(b, row)
  BY <1>1, <1>5, <1>6, <1>8, ClaimsAreEntitled DEF Admissible
<1> QED
  BY <1>1, <1>9, MovedTo

\* A booking's row, taken apart and put together again.
LEMMA RowFacts ==
    ASSUME PoolInv, NEW b \in Bookings, Exists(b)
    PROVE  /\ booking[b] \in BookingRows /\ booking[b].trips \in TripPlans /\ booking[b].agent \in Agents
           /\ booking[b].status \in Statuses /\ booking[b].approval \in SoundApprovals
           /\ DrawsKnown(booking[b]) /\ IsOld(booking[b].trips)
<1>1. /\ booking[b] \in BookingRows /\ booking[b].trips \in TripPlans /\ booking[b].agent \in Agents
      /\ booking[b].status \in Statuses /\ booking[b].approval \in SoundApprovals
  BY BookingFacts DEF PoolInv, Exists
<1>2. DrawsKnown(booking[b])
  BY DEF PoolInv, DrawsExist, Exists, DrawsKnown
<1>3. IsOld(booking[b].trips)
  BY <1>1, PlanFacts DEF IsOld
<1> QED
  BY <1>1, <1>2, <1>3

\* A trip asks for as much whether an acknowledgement is on it or not.
LEMMA MarkedStaysWithin ==
    ASSUME NEW old, NEW new, NEW marked, SameButMarked(new, marked), Within(old, new)
    PROVE  Within(old, marked)
  BY DEF Within, SameButMarked

\* Where a booking goes that waits, or that held its seats.
LEMMA TargetFacts ==
    ASSUME NEW bk \in BookingRows, HoldsSeats(bk) \/ bk.status = "pending_approval"
    PROVE  TargetOf(bk) \in {"quote", "confirmed"}
<1>1. bk.status \in Statuses /\ (bk.approval.state = "pending" => bk.approval.target \in {"quote", "confirmed"})
  BY DEF BookingRows, SoundApprovals
<1>2. CASE WaitsForSeats(bk)
  BY <1>1, <1>2 DEF TargetOf, WaitsForSeats
<1>3. CASE ~WaitsForSeats(bk)
  BY <1>1, <1>3 DEF TargetOf, HoldsSeats, Releasing, Statuses
<1> QED
  BY <1>2, <1>3

LEMMA AmendMoves ==
    ASSUME PoolInv, NEW b \in Bookings, NEW trips \in Itineraries, NEW anyway \in BOOLEAN,
           AmendBooking(b, Seen(b), trips, anyway)
    PROVE  BookingMoved(b)
<1> DEFINE bk == booking[b]
           planned == Planned(bk.trips, trips)
           reweighs == IF HoldsSeats(bk) THEN ClaimsMoreSeats(bk.trips, trips) ELSE bk.status = "pending_approval"
           weights == IF reweighs THEN Weighed(Seen(b), trips, bk.agent, anyway) ELSE Unweighed(trips)
           over == OverAllotment(weights)
           fits == reweighs /\ ~over /\ WaitsForSeats(bk)
           made == Stamped(planned, weights)
           status == IF over THEN "pending_approval" ELSE IF fits THEN TargetOf(bk) ELSE bk.status
           approval == IF over THEN Asking(TargetOf(bk)) ELSE IF fits THEN Replaced(bk.approval) ELSE bk.approval
           row == [bk EXCEPT !.trips = made, !.status = status, !.approval = approval]
<1>1. Exists(b) /\ ~Refused(weights) /\ booking' = [booking EXCEPT ![b] = row] /\ UNCHANGED <<lock, deployed>>
  BY Zenon DEF AmendBooking
<1>2. trips \in TripPlans /\ DrawsKnown([trips |-> trips])
  BY ItineraryFacts DEF DrawsKnown
<1>3. bk \in BookingRows /\ bk.agent \in Agents /\ bk.status \in Statuses /\ bk.approval \in SoundApprovals /\ IsOld(bk.trips)
  BY <1>1, RowFacts
<1>4. planned \in TripPlans /\ SameButMarked(trips, planned)
  BY <1>2, <1>3, PlannedFacts
<1>5. made \in TripPlans /\ SameButMarked(planned, made)
  BY <1>4, StampedFacts
<1>6. SameButMarked(trips, made)
  BY <1>4, <1>5, MarkedTwice
<1>7. over => reweighs
  BY DEF OverAllotment, Unweighed
<1>8. reweighs => HoldsSeats(bk) \/ bk.status = "pending_approval"
  OBVIOUS
<1>9. DrawsKnown(row)
  BY <1>2, <1>3, <1>6 DEF DrawsKnown, SameButMarked, BookingRows
<1>10. CASE reweighs
  <2>1. TargetOf(bk) \in {"quote", "confirmed"}
    BY <1>3, <1>8, <1>10, TargetFacts
  <2>2. Claimable(Seen(b), trips, bk.agent)
    <3>1. weights = Weighed(Seen(b), trips, bk.agent, anyway)
      BY <1>10
    <3> HIDE DEF weights
    <3> QED
      BY <1>1, <1>2, <3>1, WeighedPlan
  <2>3. Claimable(Seen(b), made, bk.agent)
    BY <1>6, <2>2, MarkedClaimable
  <2> HIDE DEF weights, over, planned, made, reweighs
  <2>4. status \in Statuses /\ approval \in SoundApprovals
    BY <1>3, <2>1 DEF Statuses, SoundApprovals, Approvals, Asking, Replaced, NotAsked, NoTarget
  <2> HIDE DEF status, approval
  <2>5. row \in BookingRows /\ row.trips = made /\ row.agent = bk.agent
    BY <1>3, <1>5, <2>4 DEF BookingRows
  <2> HIDE DEF row
  <2>6. Admissible(b, row)
    BY <1>5, <1>9, <2>3, <2>5, ClaimsAreEntitled DEF Admissible
  <2> QED
    BY <1>1, <2>6, MovedTo
<1>11. CASE ~reweighs
  <2>1. ~over /\ ~fits
    BY <1>7, <1>11
  <2>2. HoldsSeats(bk) => Within(bk.trips, made)
    <3>1. HoldsSeats(bk) => Within(bk.trips, trips)
      BY <1>11, NoMoreIsWithin
    <3> QED
      BY <1>6, <3>1, MarkedStaysWithin
  <2> HIDE DEF weights, over, planned, made, reweighs, fits
  <2>3. row \in BookingRows /\ row.trips = made /\ row.agent = bk.agent
        /\ row.status = bk.status /\ row.approval = bk.approval
    BY <1>3, <1>5, <2>1 DEF BookingRows
  <2> HIDE DEF row
  <2>4. HoldsSeats(row) => HoldsSeats(bk)
    BY <2>3 DEF HoldsSeats, WaitsForSeats
  <2>5. Admissible(b, row)
    BY <1>1, <1>5, <1>9, <2>2, <2>3, <2>4, WithinIsEntitled DEF Admissible
  <2> QED
    BY <1>1, <2>5, MovedTo
<1> QED
  BY <1>10, <1>11

LEMMA CancelMoves ==
    ASSUME PoolInv, NEW b \in Bookings, CancelBooking(b) PROVE BookingMoved(b)
<1> DEFINE row == [booking[b] EXCEPT !.status = "cancelled"]
<1>1. Exists(b) /\ booking' = [booking EXCEPT ![b] = row] /\ UNCHANGED <<lock, deployed>>
  BY DEF CancelBooking, IsOpen, Exists
<1>2. booking[b] \in BookingRows /\ booking[b].trips \in TripPlans
  BY <1>1, RowFacts
<1>3. row \in BookingRows /\ row.trips = booking[b].trips /\ row.agent = booking[b].agent /\ ~HoldsSeats(row)
  BY <1>2 DEF BookingRows, Statuses, HoldsSeats, Releasing
<1> HIDE DEF row
<1>4. Within(booking[b].trips, row.trips)
  BY <1>2, <1>3, MarkedIsWithin DEF SameButMarked
<1>5. Admissible(b, row)
  BY <1>1, <1>3, <1>4, WithinIsAdmissible
<1> QED
  BY <1>1, <1>5, MovedTo

LEMMA ConfirmMoves ==
    ASSUME PoolInv, NEW b \in Bookings, Confirm(b) PROVE BookingMoved(b)
<1> DEFINE row == [booking[b] EXCEPT !.status = "confirmed"]
<1>1. Exists(b) /\ booking' = [booking EXCEPT ![b] = row] /\ UNCHANGED <<lock, deployed>>
  BY DEF Confirm, Exists
<1>2. booking[b] \in BookingRows /\ booking[b].trips \in TripPlans
  BY <1>1, RowFacts
<1>3. row \in BookingRows /\ row.trips = booking[b].trips /\ row.agent = booking[b].agent
  BY <1>2 DEF BookingRows, Statuses
<1>4. HoldsSeats(booking[b])
  BY DEF Confirm, HoldsSeats, WaitsForSeats, Releasing
<1> HIDE DEF row
<1>5. Within(booking[b].trips, row.trips)
  BY <1>2, <1>3, MarkedIsWithin DEF SameButMarked
<1>6. Admissible(b, row)
  BY <1>1, <1>3, <1>4, <1>5, WithinIsAdmissible
<1> QED
  BY <1>1, <1>6, MovedTo

LEMMA UnconfirmMoves ==
    ASSUME PoolInv, NEW b \in Bookings, Unconfirm(b, Seen(b)) PROVE BookingMoved(b)
<1> DEFINE bk == booking[b]
           weights == IF WaitsForSeats(bk) THEN Weighed(Seen(b), bk.trips, bk.agent, FALSE) ELSE Unweighed(bk.trips)
           over == OverAllotment(weights)
           status == IF over THEN "pending_approval" ELSE "quote"
           approval == IF over THEN Asking("quote") ELSE Replaced(bk.approval)
           row == [bk EXCEPT !.status = status, !.approval = approval]
<1>1. /\ bk.status \in {"confirmed", "pending_approval"} /\ ~Refused(weights)
      /\ booking' = [booking EXCEPT ![b] = row] /\ UNCHANGED <<lock, deployed>>
  BY Zenon DEF Unconfirm
<1>2. Exists(b)
  BY <1>1 DEF Exists
<1>3. bk \in BookingRows /\ bk.trips \in TripPlans /\ bk.approval \in SoundApprovals
  BY <1>2, RowFacts
<1>4. HoldsSeats(bk) \/ Claimable(Seen(b), bk.trips, bk.agent)
  <2>1. CASE WaitsForSeats(bk)
    <3>1. weights = Weighed(Seen(b), bk.trips, bk.agent, FALSE)
      BY <2>1
    <3> HIDE DEF weights
    <3> QED
      BY <1>1, <1>3, <3>1, WeighedPlan
  <2>2. CASE ~WaitsForSeats(bk)
    BY <1>1, <2>2 DEF HoldsSeats, Releasing
  <2> QED
    BY <2>1, <2>2
<1> HIDE DEF weights, over
<1>5. status \in Statuses /\ approval \in SoundApprovals
  BY <1>3 DEF Statuses, SoundApprovals, Approvals, Asking, Replaced, NotAsked, NoTarget
<1> HIDE DEF status, approval
<1>6. row \in BookingRows /\ row.trips = bk.trips /\ row.agent = bk.agent
  BY <1>3, <1>5 DEF BookingRows
<1> HIDE DEF row
<1>7. Within(bk.trips, row.trips)
  BY <1>3, <1>6, MarkedIsWithin DEF SameButMarked
<1>8. Admissible(b, row)
  BY <1>2, <1>4, <1>6, <1>7, WithinIsAdmissible
<1> QED
  BY <1>1, <1>8, MovedTo

LEMMA ApproveMoves ==
    ASSUME PoolInv, NEW b \in Bookings, Approve(b) PROVE BookingMoved(b)
<1> DEFINE row == [booking[b] EXCEPT !.status = booking[b].approval.target, !.approval = Granted]
<1>1. /\ Exists(b) /\ booking[b].approval.state = "pending"
      /\ booking' = [booking EXCEPT ![b] = row] /\ UNCHANGED <<lock, deployed>>
  BY DEF Approve, WaitsForSeats, Exists
<1>2. booking[b] \in BookingRows /\ booking[b].trips \in TripPlans
      /\ booking[b].approval.target \in {"quote", "confirmed"}
  BY <1>1, RowFacts DEF SoundApprovals
<1>3. row \in BookingRows /\ row.trips = booking[b].trips /\ row.agent = booking[b].agent
      /\ row.approval.state = "approved"
  BY <1>2 DEF BookingRows, Statuses, SoundApprovals, Approvals, Granted, NoTarget
<1> HIDE DEF row
<1>4. Within(booking[b].trips, row.trips)
  BY <1>2, <1>3, MarkedIsWithin DEF SameButMarked
<1>5. Admissible(b, row)
  BY <1>1, <1>3, <1>4, WithinIsAdmissible DEF ByApproval
<1> QED
  BY <1>1, <1>5, MovedTo

LEMMA RejectMoves ==
    ASSUME PoolInv, NEW b \in Bookings, Reject(b) PROVE BookingMoved(b)
<1> DEFINE row == [booking[b] EXCEPT !.status = "rejected", !.approval = NotAsked]
<1>1. Exists(b) /\ booking' = [booking EXCEPT ![b] = row] /\ UNCHANGED <<lock, deployed>>
  BY DEF Reject, WaitsForSeats, Exists
<1>2. booking[b] \in BookingRows /\ booking[b].trips \in TripPlans
  BY <1>1, RowFacts
<1>3. row \in BookingRows /\ row.trips = booking[b].trips /\ row.agent = booking[b].agent /\ ~HoldsSeats(row)
  BY <1>2 DEF BookingRows, Statuses, SoundApprovals, Approvals, NotAsked, NoTarget, HoldsSeats, Releasing
<1> HIDE DEF row
<1>4. Within(booking[b].trips, row.trips)
  BY <1>2, <1>3, MarkedIsWithin DEF SameButMarked
<1>5. Admissible(b, row)
  BY <1>1, <1>3, <1>4, WithinIsAdmissible
<1> QED
  BY <1>1, <1>5, MovedTo

\* A plan with one of its trips written anew.
LEMMA PlanRewritten ==
    ASSUME NEW trips \in TripPlans, NEW d \in DOMAIN trips, NEW trip \in SoldTrips
    PROVE  [trips EXCEPT ![d] = trip] \in TripPlans
<1> DEFINE new == [trips EXCEPT ![d] = trip]
<1>1. DOMAIN trips \subseteq Days /\ DOMAIN trips # {} /\ \A e \in DOMAIN trips : trips[e] \in SoldTrips
  BY PlanFacts
<1>2. DOMAIN new = DOMAIN trips /\ new = [e \in DOMAIN new |-> new[e]]
  OBVIOUS
<1>3. \A e \in DOMAIN new : new[e] \in SoldTrips
  BY <1>1
<1> HIDE DEF new
<1>4. new \in TripPlans
  BY <1>1, <1>2, <1>3, PlanMade
<1> QED
  BY <1>4 DEF new

LEMMA ShrunkMoves ==
    ASSUME PoolInv, NEW b \in Bookings, IsOpen(booking[b]), NEW d \in DOMAIN booking[b].trips,
           NEW pax \in Nat, NEW draws, draws = [l \in LockIds |-> draws[l]],
           \A l \in LockIds : draws[l] \in Nat /\ draws[l] <= booking[b].trips[d].draws[l],
           Shrunk(b, d, pax, draws)
    PROVE  BookingMoved(b)
<1> DEFINE bk == booking[b]
           trip == [bk.trips[d] EXCEPT !.pax = pax, !.draws = draws]
           new == [bk.trips EXCEPT ![d] = trip]
           made == Planned(bk.trips, new)
           row == [bk EXCEPT !.trips = made]
<1>1. booking' = [booking EXCEPT ![b] = row] /\ UNCHANGED <<lock, deployed>> /\ Exists(b)
  BY DEF Shrunk, TripWritten, IsOpen, Exists
<1>2. bk \in BookingRows /\ bk.trips \in TripPlans /\ IsOld(bk.trips)
  BY <1>1, RowFacts
<1>3. bk.trips[d] \in SoldTrips /\ bk.trips[d] \in Trips
  BY <1>2, PlanFacts
<1>4. trip \in SoldTrips /\ trip.mode = bk.trips[d].mode /\ trip.boat = bk.trips[d].boat /\ trip.draws = draws
  <2>1. draws \in Draws
    <3>1. \A l \in LockIds : draws[l] \in 0..MaxLockPax
      BY <1>3, TripFacts, PoolAssumption
    <3> QED
      BY <3>1 DEF Draws
  <2>2. trip \in Trips /\ trip.mode = bk.trips[d].mode /\ trip.boat = bk.trips[d].boat /\ trip.draws = draws
    BY <1>3, <2>1 DEF Trips
  <2>3. trip.mode = "charter" => \A l \in LockIds : trip.draws[l] = 0
    BY <1>3, <2>2 DEF SoldTrips
  <2> QED
    BY <2>2, <2>3 DEF SoldTrips
<1> HIDE DEF trip
<1>5. new \in TripPlans
  BY <1>2, <1>4, PlanRewritten
<1>6. Within(bk.trips, new)
  <2> SUFFICES ASSUME NEW e \in DOMAIN new
               PROVE  /\ e \in DOMAIN bk.trips /\ bk.trips[e].mode = new[e].mode /\ bk.trips[e].boat = new[e].boat
                      /\ \A l \in LockIds : ~(new[e].draws[l] > bk.trips[e].draws[l])
    BY DEF Within
  <2>1. \A l \in LockIds : bk.trips[e].draws[l] \in Nat
    BY <1>2, PlanFacts, TripFacts
  <2>2. CASE e = d
    BY <1>4, <2>1, <2>2
  <2>3. CASE e # d
    BY <2>1, <2>3
  <2> QED
    BY <2>2, <2>3
<1>7. made \in TripPlans /\ SameButMarked(new, made)
  BY <1>2, <1>5, PlannedFacts
<1>8. Within(bk.trips, made)
  BY <1>6, <1>7, MarkedStaysWithin
<1> HIDE DEF made
<1>9. row \in BookingRows /\ row.trips = made /\ row.agent = bk.agent
      /\ row.status = bk.status /\ row.approval = bk.approval
  BY <1>2, <1>7 DEF BookingRows
<1> HIDE DEF row
<1>10. HoldsSeats(row) => HoldsSeats(bk)
  BY <1>9 DEF HoldsSeats, WaitsForSeats
<1>11. Admissible(b, row)
  BY <1>1, <1>8, <1>9, <1>10, WithinIsAdmissible
<1> QED
  BY <1>1, <1>11, MovedTo

\* Seats drawn from older locks are a number of seats.
LEMMA DrawnBeforeFacts ==
    ASSUME NEW trip \in Trips, NEW l \in LockIds
    PROVE  DrawnBefore(trip, l) \in Nat
<1> DEFINE older == {i \in LockIds : i < l}
           f == [j \in older |-> trip.draws[j]]
<1>1. IsFiniteSet(older)
  BY LockAssumption, FS_Subset
<1>2. DOMAIN f = older /\ \A j \in DOMAIN f : f[j] \in Nat
  BY TripFacts
<1> QED
  BY <1>1, <1>2, TotalIsNat DEF DrawnBefore

LEMMA PartialCancelMoves ==
    ASSUME PoolInv, NEW b \in Bookings, NEW n \in 1..MaxLockPax,
           PartialCancelCount(b, n) \/ \E d \in Days : PartialCancelRecord(b, d, n)
    PROVE  BookingMoved(b)
<1>1. IsOpen(booking[b])
  BY DEF PartialCancelCount, PartialCancelRecord
<1>2. booking[b].trips \in TripPlans
  BY <1>1, RowFacts DEF IsOpen, Exists
<1>3. ASSUME NEW d \in DOMAIN booking[b].trips
      PROVE  /\ booking[b].trips[d] \in Trips /\ booking[b].trips[d].pax \in Nat
             /\ \A l \in LockIds : booking[b].trips[d].draws[l] \in Nat /\ DrawnBefore(booking[b].trips[d], l) \in Nat
  BY <1>2, PlanFacts, TripFacts, DrawnBeforeFacts
<1>4. CASE PartialCancelCount(b, n)
  <2>1. PICK d \in DOMAIN booking[b].trips :
           /\ n \in 1..booking[b].trips[d].pax
           /\ Shrunk(b, d, booking[b].trips[d].pax - n, ClampDraws(booking[b].trips[d], booking[b].trips[d].pax - n))
    BY <1>4 DEF PartialCancelCount
  <2> DEFINE trip == booking[b].trips[d]
             pax == trip.pax - n
             draws == ClampDraws(trip, pax)
  <2>2. pax \in Nat
    BY <1>3, <2>1
  <2>3. draws = [l \in LockIds |-> draws[l]]
    BY DEF ClampDraws
  <2>4. ASSUME NEW l \in LockIds PROVE draws[l] \in Nat /\ draws[l] <= trip.draws[l]
    <3>1. draws[l] = Least(trip.draws[l], Clip(pax - DrawnBefore(trip, l)))
      BY DEF ClampDraws
    <3>2. Clip(pax - DrawnBefore(trip, l)) \in Nat
      BY <1>3, <2>2, ClipIsNat
    <3> QED
      BY <1>3, <3>1, <3>2, LeastOfNats
  <2> HIDE DEF draws, pax
  <2>5. Shrunk(b, d, pax, draws)
    BY <2>1 DEF draws, pax
  <2> QED
    BY <1>1, <2>2, <2>3, <2>4, <2>5, ShrunkMoves
<1>5. CASE \E d \in Days : PartialCancelRecord(b, d, n)
  <2>1. PICK d \in DOMAIN booking[b].trips :
           /\ n \in 1..booking[b].trips[d].pax - 1
           /\ Shrunk(b, d, booking[b].trips[d].pax - n, ReturnDrawsFirst(booking[b].trips[d], n))
    BY <1>5 DEF PartialCancelRecord
  <2> DEFINE trip == booking[b].trips[d]
             pax == trip.pax - n
             draws == ReturnDrawsFirst(trip, n)
  <2>2. pax \in Nat
    BY <1>3, <2>1
  <2>3. draws = [l \in LockIds |-> draws[l]]
    BY DEF ReturnDrawsFirst
  <2>4. ASSUME NEW l \in LockIds PROVE draws[l] \in Nat /\ draws[l] <= trip.draws[l]
    <3>1. draws[l] = Clip(trip.draws[l] - Clip(n - DrawnBefore(trip, l)))
      BY DEF ReturnDrawsFirst
    <3>2. Clip(n - DrawnBefore(trip, l)) \in Nat
      BY <1>3, ClipIsNat
    <3> QED
      BY <1>3, <3>1, <3>2 DEF Clip
  <2> HIDE DEF draws, pax
  <2>5. Shrunk(b, d, pax, draws)
    BY <2>1 DEF draws, pax
  <2> QED
    BY <1>1, <2>2, <2>3, <2>4, <2>5, ShrunkMoves
<1> QED
  BY <1>4, <1>5

LEMMA RescheduleMoves ==
    ASSUME PoolInv, NEW b \in Bookings, NEW from \in Days, NEW to \in Days, Reschedule(b, Seen(b), from, to)
    PROVE  BookingMoved(b)
<1> DEFINE bk == booking[b]
           move(d) == IF d = to THEN [bk.trips[from] EXCEPT !.draws = [l \in LockIds |-> 0]] ELSE bk.trips[d]
           trips == [d \in (DOMAIN bk.trips \ {from}) \cup {to} |-> move(d)]
           made == Planned(bk.trips, trips)
           row == [bk EXCEPT !.trips = made]
<1>1. /\ IsOpen(bk) /\ from \in DOMAIN bk.trips /\ to \in Days \ DOMAIN bk.trips
      /\ \A d \in DOMAIN trips : AssertDayFits(Seen(b)[d], trips[d], bk.agent)
      /\ booking' = [booking EXCEPT ![b] = row] /\ UNCHANGED <<lock, deployed>>
  BY DEF Reschedule
<1>2. Exists(b)
  BY <1>1 DEF IsOpen, Exists
<1>3. bk \in BookingRows /\ bk.trips \in TripPlans /\ IsOld(bk.trips) /\ DrawsKnown(bk)
  BY <1>2, RowFacts
<1>4. DOMAIN bk.trips \subseteq Days /\ \A d \in DOMAIN bk.trips : bk.trips[d] \in SoldTrips /\ bk.trips[d] \in Trips
  BY <1>3, PlanFacts
<1>5. [bk.trips[from] EXCEPT !.draws = [l \in LockIds |-> 0]] \in SoldTrips
  <2>1. [l \in LockIds |-> 0] \in Draws
    BY PoolAssumption DEF Draws
  <2>2. bk.trips[from] \in Trips
    BY <1>1, <1>4
  <2> QED
    BY <2>1, <2>2 DEF SoldTrips, Trips
<1>6. \A d \in DOMAIN trips : trips[d] \in SoldTrips
  BY <1>4, <1>5
<1>7. DOMAIN trips \subseteq Days /\ DOMAIN trips # {} /\ trips = [d \in DOMAIN trips |-> trips[d]]
  BY <1>1, <1>4
<1>8. Claimable(Seen(b), trips, bk.agent)
  <2>1. ASSUME NEW d \in DOMAIN trips PROVE WeighDay(Seen(b)[d], trips[d], bk.agent, FALSE) # "refused"
    BY <1>1 DEF AssertDayFits
  <2> HIDE DEF trips
  <2> QED
    BY <1>6, <2>1, WeighedDay DEF Claimable
<1> HIDE DEF trips
<1>9. trips \in TripPlans
  BY <1>6, <1>7, PlanMade
<1>10. made \in TripPlans /\ SameButMarked(trips, made)
  BY <1>3, <1>9, PlannedFacts
<1>11. Claimable(Seen(b), made, bk.agent)
  BY <1>8, <1>10, MarkedClaimable
<1> HIDE DEF made
<1>12. row \in BookingRows /\ row.trips = made /\ row.agent = bk.agent
  BY <1>3, <1>10 DEF BookingRows
<1> HIDE DEF row
<1>13. Admissible(b, row)
  BY <1>10, <1>11, <1>12, ClaimsAreEntitled DEF Admissible
<1> QED
  BY <1>1, <1>13, MovedTo

\* A booking restored keeps to its boats not taken meanwhile, and draws nowhere more than it did.
LEMMA RestoredFacts ==
    ASSUME PoolInv, NEW b \in Bookings, Exists(b)
    PROVE  /\ RestoredTrips(b, Seen(b)) \in TripPlans
           /\ LET trips == booking[b].trips
                  new == RestoredTrips(b, Seen(b))
              IN  /\ DOMAIN new = DOMAIN trips
                  /\ \A d \in DOMAIN trips :
                        /\ \A l \in LockIds : new[d].draws[l] <= trips[d].draws[l]
                        /\ new[d].mode = "charter" /\ new[d].boat # NoBoat =>
                              new[d].boat \in Day(d, {b}).open \/ new[d].boat \notin DOMAIN deployed[d]
<1> DEFINE seen == Seen(b)
           trips == booking[b].trips
           drawing == {d \in DOMAIN trips : ~BoatTaken(seen[d], trips[d])}
           ahead(d, l) == {e \in drawing : e < d /\ trips[e].draws[l] > 0}
           first(d, l) == Min(ahead(d, l) \cup {d})
           left(d, l) == IF l \in DOMAIN seen[first(d, l)].remaining THEN seen[first(d, l)].remaining[l] ELSE 0
           spent(d, l) == Total([e \in ahead(d, l) |-> trips[e].draws[l]])
           back(d, l) == Least(trips[d].draws[l], Clip(left(d, l) - spent(d, l)))
           new == [d \in DOMAIN trips |->
              IF d \notin drawing THEN [trips[d] EXCEPT !.boat = NoBoat]
              ELSE [trips[d] EXCEPT !.draws = [l \in LockIds |-> back(d, l)]]]
<1>1. RestoredTrips(b, seen) = new
  BY Zenon DEF RestoredTrips
<1>2. trips \in TripPlans
  BY RowFacts
<1>3. DOMAIN trips \subseteq Days /\ DOMAIN trips # {} /\ IsFiniteSet(DOMAIN trips)
      /\ \A d \in DOMAIN trips : trips[d] \in SoldTrips /\ trips[d] \in Trips
  BY <1>2, PlanFacts
<1>4. ASSUME NEW d \in Days PROVE seen[d] = Day(d, {b}) /\ SoundDay(seen[d], d, {b})
  BY DayNumbers DEF Seen
<1>5. ASSUME NEW d \in DOMAIN trips, NEW l \in LockIds PROVE back(d, l) \in Nat /\ back(d, l) <= trips[d].draws[l]
  <2>1. ahead(d, l) \cup {d} \in SUBSET Nat /\ ahead(d, l) \cup {d} \subseteq Days /\ ahead(d, l) \subseteq DOMAIN trips
    BY <1>3, PoolAssumption
  <2>2. IsFiniteSet(ahead(d, l))
    BY <1>3, <2>1, FS_Subset
  <2> HIDE DEF ahead
  <2>3. first(d, l) \in Days
    BY <2>1, MinIsIn
  <2>4. left(d, l) \in Nat
    BY <1>4, <2>3 DEF SoundDay
  <2>5. spent(d, l) \in Nat
    <3>1. \A e \in ahead(d, l) : trips[e].draws[l] \in Nat
      BY <1>3, <2>1, TripFacts
    <3> QED
      BY <2>2, <3>1, TotalIsNat
  <2>6. trips[d].draws[l] \in Nat
    BY <1>3, TripFacts
  <2> HIDE DEF left, spent
  <2>7. Clip(left(d, l) - spent(d, l)) \in Nat
    BY <2>4, <2>5, ClipIsNat
  <2> QED
    BY <2>6, <2>7, LeastOfNats
<1> HIDE DEF back
<1>6. ASSUME NEW d \in DOMAIN trips
      PROVE  /\ new[d] \in SoldTrips /\ \A l \in LockIds : new[d].draws[l] <= trips[d].draws[l]
             /\ new[d].mode = "charter" /\ new[d].boat # NoBoat =>
                   new[d].boat \in Day(d, {b}).open \/ new[d].boat \notin DOMAIN deployed[d]
  <2>1. trips[d] \in SoldTrips /\ trips[d] \in Trips /\ \A l \in LockIds : trips[d].draws[l] \in 0..MaxLockPax
    BY <1>3, TripFacts
  <2>2. CASE d \notin drawing
    <3>1. new[d] = [trips[d] EXCEPT !.boat = NoBoat]
      BY <2>2
    <3> HIDE DEF new, drawing
    <3>2. new[d] \in SoldTrips /\ new[d].draws = trips[d].draws /\ new[d].boat = NoBoat
      BY <2>1, <3>1 DEF SoldTrips, Trips
    <3> QED
      BY <2>1, <3>2, PoolAssumption
  <2>3. CASE d \in drawing
    <3> DEFINE draws == [l \in LockIds |-> back(d, l)]
    <3>1. new[d] = [trips[d] EXCEPT !.draws = draws]
      BY <2>3
    <3>2. \A l \in LockIds : draws[l] = back(d, l) /\ draws[l] <= trips[d].draws[l] /\ draws[l] \in 0..MaxLockPax
      BY <1>5, <2>1, PoolAssumption
    <3>3. draws \in Draws
      BY <3>2 DEF Draws
    <3>4. ~BoatTaken(seen[d], trips[d]) /\ d \in Days
      BY <1>3, <2>3
    <3> HIDE DEF new, drawing, draws
    <3>5. new[d] \in Trips /\ new[d].draws = draws /\ new[d].boat = trips[d].boat /\ new[d].mode = trips[d].mode
      BY <2>1, <3>1, <3>3 DEF Trips
    <3>6. ASSUME new[d].mode = "charter", NEW l \in LockIds PROVE new[d].draws[l] = 0
      <4>1. trips[d].draws[l] = 0
        BY <2>1, <3>5, <3>6 DEF SoldTrips
      <4>2. draws[l] <= trips[d].draws[l] /\ draws[l] \in 0..MaxLockPax
        BY <3>2
      <4> QED
        BY <3>5, <4>1, <4>2
    <3>7. new[d].mode = "charter" /\ new[d].boat # NoBoat =>
             new[d].boat \in Day(d, {b}).open \/ new[d].boat \notin DOMAIN deployed[d]
      BY <1>4, <3>4, <3>5 DEF BoatTaken, SoundDay
    <3> QED
      BY <3>2, <3>5, <3>6, <3>7 DEF SoldTrips
  <2> QED
    BY <2>2, <2>3
<1>7. DOMAIN new = DOMAIN trips /\ new = [d \in DOMAIN new |-> new[d]]
  OBVIOUS
<1> HIDE DEF new
<1>8. new \in TripPlans
  BY <1>3, <1>6, <1>7, PlanMade
<1> QED
  BY <1>1, <1>6, <1>7, <1>8

LEMMA RestoreMoves ==
    ASSUME PoolInv, NEW b \in Bookings, RestoreBooking(b, Seen(b)) PROVE BookingMoved(b)
<1> DEFINE bk == booking[b]
           new == RestoredTrips(b, Seen(b))
           made == Planned(bk.trips, new)
           row == [bk EXCEPT !.status = "confirmed", !.trips = made]
<1>1. bk.status \in Releasing /\ booking' = [booking EXCEPT ![b] = row] /\ UNCHANGED <<lock, deployed>>
  BY DEF RestoreBooking
<1>2. Exists(b)
  BY <1>1 DEF Exists, Releasing
<1>3. bk \in BookingRows /\ bk.trips \in TripPlans /\ IsOld(bk.trips) /\ DrawsKnown(bk)
  BY <1>2, RowFacts
<1>4. /\ new \in TripPlans /\ DOMAIN new = DOMAIN bk.trips
      /\ \A d \in DOMAIN bk.trips :
            /\ \A l \in LockIds : new[d].draws[l] <= bk.trips[d].draws[l]
            /\ new[d].mode = "charter" /\ new[d].boat # NoBoat =>
                  new[d].boat \in Day(d, {b}).open \/ new[d].boat \notin DOMAIN deployed[d]
  BY <1>2, RestoredFacts
<1> HIDE DEF new
<1>5. made \in TripPlans /\ SameButMarked(new, made)
  BY <1>3, <1>4, PlannedFacts
<1> HIDE DEF made
<1>6. row \in BookingRows /\ row.trips = made /\ row.agent = bk.agent /\ row.status = "confirmed"
  BY <1>3, <1>5 DEF BookingRows, Statuses
<1> HIDE DEF row
<1>7. ChartersEntitled(b, row)
  BY <1>4, <1>5, <1>6 DEF ChartersEntitled, SameButMarked
<1>8. DrawsKnown(row)
  <2> SUFFICES ASSUME NEW d \in DOMAIN row.trips, NEW l \in LockIds, row.trips[d].draws[l] > 0
               PROVE  l \in DOMAIN lock
    BY DEF DrawsKnown
  <2>1. d \in DOMAIN bk.trips /\ row.trips[d].draws[l] <= bk.trips[d].draws[l]
    BY <1>4, <1>5, <1>6 DEF SameButMarked
  <2>2. row.trips[d].draws[l] \in Nat /\ bk.trips[d].draws[l] \in Nat
    BY <1>3, <1>5, <1>6, <2>1, PlanFacts, TripFacts
  <2> QED
    BY <1>3, <2>1, <2>2 DEF DrawsKnown
<1>9. ByRestore(b, row)
  BY <1>1, <1>6 DEF ByRestore
<1>10. Admissible(b, row)
  BY <1>6, <1>7, <1>8, <1>9 DEF Admissible
<1> QED
  BY <1>1, <1>10, MovedTo

LEMMA BookingMoves ==
    ASSUME PoolInv, NEW b \in Bookings, BookingStep(b) PROVE BookingMoved(b)
<1>1. CASE \E intent \in Intents, agent \in Agents, trips \in Itineraries, anyway \in BOOLEAN :
              CreateBooking(b, Seen(b), intent, agent, trips, anyway)
  BY <1>1, CreateMoves
<1>2. CASE \E trips \in Itineraries, anyway \in BOOLEAN : AmendBooking(b, Seen(b), trips, anyway)
  BY <1>2, AmendMoves
<1>3. CASE Unconfirm(b, Seen(b)) \/ RestoreBooking(b, Seen(b))
  BY <1>3, UnconfirmMoves, RestoreMoves
<1>4. CASE \E from, to \in Days : Reschedule(b, Seen(b), from, to)
  BY <1>4, RescheduleMoves
<1>5. CASE CancelBooking(b) \/ Confirm(b) \/ Approve(b) \/ Reject(b)
  BY <1>5, CancelMoves, ConfirmMoves, ApproveMoves, RejectMoves
<1>6. CASE \/ \E n \in 1..MaxLockPax : PartialCancelCount(b, n)
           \/ \E d \in Days, n \in 1..MaxLockPax : PartialCancelRecord(b, d, n)
  BY <1>6, PartialCancelMoves
<1> QED
  BY <1>1, <1>2, <1>3, <1>4, <1>5, <1>6 DEF BookingStep

-----------------------------------------------------------------------------
(* What a lock command writes                                              *)

\* No row goes, rows stay in their families, and a row drawn on keeps its day and its holder.
LockMoved ==
    /\ IsLocks(lock') /\ Family(lock') /\ UNCHANGED <<booking, deployed>>
    /\ \A l \in DOMAIN lock :
          /\ l \in DOMAIN lock' /\ lock'[l].parent = lock[l].parent
          /\ Drawn(l) # 0 => lock'[l].day = lock[l].day /\ lock'[l].holder = lock[l].holder

\* Every row keeps its day and its holder, drawn on or not.
KeepsHomes == \A l \in DOMAIN lock : lock'[l].day = lock[l].day /\ lock'[l].holder = lock[l].holder

\* A row that may stand in the table: its own if it is there already, a family's if it has a parent.
Rightful(l, row) ==
    /\ row \in LockRows /\ row.released <= row.pax
    /\ IF l \in DOMAIN lock
       THEN row.day = lock[l].day /\ row.holder = lock[l].holder /\ row.parent = lock[l].parent
       ELSE row.parent # NoLock =>
              /\ row.parent \in DOMAIN lock /\ lock[row.parent].parent = NoLock
              /\ lock[row.parent].day = row.day /\ lock[row.parent].holder = row.holder

LEMMA RowWritten ==
    ASSUME PoolInv, NEW l \in LockIds, NEW row, Rightful(l, row), WriteLock(l, row)
    PROVE  LockMoved /\ KeepsHomes
<1>1. /\ lock' = [j \in DOMAIN lock \cup {l} |-> IF j = l THEN row ELSE lock[j]]
      /\ UNCHANGED <<booking, deployed>>
  BY DEF WriteLock
<1>2. DOMAIN lock' = DOMAIN lock \cup {l} /\ lock'[l] = row /\ \A j \in DOMAIN lock : j # l => lock'[j] = lock[j]
  BY <1>1
<1>3. IsLocks(lock) /\ Family(lock)
  BY DEF PoolInv
<1>4. IsLocks(lock')
  BY <1>2, <1>3 DEF IsLocks, Rightful
<1>5. \A j \in DOMAIN lock : lock'[j].day = lock[j].day /\ lock'[j].holder = lock[j].holder /\ lock'[j].parent = lock[j].parent
  BY <1>2 DEF Rightful
<1>6. ASSUME NEW j \in DOMAIN lock', lock'[j].parent # NoLock
      PROVE  LET top == lock'[j].parent
             IN  /\ top \in DOMAIN lock' /\ lock'[top].parent = NoLock
                 /\ lock'[top].day = lock'[j].day /\ lock'[top].holder = lock'[j].holder
  <2>1. CASE j \in DOMAIN lock
    <3>1. lock[j].parent # NoLock /\ lock'[j].parent = lock[j].parent
      BY <1>5, <1>6, <2>1
    <3>2. lock[j].parent \in DOMAIN lock
      BY <1>3, <2>1, <3>1 DEF Family
    <3> QED
      BY <1>2, <1>3, <1>5, <2>1, <3>1, <3>2 DEF Family
  <2>2. CASE j \notin DOMAIN lock
    <3>1. j = l /\ l \notin DOMAIN lock /\ lock'[j] = row
      BY <1>2, <2>2
    <3>2. row.parent \in DOMAIN lock /\ lock[row.parent].parent = NoLock
          /\ lock[row.parent].day = row.day /\ lock[row.parent].holder = row.holder
      BY <1>6, <3>1 DEF Rightful
    <3> QED
      BY <1>2, <1>5, <3>1, <3>2
  <2> QED
    BY <2>1, <2>2
<1>7. Family(lock')
  BY <1>6 DEF Family
<1> QED
  BY <1>1, <1>2, <1>4, <1>5, <1>7 DEF LockMoved, KeepsHomes

\* A lock's row, and the numbers of its tree.
LEMMA LockFacts ==
    ASSUME PoolInv, NEW l \in DOMAIN lock
    PROVE  /\ l \in LockIds /\ lock[l] \in LockRows /\ lock[l].released <= lock[l].pax
           /\ lock[l].pax \in Nat /\ lock[l].pending \in Nat /\ lock[l].released \in Nat
           /\ lock[l].day \in Days /\ Drawn(l) \in Nat
           /\ Tree(l).used \in Nat /\ Tree(l).pend \in Nat /\ Tree(l).held \in Nat
           /\ Tree(l).allocated \in Nat /\ Tree(l).unallocated \in Nat /\ Tree(l).room \in Nat
           /\ Tree(l).unallocated <= lock[l].pax - lock[l].released
           /\ Tree(l).used = 0 => \A k \in Kids(l) \cup {l} : Drawn(k) = 0
<1>1. IsBookings(booking) /\ IsLocks(lock)
  BY DEF PoolInv
<1>2. l \in LockIds /\ lock[l] \in LockRows /\ lock[l].released <= lock[l].pax
  BY <1>1 DEF IsLocks
<1>3. lock[l].pax \in Nat /\ lock[l].pending \in Nat /\ lock[l].released \in Nat /\ lock[l].day \in Days
  BY <1>2 DEF LockRows
<1>4. Drawn(l) \in Nat
  BY <1>1, <1>2, DrawnByLockFacts DEF Drawn
<1> DEFINE drawn == DrawnByLock(booking, {})
<1>5. drawn \in [LockIds -> Nat]
  BY <1>1, DrawnIsFunction
<1> HIDE DEF drawn
<1>6. LET tree == TreeOf(lock, drawn, l)
      IN  /\ tree.used \in Nat /\ tree.pend \in Nat /\ tree.held \in Nat
          /\ tree.allocated \in Nat /\ tree.unallocated \in Nat /\ tree.room \in Nat
          /\ tree.unallocated <= lock[l].pax - lock[l].released
          /\ tree.used = 0 => \A k \in KidsIn(lock, l) \cup {l} : drawn[k] = 0
  BY <1>1, <1>5, TreeNumbers
<1>7. Tree(l) = TreeOf(lock, drawn, l) /\ Kids(l) = KidsIn(lock, l) /\ \A k : Drawn(k) = drawn[k]
  BY DEF Tree, Kids, Drawn, drawn
<1> QED
  BY <1>2, <1>3, <1>4, <1>6, <1>7

LEMMA FreeFacts ==
    ASSUME PoolInv, NEW d \in Days, NEW own \in Nat
    PROVE  FreeForLock(Day(d, {}), own) \in Nat
<1>1. Day(d, {}).available \in Int
  BY DayNumbers DEF SoundDay
<1> QED
  BY <1>1, ClipIsNat DEF FreeForLock

LEMMA ShortFacts ==
    ASSUME PoolInv, NEW d \in Days, NEW own \in Nat, NEW want \in Int
    PROVE  ShortBy(Day(d, {}), own, want) \in Nat
<1>1. FreeForLock(Day(d, {}), own) \in Nat
  BY FreeFacts
<1>2. Clip(want) \in Nat
  BY ClipIsNat
<1>3. Clip(Clip(want) - FreeForLock(Day(d, {}), own)) \in Nat
  BY <1>1, <1>2, ClipIsNat
<1> QED
  BY <1>3 DEF ShortBy

\* Holders are agents or the office.
LEMMA HolderFacts == \A h \in Holders : h \in Agents \cup {Office}
  BY PoolAssumption

\* A row already there, written anew as itself but for its seats and its standing.
LEMMA OwnRowWritten ==
    ASSUME PoolInv, NEW l \in DOMAIN lock, NEW row \in LockRows, row.released <= row.pax,
           row.day = lock[l].day, row.holder = lock[l].holder, row.parent = lock[l].parent, WriteLock(l, row)
    PROVE  LockMoved /\ KeepsHomes
<1>1. l \in LockIds
  BY LockFacts
<1>2. Rightful(l, row)
  BY DEF Rightful
<1> QED
  BY <1>1, <1>2, RowWritten

LEMMA CreateLockMoves ==
    ASSUME PoolInv, NEW l \in LockIds, NEW d \in Days, NEW pax \in 1..MaxLockPax, NEW h \in Holders,
           NEW lapsed \in BOOLEAN, NEW choice, CreateLock(l, d, pax, h, lapsed, choice)
    PROVE  LockMoved /\ KeepsHomes
<1> DEFINE short == ShortBy(Day(d, {}), 0, pax)
           pending == IF short = 0 THEN 0 ELSE IF choice = "all" THEN pax ELSE short
           row == [day |-> d, pax |-> pax, released |-> 0, holder |-> h, status |-> "active",
                   pending |-> pending, lapsed |-> lapsed, parent |-> NoLock]
<1>1. l \in LockIds \ DOMAIN lock /\ WriteLock(l, row)
  BY DEF CreateLock, NextLockId
<1>2. short \in Nat /\ pax \in Nat
  BY ShortFacts
<1> HIDE DEF short
<1>3. pending \in Nat
  BY <1>2
<1> HIDE DEF pending
<1>4. row \in LockRows /\ row.released <= row.pax /\ row.parent = NoLock
  BY <1>2, <1>3, HolderFacts DEF LockRows
<1> HIDE DEF row
<1>5. Rightful(l, row)
  BY <1>1, <1>4 DEF Rightful
<1> QED
  BY <1>1, <1>5, RowWritten

LEMMA AmendSubGroupMoves ==
    ASSUME PoolInv, NEW l \in LockIds, NEW pax \in 1..MaxLockPax, AmendSubGroup(l, pax)
    PROVE  LockMoved /\ KeepsHomes
<1> DEFINE row == [lock[l] EXCEPT !.pax = pax]
<1>1. l \in DOMAIN lock /\ WriteLock(l, row) /\ pax >= lock[l].released + Drawn(l)
  BY DEF AmendSubGroup
<1>2. lock[l] \in LockRows /\ lock[l].released \in Nat /\ Drawn(l) \in Nat
  BY <1>1, LockFacts
<1>3. row \in LockRows /\ row.released <= row.pax
      /\ row.day = lock[l].day /\ row.holder = lock[l].holder /\ row.parent = lock[l].parent
  BY <1>1, <1>2 DEF LockRows
<1> HIDE DEF row
<1> QED
  BY <1>1, <1>3, OwnRowWritten

LEMMA AddSeatsMoves ==
    ASSUME PoolInv, NEW l \in LockIds, NEW n \in 1..MaxLockPax, l \in DOMAIN lock, AddSeats(l, n) \/ AddToSubGroup(l, n)
    PROVE  LockMoved /\ KeepsHomes
<1>1. /\ lock[l] \in LockRows /\ lock[l].pax \in Nat /\ lock[l].pending \in Nat /\ lock[l].released \in Nat
      /\ lock[l].released <= lock[l].pax /\ lock[l].day \in Days
      /\ Tree(l).held \in Nat /\ Tree(l).used \in Nat
  BY LockFacts
<1>2. CASE AddSeats(l, n)
  <2> DEFINE more == lock[l].pax + n
             ownHeld == IF IsHolding(lock, l) THEN Tree(l).held ELSE 0
             short == ShortBy(Day(lock[l].day, {}), ownHeld, more - lock[l].released - Tree(l).used)
             pending == IF short > (IF IsHolding(lock, l) THEN Tree(l).pend ELSE 0) THEN short ELSE lock[l].pending
             row == [lock[l] EXCEPT !.pax = more, !.status = "active", !.pending = pending]
  <2>1. WriteLock(l, row)
    BY <1>2 DEF AddSeats
  <2>2. ownHeld \in Nat /\ more \in Nat /\ more - lock[l].released - Tree(l).used \in Int /\ lock[l].released <= more
    BY <1>1
  <2> HIDE DEF ownHeld, more
  <2>3. short \in Nat
    BY <1>1, <2>2, ShortFacts
  <2> HIDE DEF short
  <2>4. pending \in Nat
    BY <1>1, <2>3
  <2> HIDE DEF pending
  <2>5. row \in LockRows /\ row.released <= row.pax
        /\ row.day = lock[l].day /\ row.holder = lock[l].holder /\ row.parent = lock[l].parent
    BY <1>1, <2>2, <2>4 DEF LockRows
  <2> HIDE DEF row
  <2> QED
    BY <2>1, <2>5, OwnRowWritten
<1>3. CASE AddToSubGroup(l, n)
  <2> DEFINE more == lock[l].pax + n
             row == [lock[l] EXCEPT !.pax = more, !.status = "active"]
  <2>1. WriteLock(l, row)
    BY <1>3 DEF AddToSubGroup
  <2>0. more \in Nat /\ lock[l].released <= more
    BY <1>1
  <2> HIDE DEF more
  <2>2. row \in LockRows /\ row.released <= row.pax
        /\ row.day = lock[l].day /\ row.holder = lock[l].holder /\ row.parent = lock[l].parent
    BY <1>1, <2>0 DEF LockRows
  <2> HIDE DEF row
  <2> QED
    BY <2>1, <2>2, OwnRowWritten
<1> QED
  BY <1>2, <1>3

LEMMA ReleaseSeatsMoves ==
    ASSUME PoolInv, NEW l \in LockIds, NEW n \in 1..MaxLockPax, ReleaseSeats(l, n)
    PROVE  LockMoved /\ KeepsHomes
<1> DEFINE own == Drawn(l)
           mine == IF IsTop(l) THEN Tree(l).unallocated ELSE lock[l].pax - lock[l].released
           pending == Clip(lock[l].pending - n)
           done == lock[l].pax - lock[l].released - n <= own /\ (IsTop(l) => pending = 0 /\ Kids(l) = {})
           status == IF done THEN "released" ELSE lock[l].status
           row == [lock[l] EXCEPT !.released = lock[l].released + n, !.pending = pending, !.status = status]
<1>1. l \in DOMAIN lock /\ n \in 1..Clip(mine - own) /\ WriteLock(l, row)
  BY DEF ReleaseSeats
<1>2. /\ lock[l] \in LockRows /\ lock[l].pax \in Nat /\ lock[l].pending \in Nat /\ lock[l].released \in Nat
      /\ lock[l].released <= lock[l].pax /\ Tree(l).unallocated <= lock[l].pax - lock[l].released
      /\ Tree(l).unallocated \in Nat /\ own \in Nat
  BY <1>1, LockFacts
<1> HIDE DEF own
<1>3. mine \in Int /\ mine <= lock[l].pax - lock[l].released
  BY <1>2
<1> HIDE DEF mine
<1>4. lock[l].released + n <= lock[l].pax
  BY <1>1, <1>2, <1>3 DEF Clip
<1>5. pending \in Nat
  BY <1>2, ClipIsNat
<1> HIDE DEF pending, done
<1> DEFINE given == lock[l].released + n
<1>7. given \in Nat /\ given <= lock[l].pax /\ status \in {"active", "released"}
  BY <1>2, <1>4 DEF LockRows
<1>8. row = [lock[l] EXCEPT !.released = given, !.pending = pending, !.status = status]
  OBVIOUS
<1> HIDE DEF given, status, row
<1>6. row \in LockRows /\ row.released <= row.pax
      /\ row.day = lock[l].day /\ row.holder = lock[l].holder /\ row.parent = lock[l].parent
  BY <1>2, <1>5, <1>7, <1>8 DEF LockRows
<1> QED
  BY <1>1, <1>6, OwnRowWritten

LEMMA MaxOfTwo == ASSUME NEW m \in Int, NEW n \in Int PROVE Max({m, n}) \in {m, n} /\ Max({m, n}) >= m
<1>1. \E x \in {m, n} : \A y \in {m, n} : x >= y
  <2>1. CASE m >= n
    BY <2>1
  <2>2. CASE n >= m
    BY <2>2
  <2> QED
    BY <2>1, <2>2
<1> QED
  BY <1>1 DEF Max

LEMMA ReleasedWholeFacts ==
    ASSUME PoolInv, NEW l \in DOMAIN lock
    PROVE  LET row == ReleasedWhole(l)
           IN  /\ row \in LockRows /\ row.released <= row.pax
               /\ row.day = lock[l].day /\ row.holder = lock[l].holder /\ row.parent = lock[l].parent
<1>1. /\ lock[l] \in LockRows /\ lock[l].pax \in Nat /\ lock[l].released \in Nat /\ Tree(l).used \in Nat
  BY LockFacts
<1> DEFINE back == Max({lock[l].released, lock[l].pax - Tree(l).used})
<1>2. back \in Nat
  <2> DEFINE m == lock[l].released
             n == lock[l].pax - Tree(l).used
  <2>1. m \in Nat /\ m \in Int /\ n \in Int /\ back = Max({m, n})
    BY <1>1
  <2> HIDE DEF m, n, back
  <2>2. back \in {m, n} /\ back >= m
    BY <2>1, MaxOfTwo
  <2> QED
    BY <2>1, <2>2
<1> HIDE DEF back
<1> DEFINE given == Least(lock[l].pax, back)
<1>3. given \in Nat /\ given <= lock[l].pax
  BY <1>1, <1>2, LeastOfNats
<1> DEFINE row == [lock[l] EXCEPT !.status = "released", !.pending = 0, !.released = given]
<1>4. ReleasedWhole(l) = row
  BY DEF ReleasedWhole, back
<1> HIDE DEF given
<1>5. row \in LockRows /\ row.released <= row.pax
      /\ row.day = lock[l].day /\ row.holder = lock[l].holder /\ row.parent = lock[l].parent
  BY <1>1, <1>3 DEF LockRows
<1> HIDE DEF row
<1> QED
  BY <1>4, <1>5

LEMMA ReleaseDepartureMoves ==
    ASSUME PoolInv, NEW l \in LockIds, ReleaseDeparture(l)
    PROVE  LockMoved /\ KeepsHomes
<1>1. l \in DOMAIN lock /\ WriteLock(l, ReleasedWhole(l))
  BY DEF ReleaseDeparture, IsTop
<1> QED
  BY <1>1, ReleasedWholeFacts, OwnRowWritten

LEMMA ConfirmPendingMoves ==
    ASSUME PoolInv, NEW l \in LockIds, NEW n \in 1..MaxLockPax, ConfirmPending(l, n)
    PROVE  LockMoved /\ KeepsHomes
<1> DEFINE day == Day(lock[l].day, {})
           can == IF SellsUngated(day) THEN Tree(l).pend ELSE Least(Tree(l).pend, FreeForLock(day, 0))
           row == [lock[l] EXCEPT !.pending = Tree(l).pend - n]
<1>1. l \in DOMAIN lock /\ n \in 1..can /\ WriteLock(l, row)
  BY DEF ConfirmPending, IsTop
<1>2. lock[l] \in LockRows /\ lock[l].released <= lock[l].pax /\ Tree(l).pend \in Nat /\ lock[l].day \in Days
  BY <1>1, LockFacts
<1>3. FreeForLock(day, 0) \in Nat
  BY <1>2, FreeFacts
<1> HIDE DEF day
<1>4. can \in Nat /\ can <= Tree(l).pend
  <2>1. Least(Tree(l).pend, FreeForLock(day, 0)) \in Nat /\ Least(Tree(l).pend, FreeForLock(day, 0)) <= Tree(l).pend
    BY <1>2, <1>3, LeastOfNats
  <2> QED
    BY <1>2, <2>1
<1> HIDE DEF can
<1>5. row \in LockRows /\ row.released <= row.pax
      /\ row.day = lock[l].day /\ row.holder = lock[l].holder /\ row.parent = lock[l].parent
  BY <1>1, <1>2, <1>4 DEF LockRows
<1> HIDE DEF row
<1> QED
  BY <1>1, <1>5, OwnRowWritten

LEMMA CreateSubGroupMoves ==
    ASSUME PoolInv, NEW l \in LockIds, NEW top \in DOMAIN lock, NEW pax \in 1..MaxLockPax, CreateSubGroup(l, top, pax)
    PROVE  LockMoved /\ KeepsHomes
<1> DEFINE row == [day |-> lock[top].day, pax |-> pax, released |-> 0, holder |-> lock[top].holder,
                   status |-> "active", pending |-> 0, lapsed |-> FALSE, parent |-> top]
<1>1. l \in LockIds \ DOMAIN lock /\ lock[top].parent = NoLock /\ WriteLock(l, row)
  BY DEF CreateSubGroup, NextLockId, IsTop
<1>2. lock[top] \in LockRows /\ top \in LockIds
  BY LockFacts
<1>3. row \in LockRows /\ row.released <= row.pax /\ row.parent = top
      /\ row.day = lock[top].day /\ row.holder = lock[top].holder
  BY <1>2 DEF LockRows
<1> HIDE DEF row
<1>4. Rightful(l, row)
  BY <1>1, <1>3 DEF Rightful
<1> QED
  BY <1>1, <1>4, RowWritten

LEMMA LapseMoves ==
    ASSUME PoolInv, NEW l \in LockIds, Lapse(l)
    PROVE  LockMoved /\ KeepsHomes
<1> DEFINE row == [lock[l] EXCEPT !.lapsed = TRUE]
<1>1. l \in DOMAIN lock /\ WriteLock(l, row)
  BY DEF Lapse, IsTop
<1>2. lock[l] \in LockRows /\ lock[l].released <= lock[l].pax
  BY <1>1, LockFacts
<1>3. row \in LockRows /\ row.released <= row.pax
      /\ row.day = lock[l].day /\ row.holder = lock[l].holder /\ row.parent = lock[l].parent
  BY <1>2 DEF LockRows
<1> HIDE DEF row
<1> QED
  BY <1>1, <1>3, OwnRowWritten

LEMMA AmendLockMoves ==
    ASSUME PoolInv, NEW l \in LockIds, NEW pax \in 1..MaxLockPax, NEW d \in Days, NEW h \in Holders,
           NEW lapsed \in BOOLEAN, AmendLock(l, pax, d, h, lapsed)
    PROVE  LockMoved /\ (d = lock[l].day /\ h = lock[l].holder => KeepsHomes)
<1> DEFINE row == lock[l]
           tree == Tree(l)
           moving == d # row.day
           kept == IF moving THEN 0
                   ELSE IF pax < row.pax THEN Clip(row.pending - (row.pax - pax)) ELSE row.pending
           used == IF moving THEN 0 ELSE tree.used
           ownHeld == IF moving \/ ~IsHolding(lock, l) THEN 0 ELSE tree.held
           short == IF pax > row.pax \/ moving THEN ShortBy(Day(d, {}), ownHeld, pax - row.released - used) ELSE 0
           pending == IF short > (IF moving THEN 0 ELSE tree.pend) THEN short ELSE kept
           new == [row EXCEPT !.pax = pax, !.day = d, !.holder = h, !.lapsed = lapsed, !.pending = pending]
<1>1. /\ l \in DOMAIN lock /\ row.parent = NoLock
      /\ moving \/ h # row.holder => tree.used = 0
      /\ pax >= row.released + Drawn(l) + tree.allocated
      /\ lock' = [j \in DOMAIN lock |->
            IF j = l THEN new
            ELSE IF j \in Kids(l) THEN [lock[j] EXCEPT !.day = d, !.holder = h] ELSE lock[j]]
      /\ UNCHANGED <<booking, deployed>>
  BY Zenon DEF AmendLock, IsTop
<1>2. /\ row \in LockRows /\ row.pax \in Nat /\ row.pending \in Nat /\ row.released \in Nat
      /\ Drawn(l) \in Nat /\ tree.used \in Nat /\ tree.held \in Nat /\ tree.allocated \in Nat
      /\ tree.used = 0 => \A k \in Kids(l) \cup {l} : Drawn(k) = 0
  BY <1>1, LockFacts
<1>3. kept \in Nat /\ used \in Nat /\ ownHeld \in Nat
  BY <1>2, ClipIsNat
<1> HIDE DEF kept, used, ownHeld
<1>4. pax \in Nat /\ pax - row.released - used \in Int
  BY <1>2, <1>3
<1>5. short \in Nat
  <2>1. ShortBy(Day(d, {}), ownHeld, pax - row.released - used) \in Nat
    BY <1>3, <1>4, ShortFacts
  <2> QED
    BY <2>1
<1> HIDE DEF short
<1>6. pending \in Nat
  BY <1>3, <1>5
<1> HIDE DEF pending
<1>7. /\ new \in LockRows /\ new.released <= new.pax /\ new.day = d /\ new.holder = h /\ new.parent = NoLock
  <2>1. row.released <= pax /\ h \in Agents \cup {Office}
    <3>1. pax >= row.released + Drawn(l) + tree.allocated
      BY <1>1
    <3> QED
      BY <1>2, <1>4, <3>1, HolderFacts
  <2>2. row.parent = NoLock
    BY <1>1
  <2> HIDE DEF tree, moving
  <2> QED
    BY <1>2, <1>4, <1>6, <2>1, <2>2 DEF LockRows
<1> HIDE DEF new
<1>8. IsLocks(lock) /\ Family(lock)
  BY DEF PoolInv
<1>9. ASSUME NEW j \in Kids(l)
      PROVE  LET moved == [lock[j] EXCEPT !.day = d, !.holder = h]
             IN  /\ moved \in LockRows /\ moved.released <= moved.pax
                 /\ moved.day = d /\ moved.holder = h /\ moved.parent = l
  <2>1. j \in DOMAIN lock /\ lock[j].parent = l
    BY DEF Kids, KidsIn
  <2>2. lock[j] \in LockRows /\ lock[j].released <= lock[j].pax
    BY <1>8, <2>1 DEF IsLocks
  <2> QED
    BY <2>1, <2>2, HolderFacts DEF LockRows
<1>10. /\ DOMAIN lock' = DOMAIN lock /\ l \notin Kids(l) /\ Kids(l) \subseteq DOMAIN lock
       /\ lock'[l] = new
       /\ \A j \in Kids(l) : lock'[j] = [lock[j] EXCEPT !.day = d, !.holder = h]
       /\ \A j \in DOMAIN lock : j # l /\ j \notin Kids(l) => lock'[j] = lock[j]
  BY <1>1, LockAssumption DEF Kids, KidsIn
<1>11. IsLocks(lock')
  <2>1. DOMAIN lock' \subseteq LockIds
    BY <1>8, <1>10 DEF IsLocks
  <2>2. ASSUME NEW j \in DOMAIN lock' PROVE lock'[j] \in LockRows /\ lock'[j].released <= lock'[j].pax
    <3>1. CASE j = l
      BY <1>7, <1>10, <3>1
    <3>2. CASE j \in Kids(l)
      BY <1>9, <1>10, <3>2
    <3>3. CASE j # l /\ j \notin Kids(l)
      BY <1>8, <1>10, <3>3 DEF IsLocks
    <3> QED
      BY <3>1, <3>2, <3>3
  <2> QED
    BY <2>1, <2>2 DEF IsLocks
<1>12. Family(lock')
  <2> SUFFICES ASSUME NEW j \in DOMAIN lock', lock'[j].parent # NoLock
               PROVE  LET top == lock'[j].parent
                      IN  /\ top \in DOMAIN lock' /\ lock'[top].parent = NoLock
                          /\ lock'[top].day = lock'[j].day /\ lock'[top].holder = lock'[j].holder
    BY DEF Family
  <2>1. CASE j \in Kids(l)
    BY <1>1, <1>7, <1>9, <1>10, <2>1
  <2>2. CASE j \notin Kids(l)
    <3>1. j # l /\ lock'[j] = lock[j] /\ j \in DOMAIN lock
      BY <1>7, <1>10, <2>2
    <3> DEFINE top == lock[j].parent
    <3>2. top \in DOMAIN lock /\ lock[top].parent = NoLock
          /\ lock[top].day = lock[j].day /\ lock[top].holder = lock[j].holder
      BY <1>8, <3>1 DEF Family
    <3>3. top # l /\ top \notin Kids(l)
      BY <1>1, <2>2, <3>1, <3>2, LockAssumption DEF Kids, KidsIn
    <3>4. lock'[top] = lock[top]
      BY <1>10, <3>2, <3>3
    <3> QED
      BY <1>10, <3>1, <3>2, <3>4
  <2> QED
    BY <2>1, <2>2
<1>13. ASSUME NEW j \in DOMAIN lock, Drawn(j) # 0 \/ (d = row.day /\ h = row.holder)
       PROVE  lock'[j].day = lock[j].day /\ lock'[j].holder = lock[j].holder
  <2>1. CASE j \in Kids(l) \cup {l}
    <3>1. d = row.day /\ h = row.holder
      BY <1>1, <1>2, <1>13, <2>1
    <3>2. lock[j].day = row.day /\ lock[j].holder = row.holder
      <4>1. CASE j = l
        BY <4>1
      <4>2. CASE j \in Kids(l)
        <5>1. lock[j].parent = l /\ l # NoLock
          BY <4>2, LockAssumption DEF Kids, KidsIn
        <5> QED
          BY <1>8, <5>1 DEF Family
      <4> QED
        BY <2>1, <4>1, <4>2
    <3> QED
      BY <1>7, <1>9, <1>10, <2>1, <3>1, <3>2
  <2>2. CASE j \notin Kids(l) \cup {l}
    BY <1>10, <2>2
  <2> QED
    BY <2>1, <2>2
<1>14. ASSUME NEW j \in DOMAIN lock PROVE j \in DOMAIN lock' /\ lock'[j].parent = lock[j].parent
  <2>1. j \in Kids(l) => lock[j].parent = l
    BY DEF Kids, KidsIn
  <2> QED
    BY <1>1, <1>7, <1>9, <1>10, <2>1
<1> HIDE DEF row
<1> QED
  BY <1>1, <1>11, <1>12, <1>13, <1>14 DEF LockMoved, KeepsHomes, row

LEMMA LockMoves ==
    ASSUME PoolInv, NEW l \in LockIds, LockStep(l) PROVE LockMoved
<1>1. CASE \E d \in Days, pax \in 1..MaxLockPax, h \in Holders, lapsed \in BOOLEAN, choice \in {"split", "all"} :
              CreateLock(l, d, pax, h, lapsed /\ Relapse, choice)
  <2>1. PICK d \in Days, pax \in 1..MaxLockPax, h \in Holders, lapsed \in BOOLEAN, choice \in {"split", "all"} :
              CreateLock(l, d, pax, h, lapsed /\ Relapse, choice)
    BY <1>1
  <2>2. (lapsed /\ Relapse) \in BOOLEAN
    OBVIOUS
  <2> QED
    BY <2>1, <2>2, CreateLockMoves
<1>2. CASE \E pax \in 1..MaxLockPax, d \in Days, h \in Holders, lapsed \in BOOLEAN : AmendLock(l, pax, d, h, lapsed)
  BY <1>2, AmendLockMoves
<1>3. CASE \E pax \in 1..MaxLockPax : AmendSubGroup(l, pax)
  BY <1>3, AmendSubGroupMoves
<1>4. CASE \E n \in 1..MaxLockPax :
              /\ l \in DOMAIN lock /\ lock[l].pax + n <= MaxLockPax
              /\ AddSeats(l, n) \/ AddToSubGroup(l, n)
  BY <1>4, AddSeatsMoves
<1>5. CASE \E n \in 1..MaxLockPax : ReleaseSeats(l, n) \/ ConfirmPending(l, n)
  BY <1>5, ReleaseSeatsMoves, ConfirmPendingMoves
<1>6. CASE ReleaseDeparture(l) \/ Lapse(l)
  BY <1>6, ReleaseDepartureMoves, LapseMoves
<1>7. CASE \E top \in DOMAIN lock, pax \in 1..MaxLockPax : CreateSubGroup(l, top, pax)
  BY <1>7, CreateSubGroupMoves
<1> QED
  BY <1>1, <1>2, <1>3, <1>4, <1>5, <1>6, <1>7 DEF LockStep

-----------------------------------------------------------------------------
(* The tables stay sound                                                   *)

LEMMA InitIsSound == Init => PoolInv
<1> SUFFICES ASSUME Init PROVE PoolInv
  OBVIOUS
<1>1. IsBookings(booking) /\ DrawsExist(booking, lock)
  BY DEF Init, IsBookings, DrawsExist, NoBooking
<1>2. DOMAIN lock = {}
  BY DEF Init
<1>3. IsLocks(lock) /\ Family(lock)
  BY <1>2 DEF IsLocks, Family
<1>4. IsDeployed(deployed)
  <2>1. DOMAIN deployed = Days
    BY DEF Init
  <2>2. ASSUME NEW d \in Days PROVE DOMAIN deployed[d] \subseteq Boats /\ \A x \in DOMAIN deployed[d] : deployed[d][x] \in Capacities
    <3>1. PICK D \in {E \in SUBSET Boats : Boats \ Movable \subseteq E} : deployed[d] \in [D -> Capacities]
      BY DEF Init
    <3> QED
      BY <3>1
  <2> QED
    BY <2>1, <2>2 DEF IsDeployed
<1> QED
  BY <1>1, <1>3, <1>4 DEF PoolInv

LEMMA BookingKeepsSound ==
    ASSUME PoolInv, NEW b \in Bookings, BookingMoved(b) PROVE PoolInv'
<1>1. UNCHANGED <<lock, deployed>> /\ booking'[b] \in BookingRows /\ DrawsKnown(booking'[b])
      /\ booking' = [booking EXCEPT ![b] = booking'[b]]
  BY DEF BookingMoved, Admissible
<1> DEFINE row == booking'[b]
<1> HIDE DEF row
<1>2. booking' = [booking EXCEPT ![b] = row] /\ row \in BookingRows /\ DrawsKnown(row)
  BY <1>1 DEF row
<1>3. IsBookings(booking')
  BY <1>2 DEF PoolInv, IsBookings
<1>4. ASSUME NEW c \in Bookings, booking'[c].status # "absent", NEW d \in DOMAIN booking'[c].trips, NEW l \in LockIds,
             booking'[c].trips[d].draws[l] > 0
      PROVE  l \in DOMAIN lock
  <2>1. CASE c = b
    BY <1>1, <1>4, <2>1 DEF DrawsKnown
  <2>2. CASE c # b
    <3>1. booking'[c] = booking[c]
      BY <1>2, <2>2 DEF PoolInv, IsBookings
    <3> QED
      BY <1>4, <3>1 DEF PoolInv, DrawsExist
  <2> QED
    BY <2>1, <2>2
<1>5. DrawsExist(booking', lock')
  BY <1>1, <1>4 DEF DrawsExist
<1> QED
  BY <1>1, <1>3, <1>5 DEF PoolInv

LEMMA LockKeepsSound ==
    ASSUME PoolInv, LockMoved PROVE PoolInv'
<1>1. IsLocks(lock') /\ Family(lock') /\ UNCHANGED <<booking, deployed>> /\ \A l \in DOMAIN lock : l \in DOMAIN lock'
  BY DEF LockMoved
<1>2. DrawsExist(booking', lock')
  BY <1>1 DEF PoolInv, DrawsExist
<1> QED
  BY <1>1, <1>2 DEF PoolInv

LEMMA DeploymentKeepsSound ==
    ASSUME PoolInv, NEW d \in Days, DeploymentStep(d) PROVE PoolInv' /\ UNCHANGED <<booking, lock>>
<1>1. UNCHANGED <<booking, lock>>
  BY DEF DeploymentStep, Deploy, Undeploy
<1>2. IsDeployed(deployed')
  <2>1. CASE \E boat \in Movable, c \in Capacities : Deploy(d, boat, c)
    <3>1. PICK boat \in Movable, c \in Capacities : Deploy(d, boat, c)
      BY <2>1
    <3>2. deployed' = [deployed EXCEPT ![d] = [x \in DOMAIN deployed[d] \cup {boat} |-> IF x = boat THEN c ELSE deployed[d][x]]]
      BY <3>1 DEF Deploy
    <3>3. boat \in Boats
      BY PoolAssumption
    <3> QED
      BY <3>2, <3>3 DEF PoolInv, IsDeployed
  <2>2. CASE \E boat \in Movable : Undeploy(d, boat)
    <3>1. PICK boat \in Movable : deployed' = [deployed EXCEPT ![d] = [x \in DOMAIN deployed[d] \ {boat} |-> deployed[d][x]]]
      BY <2>2 DEF Undeploy
    <3> QED
      BY <3>1 DEF PoolInv, IsDeployed
  <2> QED
    BY <2>1, <2>2 DEF DeploymentStep
<1> QED
  BY <1>1, <1>2 DEF PoolInv

LEMMA StepKeepsSound == PoolInv /\ [Next]_vars => PoolInv'
<1> SUFFICES ASSUME PoolInv, [Next]_vars PROVE PoolInv'
  OBVIOUS
<1>1. CASE \E b \in Bookings : BookingStep(b)
  BY <1>1, BookingMoves, BookingKeepsSound
<1>2. CASE \E l \in LockIds : LockStep(l)
  BY <1>2, LockMoves, LockKeepsSound
<1>3. CASE \E d \in Days : DeploymentStep(d)
  BY <1>3, DeploymentKeepsSound
<1>4. CASE UNCHANGED vars
  BY <1>4 DEF vars, PoolInv, IsBookings, IsLocks, Family, IsDeployed, DrawsExist
<1> QED
  BY <1>1, <1>2, <1>3, <1>4 DEF Next

(* Whatever the commands, the rows stay ones the tables can hold: an       *)
(* approval that waits says where its booking goes, a sub-group has its    *)
(* parent's day and holder, and a booking draws on locks that exist.       *)
THEOREM PoolHolds == Spec => []PoolInv
<1> QED
  BY InitIsSound, StepKeepsSound, PTL DEF Spec

LEMMA SoundIsTyped == PoolInv => TypeOK
<1> SUFFICES ASSUME PoolInv PROVE TypeOK
  OBVIOUS
<1>1. ASSUME NEW b \in Bookings, Exists(b)
      PROVE  /\ booking[b].status \in Statuses /\ booking[b].agent \in Agents
             /\ booking[b].approval \in Approvals
             /\ DOMAIN booking[b].trips \in (SUBSET Days) \ {{}}
             /\ \A d \in DOMAIN booking[b].trips : booking[b].trips[d] \in Trips
  <2>1. /\ booking[b].trips \in TripPlans /\ booking[b].status \in Statuses /\ booking[b].agent \in Agents
        /\ booking[b].approval \in Approvals
    BY <1>1, BookingFacts DEF PoolInv, Exists
  <2>2. DOMAIN booking[b].trips \subseteq Days /\ DOMAIN booking[b].trips # {}
        /\ \A d \in DOMAIN booking[b].trips : booking[b].trips[d] \in Trips
    BY <2>1, PlanFacts
  <2> QED
    BY <2>1, <2>2
<1>2. /\ DOMAIN lock \subseteq LockIds
      /\ \A l \in DOMAIN lock : lock[l] \in LockRows /\ lock[l].released <= lock[l].pax
  BY DEF PoolInv, IsLocks
<1>3. /\ DOMAIN deployed = Days
      /\ \A d \in Days : DOMAIN deployed[d] \subseteq Boats /\ \A x \in DOMAIN deployed[d] : deployed[d][x] \in Capacities
  BY DEF PoolInv, IsDeployed
<1> QED
  BY <1>1, <1>2, <1>3 DEF TypeOK

(* The type invariant the runs check, for any number of bookings and locks. *)
THEOREM PoolTypes == Spec => []TypeOK
<1> QED
  BY PoolHolds, SoundIsTyped, PTL

-----------------------------------------------------------------------------
(* A boat is chartered once                                                *)

\* The bookings holding seats that charter a boat on a day.
Charterers(bks, d, boat) ==
    {b \in Counted(bks, {}) : d \in DOMAIN bks[b].trips
        /\ bks[b].trips[d].mode = "charter" /\ bks[b].trips[d].boat = boat}

LEMMA CharterersFacts ==
    ASSUME NEW bks, IsBookings(bks), NEW d, NEW boat
    PROVE  /\ IsFiniteSet(Charterers(bks, d, boat)) /\ Charterers(bks, d, boat) \subseteq Bookings
           /\ CharterCount(bks, d, boat) = Cardinality(Charterers(bks, d, boat)) /\ CharterCount(bks, d, boat) \in Nat
<1>1. IsFiniteSet(Counted(bks, {})) /\ Counted(bks, {}) \subseteq Bookings
  BY CountedFacts
<1>2. IsFiniteSet(Charterers(bks, d, boat)) /\ Charterers(bks, d, boat) \subseteq Bookings
  BY <1>1, FS_Subset DEF Charterers
<1> QED
  BY <1>2, FS_CardinalityType DEF CharterCount, Charterers

\* A booking comes to charter a boat only if it is approved, or nobody else charters it.
LEMMA CharterMoves ==
    ASSUME PoolInv, NEW b \in Bookings, BookingMoved(b), ~Approved(b), NEW d \in Days, NEW boat \in DOMAIN deployed[d]
    PROVE  CharterCount(booking', d, boat) <= 1 \/ CharterCount(booking', d, boat) <= CharterCount(booking, d, boat)
<1> DEFINE C == Charterers(booking, d, boat)
           D == Charterers(booking', d, boat)
<1>1. PoolInv' /\ IsBookings(booking) /\ IsBookings(booking')
  BY BookingKeepsSound DEF PoolInv
<1>2. /\ IsFiniteSet(C) /\ IsFiniteSet(D) /\ D \subseteq Bookings
      /\ CharterCount(booking, d, boat) = Cardinality(C) /\ CharterCount(booking', d, boat) = Cardinality(D)
  BY <1>1, CharterersFacts
<1>3. boat \in Boats /\ boat # NoBoat
  BY BoatAssumption DEF PoolInv, IsDeployed
<1>4. \A c \in Bookings : c # b => booking'[c] = booking[c]
  BY DEF BookingMoved, PoolInv, IsBookings
<1>5. D \subseteq C \cup {b}
  BY <1>2, <1>4 DEF Charterers, Counted
<1>6. b \in D => b \in C \/ boat \in Day(d, {b}).open
  <2> SUFFICES ASSUME b \in D PROVE b \in C \/ boat \in Day(d, {b}).open
    OBVIOUS
  <2>1. /\ HoldsSeats(booking'[b]) /\ d \in DOMAIN booking'[b].trips
        /\ booking'[b].trips[d].mode = "charter" /\ booking'[b].trips[d].boat = boat
    BY DEF Charterers, Counted
  <2>2. ~ByApproval(b, booking'[b])
    BY DEF Approved, ByApproval
  <2>3. ChartersEntitled(b, booking'[b])
    BY <2>1, <2>2 DEF BookingMoved, Admissible
  <2> QED
    BY <1>3, <2>1, <2>3 DEF ChartersEntitled, Charterers, Counted
<1>7. boat \in Day(d, {b}).open => C \subseteq {b}
  <2> SUFFICES ASSUME boat \in Day(d, {b}).open, NEW c \in C, c # b PROVE FALSE
    OBVIOUS
  <2>1. c \in Counted(booking, {b}) /\ d \in DOMAIN booking[c].trips
        /\ booking[c].trips[d].mode = "charter" /\ booking[c].trips[d].boat = boat
    BY DEF Charterers, Counted
  <2> QED
    BY <2>1, DayNumbers DEF SoundDay
<1> HIDE DEF C, D
<1>8. CASE D \subseteq C
  <2>1. Cardinality(D) <= Cardinality(C)
    BY <1>2, <1>8, FS_Subset
  <2> QED
    BY <1>2, <2>1
<1>9. CASE ~(D \subseteq C)
  <2>1. D \subseteq {b}
    BY <1>5, <1>6, <1>7, <1>9
  <2>2. IsFiniteSet({b}) /\ Cardinality({b}) = 1
    BY FS_Singleton
  <2>3. Cardinality(D) <= 1
    BY <2>1, <2>2, FS_Subset
  <2> QED
    BY <1>2, <2>3
<1> QED
  BY <1>8, <1>9

LEMMA CharterStep ==
    ASSUME PoolInv, [Next]_vars, NEW d \in Days, NEW boat \in DOMAIN deployed[d],
           CharterCount(booking', d, boat) > Max({1, CharterCount(booking, d, boat)})
    PROVE  \E b \in Bookings : Approved(b)
<1> DEFINE n == CharterCount(booking, d, boat)
           m == CharterCount(booking', d, boat)
<1>1. n \in Nat /\ m \in Nat
  BY StepKeepsSound, CharterersFacts DEF PoolInv
<1>2. Max({1, n}) \in {1, n} /\ Max({1, n}) >= 1 /\ Max({n, 1}) >= n
  BY <1>1, MaxOfTwo
<1>3. {1, n} = {n, 1}
  OBVIOUS
<1>4. m > 1 /\ m > n
  <2> HIDE DEF n, m
  <2>1. m > Max({1, n})
    BY DEF n, m
  <2> QED
    BY <1>1, <1>2, <1>3, <2>1
<1>5. CASE \E b \in Bookings : BookingStep(b)
  <2>1. PICK b \in Bookings : BookingMoved(b)
    BY <1>5, BookingMoves
  <2>2. ~Approved(b) => m <= 1 \/ m <= n
    BY <2>1, CharterMoves
  <2> HIDE DEF n, m
  <2> QED
    BY <1>1, <1>4, <2>2
<1>6. CASE booking' = booking
  <2>1. m = n
    BY <1>6
  <2> HIDE DEF n, m
  <2> QED
    BY <1>1, <1>4, <2>1
<1>7. (\E l \in LockIds : LockStep(l)) => booking' = booking
  BY LockMoves DEF LockMoved
<1>8. (\E e \in Days : DeploymentStep(e)) => booking' = booking
  BY DeploymentKeepsSound
<1> QED
  BY <1>5, <1>6, <1>7, <1>8 DEF Next, vars

(* While a boat is deployed, no command but an approval gives it a second   *)
(* charter on a day: creating, amending, restoring, moving never do        *)
(* (capacity.ts: a charter needs its boat free), whatever the bookings.    *)
THEOREM BoatIsCharteredOnce == Spec => CharterExclusive
<1>1. PoolInv /\ [Next]_vars =>
        [\A d \in Days : \A boat \in DOMAIN deployed[d] :
           CharterCount(booking', d, boat) > Max({1, CharterCount(booking, d, boat)}) => \E b \in Bookings : Approved(b)]_vars
  BY CharterStep
<1> QED
  BY <1>1, PoolHolds, PTL DEF Spec, CharterExclusive

-----------------------------------------------------------------------------
(* Draws stay home                                                         *)

\* A booking not written keeps no more alien draws than it had, whichever locks are.
LEMMA LockKeepsHome ==
    ASSUME PoolInv, LockMoved, NEW b \in Bookings
    PROVE  AlienDraws(b)' \subseteq AlienDraws(b)
<1>1. IsBookings(booking) /\ UNCHANGED <<booking, deployed>>
  BY DEF PoolInv, LockMoved
<1> SUFFICES ASSUME NEW x \in AlienDraws(b)' PROVE x \in AlienDraws(b)
  OBVIOUS
<1>2. HoldsSeats(booking[b])
  BY <1>1 DEF AlienDraws
<1> DEFINE d == x[1]
           l == x[2]
<1>3. /\ x \in (DOMAIN booking[b].trips) \X DOMAIN lock' /\ booking[b].trips[d].draws[l] > 0
      /\ lock'[l].day # d \/ lock'[l].holder \notin {Office, booking[b].agent}
  BY <1>1, <1>2 DEF AlienDraws
<1>4. l \in LockIds /\ d \in DOMAIN booking[b].trips
  BY <1>3 DEF LockMoved, IsLocks
<1>5. l \in DOMAIN lock
  BY <1>2, <1>3, <1>4 DEF PoolInv, DrawsExist, HoldsSeats
<1>6. Drawn(l) # 0
  <2>1. b \in Counted(booking, {})
    BY <1>2 DEF Counted
  <2>2. DrawnByLock(booking, {})[l] = 0 => booking[b].trips[d].draws[l] = 0
    BY <1>1, <1>4, <2>1, DrawnByLockFacts
  <2> QED
    BY <1>3, <2>2 DEF Drawn
<1>7. lock'[l].day = lock[l].day /\ lock'[l].holder = lock[l].holder
  BY <1>5, <1>6 DEF LockMoved
<1> QED
  BY <1>2, <1>3, <1>5, <1>7 DEF AlienDraws

LEMMA BookingKeepsHome ==
    ASSUME PoolInv, NEW c \in Bookings, BookingMoved(c), NEW b \in Bookings
    PROVE  AlienDraws(b)' \subseteq AlienDraws(b) \/ Approved(b) \/ Restored(b)
<1>1. IsBookings(booking) /\ UNCHANGED <<lock, deployed>>
  BY DEF PoolInv, BookingMoved
<1>2. CASE b # c
  <2>1. booking'[b] = booking[b]
    BY <1>1, <1>2 DEF BookingMoved, IsBookings
  <2> QED
    BY <1>1, <2>1 DEF AlienDraws
<1>3. CASE b = c
  <2> SUFFICES ASSUME ~Approved(b), ~Restored(b), NEW x \in AlienDraws(b)' PROVE x \in AlienDraws(b)
    OBVIOUS
  <2>1. HoldsSeats(booking'[b])
    BY DEF AlienDraws
  <2> DEFINE d == x[1]
             l == x[2]
  <2>2. /\ x \in (DOMAIN booking'[b].trips) \X DOMAIN lock /\ booking'[b].trips[d].draws[l] > 0
        /\ lock[l].day # d \/ lock[l].holder \notin {Office, booking'[b].agent}
    BY <1>1, <2>1 DEF AlienDraws
  <2>3. Admissible(b, booking'[b]) /\ ~ByApproval(b, booking'[b]) /\ ~ByRestore(b, booking'[b])
    BY <1>3 DEF BookingMoved, ByApproval, ByRestore, Approved, Restored
  <2>4. DrawsEntitled(b, booking'[b]) /\ (Exists(b) => booking'[b].agent = booking[b].agent)
    BY <2>1, <2>3 DEF Admissible
  <2>5. l \in LockIds /\ d \in DOMAIN booking'[b].trips
    BY <2>2 DEF PoolInv, IsLocks
  <2>6. HoldsSeats(booking[b]) /\ d \in DOMAIN booking[b].trips /\ booking[b].trips[d].draws[l] > 0
    BY <2>2, <2>4, <2>5 DEF DrawsEntitled
  <2>7. Exists(b)
    BY <2>6 DEF HoldsSeats, Exists
  <2> QED
    BY <2>2, <2>4, <2>6, <2>7 DEF AlienDraws
<1> QED
  BY <1>2, <1>3

LEMMA HomeStep ==
    ASSUME PoolInv, [Next]_vars, NEW b \in Bookings
    PROVE  AlienDraws(b)' \subseteq AlienDraws(b) \/ Approved(b) \/ Restored(b)
<1>1. CASE \E c \in Bookings : BookingStep(c)
  BY <1>1, BookingMoves, BookingKeepsHome
<1>2. CASE \E l \in LockIds : LockStep(l)
  BY <1>2, LockMoves, LockKeepsHome
<1>3. CASE UNCHANGED <<booking, lock>>
  BY <1>3 DEF AlienDraws
<1>4. (\E d \in Days : DeploymentStep(d)) => UNCHANGED <<booking, lock>>
  BY DeploymentKeepsSound
<1> QED
  BY <1>1, <1>2, <1>3, <1>4 DEF Next, vars

(* A booking holding seats comes to draw on another agent's lock, or on    *)
(* another day's, only by being approved or restored: a lock that bookings *)
(* draw on, or whose sub-groups they draw on, keeps its day and its holder *)
(* (seat-lock-service.ts amend), and a sale is weighed lock by lock.       *)
THEOREM DrawsAreHome == Spec => DrawsStayHome
<1>1. PoolInv /\ [Next]_vars =>
        [\A b \in Bookings : ~(AlienDraws(b)' \subseteq AlienDraws(b)) => Approved(b) \/ Restored(b)]_vars
  BY HomeStep
<1> QED
  BY <1>1, PoolHolds, PTL DEF Spec, DrawsStayHome

-----------------------------------------------------------------------------
(* Bulk locks                                                              *)

BulkRecords == [rows : SUBSET LockIds, pax : Nat, holder : Holders, cutoff : Cutoffs]

\* The departures are top-level locks of the bulk lock's holder.
BulkInv ==
    /\ PoolInv
    /\ Made => bulk \in BulkRecords
    /\ \A l \in bulk.rows : l \in DOMAIN lock /\ lock[l].parent = NoLock /\ lock[l].holder = bulk.holder

\* Every row of a bulk lock has its holder, its sub-groups as its departures.
LEMMA RowsFacts ==
    ASSUME BulkInv
    PROVE  /\ bulk.rows \subseteq BulkRows /\ BulkRows \subseteq DOMAIN lock /\ Departures \subseteq bulk.rows
           /\ OneHolder
           /\ \A l \in BulkRows : Made /\ lock[l].holder \in Holders
<1>1. bulk.rows \subseteq BulkRows /\ BulkRows \subseteq DOMAIN lock /\ Departures \subseteq bulk.rows
  BY DEF BulkInv, BulkRows, Departures, TopOf
<1>2. ASSUME NEW l \in BulkRows PROVE lock[l].holder = bulk.holder /\ Made
  <2>1. l \in DOMAIN lock /\ TopOf(lock, l) \in bulk.rows /\ lock[TopOf(lock, l)].holder = bulk.holder
    BY DEF BulkRows, BulkInv
  <2>2. lock[TopOf(lock, l)].holder = lock[l].holder
    BY <2>1 DEF TopOf, BulkInv, PoolInv, Family
  <2> QED
    BY <2>1, <2>2 DEF Made
<1>3. \A l \in BulkRows : lock[l].holder \in Holders
  BY <1>2 DEF BulkInv, BulkRecords
<1> QED
  BY <1>1, <1>2, <1>3 DEF OneHolder

\* Rows written each as it may stand: new ones, and own ones but for their seats and their standing.
LEMMA RowsWritten ==
    ASSUME PoolInv, NEW rows, DOMAIN rows \subseteq LockIds, \A l \in DOMAIN rows : Rightful(l, rows[l]), WriteRows(rows)
    PROVE  LockMoved /\ KeepsHomes
<1>1. /\ lock' = [l \in DOMAIN lock \cup DOMAIN rows |-> IF l \in DOMAIN rows THEN rows[l] ELSE lock[l]]
      /\ UNCHANGED <<booking, deployed>>
  BY DEF WriteRows
<1>2. /\ DOMAIN lock' = DOMAIN lock \cup DOMAIN rows
      /\ \A l \in DOMAIN rows : lock'[l] = rows[l]
      /\ \A l \in DOMAIN lock : l \notin DOMAIN rows => lock'[l] = lock[l]
  BY <1>1
<1>3. IsLocks(lock) /\ Family(lock)
  BY DEF PoolInv
<1>4. IsLocks(lock')
  BY <1>2, <1>3 DEF IsLocks, Rightful
<1>5. \A j \in DOMAIN lock : lock'[j].day = lock[j].day /\ lock'[j].holder = lock[j].holder /\ lock'[j].parent = lock[j].parent
  BY <1>2 DEF Rightful
<1>6. ASSUME NEW j \in DOMAIN lock', lock'[j].parent # NoLock
      PROVE  LET top == lock'[j].parent
             IN  /\ top \in DOMAIN lock' /\ lock'[top].parent = NoLock
                 /\ lock'[top].day = lock'[j].day /\ lock'[top].holder = lock'[j].holder
  <2>1. CASE j \in DOMAIN lock
    <3>1. lock[j].parent # NoLock /\ lock'[j].parent = lock[j].parent
      BY <1>5, <1>6, <2>1
    <3>2. lock[j].parent \in DOMAIN lock
      BY <1>3, <2>1, <3>1 DEF Family
    <3> QED
      BY <1>2, <1>3, <1>5, <2>1, <3>1, <3>2 DEF Family
  <2>2. CASE j \notin DOMAIN lock
    <3>1. j \in DOMAIN rows /\ lock'[j] = rows[j]
      BY <1>2, <2>2
    <3>2. rows[j].parent \in DOMAIN lock /\ lock[rows[j].parent].parent = NoLock
          /\ lock[rows[j].parent].day = rows[j].day /\ lock[rows[j].parent].holder = rows[j].holder
      BY <1>6, <2>2, <3>1 DEF Rightful
    <3> QED
      BY <1>2, <1>5, <3>1, <3>2
  <2> QED
    BY <2>1, <2>2
<1>7. Family(lock')
  BY <1>6 DEF Family
<1> QED
  BY <1>1, <1>2, <1>4, <1>5, <1>7 DEF LockMoved, KeepsHomes

\* What a write that leaves every row with its holder leaves a bulk lock.
LEMMA HomesKeepBulk ==
    ASSUME BulkInv, LockMoved, KeepsHomes, bulk'.rows = bulk.rows, bulk'.holder = bulk.holder,
           Made => bulk' \in BulkRecords
    PROVE  BulkInv'
<1>1. PoolInv'
  BY LockKeepsSound DEF BulkInv
<1>2. Made' => bulk' \in BulkRecords
  BY DEF Made
<1>3. \A l \in bulk'.rows : l \in DOMAIN lock' /\ lock'[l].parent = NoLock /\ lock'[l].holder = bulk'.holder
  BY DEF BulkInv, LockMoved, KeepsHomes
<1> QED
  BY <1>1, <1>2, <1>3 DEF BulkInv

\* More or fewer seats on a departure leave it a row that may stand.
LEMMA ResizedFacts ==
    ASSUME BulkInv, NEW l \in DOMAIN lock, NEW pax \in Nat
    PROVE  /\ lock[l].released <= pax => LET row == Lowered(l, pax)
                                         IN  /\ row \in LockRows /\ row.released <= row.pax /\ row.day = lock[l].day
                                             /\ row.holder = lock[l].holder /\ row.parent = lock[l].parent
           /\ lock[l].released <= pax => LET row == Grown(l, pax)
                                         IN  /\ row \in LockRows /\ row.released <= row.pax /\ row.day = lock[l].day
                                             /\ row.holder = lock[l].holder /\ row.parent = lock[l].parent
<1>1. /\ lock[l] \in LockRows /\ lock[l].pax \in Nat /\ lock[l].pending \in Nat /\ lock[l].released \in Nat
      /\ lock[l].day \in Days /\ Tree(l).held \in Nat /\ Tree(l).used \in Nat
  BY LockFacts DEF BulkInv
<1> DEFINE low == Clip(lock[l].pending - (lock[l].pax - pax))
           short == ShortOn(lock[l].day, Tree(l).held, pax - lock[l].released - Tree(l).used)
           high == IF short > Tree(l).pend THEN short ELSE lock[l].pending
           lowered == [lock[l] EXCEPT !.pax = pax, !.pending = low]
           grown == [lock[l] EXCEPT !.pax = pax, !.pending = high]
<1>2. Lowered(l, pax) = lowered /\ Grown(l, pax) = grown
  BY DEF Lowered, Grown
<1>3. low \in Nat
  BY <1>1, ClipIsNat
<1>4. short \in Nat
  <2>1. pax - lock[l].released - Tree(l).used \in Int
    BY <1>1
  <2>2. ShortBy(Day(lock[l].day, {}), Tree(l).held, pax - lock[l].released - Tree(l).used) \in Nat
    BY <1>1, <2>1, ShortFacts DEF BulkInv
  <2> QED
    BY <2>2 DEF ShortOn
<1> HIDE DEF short, low
<1>5. high \in Nat
  BY <1>1, <1>4
<1> HIDE DEF high
<1>6. lock[l].released <= pax =>
        /\ lowered \in LockRows /\ lowered.released <= lowered.pax /\ lowered.day = lock[l].day
        /\ lowered.holder = lock[l].holder /\ lowered.parent = lock[l].parent
  BY <1>1, <1>3 DEF LockRows
<1>7. lock[l].released <= pax =>
        /\ grown \in LockRows /\ grown.released <= grown.pax /\ grown.day = lock[l].day
        /\ grown.holder = lock[l].holder /\ grown.parent = lock[l].parent
  BY <1>1, <1>5 DEF LockRows
<1> HIDE DEF lowered, grown
<1> QED
  BY <1>2, <1>6, <1>7

LEMMA AddGroupMoves ==
    ASSUME BulkInv, NEW n \in 1..MaxLockPax, AddGroup(n)
    PROVE  LockMoved /\ BulkInv'
<1> DEFINE rows == [l \in Departures |-> Grown(l, lock[l].pax + n)]
<1>1. Made /\ WriteRows(rows) /\ bulk' = [bulk EXCEPT !.pax = bulk.pax + n] /\ PoolInv
  BY DEF AddGroup, BulkInv
<1>2. ASSUME NEW l \in Departures PROVE l \in LockIds /\ Rightful(l, Grown(l, lock[l].pax + n))
  <2>1. l \in DOMAIN lock
    BY RowsFacts
  <2>2. l \in LockIds /\ lock[l].pax \in Nat /\ lock[l].released \in Nat /\ lock[l].released <= lock[l].pax
    BY <1>1, <2>1, LockFacts
  <2> DEFINE pax == lock[l].pax + n
  <2>3. pax \in Nat /\ lock[l].released <= pax
    BY <2>2
  <2> HIDE DEF pax
  <2>4. Rightful(l, Grown(l, pax))
    BY <2>1, <2>3, ResizedFacts DEF Rightful
  <2> QED
    BY <2>2, <2>4 DEF pax
<1>3. DOMAIN rows \subseteq LockIds /\ \A l \in DOMAIN rows : Rightful(l, rows[l])
  BY <1>2
<1> HIDE DEF rows
<1>4. LockMoved /\ KeepsHomes
  BY <1>1, <1>3, RowsWritten
<1>5. bulk' \in BulkRecords /\ bulk'.rows = bulk.rows /\ bulk'.holder = bulk.holder
  <2>1. bulk \in BulkRecords
    BY <1>1 DEF BulkInv
  <2> QED
    BY <1>1, <2>1 DEF BulkRecords
<1> QED
  BY <1>4, <1>5, HomesKeepBulk

LEMMA ReleaseOverdueMoves ==
    ASSUME BulkInv, NEW d \in Days, NEW late, Made, ReleaseOverdue(d, late)
    PROVE  LockMoved /\ BulkInv'
<1> DEFINE due == {l \in bulk.rows : lock[l].day = d /\ Overdue(l, late)}
           rows == [l \in due |-> ReleasedWhole(l)]
<1>1. WriteRows(rows) /\ UNCHANGED bulk /\ PoolInv
  BY DEF ReleaseOverdue, BulkInv
<1>2. ASSUME NEW l \in due PROVE l \in LockIds /\ Rightful(l, ReleasedWhole(l))
  <2>1. l \in DOMAIN lock
    BY RowsFacts
  <2>2. l \in LockIds
    BY <1>1, <2>1, LockFacts
  <2>3. LET row == ReleasedWhole(l)
        IN  /\ row \in LockRows /\ row.released <= row.pax
            /\ row.day = lock[l].day /\ row.holder = lock[l].holder /\ row.parent = lock[l].parent
    BY <1>1, <2>1, ReleasedWholeFacts
  <2> QED
    BY <2>1, <2>2, <2>3 DEF Rightful
<1> HIDE DEF due
<1>3. DOMAIN rows \subseteq LockIds /\ \A l \in DOMAIN rows : Rightful(l, rows[l])
  BY <1>2
<1> HIDE DEF rows
<1>4. LockMoved /\ KeepsHomes
  BY <1>1, <1>3, RowsWritten
<1>5. bulk' = bulk /\ bulk' \in BulkRecords
  BY <1>1 DEF BulkInv
<1> QED
  BY <1>4, <1>5, HomesKeepBulk

LEMMA CreateGroupMoves ==
    ASSUME BulkInv, NEW days \in Weekdays, NEW pax \in 1..MaxLockPax, NEW h \in Holders, NEW c \in Cutoffs, NEW choice,
           CreateGroup(days, pax, h, c, choice)
    PROVE  LockMoved /\ BulkInv'
<1> DEFINE open == days \cap RunsOn
           pending(d) == LET short == ShortOn(d, 0, pax) IN IF short > 0 /\ choice = "all" THEN pax ELSE short
<1>1. PICK row \in NextRows(open) :
        LET ids == {row[d] : d \in open}
            dayOf(l) == CHOOSE d \in open : row[d] = l
        IN  /\ WriteRows([l \in ids |->
                  [day |-> dayOf(l), pax |-> pax, released |-> 0, holder |-> h, status |-> "active",
                   pending |-> pending(dayOf(l)), lapsed |-> FALSE, parent |-> NoLock]])
            /\ bulk' = [rows |-> ids, pax |-> pax, holder |-> h, cutoff |-> c]
  BY DEF CreateGroup
<1> DEFINE ids == {row[d] : d \in open}
           dayOf(l) == CHOOSE d \in open : row[d] = l
           made(l) == [day |-> dayOf(l), pax |-> pax, released |-> 0, holder |-> h, status |-> "active",
                       pending |-> pending(dayOf(l)), lapsed |-> FALSE, parent |-> NoLock]
           rows == [l \in ids |-> made(l)]
<1>2. WriteRows(rows) /\ bulk' = [rows |-> ids, pax |-> pax, holder |-> h, cutoff |-> c] /\ PoolInv
  BY <1>1 DEF BulkInv
<1>3. ids \subseteq LockIds \ DOMAIN lock
  BY DEF NextRows, Unused
<1>4. open \subseteq Days
  BY BulkAssumption
<1>5. ASSUME NEW l \in ids PROVE dayOf(l) \in Days
  BY <1>4
<1>6. ASSUME NEW d \in Days PROVE pending(d) \in Nat
  <2>1. ShortBy(Day(d, {}), 0, pax) \in Nat
    BY <1>2, ShortFacts
  <2>2. ShortOn(d, 0, pax) \in Nat
    BY <2>1 DEF ShortOn
  <2> QED
    BY <2>2
<1> HIDE DEF ids, dayOf, pending
<1>7. ASSUME NEW l \in ids
      PROVE  made(l) \in LockRows /\ made(l).released <= made(l).pax /\ made(l).parent = NoLock /\ made(l).holder = h
  <2>1. dayOf(l) \in Days /\ pending(dayOf(l)) \in Nat /\ pax \in Nat /\ h \in Agents \cup {Office}
    BY <1>5, <1>6, HolderFacts
  <2> QED
    BY <2>1 DEF LockRows
<1> HIDE DEF made
<1>8. DOMAIN rows \subseteq LockIds /\ \A l \in DOMAIN rows : Rightful(l, rows[l])
  BY <1>3, <1>7 DEF Rightful
<1>9. LockMoved
  BY <1>2, <1>8, RowsWritten
<1>10. \A l \in ids : l \in DOMAIN lock' /\ lock'[l] = made(l)
  BY <1>2 DEF WriteRows
<1> HIDE DEF rows
<1>11. bulk' \in BulkRecords
  <2>1. ids \in SUBSET LockIds /\ pax \in Nat
    BY <1>3
  <2> QED
    BY <1>2, <2>1 DEF BulkRecords
<1>12. \A l \in bulk'.rows : l \in DOMAIN lock' /\ lock'[l].parent = NoLock /\ lock'[l].holder = bulk'.holder
  BY <1>2, <1>7, <1>10
<1>13. PoolInv'
  BY <1>2, <1>9, LockKeepsSound
<1> QED
  BY <1>9, <1>11, <1>12, <1>13 DEF BulkInv

LEMMA ReleaseGroupMoves ==
    ASSUME BulkInv, NEW n \in 1..MaxLockPax, ReleaseGroup(n)
    PROVE  LockMoved /\ BulkInv'
<1> DEFINE given(l) == [lock[l] EXCEPT !.released = lock[l].released + n, !.pending = Clip(lock[l].pending - n)]
           done(l) == given(l).pax - given(l).released <= Drawn(l) /\ given(l).pending = 0 /\ Kids(l) = {}
           written(l) == IF done(l) THEN [given(l) EXCEPT !.status = "released"] ELSE given(l)
           rows == [l \in Departures |-> written(l)]
<1>1. /\ Departures # {} /\ n \in 1..GroupReleasable
      /\ WriteRows(rows) /\ UNCHANGED bulk /\ PoolInv /\ Made
  BY DEF ReleaseGroup, BulkInv
<1>2. ASSUME NEW l \in Departures
      PROVE  /\ l \in DOMAIN lock /\ l \in LockIds /\ lock[l] \in LockRows /\ lock[l].pax \in Nat /\ lock[l].pending \in Nat
             /\ lock[l].released \in Nat /\ lock[l].released <= lock[l].pax
             /\ Releasable(l) \in Nat /\ Releasable(l) <= lock[l].pax - lock[l].released
  <2>1. l \in DOMAIN lock
    BY RowsFacts
  <2>2. /\ l \in LockIds /\ lock[l] \in LockRows /\ lock[l].pax \in Nat /\ lock[l].pending \in Nat
        /\ lock[l].released \in Nat /\ lock[l].released <= lock[l].pax
        /\ Tree(l).unallocated \in Nat /\ Tree(l).unallocated <= lock[l].pax - lock[l].released /\ Drawn(l) \in Nat
    BY <1>1, <2>1, LockFacts
  <2>3. Releasable(l) \in Nat /\ Releasable(l) <= lock[l].pax - lock[l].released
    BY <2>2 DEF Releasable, Clip
  <2> QED
    BY <2>1, <2>2, <2>3
<1>3. ASSUME NEW l \in Departures PROVE lock[l].released + n <= lock[l].pax
  <2> DEFINE S == {Releasable(x) : x \in Departures}
  <2>1. S \in SUBSET Nat /\ S # {} /\ Releasable(l) \in S
    BY <1>1, <1>2
  <2>2. Min(S) \in Nat /\ Min(S) <= Releasable(l)
    <3> HIDE DEF S
    <3>1. Min(S) \in S /\ \A x \in S : Min(S) <= x
      BY <2>1, MinIsIn
    <3> QED
      BY <2>1, <3>1
  <2>3. n \in 1..Min(S)
    BY <1>1 DEF GroupReleasable
  <2> HIDE DEF S
  <2> QED
    BY <1>2, <2>2, <2>3
<1>4. ASSUME NEW l \in Departures PROVE Rightful(l, written(l))
  <2> DEFINE more == lock[l].released + n
             less == Clip(lock[l].pending - n)
             kept == [lock[l] EXCEPT !.released = more, !.pending = less]
  <2>1. given(l) = kept
    OBVIOUS
  <2>2. more \in Nat /\ more <= lock[l].pax /\ less \in Nat
    BY <1>2, <1>3, ClipIsNat
  <2> HIDE DEF more, less, given, done
  <2>3. kept \in LockRows /\ kept.released <= kept.pax
        /\ kept.day = lock[l].day /\ kept.holder = lock[l].holder /\ kept.parent = lock[l].parent
    BY <1>2, <2>2 DEF LockRows
  <2> HIDE DEF kept
  <2> DEFINE closed == [kept EXCEPT !.status = "released"]
  <2>4. closed \in LockRows /\ closed.released <= closed.pax
        /\ closed.day = lock[l].day /\ closed.holder = lock[l].holder /\ closed.parent = lock[l].parent
    BY <2>3 DEF LockRows
  <2>5. written(l) = closed \/ written(l) = kept
    BY <2>1
  <2> HIDE DEF closed, written
  <2> QED
    BY <1>2, <2>3, <2>4, <2>5 DEF Rightful
<1> HIDE DEF written
<1>5. DOMAIN rows \subseteq LockIds /\ \A l \in DOMAIN rows : Rightful(l, rows[l])
  BY <1>2, <1>4
<1> HIDE DEF rows
<1>6. LockMoved /\ KeepsHomes
  BY <1>1, <1>5, RowsWritten
<1>7. bulk' = bulk /\ bulk' \in BulkRecords
  BY <1>1 DEF BulkInv
<1> QED
  BY <1>6, <1>7, HomesKeepBulk

LEMMA GroupSubGroupsMoves ==
    ASSUME BulkInv, NEW pax \in 1..MaxLockPax, GroupSubGroups(pax)
    PROVE  LockMoved /\ BulkInv'
<1> DEFINE parents == {l \in Departures : lock[l].day >= today}
           days == {lock[l].day : l \in parents}
<1>1. /\ PoolInv /\ UNCHANGED bulk /\ parents # {}
      /\ \E row \in NextRows(days) :
            LET parentOf(k) == CHOOSE l \in parents : row[lock[l].day] = k
            IN  WriteRows([k \in {row[d] : d \in days} |->
                   [day |-> lock[parentOf(k)].day, pax |-> pax, released |-> 0, holder |-> bulk.holder,
                    status |-> "active", pending |-> 0, lapsed |-> FALSE, parent |-> parentOf(k)]])
  BY DEF GroupSubGroups, BulkInv
<1>2. PICK row \in NextRows(days) :
        LET parentOf(k) == CHOOSE l \in parents : row[lock[l].day] = k
        IN  WriteRows([k \in {row[d] : d \in days} |->
               [day |-> lock[parentOf(k)].day, pax |-> pax, released |-> 0, holder |-> bulk.holder,
                status |-> "active", pending |-> 0, lapsed |-> FALSE, parent |-> parentOf(k)]])
  BY <1>1
<1> DEFINE ids == {row[d] : d \in days}
           parentOf(k) == CHOOSE l \in parents : row[lock[l].day] = k
           made(k) == [day |-> lock[parentOf(k)].day, pax |-> pax, released |-> 0, holder |-> bulk.holder,
                       status |-> "active", pending |-> 0, lapsed |-> FALSE, parent |-> parentOf(k)]
           rows == [k \in ids |-> made(k)]
<1>3. WriteRows(rows)
  BY <1>2
<1>4. ids \subseteq LockIds \ DOMAIN lock
  BY DEF NextRows, Unused
<1>5. ASSUME NEW k \in ids PROVE parentOf(k) \in parents
  <2>1. \E l \in parents : row[lock[l].day] = k
    OBVIOUS
  <2> QED
    BY <2>1
<1>6. ASSUME NEW l \in parents
      PROVE  /\ l \in DOMAIN lock /\ l \in LockIds /\ lock[l].day \in Days /\ lock[l].parent = NoLock
             /\ lock[l].holder = bulk.holder /\ bulk.holder \in Agents \cup {Office} /\ Made
  <2>1. l \in bulk.rows
    BY DEF Departures
  <2>2. l \in DOMAIN lock /\ lock[l].parent = NoLock /\ lock[l].holder = bulk.holder /\ Made
    BY <2>1 DEF BulkInv, Made
  <2>3. bulk.holder \in Holders
    BY <2>2 DEF BulkInv, BulkRecords
  <2>4. l \in LockIds /\ lock[l].day \in Days
    BY <1>1, <2>2, LockFacts
  <2> QED
    BY <2>2, <2>3, <2>4, HolderFacts
<1> HIDE DEF ids, parentOf, parents, days
<1>7. ASSUME NEW k \in ids PROVE Rightful(k, made(k))
  <2> DEFINE l == parentOf(k)
             new == [day |-> lock[l].day, pax |-> pax, released |-> 0, holder |-> bulk.holder,
                     status |-> "active", pending |-> 0, lapsed |-> FALSE, parent |-> l]
  <2>1. /\ l \in DOMAIN lock /\ l \in LockIds /\ lock[l].day \in Days /\ lock[l].parent = NoLock
        /\ lock[l].holder = bulk.holder /\ bulk.holder \in Agents \cup {Office}
    BY <1>5, <1>6
  <2>2. made(k) = new
    OBVIOUS
  <2> HIDE DEF l, made
  <2>3. new \in LockRows /\ new.released <= new.pax /\ new.parent = l /\ new.day = lock[l].day /\ new.holder = lock[l].holder
    BY <2>1 DEF LockRows
  <2> HIDE DEF new
  <2> QED
    BY <1>4, <2>1, <2>2, <2>3 DEF Rightful
<1> HIDE DEF made
<1>8. DOMAIN rows \subseteq LockIds /\ \A k \in DOMAIN rows : Rightful(k, rows[k])
  BY <1>4, <1>7
<1> HIDE DEF rows
<1>9. LockMoved /\ KeepsHomes
  BY <1>1, <1>3, <1>8, RowsWritten
<1>10. bulk' = bulk /\ (Made => bulk' \in BulkRecords)
  BY <1>1 DEF BulkInv
<1> QED
  BY <1>9, <1>10, HomesKeepBulk

\* Every row of a bulk lock written with one holder: its old one, or another while nothing is drawn.
LEMMA BulkRehomed ==
    ASSUME BulkInv, NEW h \in Holders, NEW rows, DOMAIN rows = BulkRows, WriteRows(rows),
           \A l \in BulkRows :
              /\ rows[l] \in LockRows /\ rows[l].released <= rows[l].pax /\ rows[l].holder = h
              /\ rows[l].day = lock[l].day /\ rows[l].parent = lock[l].parent,
           h = bulk.holder \/ Undrawn
    PROVE  LockMoved /\ \A l \in bulk.rows : l \in DOMAIN lock' /\ lock'[l].parent = NoLock /\ lock'[l].holder = h
<1>1. /\ lock' = [l \in DOMAIN lock \cup DOMAIN rows |-> IF l \in DOMAIN rows THEN rows[l] ELSE lock[l]]
      /\ UNCHANGED <<booking, deployed>>
  BY DEF WriteRows
<1>2. IsLocks(lock) /\ Family(lock) /\ BulkRows \subseteq DOMAIN lock /\ bulk.rows \subseteq BulkRows /\ OneHolder
  BY RowsFacts DEF BulkInv, PoolInv
<1>3. /\ DOMAIN lock' = DOMAIN lock
      /\ \A l \in BulkRows : lock'[l] = rows[l]
      /\ \A l \in DOMAIN lock : l \notin BulkRows => lock'[l] = lock[l]
  BY <1>1, <1>2
<1>4. IsLocks(lock')
  BY <1>2, <1>3 DEF IsLocks
<1>5. \A j \in DOMAIN lock : lock'[j].day = lock[j].day /\ lock'[j].parent = lock[j].parent
  BY <1>3
<1>6. ASSUME NEW j \in DOMAIN lock, lock[j].parent # NoLock
      PROVE  LET top == lock[j].parent
             IN  /\ top \in DOMAIN lock /\ lock[top].parent = NoLock /\ lock[top].day = lock[j].day
                 /\ lock[top].holder = lock[j].holder /\ (j \in BulkRows <=> top \in BulkRows)
  <2>1. LET top == lock[j].parent
        IN  /\ top \in DOMAIN lock /\ lock[top].parent = NoLock
            /\ lock[top].day = lock[j].day /\ lock[top].holder = lock[j].holder
    BY <1>2, <1>6 DEF Family
  <2> QED
    BY <1>6, <2>1 DEF BulkRows, TopOf
<1>7. Family(lock')
  <2> SUFFICES ASSUME NEW j \in DOMAIN lock', lock'[j].parent # NoLock
               PROVE  LET top == lock'[j].parent
                      IN  /\ top \in DOMAIN lock' /\ lock'[top].parent = NoLock
                          /\ lock'[top].day = lock'[j].day /\ lock'[top].holder = lock'[j].holder
    BY DEF Family
  <2> DEFINE top == lock[j].parent
  <2>1. j \in DOMAIN lock /\ lock'[j].parent = top /\ top # NoLock
    BY <1>3, <1>5
  <2>2. /\ top \in DOMAIN lock /\ lock[top].parent = NoLock /\ lock[top].day = lock[j].day
        /\ lock[top].holder = lock[j].holder /\ (j \in BulkRows <=> top \in BulkRows)
    BY <1>6, <2>1
  <2> HIDE DEF top
  <2>3. lock'[top].holder = lock'[j].holder
    BY <1>3, <2>1, <2>2
  <2> QED
    BY <1>3, <1>5, <2>1, <2>2, <2>3
<1>8. ASSUME NEW l \in DOMAIN lock, Drawn(l) # 0 PROVE lock'[l].holder = lock[l].holder
  <2>1. CASE l \in BulkRows
    <3>1. h = bulk.holder /\ lock[l].holder = bulk.holder
      BY <1>2, <1>8, <2>1 DEF Undrawn, OneHolder
    <3> QED
      BY <1>3, <2>1, <3>1
  <2>2. CASE l \notin BulkRows
    BY <1>3, <2>2
  <2> QED
    BY <2>1, <2>2
<1>9. LockMoved
  BY <1>1, <1>3, <1>4, <1>5, <1>7, <1>8 DEF LockMoved
<1>10. \A l \in bulk.rows : l \in DOMAIN lock' /\ lock'[l].parent = NoLock /\ lock'[l].holder = h
  BY <1>2, <1>3, <1>5 DEF BulkInv
<1> QED
  BY <1>9, <1>10

LEMMA AmendGroupMoves ==
    ASSUME BulkInv, NEW pax \in 1..MaxLockPax, NEW h \in Holders, NEW c \in Cutoffs, AmendGroup(pax, h, c)
    PROVE  LockMoved /\ BulkInv'
<1> DEFINE resized(l) == IF pax = bulk.pax \/ l \notin Departures THEN lock[l]
                         ELSE IF pax < lock[l].pax THEN Lowered(l, pax) ELSE Grown(l, pax)
           rows == [l \in BulkRows |-> resized(l)]
           written == IF h = bulk.holder THEN rows ELSE HeldBy(rows, h)
<1>1. /\ Made /\ (h # bulk.holder => Undrawn)
      /\ pax # bulk.pax => \A l \in Departures : pax >= Floor(l)
      /\ WriteRows(written) /\ bulk' = [bulk EXCEPT !.pax = pax, !.holder = h, !.cutoff = c] /\ PoolInv
  BY DEF AmendGroup, BulkInv
<1>2. ASSUME NEW l \in BulkRows
      PROVE  /\ resized(l) \in LockRows /\ resized(l).released <= resized(l).pax /\ resized(l).day = lock[l].day
             /\ resized(l).holder = bulk.holder /\ resized(l).parent = lock[l].parent
  <2>1. l \in DOMAIN lock /\ lock[l].holder = bulk.holder
    BY RowsFacts DEF OneHolder
  <2>2. lock[l] \in LockRows /\ lock[l].released <= lock[l].pax /\ lock[l].released \in Nat
        /\ Drawn(l) \in Nat /\ Tree(l).allocated \in Nat
    BY <1>1, <2>1, LockFacts
  <2>3. CASE pax = bulk.pax \/ l \notin Departures
    BY <2>1, <2>2, <2>3
  <2>4. CASE ~(pax = bulk.pax \/ l \notin Departures)
    <3>1. pax >= lock[l].released + Drawn(l) + Tree(l).allocated
      BY <1>1, <2>4 DEF Floor
    <3>2. lock[l].released <= pax /\ pax \in Nat
      BY <2>2, <3>1
    <3>3. resized(l) = Lowered(l, pax) \/ resized(l) = Grown(l, pax)
      BY <2>4
    <3> HIDE DEF resized
    <3> QED
      BY <2>1, <3>2, <3>3, ResizedFacts
  <2> QED
    BY <2>3, <2>4
<1> HIDE DEF resized
<1>3. DOMAIN written = BulkRows
  BY DEF HeldBy
<1>4. ASSUME NEW l \in BulkRows
      PROVE  /\ written[l] \in LockRows /\ written[l].released <= written[l].pax /\ written[l].holder = h
             /\ written[l].day = lock[l].day /\ written[l].parent = lock[l].parent
  <2>1. CASE h = bulk.holder
    BY <1>2, <2>1
  <2>2. CASE h # bulk.holder
    <3> DEFINE row == resized(l)
    <3>1. written[l] = [row EXCEPT !.holder = h]
      BY <2>2 DEF HeldBy
    <3>2. row \in LockRows /\ row.released <= row.pax /\ row.day = lock[l].day /\ row.parent = lock[l].parent
      BY <1>2
    <3> HIDE DEF row, written
    <3> QED
      BY <3>1, <3>2, HolderFacts DEF LockRows
  <2> QED
    BY <2>1, <2>2
<1> HIDE DEF written
<1>5. /\ LockMoved
      /\ \A l \in bulk.rows : l \in DOMAIN lock' /\ lock'[l].parent = NoLock /\ lock'[l].holder = h
  BY <1>1, <1>3, <1>4, BulkRehomed
<1>6. bulk' \in BulkRecords /\ bulk'.rows = bulk.rows /\ bulk'.holder = h
  <2>1. bulk \in BulkRecords /\ pax \in Nat
    BY <1>1 DEF BulkInv
  <2> QED
    BY <1>1, <2>1 DEF BulkRecords
<1>7. PoolInv'
  BY <1>1, <1>5, LockKeepsSound
<1> QED
  BY <1>5, <1>6, <1>7 DEF BulkInv

\* A command on one departure or sub-group of a bulk lock leaves its homes alone.
LEMMA RowStepMoves ==
    ASSUME BulkInv, NEW l \in LockIds, RowStep(l)
    PROVE  LockMoved /\ BulkInv'
<1>1. PoolInv /\ l \in BulkRows /\ UNCHANGED bulk
  BY DEF BulkInv, RowStep
<1>2. l \in DOMAIN lock /\ lock[l].holder \in Holders
  BY <1>1, RowsFacts
<1>3. lock[l].day \in Days /\ lock[l].lapsed \in BOOLEAN
  BY <1>1, <1>2, LockFacts DEF LockRows
<1>4. LockMoved /\ KeepsHomes
  <2>1. CASE \E pax \in 1..MaxLockPax : AmendLock(l, pax, lock[l].day, lock[l].holder, lock[l].lapsed)
    <3>1. PICK pax \in 1..MaxLockPax : AmendLock(l, pax, lock[l].day, lock[l].holder, lock[l].lapsed)
      BY <2>1
    <3> DEFINE d == lock[l].day
               h == lock[l].holder
               lapsed == lock[l].lapsed
    <3>2. AmendLock(l, pax, d, h, lapsed) /\ d \in Days /\ h \in Holders /\ lapsed \in BOOLEAN
          /\ d = lock[l].day /\ h = lock[l].holder
      BY <1>2, <1>3, <3>1
    <3> HIDE DEF d, h, lapsed
    <3> QED
      BY <1>1, <3>2, AmendLockMoves
  <2>2. CASE \E pax \in 1..MaxLockPax : AmendSubGroup(l, pax)
    BY <1>1, <2>2, AmendSubGroupMoves
  <2>3. CASE \E n \in 1..MaxLockPax : AddSeats(l, n) \/ AddToSubGroup(l, n)
    BY <1>1, <1>2, <2>3, AddSeatsMoves
  <2>4. CASE \E n \in 1..MaxLockPax : ReleaseSeats(l, n) \/ ConfirmPending(l, n)
    BY <1>1, <2>4, ReleaseSeatsMoves, ConfirmPendingMoves
  <2>5. CASE ReleaseDeparture(l)
    BY <1>1, <2>5, ReleaseDepartureMoves
  <2> QED
    BY <2>1, <2>2, <2>3, <2>4, <2>5 DEF RowStep
<1>5. bulk' = bulk /\ (Made => bulk' \in BulkRecords)
  BY <1>1 DEF BulkInv
<1> QED
  BY <1>4, <1>5, HomesKeepBulk

LEMMA GroupMoves ==
    ASSUME BulkInv, GroupStep PROVE LockMoved /\ BulkInv'
<1>1. CASE \E days \in Weekdays, pax \in 1..MaxLockPax, h \in Holders, c \in Cutoffs, choice \in {"split", "all"} :
              CreateGroup(days, pax, h, c, choice)
  BY <1>1, CreateGroupMoves
<1>2. CASE \E pax \in 1..MaxLockPax, h \in Holders, c \in Cutoffs : AmendGroup(pax, h, c)
  BY <1>2, AmendGroupMoves
<1>3. CASE \E n \in 1..MaxLockPax : AddGroup(n) \/ ReleaseGroup(n) \/ GroupSubGroups(n)
  BY <1>3, AddGroupMoves, ReleaseGroupMoves, GroupSubGroupsMoves
<1>4. CASE Made /\ \E d \in Days, late \in BOOLEAN : ReleaseOverdue(d, late)
  BY <1>4, ReleaseOverdueMoves
<1> QED
  BY <1>1, <1>2, <1>3, <1>4 DEF GroupStep

LEMMA GuestMoves ==
    ASSUME BulkInv, NEW b \in Bookings, GuestStep(b) PROVE BookingMoved(b)
<1>1. PoolInv
  BY DEF BulkInv
<1>2. CASE \E agent \in Agents, trips \in Itineraries : CreateBooking(b, Seen(b), "confirm", agent, trips, FALSE)
  BY <1>1, <1>2, CreateMoves
<1>3. CASE CancelBooking(b)
  BY <1>1, <1>3, CancelMoves
<1>4. CASE RestoreBooking(b, Seen(b))
  BY <1>1, <1>4, RestoreMoves
<1> QED
  BY <1>2, <1>3, <1>4 DEF GuestStep

\* Every step of the bulk locks writes locks as a lock command may, or one booking, or neither.
LEMMA BulkStep ==
    ASSUME BulkInv, [BulkNext]_bulkVars
    PROVE  /\ BulkInv'
           /\ \/ LockMoved
              \/ \E b \in Bookings : BookingMoved(b)
              \/ UNCHANGED <<booking, lock>>
<1>1. CASE GroupStep \/ \E l \in LockIds : RowStep(l)
  BY <1>1, GroupMoves, RowStepMoves
<1>2. ASSUME NEW b \in Bookings, GuestStep(b), UNCHANGED bulk PROVE BulkInv' /\ BookingMoved(b)
  <2>1. BookingMoved(b) /\ PoolInv
    BY <1>2, GuestMoves DEF BulkInv
  <2>2. PoolInv' /\ UNCHANGED lock
    BY <2>1, BookingKeepsSound DEF BookingMoved
  <2> QED
    BY <1>2, <2>1, <2>2 DEF BulkInv, Made
<1>3. CASE UNCHANGED <<booking, lock, deployed, bulk>>
  BY <1>3 DEF BulkInv, Made, PoolInv, IsBookings, IsLocks, Family, IsDeployed, DrawsExist
<1> QED
  BY <1>1, <1>2, <1>3 DEF BulkNext, bulkVars

LEMMA BulkInitIsSound == BulkInit => BulkInv
<1> SUFFICES ASSUME BulkInit PROVE BulkInv
  OBVIOUS
<1>1. PoolInv /\ bulk.rows = {}
  BY InitIsSound DEF BulkInit, NoBulk
<1> QED
  BY <1>1 DEF BulkInv, Made

(* A bulk lock's departures stay top-level locks of its own holder, and    *)
(* the rows of the pool stay sound, whichever commands, on the bulk lock   *)
(* or on one of its rows, are interleaved with bookings.                   *)
THEOREM BulkHolds == BulkSpec => []BulkInv
<1>1. BulkInv /\ [BulkNext]_bulkVars => BulkInv'
  BY BulkStep
<1> QED
  BY BulkInitIsSound, <1>1, PTL DEF BulkSpec

(* Every row of a bulk lock has the bulk lock's holder: departures given   *)
(* back and sub-groups follow a change of holder, and no command on one    *)
(* row changes that row's holder alone (seat-lock-service.ts amendGroup).  *)
THEOREM GroupHasOneHolder == BulkSpec => []OneHolder
<1>1. BulkInv => OneHolder
  BY RowsFacts
<1> QED
  BY <1>1, BulkHolds, PTL

(* Nor do the commands on a bulk lock move a lock away from the bookings   *)
(* that draw on it: a new holder is refused while any row, its sub-groups  *)
(* included, is drawn on.                                                  *)
THEOREM GroupDrawsAreHome == BulkSpec => DrawsStayHome
<1>1. ASSUME BulkInv, [BulkNext]_bulkVars, NEW b \in Bookings
      PROVE  AlienDraws(b)' \subseteq AlienDraws(b) \/ Approved(b) \/ Restored(b)
  <2>1. PoolInv
    BY <1>1 DEF BulkInv
  <2>2. CASE LockMoved
    BY <2>1, <2>2, LockKeepsHome
  <2>3. CASE \E c \in Bookings : BookingMoved(c)
    BY <2>1, <2>3, BookingKeepsHome
  <2>4. CASE UNCHANGED <<booking, lock>>
    BY <2>4 DEF AlienDraws
  <2> QED
    BY <1>1, <2>2, <2>3, <2>4, BulkStep
<1>2. BulkInv /\ [BulkNext]_bulkVars =>
        [\A b \in Bookings : ~(AlienDraws(b)' \subseteq AlienDraws(b)) => Approved(b) \/ Restored(b)]_vars
  BY <1>1
<1> QED
  BY <1>2, BulkHolds, PTL DEF BulkSpec, DrawsStayHome
=============================================================================
