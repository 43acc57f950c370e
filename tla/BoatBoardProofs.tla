--------------------------- MODULE BoatBoardProofs ---------------------------
(***************************************************************************)
(* What the boat board promises for any number of boats, routes, days,     *)
(* bookings and holds: a held boat sails its hold's route, whoever has a   *)
(* boat whole is the only one and keeps it, and a hold takes an unsold     *)
(* boat and keeps it empty.                                                *)
(***************************************************************************)
EXTENDS BoatBoard, TotalsProofs

-----------------------------------------------------------------------------
(* Rows                                                                    *)

Shares == UNION {[S -> Nat] : S \in SUBSET Boats}

BookingRows ==
    [status : Statuses, target : {"quote", "confirmed", NoTarget}, route : Routes, day : Days,
     mode : {"seat", "charter"}, pax : Nat \ {0}, boat : Boats \cup {NoBoat},
     onto : Boats \cup {NoBoat}, split : Shares]

HoldRows ==
    [status : {"active"}, route : Routes, day : Days, boat : Boats, deal : Deals, pax : Minimums]

\* A row the commands leave: only passengers by the seat wait, and a split adds up.
SoundRow(bk) ==
    /\ bk \in BookingRows
    /\ bk.target \in IF bk.status = "pending_approval" THEN {"quote", "confirmed"} ELSE {NoTarget}
    /\ bk.status = "pending_approval" => bk.mode = "seat"
    /\ DOMAIN bk.split # {} => bk.onto = NoBoat /\ Total(bk.split) = bk.pax

\* No day sells a boat past its licence.
OverrideFits(table) ==
    /\ table \in [Days -> [Boats -> Int]]
    /\ \A d \in Days, b \in Boats : table[d][b] \in NoCap..Licence[b]

Held(h) == Active(h) => board[hold[h].day][hold[h].boat] = hold[h].route

BoardInv ==
    /\ retired \subseteq Boats
    /\ board \in [Days -> [Boats -> Routes \cup {Off}]]
    /\ OverrideFits(override)
    /\ hold \in [LockIds -> HoldRows \cup {NoHold}]
    /\ booking \in [Bookings -> BookingRows \cup {NoBooking}]
    /\ \A k \in Bookings : Exists(k) => SoundRow(booking[k])
    /\ \A h \in LockIds : Held(h)
    /\ \A b \in retired : \A d \in Days : board[d][b] = Off

LEMMA RowOf ==
    ASSUME BoardInv, NEW k \in Bookings
    PROVE  /\ Exists(k) => booking[k] \in BookingRows /\ SoundRow(booking[k])
           /\ IsOpen(k) => Exists(k)
           /\ booking[k].status \in Statuses => Exists(k)
  BY DEF BoardInv, Exists, IsOpen, NoBooking, Statuses, Releasing

LEMMA HoldOf ==
    ASSUME BoardInv, NEW h \in LockIds, Active(h)
    PROVE  hold[h] \in HoldRows /\ board[hold[h].day][hold[h].boat] = hold[h].route
  BY DEF BoardInv, Active, NoHold, Held

\* The rows of a bound BookingRows, field by field.
LEMMA Fields ==
    ASSUME NEW bk \in BookingRows
    PROVE  /\ bk.status \in Statuses /\ bk.route \in Routes /\ bk.day \in Days /\ bk.mode \in {"seat", "charter"}
           /\ bk.pax \in Nat /\ bk.pax > 0 /\ bk.boat \in Boats \cup {NoBoat} /\ bk.onto \in Boats \cup {NoBoat}
           /\ DOMAIN bk.split \subseteq Boats /\ IsFiniteSet(DOMAIN bk.split)
           /\ bk.split \in [DOMAIN bk.split -> Nat]
<1>1. PICK S \in SUBSET Boats : bk.split \in [S -> Nat]
  BY DEF BookingRows, Shares
<1>2. IsFiniteSet(S)
  BY BoatAssumption, FS_Subset
<1> QED
  BY <1>1, <1>2 DEF BookingRows

LEMMA NoSplitRow == NoSplit \in Shares /\ DOMAIN NoSplit = {}
<1>1. NoSplit \in [{} -> Nat]
  BY DEF NoSplit
<1> QED
  BY <1>1 DEF Shares, NoSplit

-----------------------------------------------------------------------------
(* A route's day, as it is weighed                                          *)

LEMMA CapacityOpen ==
    ASSUME NEW deps, NEW trips, NEW boatsOf, NEW held, NEW rows, NEW drawn, NEW b
    PROVE  /\ DayCapacity(deps, trips, boatsOf, held, rows, drawn, FALSE).deps = deps
           /\ b \in DayCapacity(deps, trips, boatsOf, held, rows, drawn, FALSE).open <=>
                 /\ b \in DOMAIN deps /\ b \notin held
                 /\ \A x \in DOMAIN trips : trips[x].mode = "charter" => b \notin boatsOf[x]
<1> DEFINE charters == {x \in DOMAIN trips : trips[x].mode = "charter"}
           day == DayCapacity(deps, trips, boatsOf, held, rows, drawn, FALSE)
<1>1. day.deps = deps /\ day.open = DOMAIN deps \ ((held \cup UNION {boatsOf[x] : x \in charters}) \cap DOMAIN deps)
  BY DEF DayCapacity
<1>2. b \in UNION {boatsOf[x] : x \in charters} <=> \E x \in charters : b \in boatsOf[x]
  <2> HIDE DEF charters
  <2> QED
    OBVIOUS
<1> HIDE DEF day
<1> QED
  BY <1>1, <1>2 DEF day

\* Boat b sails route r on day d, and nobody has it whole there but perhaps booking k or hold h.
Free(d, r, b, k, h) ==
    /\ b \in Boats /\ board[d][b] = r
    /\ \A j \in HereOn(d, r) \ {k} : booking[j].mode = "charter" => b \notin CharterBoatsOf(j)
    /\ \A i \in LockIds \ {h} : Active(i) /\ hold[i].day = d /\ hold[i].route = r => hold[i].boat # b

LEMMA DayOpen ==
    ASSUME NEW d, NEW r, NEW k, NEW h, NEW b
    PROVE  /\ b \in Day(d, r, k, h).open <=> Free(d, r, b, k, h)
           /\ Day(d, r, k, h).deps = [x \in Deployed(d, r) |-> DaySeats(d, x)]
<1> DEFINE here == {j \in Bookings \ {k} : HoldsSeats(j) /\ booking[j].day = d /\ booking[j].route = r}
           holding == {i \in LockIds \ {h} : Active(i) /\ hold[i].day = d /\ hold[i].route = r}
           taking == {i \in holding : hold[i].boat \in Deployed(d, r)}
           deps == [x \in Deployed(d, r) |-> DaySeats(d, x)]
           trips == [j \in here |-> Asks(booking[j])]
           boatsOf == [j \in here |-> CharterBoatsOf(j)]
           held == {hold[i].boat : i \in taking}
           charters == {x \in DOMAIN trips : trips[x].mode = "charter"}
           rows == [i \in holding \ taking |-> [parent |-> NoLock, pax |-> hold[i].pax, pending |-> 0,
                                                released |-> 0, status |-> "active", holder |-> Office]]
<1>1. Day(d, r, k, h) = DayCapacity(deps, trips, boatsOf, held, rows, NoDraws, FALSE)
  BY DEF Day
<1>2. /\ Day(d, r, k, h).deps = deps
      /\ b \in Day(d, r, k, h).open <=>
            /\ b \in DOMAIN deps /\ b \notin held
            /\ \A x \in DOMAIN trips : trips[x].mode = "charter" => b \notin boatsOf[x]
  <2> HIDE DEF deps, trips, boatsOf, held, rows
  <2>1. /\ DayCapacity(deps, trips, boatsOf, held, rows, NoDraws, FALSE).deps = deps
        /\ b \in DayCapacity(deps, trips, boatsOf, held, rows, NoDraws, FALSE).open <=>
              /\ b \in DOMAIN deps /\ b \notin held
              /\ \A x \in DOMAIN trips : trips[x].mode = "charter" => b \notin boatsOf[x]
    BY CapacityOpen
  <2> QED
    BY <1>1, <2>1
<1>3. (\A x \in DOMAIN trips : trips[x].mode = "charter" => b \notin boatsOf[x])
         <=> \A j \in here : booking[j].mode = "charter" => b \notin CharterBoatsOf(j)
  BY DEF Asks
<1>4. here = HereOn(d, r) \ {k}
  BY DEF HereOn
<1>5. b \in DOMAIN deps <=> b \in Boats /\ board[d][b] = r
  BY DEF Deployed
<1>6. b \in held <=> \E i \in taking : hold[i].boat = b
  <2> HIDE DEF taking
  <2> QED
    BY Zenon
<1>7. b \in DOMAIN deps => (b \in held <=> \E i \in holding : hold[i].boat = b)
  <2>1. DOMAIN deps = Deployed(d, r)
    OBVIOUS
  <2>2. \A i : i \in taking <=> i \in holding /\ hold[i].boat \in Deployed(d, r)
    OBVIOUS
  <2> HIDE DEF held, holding, taking, deps
  <2> QED
    BY <1>6, <2>1, <2>2
<1> HIDE DEF here, deps, trips, boatsOf, held, rows, taking
<1> QED
  BY <1>2, <1>3, <1>4, <1>5, <1>7 DEF Free, deps

\* A charter of a known boat is weighed against that boat, and never waits.
LEMMA CharterWeighed ==
    ASSUME NEW d, NEW r, NEW k, NEW h, NEW t, NEW anyway, t.mode = "charter", t.boat \in Boats,
           WeighDay(Day(d, r, k, h), Asks(t), Office, anyway) # "refused"
    PROVE  /\ WeighDay(Day(d, r, k, h), Asks(t), Office, anyway) # "over"
           /\ Free(d, r, t.boat, k, h)
<1> DEFINE day == Day(d, r, k, h)
<1>1. Asks(t).mode = "charter" /\ Asks(t).boat = t.boat /\ t.boat # NoBoat
  BY BoatAssumption DEF Asks
<1> HIDE DEF day
<1>2. WeighDay(day, Asks(t), Office, anyway) = WeighCharter(day, Asks(t), anyway)
  BY <1>1 DEF WeighDay
<1>3. WeighCharter(day, Asks(t), anyway) # "refused" => Asks(t).boat \in day.open
  BY <1>1 DEF WeighCharter, BoatCanBeTaken
<1>4. WeighCharter(day, Asks(t), anyway) # "over"
  BY DEF WeighCharter
<1> QED
  BY <1>1, <1>2, <1>3, <1>4, DayOpen DEF day

-----------------------------------------------------------------------------
(* The booking commands, by what they leave                                 *)

\* A charter has its boat whole: it comes back to it, had it, or was given a free one.
Entitled(k, h, bk) ==
    bk.status = "confirmed" /\ bk.mode = "charter" /\ bk.boat \in Boats =>
        \/ booking[k].status \in Releasing \cup {"quote"}
        \/ /\ Exists(k) /\ booking[k].status = "confirmed" /\ booking[k].mode = "charter"
           /\ booking[k].boat = bk.boat /\ booking[k].day = bk.day /\ booking[k].route = bk.route
        \/ Free(bk.day, bk.route, bk.boat, k, h)

\* Passengers are put on a boat: they were on it, it is free, their charter has it, or their charter is split over it.
Boarded(k, h, bk, b) ==
    \/ Exists(k) /\ ~HoldsSeats(k)
    \/ Exists(k) /\ booking[k].day = bk.day /\ PaxOn(booking[k], b) > 0
    \/ Free(bk.day, bk.route, b, k, h) \/ Free(bk.day, bk.route, b, Nobody, h)
    \/ Exists(k) /\ booking[k].mode = "charter" /\ booking[k].day = bk.day /\ booking[k].boat = b
    \/ bk.mode = "charter" /\ b \in DOMAIN bk.split

Moved(k, h, bk) ==
    /\ SoundRow(bk) /\ booking' = [booking EXCEPT ![k] = bk]
    /\ Entitled(k, h, bk)
    /\ bk.status \notin Releasing \cup {"pending_approval"} => \A b \in Boats : PaxOn(bk, b) > 0 => Boarded(k, h, bk, b)

LEMMA SyncedSound ==
    ASSUME NEW bk, SoundRow(bk)
    PROVE  LET s == Synced(bk) IN
           /\ SoundRow(s) /\ s.status = bk.status /\ s.mode = bk.mode /\ s.boat = bk.boat
           /\ s.day = bk.day /\ s.route = bk.route /\ s.split = bk.split /\ s.pax = bk.pax /\ s.target = bk.target
           /\ \/ s.onto = bk.onto
              \/ s.onto = bk.boat /\ bk.mode = "charter" /\ bk.boat # NoBoat /\ DOMAIN bk.split = {}
<1>1. bk \in BookingRows
  BY DEF SoundRow
<1>2. CASE bk.mode = "charter" /\ bk.boat # NoBoat /\ DOMAIN bk.split = {}
  <2>1. Synced(bk) = [bk EXCEPT !.onto = bk.boat]
    BY <1>2 DEF Synced
  <2> QED
    BY <1>1, <1>2, <2>1 DEF SoundRow, BookingRows
<1>3. CASE ~(bk.mode = "charter" /\ bk.boat # NoBoat /\ DOMAIN bk.split = {})
  BY <1>3 DEF Synced
<1> QED
  BY <1>2, <1>3

LEMMA PaxFacts ==
    ASSUME NEW bk \in BookingRows, NEW b \in Boats
    PROVE  /\ PaxOn(bk, b) \in Nat
           /\ PaxOn(bk, b) > 0 => bk.onto = b \/ b \in DOMAIN bk.split
           /\ bk.onto = b => PaxOn(bk, b) > 0
  BY Fields DEF PaxOn

ChoiceOf(t) == t.mode \in {"seat", "charter"} /\ t.pax \in Nat \ {0} /\ t.boat \in Boats \cup {NoBoat}
               /\ ((t.mode = "charter") <=> (t.boat \in Boats))

LEMMA ChoiceFacts == ASSUME NEW t \in TripChoices PROVE ChoiceOf(t)
<1>1. t \in [mode : {"seat", "charter"}, pax : Nat \ {0}, boat : Boats \cup {NoBoat}]
  BY BoardAssumption
<1>2. t.mode = "charter" <=> t.boat \in Boats
  BY BoardAssumption
<1> QED
  BY <1>1, <1>2 DEF ChoiceOf

LEMMA CreateMoves ==
    ASSUME BoardInv, NEW k \in Bookings, NEW r \in Routes, NEW d \in Days, NEW h, NEW t \in TripChoices,
           NEW intent \in {"quote", "confirm"}, NEW anyway, Created(k, Day(d, r, k, h), r, d, t, intent, anyway)
    PROVE  /\ UNCHANGED <<retired, board, override>> /\ ~Exists(k)
           /\ \E bk : /\ Moved(k, h, bk) /\ bk.day = d /\ bk.route = r /\ bk.mode = t.mode /\ bk.boat = t.boat
                      /\ bk.split = NoSplit /\ (bk.mode = "charter" /\ intent = "confirm" => bk.status = "confirmed")
<1> DEFINE weight == WeighDay(Day(d, r, k, h), Asks(t), Office, anyway)
           base == IF intent = "quote" THEN "quote" ELSE "confirmed"
           row == [status |-> IF weight = "over" THEN "pending_approval" ELSE base,
                   target |-> IF weight = "over" THEN base ELSE NoTarget,
                   route |-> r, day |-> d, mode |-> t.mode, pax |-> t.pax, boat |-> t.boat,
                   onto |-> NoBoat, split |-> NoSplit]
           bk == Synced(row)
<1>1. weight # "refused" /\ Write(k, bk) /\ ~Exists(k)
  BY DEF Created
<1>2. ChoiceOf(t)
  BY ChoiceFacts
<1>3. t.mode = "charter" => weight # "over" /\ Free(d, r, t.boat, k, h)
  BY <1>1, <1>2, CharterWeighed DEF ChoiceOf
<1> HIDE DEF weight
<1>4. SoundRow(row)
  BY <1>2, <1>3, NoSplitRow DEF SoundRow, BookingRows, ChoiceOf, Statuses, NoTarget
<1>5. /\ SoundRow(bk) /\ bk.status = row.status /\ bk.mode = t.mode /\ bk.boat = t.boat
      /\ bk.day = d /\ bk.route = r /\ bk.split = NoSplit
      /\ bk.onto = NoBoat \/ (bk.onto = t.boat /\ t.mode = "charter")
  <2> HIDE DEF row
  <2>1. row.mode = t.mode /\ row.boat = t.boat /\ row.day = d /\ row.route = r /\ row.split = NoSplit /\ row.onto = NoBoat
    BY DEF row
  <2> QED
    BY <1>4, <2>1, SyncedSound
<1>6. row.status \in {"pending_approval", base} /\ (weight # "over" => row.status = base)
  OBVIOUS
<1> HIDE DEF bk, row
<1>7. Entitled(k, h, bk)
  BY <1>3, <1>5 DEF Entitled
<1>8. ASSUME NEW b \in Boats, PaxOn(bk, b) > 0 PROVE Boarded(k, h, bk, b)
  <2>1. bk.onto = b
    BY <1>5, <1>8, PaxFacts, NoSplitRow DEF SoundRow
  <2>2. b = t.boat /\ t.mode = "charter"
    BY <1>5, <2>1, BoatAssumption
  <2> QED
    BY <1>3, <1>5, <2>2 DEF Boarded
<1>9. booking' = [booking EXCEPT ![k] = bk] /\ UNCHANGED <<retired, board, override>>
  BY <1>1 DEF Write
<1>10. Moved(k, h, bk)
  BY <1>5, <1>7, <1>8, <1>9 DEF Moved
<1> QED
  BY <1>1, <1>3, <1>5, <1>6, <1>9, <1>10

\* An edit that asks for no more keeps the trip's route, day, mode and boat.
LEMMA NoMoreFacts ==
    ASSUME NEW bk, NEW r, NEW d, NEW t, ~AsksMore(bk, r, d, t)
    PROVE  bk.route = r /\ bk.day = d /\ bk.mode = t.mode /\ bk.boat = t.boat
<1> DEFINE old == [x \in {<<bk.route, bk.day>>} |-> Asks(bk)]
           new == [x \in {<<r, d>>} |-> Asks(t)]
<1>1. <<r, d>> \in DOMAIN new /\ new[<<r, d>>] = Asks(t)
  OBVIOUS
<1>2. DOMAIN old = {<<bk.route, bk.day>>} /\ old[<<bk.route, bk.day>>] = Asks(bk)
  OBVIOUS
<1>3. ~ClaimsMoreSeats(old, new)
  BY DEF AsksMore
<1> HIDE DEF old, new
<1>4. /\ <<r, d>> \in DOMAIN old
      /\ old[<<r, d>>].mode = Asks(t).mode /\ old[<<r, d>>].boat = Asks(t).boat
  BY <1>1, <1>3 DEF ClaimsMoreSeats
<1>5. <<r, d>> = <<bk.route, bk.day>>
  BY <1>2, <1>4
<1> QED
  BY <1>2, <1>4, <1>5 DEF Asks

\* What is left of a dispatch by an edit of its trip.
LEMMA RetrippedFacts ==
    ASSUME NEW bk, SoundRow(bk), NEW r \in Routes, NEW d \in Days, NEW t, ChoiceOf(t)
    PROVE  LET rt == Retripped(bk, r, d, t) IN
           /\ rt \in BookingRows /\ rt.status = bk.status /\ rt.target = bk.target
           /\ rt.route = r /\ rt.day = d /\ rt.mode = t.mode /\ rt.pax = t.pax /\ rt.boat = t.boat
           /\ rt.onto = NoBoat \/ (rt.onto = bk.onto /\ bk.route = r /\ bk.day = d)
           /\ DOMAIN rt.split = {} \/ (rt.split = bk.split /\ bk.route = r /\ bk.day = d /\ bk.pax = t.pax)
           /\ DOMAIN rt.split # {} => rt.onto = NoBoat /\ Total(rt.split) = rt.pax
<1> DEFINE moved == bk.route # r \/ bk.day # d
           onto == IF moved THEN NoBoat ELSE bk.onto
           split == IF moved \/ bk.pax # t.pax THEN NoSplit ELSE bk.split
           row == [status |-> bk.status, target |-> bk.target, route |-> r, day |-> d, mode |-> t.mode,
                   pax |-> t.pax, boat |-> t.boat, onto |-> onto, split |-> split]
<1>1. bk \in BookingRows
  BY DEF SoundRow
<1>2. Retripped(bk, r, d, t) = row
  <2>1. Retripped(bk, r, d, t) =
          [bk EXCEPT !.route = r, !.day = d, !.mode = t.mode, !.pax = t.pax, !.boat = t.boat, !.onto = onto, !.split = split]
    BY DEF Retripped
  <2> HIDE DEF onto, split
  <2> QED
    BY <1>1, <2>1 DEF BookingRows
<1>3. onto \in Boats \cup {NoBoat} /\ split \in Shares
  BY <1>1, NoSplitRow DEF BookingRows
<1>4. row \in BookingRows
  <2> HIDE DEF onto, split
  <2> QED
    BY <1>1, <1>3 DEF BookingRows, ChoiceOf
<1>5. /\ onto = NoBoat \/ (onto = bk.onto /\ bk.route = r /\ bk.day = d)
      /\ DOMAIN split = {} \/ (split = bk.split /\ bk.route = r /\ bk.day = d /\ bk.pax = t.pax)
  BY NoSplitRow
<1>6. DOMAIN split # {} => onto = NoBoat /\ Total(split) = t.pax
  BY NoSplitRow DEF SoundRow
<1> HIDE DEF onto, split, moved
<1> QED
  BY <1>2, <1>4, <1>5, <1>6

LEMMA AmendMoves ==
    ASSUME BoardInv, NEW k \in Bookings, NEW r \in Routes, NEW d \in Days, NEW t \in TripChoices, NEW anyway,
           AmendBooking(k, Day(d, r, k, NoLock), r, d, t, anyway)
    PROVE  UNCHANGED <<retired, board, override, hold>> /\ \E bk : Moved(k, NoLock, bk)
<1> DEFINE was == booking[k]
           rt == Retripped(was, r, d, t)
           next == Synced(rt)
           asked == WeighDay(Day(d, r, k, NoLock), Asks(t), Office, anyway)
           weighed == Waits(k) \/ (HoldsSeats(k) /\ AsksMore(was, r, d, t))
           weight == IF weighed THEN asked ELSE "unweighed"
           going == IF Waits(k) THEN was.target ELSE was.status
           status == IF weight = "over" THEN "pending_approval" ELSE IF weight = "unweighed" THEN was.status ELSE going
           target == IF weight = "over" THEN going ELSE IF weight = "unweighed" THEN was.target ELSE NoTarget
           row == [rt EXCEPT !.status = status, !.target = target]
           bk == Synced(row)
<1>1. /\ Exists(k) /\ weight # "refused"
      /\ Write(k, IF weight = "over" THEN [next EXCEPT !.status = "pending_approval", !.target = going]
                  ELSE IF weight = "unweighed" THEN next
                  ELSE [next EXCEPT !.status = going, !.target = NoTarget])
      /\ UNCHANGED hold
  BY DEF AmendBooking
<1>2. ChoiceOf(t) /\ SoundRow(was) /\ was \in BookingRows
  BY <1>1, ChoiceFacts, RowOf
<1>3. t.mode = "charter" /\ weighed => weight # "over" /\ Free(d, r, t.boat, k, NoLock)
  BY <1>1, <1>2, CharterWeighed DEF ChoiceOf
<1>4. ~weighed => weight = "unweighed"
  OBVIOUS
<1>5. weighed => weight # "unweighed"
  BY DEF WeighDay, WeighCharter, WeighSeats
<1>6. ~weighed => ~Waits(k) /\ (HoldsSeats(k) => was.route = r /\ was.day = d /\ was.mode = t.mode /\ was.boat = t.boat)
  BY NoMoreFacts
<1> HIDE DEF weight, weighed
<1>7. /\ rt \in BookingRows /\ rt.status = was.status /\ rt.target = was.target
      /\ rt.route = r /\ rt.day = d /\ rt.mode = t.mode /\ rt.pax = t.pax /\ rt.boat = t.boat
      /\ rt.onto = NoBoat \/ (rt.onto = was.onto /\ was.route = r /\ was.day = d)
      /\ DOMAIN rt.split = {} \/ (rt.split = was.split /\ was.route = r /\ was.day = d /\ was.pax = t.pax)
      /\ DOMAIN rt.split # {} => rt.onto = NoBoat /\ Total(rt.split) = rt.pax
  BY <1>2, RetrippedFacts
<1> HIDE DEF rt
<1>8. going \in {"quote", "confirmed", "cancelled"} /\ (weighed => going \in {"quote", "confirmed"})
  <2>1. Waits(k) => was.target \in {"quote", "confirmed"}
    BY <1>2 DEF SoundRow, Waits
  <2>2. ~Waits(k) => was.status \in {"quote", "confirmed", "cancelled"}
    BY <1>2, Fields DEF Waits, Statuses, Releasing
  <2>3. weighed /\ ~Waits(k) => HoldsSeats(k)
    BY DEF weighed
  <2>4. HoldsSeats(k) => was.status # "cancelled"
    BY DEF HoldsSeats, IsOpen, Releasing
  <2> QED
    BY <2>1, <2>2, <2>3, <2>4
<1>9. /\ status \in Statuses /\ target \in {"quote", "confirmed", NoTarget}
      /\ target \in IF status = "pending_approval" THEN {"quote", "confirmed"} ELSE {NoTarget}
      /\ status = "pending_approval" => t.mode = "seat"
  <2>1. CASE weighed
    BY <1>2, <1>3, <1>5, <1>8, <2>1 DEF Statuses, Releasing, ChoiceOf, NoTarget
  <2>2. CASE ~weighed
    BY <1>2, <1>4, <1>6, <1>8, <2>2 DEF Statuses, Releasing, NoTarget, SoundRow, Waits, BookingRows
  <2> QED
    BY <2>1, <2>2
<1>10. booking' = [booking EXCEPT ![k] = bk] /\ UNCHANGED <<retired, board, override, hold>>
  <2>1. [next EXCEPT !.status = status, !.target = target] = bk
    <3> HIDE DEF status, target
    <3>1. row.mode = rt.mode /\ row.boat = rt.boat /\ row.split = rt.split
      BY <1>7 DEF BookingRows
    <3>2. CASE rt.mode = "charter" /\ rt.boat # NoBoat /\ DOMAIN rt.split = {}
      <4>1. next = [rt EXCEPT !.onto = rt.boat]
        BY <3>2 DEF Synced
      <4>2. bk = [row EXCEPT !.onto = rt.boat]
        <5> HIDE DEF row
        <5> QED
          BY <3>1, <3>2 DEF Synced
      <4> QED
        BY <1>7, <4>1, <4>2 DEF BookingRows
    <3>3. CASE ~(rt.mode = "charter" /\ rt.boat # NoBoat /\ DOMAIN rt.split = {})
      <4>1. next = rt
        BY <3>3 DEF Synced
      <4>2. bk = row
        <5> HIDE DEF row
        <5> QED
          BY <3>1, <3>3 DEF Synced
      <4> QED
        BY <4>1, <4>2
    <3> QED
      BY <3>2, <3>3
  <2>2. rt.status = was.status /\ rt.target = was.target => [rt EXCEPT !.status = was.status, !.target = was.target] = rt
    BY <1>7 DEF BookingRows
  <2>3. weight = "unweighed" => bk = next
    BY <1>7, <2>2
  <2> HIDE DEF bk, next, going
  <2> QED
    BY <1>1, <2>1, <2>3 DEF Write
<1> HIDE DEF status, target
<1>11. /\ row \in BookingRows /\ row.status = status /\ row.target = target /\ row.mode = t.mode /\ row.boat = t.boat
       /\ row.route = r /\ row.day = d /\ row.pax = t.pax /\ row.onto = rt.onto /\ row.split = rt.split
  BY <1>7, <1>9 DEF BookingRows
<1> HIDE DEF row
<1>12. SoundRow(row)
  BY <1>7, <1>9, <1>11 DEF SoundRow
<1>13. /\ SoundRow(bk) /\ bk.status = status /\ bk.mode = t.mode /\ bk.boat = t.boat
       /\ bk.day = d /\ bk.route = r /\ bk.split = rt.split /\ bk.pax = t.pax
       /\ bk.onto = rt.onto \/ (bk.onto = t.boat /\ t.mode = "charter")
  BY <1>11, <1>12, SyncedSound
<1> HIDE DEF bk
<1>14. Entitled(k, NoLock, bk)
  <2>1. CASE weighed
    BY <1>3, <1>13, <2>1 DEF Entitled
  <2>2. CASE ~weighed /\ status = "confirmed"
    <3>1. was.status = "confirmed" /\ HoldsSeats(k)
      BY <1>4, <1>6, <2>2 DEF status, HoldsSeats, IsOpen, Releasing
    <3> QED
      BY <1>1, <1>6, <1>13, <2>2, <3>1 DEF Entitled
  <2> QED
    BY <1>13, <2>1, <2>2 DEF Entitled
<1>15. ASSUME NEW b \in Boats, PaxOn(bk, b) > 0 PROVE Boarded(k, NoLock, bk, b)
  <2>1. CASE ~HoldsSeats(k)
    BY <1>1, <2>1 DEF Boarded
  <2>2. CASE HoldsSeats(k) /\ b \in DOMAIN bk.split
    <3>1. was.day = d /\ rt.split = was.split /\ was.onto = NoBoat /\ bk.onto = NoBoat
      BY <1>2, <1>7, <1>13, <2>2 DEF SoundRow
    <3>2. PaxOn(was, b) > 0
      BY <1>13, <1>15, <3>1, BoatAssumption DEF PaxOn
    <3> QED
      BY <1>1, <1>13, <3>1, <3>2 DEF Boarded
  <2>3. CASE HoldsSeats(k) /\ b \notin DOMAIN bk.split
    <3>1. bk.onto = b
      BY <1>13, <1>15, <2>3, PaxFacts DEF SoundRow
    <3>2. CASE rt.onto = b
      <4>1. was.onto = b /\ was.day = d
        BY <1>7, <3>2, BoatAssumption
      <4> QED
        BY <1>1, <1>2, <1>13, <4>1, PaxFacts DEF Boarded
    <3>3. CASE b = t.boat /\ t.mode = "charter"
      BY <1>1, <1>3, <1>6, <1>13, <2>3, <3>3 DEF Boarded
    <3> QED
      BY <1>13, <3>1, <3>2, <3>3
  <2> QED
    BY <2>1, <2>2, <2>3
<1>16. Moved(k, NoLock, bk)
  BY <1>10, <1>13, <1>14, <1>15 DEF Moved
<1> QED
  BY <1>10, <1>16

\* A new status for a booking that keeps its trip.
LEMMA StatusMoves ==
    ASSUME BoardInv, NEW k \in Bookings, Exists(k), NEW status, NEW target, NEW bk,
           bk = [booking[k] EXCEPT !.status = status, !.target = target],
           booking' = [booking EXCEPT ![k] = bk],
           status \in Statuses, target \in IF status = "pending_approval" THEN {"quote", "confirmed"} ELSE {NoTarget},
           status = "pending_approval" => booking[k].mode = "seat",
           \/ booking[k].mode = "seat" \/ status # "confirmed"
           \/ booking[k].status \in Releasing \cup {"quote"}
    PROVE  Moved(k, NoLock, bk)
<1>1. booking[k] \in BookingRows /\ SoundRow(booking[k])
  BY RowOf
<1>2. target \in {"quote", "confirmed", NoTarget}
  OBVIOUS
<1>3. /\ bk \in BookingRows /\ bk.status = status /\ bk.target = target
      /\ bk.mode = booking[k].mode /\ bk.pax = booking[k].pax /\ bk.onto = booking[k].onto
      /\ bk.split = booking[k].split /\ bk.day = booking[k].day /\ bk.route = booking[k].route /\ bk.boat = booking[k].boat
  BY <1>1, <1>2 DEF BookingRows
<1>4. SoundRow(bk)
  BY <1>1, <1>3 DEF SoundRow
<1>5. Entitled(k, NoLock, bk)
  BY <1>3 DEF Entitled
<1>6. \A b \in Boats : PaxOn(bk, b) = PaxOn(booking[k], b)
  BY <1>3 DEF PaxOn
<1>7. \A b \in Boats : PaxOn(bk, b) > 0 => Boarded(k, NoLock, bk, b)
  BY <1>3, <1>6 DEF Boarded
<1> QED
  BY <1>4, <1>5, <1>7 DEF Moved

LEMMA CommandMoves ==
    ASSUME BoardInv, NEW k \in Bookings, Cancel(k) \/ Confirm(k) \/ Approve(k)
    PROVE  UNCHANGED <<retired, board, override, hold>> /\ \E bk : Moved(k, NoLock, bk)
<1> DEFINE bk(s) == [booking[k] EXCEPT !.status = s, !.target = NoTarget]
<1>1. Exists(k)
  BY RowOf DEF Cancel, Confirm, Approve, Waits, Exists
<1>2. booking[k] \in BookingRows /\ SoundRow(booking[k])
  BY <1>1, RowOf
<1>3. CASE Cancel(k)
  <2>1. booking' = [booking EXCEPT ![k] = bk("cancelled")] /\ UNCHANGED <<retired, board, override, hold>>
    BY <1>3 DEF Cancel, SetStatus, Write
  <2>2. Moved(k, NoLock, bk("cancelled"))
    BY <1>1, <2>1, StatusMoves DEF Statuses, Releasing
  <2> QED
    BY <2>1, <2>2
<1>4. CASE Confirm(k)
  <2>1. booking' = [booking EXCEPT ![k] = bk("confirmed")] /\ UNCHANGED <<retired, board, override, hold>>
    BY <1>4 DEF Confirm, SetStatus, Write
  <2>2. Moved(k, NoLock, bk("confirmed"))
    BY <1>1, <1>4, <2>1, StatusMoves DEF Confirm, Statuses
  <2> QED
    BY <2>1, <2>2
<1>5. CASE Approve(k)
  <2>1. booking' = [booking EXCEPT ![k] = bk(booking[k].target)] /\ UNCHANGED <<retired, board, override, hold>>
    BY <1>5 DEF Approve, SetStatus, Write
  <2>2. booking[k].target \in {"quote", "confirmed"} /\ booking[k].mode = "seat"
    BY <1>2, <1>5 DEF SoundRow, Approve, Waits
  <2>3. Moved(k, NoLock, bk(booking[k].target))
    BY <1>1, <2>1, <2>2, StatusMoves DEF Statuses
  <2> QED
    BY <2>1, <2>3
<1> QED
  BY <1>3, <1>4, <1>5

LEMMA UnconfirmMoves ==
    ASSUME BoardInv, NEW k \in Bookings, NEW day, Unconfirm(k, day)
    PROVE  UNCHANGED <<retired, board, override, hold>> /\ \E bk : Moved(k, NoLock, bk)
<1> DEFINE was == booking[k]
           weight == IF Waits(k) THEN WeighDay(day, Asks(was), Office, FALSE) ELSE "fits"
           status == IF weight = "over" THEN was.status ELSE "quote"
           target == IF weight = "over" THEN "quote" ELSE NoTarget
           bk == [was EXCEPT !.status = status, !.target = target]
<1>1. /\ was.status \in {"confirmed", "pending_approval"}
      /\ Write(k, IF weight = "over" THEN [was EXCEPT !.target = "quote"]
                  ELSE [was EXCEPT !.status = "quote", !.target = NoTarget])
      /\ UNCHANGED hold
  BY DEF Unconfirm
<1>2. weight = "over" => was.status = "pending_approval"
  BY DEF Waits
<1> HIDE DEF weight
<1>3. Exists(k) /\ was \in BookingRows /\ SoundRow(was)
  BY <1>1, RowOf DEF Exists
<1>4. (IF weight = "over" THEN [was EXCEPT !.target = "quote"]
       ELSE [was EXCEPT !.status = "quote", !.target = NoTarget]) = bk
  BY <1>3 DEF BookingRows
<1>5. booking' = [booking EXCEPT ![k] = bk] /\ UNCHANGED <<retired, board, override, hold>>
  BY <1>1, <1>4 DEF Write
<1>6. /\ status \in Statuses /\ status # "confirmed"
      /\ target \in IF status = "pending_approval" THEN {"quote", "confirmed"} ELSE {NoTarget}
      /\ status = "pending_approval" => was.mode = "seat"
  BY <1>2, <1>3 DEF Statuses, SoundRow
<1> HIDE DEF status, target
<1>7. Moved(k, NoLock, bk)
  BY <1>3, <1>5, <1>6, StatusMoves
<1> QED
  BY <1>5, <1>7

LEMMA RestoreMoves ==
    ASSUME BoardInv, NEW k \in Bookings, NEW day, Restore(k, day)
    PROVE  UNCHANGED <<retired, board, override, hold>> /\ \E bk : Moved(k, NoLock, bk)
<1> DEFINE was == booking[k]
           boat == IF was.mode = "charter" /\ was.boat \in DOMAIN day.deps \ day.open THEN NoBoat ELSE was.boat
           bk == [was EXCEPT !.status = "confirmed", !.boat = boat]
<1>1. was.status = "cancelled" /\ Exists(k)
  BY DEF Restore, Releasing, Exists
<1>2. was \in BookingRows /\ SoundRow(was)
  BY <1>1, RowOf
<1>3. booking' = [booking EXCEPT ![k] = bk] /\ UNCHANGED <<retired, board, override, hold>>
  BY DEF Restore, Write
<1>4. boat \in Boats \cup {NoBoat}
  BY <1>2 DEF BookingRows
<1> HIDE DEF boat
<1>5. /\ bk \in BookingRows /\ bk.status = "confirmed" /\ bk.target = was.target /\ bk.onto = was.onto
      /\ bk.split = was.split /\ bk.pax = was.pax
  BY <1>2, <1>4 DEF BookingRows, Statuses
<1> HIDE DEF bk
<1>6. SoundRow(bk)
  BY <1>1, <1>2, <1>5 DEF SoundRow
<1>7. Entitled(k, NoLock, bk)
  BY <1>1 DEF Entitled, Releasing
<1>8. ~HoldsSeats(k)
  BY <1>1 DEF HoldsSeats, IsOpen, Releasing
<1>9. Moved(k, NoLock, bk)
  BY <1>1, <1>3, <1>6, <1>7, <1>8 DEF Moved, Boarded
<1> QED
  BY <1>3, <1>9

LEMMA PartialMoves ==
    ASSUME BoardInv, NEW k \in Bookings, PartialCancel(k, 1)
    PROVE  UNCHANGED <<retired, board, override, hold>> /\ \E bk : Moved(k, NoLock, bk)
<1> DEFINE was == booking[k]
           row == [was EXCEPT !.pax = was.pax - 1, !.split = NoSplit]
           bk == Synced(row)
<1>1. IsOpen(k) /\ 1 < was.pax /\ Write(k, bk) /\ UNCHANGED hold
  BY DEF PartialCancel
<1>2. Exists(k) /\ was \in BookingRows /\ SoundRow(was)
  BY <1>1, RowOf
<1>3. was.pax - 1 \in Nat \ {0}
  BY <1>1, <1>2 DEF BookingRows
<1>4. /\ row \in BookingRows /\ row.status = was.status /\ row.target = was.target /\ row.mode = was.mode
      /\ row.boat = was.boat /\ row.day = was.day /\ row.route = was.route /\ row.onto = was.onto /\ row.split = NoSplit
  BY <1>2, <1>3, NoSplitRow DEF BookingRows
<1> HIDE DEF row
<1>5. SoundRow(row)
  BY <1>2, <1>4, NoSplitRow DEF SoundRow
<1>6. /\ SoundRow(bk) /\ bk.status = was.status /\ bk.mode = was.mode /\ bk.boat = was.boat
      /\ bk.day = was.day /\ bk.route = was.route /\ bk.split = NoSplit
      /\ bk.onto = was.onto \/ (bk.onto = was.boat /\ was.mode = "charter")
  BY <1>4, <1>5, SyncedSound
<1> HIDE DEF bk
<1>7. Entitled(k, NoLock, bk)
  BY <1>2, <1>6 DEF Entitled
<1>8. ASSUME NEW b \in Boats, PaxOn(bk, b) > 0 PROVE Boarded(k, NoLock, bk, b)
  <2>1. bk.onto = b
    BY <1>6, <1>8, PaxFacts, NoSplitRow DEF SoundRow
  <2>2. was.onto = b => PaxOn(was, b) > 0
    BY <1>2, PaxFacts
  <2> QED
    BY <1>2, <1>6, <2>1, <2>2 DEF Boarded
<1>9. booking' = [booking EXCEPT ![k] = bk] /\ UNCHANGED <<retired, board, override, hold>>
  BY <1>1 DEF Write
<1>10. Moved(k, NoLock, bk)
  BY <1>6, <1>7, <1>8, <1>9 DEF Moved
<1> QED
  BY <1>9, <1>10

LEMMA LoadIsNat ==
    ASSUME BoardInv, NEW d, NEW r, NEW b \in Boats, NEW k
    PROVE  LoadOn(d, r, b, k) \in Nat
<1> DEFINE others == {j \in Bookings \ {k} : IsOpen(j) /\ booking[j].day = d /\ booking[j].route = r}
           table == [j \in others |-> PaxOn(booking[j], b)]
<1>1. IsFiniteSet(others)
  BY BoardAssumption, FS_Subset
<1>2. \A j \in others : PaxOn(booking[j], b) \in Nat
  BY RowOf, PaxFacts
<1>3. DOMAIN table = others /\ \A j \in others : table[j] = PaxOn(booking[j], b)
  OBVIOUS
<1>4. LoadOn(d, r, b, k) = Total(table)
  BY DEF LoadOn
<1> HIDE DEF others, table
<1>5. Total(table) \in Nat
  BY <1>1, <1>2, <1>3, TotalIsNat
<1> QED
  BY <1>4, <1>5

\* Raised seats stay within the licence.
LEMMA RaisedFits ==
    ASSUME OverrideFits(override), NEW d \in Days, NEW load \in [Boats -> Nat], NEW raised
    PROVE  OverrideFits([override EXCEPT ![d] =
               [b \in Boats |-> IF b \in raised THEN Least(Licence[b], load[b]) ELSE override[d][b]]])
<1> DEFINE seats == [b \in Boats |-> IF b \in raised THEN Least(Licence[b], load[b]) ELSE override[d][b]]
           table == [override EXCEPT ![d] = seats]
<1>1. ASSUME NEW b \in Boats PROVE seats[b] \in Int /\ seats[b] \in NoCap..Licence[b]
  <2>1. Licence[b] \in Nat /\ load[b] \in Nat
    BY BoatAssumption
  <2>2. Least(Licence[b], load[b]) \in 0..Licence[b]
    BY <2>1 DEF Least
  <2>3. override[d][b] \in Int /\ override[d][b] \in NoCap..Licence[b]
    BY DEF OverrideFits
  <2> QED
    BY <2>1, <2>2, <2>3 DEF NoCap
<1>2. seats \in [Boats -> Int]
  BY <1>1
<1> HIDE DEF seats
<1>3. table \in [Days -> [Boats -> Int]]
  BY <1>2 DEF OverrideFits
<1>4. ASSUME NEW e \in Days, NEW b \in Boats PROVE table[e][b] \in NoCap..Licence[b]
  <2>1. CASE e = d
    BY <1>1, <2>1 DEF OverrideFits
  <2>2. CASE e # d
    BY <2>2 DEF OverrideFits
  <2> QED
    BY <2>1, <2>2
<1> QED
  BY <1>3, <1>4 DEF OverrideFits, seats

LEMMA AssignMoves ==
    ASSUME BoardInv, NEW k \in Bookings, NEW onto \in Boats \cup {NoBoat}, NEW split \in Splits \cup {NoSplit},
           Assign(k, onto, split)
    PROVE  /\ UNCHANGED <<retired, board, hold>> /\ (OverrideFits(override) => OverrideFits(override'))
           /\ \E bk : Moved(k, NoLock, bk)
<1> DEFINE was == booking[k]
           bk == [was EXCEPT !.onto = onto, !.split = split]
           boats == ({onto} \ {NoBoat}) \cup DOMAIN split
           load == LoadWith(k, bk)
           raised == {b \in boats : Overfull(was.day, b, load[b])}
           open == Day(was.day, was.route, Nobody, NoLock).open
<1>1. /\ IsOpen(k) /\ Dispatchable(was, onto, split)
      /\ was.mode = "charter" => /\ DOMAIN split = {} => onto = was.boat /\ onto # NoBoat
                                 /\ override' = override
      /\ was.mode # "charter" =>
            /\ \A b \in boats : MayCarry(open, was.day, b, load[b])
            /\ override' = [override EXCEPT ![was.day] =
                   [b \in Boats |-> IF b \in raised THEN Least(Licence[b], load[b]) ELSE @[b]]]
      /\ booking' = [booking EXCEPT ![k] = bk]
      /\ UNCHANGED <<retired, board, hold>>
  <2> HIDE DEF load, open
  <2> QED
    BY DEF Assign, load, open
<1>2. Exists(k) /\ was \in BookingRows /\ SoundRow(was)
  BY <1>1, RowOf
<1>3. split \in Shares /\ DOMAIN split \subseteq Boats
  <2>1. CASE split = NoSplit
    BY <2>1, NoSplitRow
  <2>2. CASE split \in Splits
    <3>1. split \in [DOMAIN split -> Nat] /\ DOMAIN split \subseteq Boats
      BY <2>2, BoardAssumption
    <3> QED
      BY <3>1 DEF Shares
  <2> QED
    BY <2>1, <2>2
<1>4. /\ bk \in BookingRows /\ bk.status = was.status /\ bk.target = was.target /\ bk.mode = was.mode
      /\ bk.boat = was.boat /\ bk.day = was.day /\ bk.route = was.route /\ bk.pax = was.pax
      /\ bk.onto = onto /\ bk.split = split
  BY <1>2, <1>3 DEF BookingRows
<1>5. DOMAIN split # {} => onto = NoBoat /\ Total(split) = was.pax
  BY <1>1 DEF Dispatchable
<1> HIDE DEF bk
<1>6. SoundRow(bk)
  BY <1>2, <1>4, <1>5 DEF SoundRow
<1>7. Entitled(k, NoLock, bk)
  BY <1>2, <1>4 DEF Entitled
<1>8. ASSUME NEW b \in Boats, PaxOn(bk, b) > 0 PROVE Boarded(k, NoLock, bk, b)
  <2>1. b = onto \/ b \in DOMAIN split
    BY <1>4, <1>8, PaxFacts
  <2>2. b # NoBoat
    BY BoatAssumption
  <2>3. CASE was.mode = "charter"
    <3>1. DOMAIN split = {} => onto = was.boat
      BY <1>1, <2>3
    <3>2. DOMAIN split # {} => onto = NoBoat
      BY <1>5
    <3>3. b \in DOMAIN split \/ was.boat = b
      BY <2>1, <2>2, <3>1, <3>2
    <3> QED
      BY <1>2, <1>4, <2>3, <3>3 DEF Boarded
  <2>4. CASE was.mode # "charter"
    <3>1. b \in boats
      BY <2>1, <2>2
    <3>2. b \in open
      <4> HIDE DEF boats, open, load
      <4> QED
        BY <1>1, <2>4, <3>1 DEF MayCarry
    <3>3. Free(was.day, was.route, b, Nobody, NoLock)
      BY <3>2, DayOpen
    <3> QED
      BY <1>4, <3>3 DEF Boarded
  <2> QED
    BY <2>3, <2>4
<1>9. Moved(k, NoLock, bk)
  BY <1>1, <1>6, <1>7, <1>8 DEF Moved
<1>10. load \in [Boats -> Nat]
  <2>1. \A b \in Boats : LoadOn(bk.day, bk.route, b, k) + PaxOn(bk, b) \in Nat
    BY <1>4, LoadIsNat, PaxFacts
  <2> QED
    BY <2>1 DEF LoadWith
<1>11. was.day \in Days
  BY <1>2, Fields
<1> HIDE DEF load, raised, open, boats
<1>12. ASSUME OverrideFits(override) PROVE OverrideFits(override')
  <2>1. CASE was.mode = "charter"
    BY <1>1, <1>12, <2>1
  <2>2. CASE was.mode # "charter"
    <3>1. override' = [override EXCEPT ![was.day] =
              [b \in Boats |-> IF b \in raised THEN Least(Licence[b], load[b]) ELSE override[was.day][b]]]
      BY <1>1, <2>2
    <3>2. OverrideFits([override EXCEPT ![was.day] =
              [b \in Boats |-> IF b \in raised THEN Least(Licence[b], load[b]) ELSE override[was.day][b]]])
      BY <1>10, <1>11, <1>12, RaisedFits
    <3> QED
      BY <3>1, <3>2
  <2> QED
    BY <2>1, <2>2
<1> QED
  BY <1>1, <1>9, <1>12

-----------------------------------------------------------------------------
(* What a step does, one way or another                                     *)

Sails(d, b, r) ==
    /\ board' \in [Days -> [Boats -> Routes \cup {Off}]]
    /\ \A e \in Days, c \in Boats : board'[e][c] = IF e = d /\ c = b THEN r ELSE board[e][c]

Writes(h, row) ==
    /\ hold' \in [LockIds -> HoldRows \cup {NoHold}]
    /\ hold'[h] = row /\ \A i \in LockIds \ {h} : hold'[i] = hold[i]

BookingMoves(k, bk) ==
    Moved(k, NoLock, bk) /\ UNCHANGED <<retired, board, hold>> /\ (OverrideFits(override) => OverrideFits(override'))

HoldEnds(h) == Active(h) /\ Writes(h, NoHold) /\ UNCHANGED <<retired, board, override, booking>>

HoldConverts(h, k, bk) ==
    /\ Active(h) /\ ~Exists(k) /\ Moved(k, h, bk)
    /\ bk.mode = "charter" /\ bk.boat = hold[h].boat /\ bk.day = hold[h].day /\ bk.route = hold[h].route
    /\ bk.split = NoSplit /\ bk.status = "confirmed"
    /\ Writes(h, NoHold) /\ UNCHANGED <<retired, board, override>>

\* Active, and after this step of the same boat, day and route.
HoldStays(h, row) ==
    /\ Active(h) /\ row \in HoldRows /\ Writes(h, row)
    /\ row.boat = hold[h].boat /\ row.day = hold[h].day /\ row.route = hold[h].route
    /\ UNCHANGED <<retired, board, override, booking>>

HoldTakes(h, own, row) ==
    /\ row \in HoldRows /\ row.boat \notin retired /\ CanTake(row.day, row.boat, row.route, own)
    /\ \/ own = NoLock /\ hold[h] = NoHold
       \/ own = h /\ Active(h) /\ ~(row.boat = hold[h].boat /\ row.day = hold[h].day /\ row.route = hold[h].route)
    /\ Writes(h, row) /\ Sails(row.day, row.boat, row.route) /\ UNCHANGED <<retired, override, booking>>

BoatSails(d, b, r) ==
    /\ (b \in retired => r = Off) /\ (r # board[d][b] => FreeToLeave(d, b))
    /\ Sails(d, b, r) /\ UNCHANGED <<retired, override, hold, booking>>

SeatsChange ==
    (OverrideFits(override) => OverrideFits(override')) /\ UNCHANGED <<retired, board, hold, booking>>

CatalogueChanges ==
    /\ retired' \subseteq Boats /\ \A b \in retired' : b \in retired \/ \A d \in Days : board[d][b] = Off
    /\ UNCHANGED <<board, override, hold, booking>>

LEMMA BoardWritten ==
    ASSUME BoardInv, NEW d \in Days, NEW b \in Boats, NEW r \in Routes \cup {Off}, board' = [board EXCEPT ![d][b] = r]
    PROVE  Sails(d, b, r)
  BY DEF BoardInv, Sails

LEMMA HoldWritten ==
    ASSUME BoardInv, NEW h \in LockIds, NEW row \in HoldRows \cup {NoHold}, hold' = [hold EXCEPT ![h] = row]
    PROVE  Writes(h, row)
  BY DEF BoardInv, Writes

LEMMA SameRow ==
    ASSUME NEW x \in HoldRows, NEW y \in HoldRows, x.route = y.route, x.day = y.day, x.boat = y.boat,
           x.deal = y.deal, x.pax = y.pax
    PROVE  x = y
<1>1. x.status = y.status
  BY DEF HoldRows
<1> QED
  BY <1>1 DEF HoldRows

LEMMA BookingCases ==
    ASSUME BoardInv, NEW k \in Bookings, BookingStep(k)
    PROVE  \E bk : BookingMoves(k, bk)
<1> SUFFICES /\ UNCHANGED <<retired, board, hold>> /\ (OverrideFits(override) => OverrideFits(override'))
             /\ \E bk : Moved(k, NoLock, bk)
  BY DEF BookingMoves
<1>1. ASSUME NEW r \in Routes, NEW d \in Days, NEW t \in TripChoices, NEW anyway, NEW intent \in {"quote", "confirm"},
             CreateBooking(k, Day(d, r, k, NoLock), r, d, t, intent, anyway)
      PROVE  UNCHANGED <<retired, board, override, hold>> /\ \E bk : Moved(k, NoLock, bk)
  <2>1. Created(k, Day(d, r, k, NoLock), r, d, t, intent, anyway) /\ UNCHANGED hold
    BY <1>1 DEF CreateBooking
  <2> QED
    BY <2>1, CreateMoves
<1>2. ASSUME NEW r \in Routes, NEW d \in Days, NEW t \in TripChoices, NEW anyway,
             AmendBooking(k, Day(d, r, k, NoLock), r, d, t, anyway)
      PROVE  UNCHANGED <<retired, board, override, hold>> /\ \E bk : Moved(k, NoLock, bk)
  BY <1>2, AmendMoves
<1>3. ASSUME NEW onto \in Boats \cup {NoBoat}, NEW split \in Splits \cup {NoSplit}, Assign(k, onto, split)
      PROVE  /\ UNCHANGED <<retired, board, hold>> /\ (OverrideFits(override) => OverrideFits(override'))
             /\ \E bk : Moved(k, NoLock, bk)
  BY <1>3, AssignMoves
<1>4. \/ \E r \in Routes, d \in Days, t \in TripChoices : \E anyway : \E intent \in {"quote", "confirm"} :
             CreateBooking(k, Day(d, r, k, NoLock), r, d, t, intent, anyway)
      \/ \E r \in Routes, d \in Days, t \in TripChoices : \E anyway : AmendBooking(k, Day(d, r, k, NoLock), r, d, t, anyway)
      \/ \E day : Unconfirm(k, day) \/ Restore(k, day)
      \/ Cancel(k) \/ Confirm(k) \/ Approve(k) \/ PartialCancel(k, 1)
      \/ \E onto \in Boats \cup {NoBoat} : \E split \in Splits \cup {NoSplit} : Assign(k, onto, split)
  BY Zenon DEF BookingStep
<1>5. UNCHANGED override => (OverrideFits(override) => OverrideFits(override'))
  OBVIOUS
<1> QED
  BY <1>1, <1>2, <1>3, <1>4, <1>5, UnconfirmMoves, RestoreMoves, CommandMoves, PartialMoves

LEMMA HoldCases ==
    ASSUME BoardInv, NEW h \in LockIds, HoldStep(h)
    PROVE  \/ HoldEnds(h)
           \/ \E k \in Bookings : \E bk : HoldConverts(h, k, bk)
           \/ \E row : HoldStays(h, row) \/ \E own : HoldTakes(h, own, row)
<1> DEFINE row(r, d, b, deal, pax) == [status |-> "active", route |-> r, day |-> d, boat |-> b, deal |-> deal, pax |-> pax]
<1>1. ASSUME NEW r \in Routes, NEW d \in Days, NEW b \in Boats, NEW deal \in Deals, NEW pax \in Minimums,
             CreateHold(h, r, d, b, deal, pax)
      PROVE  HoldTakes(h, NoLock, row(r, d, b, deal, pax))
  <2>1. row(r, d, b, deal, pax) \in HoldRows
    BY DEF HoldRows
  <2>2. board' = [board EXCEPT ![d][b] = r] /\ hold' = [hold EXCEPT ![h] = row(r, d, b, deal, pax)]
    BY <1>1 DEF CreateHold, Place
  <2>3. Sails(d, b, r) /\ Writes(h, row(r, d, b, deal, pax))
    BY <2>1, <2>2, BoardWritten, HoldWritten
  <2> QED
    BY <1>1, <2>1, <2>3 DEF CreateHold, HoldTakes
<1>2. ASSUME NEW r \in Routes, NEW d \in Days, NEW b \in Boats, NEW deal \in Deals, NEW pax \in Minimums,
             AmendHold(h, r, d, b, deal, pax)
      PROVE  HoldStays(h, row(r, d, b, deal, pax)) \/ HoldTakes(h, h, row(r, d, b, deal, pax))
  <2> DEFINE moved == b # hold[h].boat \/ d # hold[h].day \/ r # hold[h].route
  <2>1. row(r, d, b, deal, pax) \in HoldRows
    BY DEF HoldRows
  <2>2. Active(h) /\ hold[h] \in HoldRows
    BY <1>2, HoldOf DEF AmendHold
  <2>3. hold' = [hold EXCEPT ![h] = [hold[h] EXCEPT !.route = r, !.day = d, !.boat = b, !.deal = deal, !.pax = pax]]
    BY <1>2 DEF AmendHold
  <2>4. [hold[h] EXCEPT !.route = r, !.day = d, !.boat = b, !.deal = deal, !.pax = pax] = row(r, d, b, deal, pax)
    <3> DEFINE new == [hold[h] EXCEPT !.route = r, !.day = d, !.boat = b, !.deal = deal, !.pax = pax]
    <3>1. new \in HoldRows /\ new.route = r /\ new.day = d /\ new.boat = b /\ new.deal = deal /\ new.pax = pax
      BY <2>2 DEF HoldRows
    <3>2. row(r, d, b, deal, pax) = new
      <4> HIDE DEF new
      <4>1. row(r, d, b, deal, pax).route = r /\ row(r, d, b, deal, pax).day = d /\ row(r, d, b, deal, pax).boat = b
            /\ row(r, d, b, deal, pax).deal = deal /\ row(r, d, b, deal, pax).pax = pax
        OBVIOUS
      <4> HIDE DEF row
      <4> QED
        BY <2>1, <3>1, <4>1, SameRow
    <3> QED
      BY <3>2
  <2>5. Writes(h, row(r, d, b, deal, pax))
    <3>1. hold' = [hold EXCEPT ![h] = row(r, d, b, deal, pax)]
      BY <2>3, <2>4
    <3> HIDE DEF row
    <3> QED
      BY <2>1, <3>1, HoldWritten
  <2>6. CASE moved
    <3>1. board' = [board EXCEPT ![d][b] = r]
      BY <1>2, <2>6 DEF AmendHold, Place
    <3>2. Sails(d, b, r)
      BY <3>1, BoardWritten
    <3> QED
      BY <1>2, <2>1, <2>2, <2>5, <2>6, <3>2 DEF AmendHold, HoldTakes
  <2>7. CASE ~moved
    BY <1>2, <2>1, <2>2, <2>5, <2>7 DEF AmendHold, HoldStays
  <2> QED
    BY <2>6, <2>7
<1>3. ASSUME ReleaseHold(h) PROVE HoldEnds(h)
  <2>1. Writes(h, NoHold)
    BY <1>3, HoldWritten DEF ReleaseHold
  <2> QED
    BY <1>3, <2>1 DEF ReleaseHold, HoldEnds
<1>4. ASSUME NEW k \in Bookings, NEW t \in TripChoices, NEW anyway, ConvertHold(h, k, t, anyway)
      PROVE  \E bk : HoldConverts(h, k, bk)
  <2>1. /\ Active(h) /\ t.mode = "charter" /\ t.boat = hold[h].boat
        /\ Created(k, Day(hold[h].day, hold[h].route, k, h), hold[h].route, hold[h].day, t, "confirm", anyway)
        /\ hold' = [hold EXCEPT ![h] = NoHold]
    BY <1>4 DEF ConvertHold
  <2>2. hold[h].route \in Routes /\ hold[h].day \in Days
    BY <2>1, HoldOf DEF HoldRows
  <2>3. Writes(h, NoHold)
    BY <2>1, HoldWritten
  <2>4. /\ UNCHANGED <<retired, board, override>> /\ ~Exists(k)
        /\ \E bk : /\ Moved(k, h, bk) /\ bk.day = hold[h].day /\ bk.route = hold[h].route /\ bk.mode = t.mode
                   /\ bk.boat = t.boat /\ bk.split = NoSplit /\ (bk.mode = "charter" => bk.status = "confirmed")
    BY <2>1, <2>2, CreateMoves
  <2> QED
    BY <2>1, <2>3, <2>4 DEF HoldConverts
<1> HIDE DEF row
<1>5. \/ \E r \in Routes, d \in Days, b \in Boats, deal \in Deals, pax \in Minimums :
             CreateHold(h, r, d, b, deal, pax) \/ AmendHold(h, r, d, b, deal, pax)
      \/ ReleaseHold(h)
      \/ \E k \in Bookings, t \in TripChoices : \E anyway : ConvertHold(h, k, t, anyway)
  BY DEF HoldStep
<1> QED
  BY <1>1, <1>2, <1>3, <1>4, <1>5

LEMMA BoatCases ==
    ASSUME BoardInv, NEW b \in Boats, BoatStep(b)
    PROVE  \/ \E d \in Days, r \in Routes \cup {Off} : BoatSails(d, b, r)
           \/ SeatsChange \/ CatalogueChanges
<1>1. ASSUME NEW d \in Days, NEW r \in Routes, Deploy(d, b, r) PROVE BoatSails(d, b, r)
  <2>1. Sails(d, b, r)
    BY <1>1, BoardWritten DEF Deploy
  <2> QED
    BY <1>1, <2>1 DEF Deploy, BoatSails
<1>2. ASSUME NEW d \in Days, Undeploy(d, b) PROVE BoatSails(d, b, Off)
  <2>1. Sails(d, b, Off)
    BY <1>2, BoardWritten DEF Undeploy
  <2> QED
    BY <1>2, <2>1 DEF Undeploy, BoatSails
<1>3. ASSUME NEW d \in Days, NEW c \in NoCap..Licence[b], override' = [override EXCEPT ![d][b] = c],
             UNCHANGED <<retired, board, hold, booking>>
      PROVE  SeatsChange
  <2>1. ASSUME OverrideFits(override) PROVE OverrideFits(override')
    <3>1. override' \in [Days -> [Boats -> Int]]
      BY <1>3, <2>1 DEF OverrideFits
    <3>2. \A e \in Days, x \in Boats : override'[e][x] \in NoCap..Licence[x]
      BY <1>3, <2>1 DEF OverrideFits
    <3> QED
      BY <3>1, <3>2 DEF OverrideFits
  <2> QED
    BY <1>3, <2>1 DEF SeatsChange
<1>4. NoCap \in NoCap..Licence[b] /\ \A c \in DaySeatChoices : c <= Licence[b] => c \in NoCap..Licence[b]
  <2>1. Licence[b] \in Nat /\ DaySeatChoices \subseteq Nat
    BY BoatAssumption, BoardAssumption
  <2> QED
    BY <2>1 DEF NoCap
<1>5. ASSUME NEW d \in Days, NEW c \in DaySeatChoices, SetDaySeats(d, b, c) PROVE SeatsChange
  <2> DEFINE seats == IF c = Capacity[b] THEN NoCap ELSE c
  <2>1. /\ c <= Licence[b] /\ override' = [override EXCEPT ![d][b] = seats]
        /\ UNCHANGED <<retired, board, hold, booking>>
    BY <1>5 DEF SetDaySeats
  <2>2. seats \in NoCap..Licence[b]
    BY <1>4, <2>1
  <2> HIDE DEF seats
  <2> QED
    BY <1>3, <2>1, <2>2
<1>6. ASSUME NEW d \in Days, ClearDaySeats(d, b) PROVE SeatsChange
  BY <1>3, <1>4, <1>6 DEF ClearDaySeats
<1>7. ASSUME RetireBoat(b) \/ RestoreBoat(b) PROVE CatalogueChanges
  BY <1>7 DEF RetireBoat, RestoreBoat, CatalogueChanges, BoardInv
<1> QED
  BY <1>1, <1>2, <1>5, <1>6, <1>7 DEF BoatStep

LEMMA StepCases ==
    ASSUME BoardInv, Next
    PROVE  \/ \E k \in Bookings : \E bk : BookingMoves(k, bk)
           \/ \E h \in LockIds : \/ HoldEnds(h)
                                 \/ \E k \in Bookings : \E bk : HoldConverts(h, k, bk)
                                 \/ \E row : HoldStays(h, row) \/ \E own : HoldTakes(h, own, row)
           \/ \E d \in Days, b \in Boats, r \in Routes \cup {Off} : BoatSails(d, b, r)
           \/ SeatsChange \/ CatalogueChanges
  BY BookingCases, HoldCases, BoatCases DEF Next

LEMMA MovedRows ==
    ASSUME BoardInv, NEW k \in Bookings, NEW h, NEW bk, Moved(k, h, bk)
    PROVE  /\ booking' \in [Bookings -> BookingRows \cup {NoBooking}]
           /\ booking'[k] = bk /\ bk \in BookingRows
           /\ \A j \in Bookings \ {k} : booking'[j] = booking[j]
  BY DEF BoardInv, Moved, SoundRow

\* The invariant, part by part: the boards, the holds, the bookings.
BoardsFit ==
    /\ retired \subseteq Boats
    /\ board \in [Days -> [Boats -> Routes \cup {Off}]]
    /\ OverrideFits(override)
    /\ \A b \in retired : \A d \in Days : board[d][b] = Off

HoldsFit ==
    /\ hold \in [LockIds -> HoldRows \cup {NoHold}]
    /\ \A h \in LockIds : Held(h)

BookingsFit ==
    /\ booking \in [Bookings -> BookingRows \cup {NoBooking}]
    /\ \A k \in Bookings : Exists(k) => SoundRow(booking[k])

LEMMA InvParts == BoardInv <=> BoardsFit /\ HoldsFit /\ BookingsFit
  BY DEF BoardInv, BoardsFit, HoldsFit, BookingsFit

LEMMA MovedFits ==
    ASSUME BoardInv, NEW k \in Bookings, NEW h, NEW bk, Moved(k, h, bk)
    PROVE  BookingsFit'
<1>1. SoundRow(bk)
  BY DEF Moved
<1>2. ASSUME NEW j \in Bookings, Exists(j)' PROVE SoundRow(booking'[j])
  <2>1. CASE j = k
    BY <1>1, <2>1, MovedRows
  <2>2. CASE j # k
    <3>1. booking'[j] = booking[j]
      BY <2>2, MovedRows
    <3>2. Exists(j)
      BY <1>2, <3>1 DEF Exists
    <3> QED
      BY <3>1, <3>2 DEF BoardInv
  <2> QED
    BY <2>1, <2>2
<1>3. \A j \in Bookings : Exists(j)' => SoundRow(booking'[j])
  BY <1>2
<1> QED
  BY <1>3, MovedRows DEF BookingsFit, SoundRow

LEMMA EndedFits ==
    ASSUME BoardInv, NEW h \in LockIds, Writes(h, NoHold), UNCHANGED board
    PROVE  HoldsFit'
<1>1. ASSUME NEW i \in LockIds, Active(i)' PROVE board'[hold'[i].day][hold'[i].boat] = hold'[i].route
  <2>1. i # h
    BY <1>1 DEF Writes, Active, NoHold
  <2>2. hold'[i] = hold[i] /\ Active(i)
    BY <1>1, <2>1 DEF Writes, Active
  <2> QED
    BY <2>2, HoldOf
<1> QED
  BY <1>1 DEF HoldsFit, Writes, Held

LEMMA BoardInvStep == BoardInv /\ [Next]_vars => BoardInv'
<1> SUFFICES ASSUME BoardInv, [Next]_vars PROVE BoardInv'
  OBVIOUS
<1>1. BoardsFit /\ HoldsFit /\ BookingsFit
  BY InvParts
<1>2. UNCHANGED <<retired, board, override>> => BoardsFit'
  BY <1>1 DEF BoardsFit, OverrideFits
<1>3. UNCHANGED <<board, hold>> => HoldsFit'
  BY <1>1 DEF HoldsFit, Held, Active
<1>4. UNCHANGED booking => BookingsFit'
  BY <1>1 DEF BookingsFit, Exists
<1>5. ASSUME NEW k \in Bookings, NEW bk, BookingMoves(k, bk) PROVE BoardInv'
  <2>1. BoardsFit'
    BY <1>1, <1>5 DEF BookingMoves, BoardsFit
  <2> QED
    BY <1>3, <1>5, <2>1, MovedFits, InvParts DEF BookingMoves, BoardInv, BoardsFit, HoldsFit, BookingsFit
<1>6. ASSUME NEW h \in LockIds, HoldEnds(h) PROVE BoardsFit' /\ HoldsFit' /\ BookingsFit'
  BY <1>2, <1>4, <1>6, EndedFits DEF HoldEnds
<1>7. ASSUME NEW h \in LockIds, NEW k \in Bookings, NEW bk, HoldConverts(h, k, bk) PROVE BoardsFit' /\ HoldsFit' /\ BookingsFit'
  BY <1>2, <1>7, EndedFits, MovedFits DEF HoldConverts
<1>8. ASSUME NEW h \in LockIds, NEW row, HoldStays(h, row) PROVE BoardsFit' /\ HoldsFit' /\ BookingsFit'
  <2>1. ASSUME NEW i \in LockIds, Active(i)' PROVE board'[hold'[i].day][hold'[i].boat] = hold'[i].route
    <3>1. Active(i) /\ hold'[i].day = hold[i].day /\ hold'[i].boat = hold[i].boat /\ hold'[i].route = hold[i].route
      BY <1>8, <2>1 DEF HoldStays, Writes, Active
    <3>2. board' = board
      BY <1>8 DEF HoldStays
    <3> QED
      BY <3>1, <3>2, HoldOf
  <2>2. HoldsFit'
    BY <1>8, <2>1 DEF HoldsFit, HoldStays, Writes, Held
  <2> QED
    BY <1>2, <1>4, <1>8, <2>2 DEF HoldStays
<1>9. ASSUME NEW h \in LockIds, NEW own, NEW row, HoldTakes(h, own, row) PROVE BoardsFit' /\ HoldsFit' /\ BookingsFit'
  <2>1. /\ row \in HoldRows /\ Writes(h, row) /\ Sails(row.day, row.boat, row.route) /\ row.boat \notin retired
        /\ CanTake(row.day, row.boat, row.route, own) /\ (own = NoLock \/ own = h)
        /\ UNCHANGED <<retired, override, booking>>
    BY <1>9 DEF HoldTakes
  <2>2. row.day \in Days /\ row.boat \in Boats /\ row.route \in Routes
    BY <2>1 DEF HoldRows
  <2>3. BoardsFit'
    <3>1. \A b \in retired : \A d \in Days : board'[d][b] = Off
      BY <1>1, <2>1, <2>2 DEF BoardsFit, Sails
    <3> QED
      BY <1>1, <2>1, <3>1 DEF BoardsFit, Sails
  <2>4. ASSUME NEW i \in LockIds, Active(i)' PROVE board'[hold'[i].day][hold'[i].boat] = hold'[i].route
    <3>1. CASE i = h
      BY <2>1, <2>2, <3>1 DEF Writes, Sails
    <3>2. CASE i # h
      <4>1. hold'[i] = hold[i] /\ Active(i) /\ hold[i].day \in Days /\ hold[i].boat \in Boats
        BY <2>1, <2>4, <3>2, HoldOf DEF Writes, Active, HoldRows
      <4>2. ActiveOn(row.day, row.boat) \subseteq {own}
        BY <2>1 DEF CanTake
      <4>3. i # own
        BY <2>1, <3>2, LockAssumption
      <4>4. ~(hold[i].day = row.day /\ hold[i].boat = row.boat)
        BY <4>1, <4>2, <4>3 DEF ActiveOn
      <4> QED
        BY <2>1, <4>1, <4>4, HoldOf DEF Sails
    <3> QED
      BY <3>1, <3>2
  <2>5. HoldsFit'
    BY <2>1, <2>4 DEF HoldsFit, Writes, Held
  <2> QED
    BY <1>4, <2>1, <2>3, <2>5
<1>10. ASSUME NEW d \in Days, NEW b \in Boats, NEW r \in Routes \cup {Off}, BoatSails(d, b, r)
       PROVE  BoardsFit' /\ HoldsFit' /\ BookingsFit'
  <2>1. /\ (b \in retired => r = Off) /\ (r # board[d][b] => FreeToLeave(d, b))
        /\ Sails(d, b, r) /\ UNCHANGED <<retired, override, hold, booking>>
    BY <1>10 DEF BoatSails
  <2>2. BoardsFit'
    <3>1. \A c \in retired : \A e \in Days : board'[e][c] = Off
      BY <1>1, <2>1 DEF BoardsFit, Sails
    <3> QED
      BY <1>1, <2>1, <3>1 DEF BoardsFit, Sails
  <2>3. ASSUME NEW i \in LockIds, Active(i) PROVE board'[hold[i].day][hold[i].boat] = hold[i].route
    <3>1. hold[i].day \in Days /\ hold[i].boat \in Boats /\ hold[i].route \in Routes
      BY <2>3, HoldOf DEF HoldRows
    <3>2. CASE hold[i].day = d /\ hold[i].boat = b
      <4>1. board[d][b] = hold[i].route /\ board[d][b] # Off
        BY <2>3, <3>1, <3>2, HoldOf, BoardAssumption
      <4>2. i \in ActiveOn(d, b)
        BY <2>3, <3>2 DEF ActiveOn
      <4>3. ~FreeToLeave(d, b)
        BY <4>1, <4>2 DEF FreeToLeave
      <4> QED
        BY <2>1, <3>2, <4>1, <4>3 DEF Sails
    <3>3. CASE ~(hold[i].day = d /\ hold[i].boat = b)
      BY <2>1, <2>3, <3>1, <3>3, HoldOf DEF Sails
    <3> QED
      BY <3>2, <3>3
  <2>4. HoldsFit'
    BY <1>1, <2>1, <2>3 DEF HoldsFit, Held, Active
  <2> QED
    BY <1>4, <2>1, <2>2, <2>4
<1>11. ASSUME SeatsChange PROVE BoardsFit' /\ HoldsFit' /\ BookingsFit'
  BY <1>1, <1>3, <1>4, <1>11 DEF SeatsChange, BoardsFit
<1>12. ASSUME CatalogueChanges PROVE BoardsFit' /\ HoldsFit' /\ BookingsFit'
  <2>1. \A b \in retired' : \A d \in Days : board'[d][b] = Off
    BY <1>1, <1>12 DEF CatalogueChanges, BoardsFit
  <2>2. BoardsFit'
    BY <1>1, <1>12, <2>1 DEF CatalogueChanges, BoardsFit
  <2> QED
    BY <1>3, <1>4, <1>12, <2>2 DEF CatalogueChanges
<1>13. ASSUME BoardsFit' /\ HoldsFit' /\ BookingsFit' PROVE BoardInv'
  BY <1>13 DEF BoardInv, BoardsFit, HoldsFit, BookingsFit
<1>14. CASE Next
  BY <1>5, <1>6, <1>7, <1>8, <1>9, <1>10, <1>11, <1>12, <1>13, <1>14, StepCases
<1>15. CASE UNCHANGED vars
  BY <1>2, <1>3, <1>4, <1>13, <1>15 DEF vars
<1> QED
  BY <1>14, <1>15

LEMMA BoardInvInit == Init => BoardInv
<1> SUFFICES ASSUME Init PROVE BoardInv
  OBVIOUS
<1>1. BoardsFit
  <2>1. \A b \in Boats : NoCap \in NoCap..Licence[b]
    BY BoatAssumption DEF NoCap
  <2> QED
    BY <2>1 DEF Init, BoardsFit, OverrideFits, NoCap
<1>2. HoldsFit
  BY DEF Init, HoldsFit, Held, Active, NoHold
<1>3. BookingsFit
  BY DEF Init, BookingsFit, Exists, NoBooking
<1> QED
  BY <1>1, <1>2, <1>3, InvParts

\* Every row of the boards, the holds and the bookings is one the tables can hold, and every hold's boat sails its route.
THEOREM BoardTypes == Spec => []BoardInv
  BY BoardInvInit, BoardInvStep, PTL DEF Spec

LEMMA BoardInvPromises == BoardInv => BoardKeepsPromises
<1> SUFFICES ASSUME BoardInv PROVE BoardKeepsPromises
  OBVIOUS
<1>1. BoardsFit /\ HoldsFit /\ BookingsFit
  BY InvParts
<1>2. \A h \in LockIds : hold[h].status \in {"absent", "active"}
  BY <1>1 DEF HoldsFit, HoldRows, NoHold
<1>3. ASSUME NEW k \in Bookings, Exists(k)
      PROVE  /\ booking[k].status \in Statuses
             /\ booking[k].target \in IF Waits(k) THEN {"quote", "confirmed"} ELSE {NoTarget}
             /\ booking[k].pax > 0
             /\ DOMAIN booking[k].split # {} => booking[k].onto = NoBoat /\ Total(booking[k].split) = booking[k].pax
  <2>1. SoundRow(booking[k]) /\ booking[k] \in BookingRows
    BY <1>3, RowOf
  <2> QED
    BY <2>1, Fields DEF SoundRow, Waits
<1>4. TypeOK
  BY <1>1, <1>2, <1>3 DEF TypeOK, BoardsFit, OverrideFits
<1> QED
  BY <1>1, <1>4 DEF BoardKeepsPromises, BoardsFit, HoldsFit, Held

\* The boat board keeps its promises: a boat held whole sails the hold's route that day (the
\* deployment guards and place), a retired boat sails on no day, a split adds up.
THEOREM PromisesAreKept == Spec => []BoardKeepsPromises
  BY BoardTypes, BoardInvPromises, PTL

-----------------------------------------------------------------------------
(* Who has a boat whole                                                     *)

Claim(bk, d, b) == bk.status = "confirmed" /\ bk.mode = "charter" /\ bk.day = d /\ bk.boat = b

LEMMA ClaimsAre ==
    ASSUME BoardInv, NEW k \in Bookings, NEW d, NEW b
    PROVE  Claims(k, d, b) <=> Claim(booking[k], d, b)
<1>1. booking[k].status \in Statuses \cup {"absent"}
  BY DEF BoardInv, BookingRows, NoBooking
<1> QED
  BY <1>1 DEF Claims, Claim, HoldsSeats, IsOpen, Waits, Statuses, Releasing

LEMMA ClaimsAfter ==
    ASSUME BoardInv', NEW k \in Bookings, NEW d, NEW b
    PROVE  Claims(k, d, b)' <=> Claim(booking'[k], d, b)
<1>1. booking'[k].status \in Statuses \cup {"absent"}
  BY DEF BoardInv, BookingRows, NoBooking
<1> QED
  BY <1>1 DEF Claims, Claim, HoldsSeats, IsOpen, Waits, Statuses, Releasing

\* A claim after a move of its booking was there before, came back, or is of a free boat.
LEMMA MovedClaim ==
    ASSUME BoardInv, BoardInv', NEW k \in Bookings, NEW h, NEW bk, Moved(k, h, bk),
           NEW j \in Bookings, NEW d, NEW b \in Boats, Claims(j, d, b)'
    PROVE  /\ booking'[j].day = d
           /\ \/ Claims(j, d, b) /\ booking'[j].route = booking[j].route
              \/ ComesBack(j)
              \/ j = k /\ Free(d, booking'[j].route, b, k, h)
<1>1. Claim(booking'[j], d, b)
  BY ClaimsAfter
<1>2. CASE j # k
  BY <1>1, <1>2, ClaimsAre, MovedRows DEF Claim
<1>3. CASE j = k
  <2>1. booking'[j] = bk
    BY <1>3, MovedRows
  <2>2. \/ booking[k].status \in Releasing \cup {"quote"}
        \/ /\ booking[k].status = "confirmed" /\ booking[k].mode = "charter"
           /\ booking[k].boat = b /\ booking[k].day = d /\ booking[k].route = bk.route
        \/ Free(d, bk.route, b, k, h)
    BY <1>1, <2>1 DEF Moved, Entitled, Claim
  <2> QED
    BY <1>1, <1>3, <2>1, <2>2, ClaimsAre DEF Claim, ComesBack
<1> QED
  BY <1>2, <1>3

\* Where the boats stay and no claim is new, nobody comes adrift.
LEMMA AdriftStays ==
    ASSUME BoardInv, BoardInv', UNCHANGED <<board, booking>>, NEW k \in Bookings, Adrift(k)'
    PROVE  Adrift(k)
<1>1. PICK b \in Boats : Claims(k, booking[k].day, b)' /\ board[booking[k].day][b] # booking[k].route
  BY DEF Adrift, AdriftFrom
<1>2. Claims(k, booking[k].day, b)
  BY <1>1, ClaimsAfter, ClaimsAre
<1> QED
  BY <1>1, <1>2 DEF Adrift, AdriftFrom

LEMMA AdriftMoved ==
    ASSUME BoardInv, BoardInv', NEW k \in Bookings, NEW h, NEW bk, Moved(k, h, bk), UNCHANGED board,
           NEW j \in Bookings, Adrift(j)'
    PROVE  Adrift(j) \/ ComesBack(j)
<1>1. PICK b \in Boats : Claims(j, booking[j].day, b)' /\ board'[booking'[j].day][b] # booking'[j].route
  BY DEF Adrift, AdriftFrom
<1>2. \/ Claims(j, booking'[j].day, b) /\ booking'[j].route = booking[j].route
      \/ ComesBack(j)
      \/ j = k /\ Free(booking'[j].day, booking'[j].route, b, k, h)
  BY <1>1, MovedClaim
<1>3. CASE Claims(j, booking'[j].day, b) /\ booking'[j].route = booking[j].route
  BY <1>1, <1>3 DEF Adrift, AdriftFrom, Claims
<1> QED
  BY <1>1, <1>2, <1>3 DEF Free

\* A boat put on a route leaves no charter behind, where none claims it, or none there.
LEMMA AdriftSailed ==
    ASSUME BoardInv, BoardInv', NEW d \in Days, NEW b \in Boats, NEW r \in Routes \cup {Off}, Sails(d, b, r), UNCHANGED booking,
           r # board[d][b] =>
              \A j \in Bookings : Claim(booking[j], d, b) => booking[j].route # board[d][b],
           NEW k \in Bookings, Adrift(k)'
    PROVE  Adrift(k)
<1>1. PICK c \in Boats : Claims(k, booking[k].day, c)' /\ board'[booking[k].day][c] # booking[k].route
  BY DEF Adrift, AdriftFrom
<1>2. Claim(booking[k], booking[k].day, c) /\ Claims(k, booking[k].day, c)
  BY <1>1, ClaimsAfter, ClaimsAre
<1>3. booking[k].day \in Days
  BY <1>2 DEF BoardInv, BookingRows, NoBooking, Claim
<1>4. board[booking[k].day][c] # booking[k].route
  <2>1. CASE booking[k].day = d /\ c = b
    BY <1>1, <1>2, <1>3, <2>1 DEF Sails
  <2>2. CASE ~(booking[k].day = d /\ c = b)
    BY <1>1, <1>3, <2>2 DEF Sails
  <2> QED
    BY <2>1, <2>2
<1> QED
  BY <1>2, <1>4 DEF Adrift, AdriftFrom

LEMMA TakesFreeOfClaims ==
    ASSUME BoardInv, NEW d, NEW b, NEW r, NEW own, CanTake(d, b, r, own), NEW j \in Bookings
    PROVE  ~Claim(booking[j], d, b)
<1>1. ~\E k \in {i \in Bookings : HoldsSeats(i) /\ booking[i].day = d} : booking[k].mode = "charter" /\ booking[k].boat = b
  BY DEF CanTake
<1>2. Claim(booking[j], d, b) => HoldsSeats(j)
  BY DEF Claim, HoldsSeats, IsOpen, Waits, Releasing
<1> QED
  BY <1>1, <1>2 DEF Claim

LEMMA LeavesNobodyAdrift ==
    ASSUME BoardInv, NEW d \in Days, NEW b \in Boats, FreeToLeave(d, b), NEW j \in Bookings, Claim(booking[j], d, b)
    PROVE  booking[j].route # board[d][b]
<1>1. booking[j] \in BookingRows
  BY DEF Claim, BoardInv, NoBooking
<1>2. booking[j].route \in Routes /\ IsOpen(j) /\ booking[j].status # "quote"
  BY <1>1 DEF BookingRows, Claim, IsOpen, Releasing
<1>3. CASE board[d][b] = Off
  BY <1>2, <1>3, BoardAssumption
<1>4. CASE board[d][b] # Off
  <2>1. ~ClaimedOn(d, board[d][b], b)
    BY <1>4 DEF FreeToLeave
  <2> QED
    BY <1>2, <2>1 DEF ClaimedOn, Claim
<1> QED
  BY <1>3, <1>4

LEMMA ClaimKept == ASSUME BoardInv, BoardInv', Next PROVE ClaimKeepsBoat
<1> SUFFICES ASSUME NEW j \in Bookings, Exists(j), Adrift(j)' PROVE Adrift(j) \/ ComesBack(j)
  BY DEF ClaimKeepsBoat
<1>1. ASSUME NEW k \in Bookings, NEW bk, BookingMoves(k, bk) PROVE Adrift(j) \/ ComesBack(j)
  BY <1>1, AdriftMoved DEF BookingMoves
<1>2. ASSUME NEW h \in LockIds, HoldEnds(h) PROVE Adrift(j)
  BY <1>2, AdriftStays DEF HoldEnds
<1>3. ASSUME NEW h \in LockIds, NEW k \in Bookings, NEW bk, HoldConverts(h, k, bk) PROVE Adrift(j) \/ ComesBack(j)
  BY <1>3, AdriftMoved DEF HoldConverts
<1>4. ASSUME NEW h \in LockIds, NEW row, HoldStays(h, row) PROVE Adrift(j)
  BY <1>4, AdriftStays DEF HoldStays
<1>5. ASSUME NEW h \in LockIds, NEW own, NEW row, HoldTakes(h, own, row) PROVE Adrift(j)
  <2>1. row.day \in Days /\ row.boat \in Boats /\ row.route \in Routes
    BY <1>5 DEF HoldTakes, HoldRows
  <2>2. \A i \in Bookings : ~Claim(booking[i], row.day, row.boat)
    BY <1>5, TakesFreeOfClaims DEF HoldTakes
  <2> QED
    BY <1>5, <2>1, <2>2, AdriftSailed DEF HoldTakes
<1>6. ASSUME NEW d \in Days, NEW b \in Boats, NEW r \in Routes \cup {Off}, BoatSails(d, b, r) PROVE Adrift(j)
  <2>1. Sails(d, b, r) /\ UNCHANGED booking /\ (r # board[d][b] => FreeToLeave(d, b))
    BY <1>6 DEF BoatSails
  <2>2. r # board[d][b] => \A i \in Bookings : Claim(booking[i], d, b) => booking[i].route # board[d][b]
    BY <2>1, LeavesNobodyAdrift
  <2> QED
    BY <2>1, <2>2, AdriftSailed
<1>7. ASSUME SeatsChange \/ CatalogueChanges PROVE Adrift(j)
  BY <1>7, AdriftStays DEF SeatsChange, CatalogueChanges
<1> QED
  BY <1>1, <1>2, <1>3, <1>4, <1>5, <1>6, <1>7, StepCases

-----------------------------------------------------------------------------
(* One boat, one day, one claimant                                          *)

LEMMA ClaimantsFinite == \A d, b : IsFiniteSet(Claimants(d, b)) /\ Cardinality(Claimants(d, b)) \in Nat
<1> TAKE d, b
<1>1. IsFiniteSet({k \in Bookings : Claims(k, d, b)}) /\ IsFiniteSet(ActiveOn(d, b))
  BY BoardAssumption, LockAssumption, FS_Subset DEF ActiveOn
<1> QED
  BY <1>1, FS_Union, FS_CardinalityType DEF Claimants

LEMMA FewerClaimants ==
    ASSUME NEW old, NEW new, IsFiniteSet(old), new \subseteq old \/ \E x : new \subseteq {x}
    PROVE  ~(Cardinality(new) > 1 /\ Cardinality(new) > Cardinality(old))
<1>1. Cardinality(old) \in Nat
  BY FS_CardinalityType
<1>2. CASE new \subseteq old
  <2>1. Cardinality(new) \in Nat /\ Cardinality(new) <= Cardinality(old)
    BY <1>2, FS_Subset, FS_CardinalityType
  <2> QED
    BY <1>1, <2>1
<1>3. ASSUME NEW x, new \subseteq {x} PROVE ~(Cardinality(new) > 1 /\ Cardinality(new) > Cardinality(old))
  <2>1. IsFiniteSet({x}) /\ Cardinality({x}) = 1
    BY FS_Singleton
  <2>2. Cardinality(new) \in Nat /\ Cardinality(new) <= 1
    BY <1>3, <2>1, FS_Subset, FS_CardinalityType
  <2> QED
    BY <1>1, <2>2
<1> QED
  BY <1>2, <1>3

\* Nobody comes back to the boat, nor is adrift from it.
NobodyStrays(d, b) == \A k \in Bookings : ~(ComesBack(k) /\ Claims(k, d, b)') /\ ~AdriftFrom(k, d, b)

LEMMA ClaimsInPlace ==
    ASSUME BoardInv, NEW j \in Bookings, NEW d, NEW b \in Boats, ~AdriftFrom(j, d, b), Claim(booking[j], d, b)
    PROVE  j \in HereOn(d, board[d][b]) /\ booking[j].mode = "charter" /\ b \in CharterBoatsOf(j)
<1>1. Exists(j) /\ HoldsSeats(j) /\ Claims(j, d, b)
  BY ClaimsAre DEF Claim, Exists, HoldsSeats, IsOpen, Waits, Releasing
<1>2. board[d][b] = booking[j].route
  BY <1>1 DEF AdriftFrom, Claims
<1> QED
  BY <1>1, <1>2 DEF Claim, HereOn, CharterBoatsOf

\* Whoever is given a free boat has it alone.
LEMMA FreeIsAlone ==
    ASSUME BoardInv, NEW d, NEW b \in Boats, NEW r, NEW k, NEW h, Free(d, r, b, k, h)
    PROVE  /\ \A j \in Bookings \ {k} : ~AdriftFrom(j, d, b) => ~Claim(booking[j], d, b)
           /\ \A i \in ActiveOn(d, b) : i = h
<1>1. ASSUME NEW j \in Bookings \ {k}, ~AdriftFrom(j, d, b), Claim(booking[j], d, b) PROVE FALSE
  <2>1. j \in HereOn(d, r) /\ booking[j].mode = "charter" /\ b \in CharterBoatsOf(j)
    BY <1>1, ClaimsInPlace DEF Free
  <2> QED
    BY <2>1, <1>1 DEF Free
<1>2. ASSUME NEW i \in ActiveOn(d, b), i # h PROVE FALSE
  <2>1. i \in LockIds /\ Active(i) /\ hold[i].day = d /\ hold[i].boat = b
    BY DEF ActiveOn
  <2>2. hold[i].route = r
    BY <2>1, HoldOf DEF Free
  <2> QED
    BY <1>2, <2>1, <2>2 DEF Free
<1> QED
  BY <1>1, <1>2

LEMMA MovedClaimants ==
    ASSUME BoardInv, BoardInv', NEW k \in Bookings, NEW h, NEW bk, Moved(k, h, bk),
           \A i \in LockIds : Active(i)' => i # h /\ hold'[i] = hold[i],
           NEW d \in Days, NEW b \in Boats, NobodyStrays(d, b)
    PROVE  Claimants(d, b)' \subseteq Claimants(d, b) \/ \E x : Claimants(d, b)' \subseteq {x}
<1>1. \A i \in ActiveOn(d, b)' : i # h /\ i \in ActiveOn(d, b)
  BY DEF ActiveOn, Active
<1>2. \A j \in Bookings : Claims(j, d, b)' =>
         \/ Claims(j, d, b)
         \/ j = k /\ Free(d, booking'[j].route, b, k, h)
  BY MovedClaim DEF NobodyStrays
<1>3. CASE \E r : Free(d, r, b, k, h)
  <2>1. \A j \in Bookings : Claims(j, d, b)' => j = k
    <3> SUFFICES ASSUME NEW j \in Bookings, Claims(j, d, b)', j # k PROVE FALSE
      OBVIOUS
    <3>1. Claim(booking[j], d, b)
      BY <1>2, ClaimsAre
    <3>2. ~AdriftFrom(j, d, b) /\ j \in Bookings \ {k}
      BY DEF NobodyStrays
    <3> QED
      BY <1>3, <3>1, <3>2, FreeIsAlone
  <2>2. ActiveOn(d, b)' = {}
    BY <1>1, <1>3, FreeIsAlone
  <2>3. Claimants(d, b)' \subseteq {k}
    BY <2>1, <2>2 DEF Claimants
  <2> QED
    BY <2>3
<1>4. CASE ~\E r : Free(d, r, b, k, h)
  BY <1>1, <1>2, <1>4 DEF Claimants
<1> QED
  BY <1>3, <1>4

LEMMA SameClaims ==
    ASSUME BoardInv, BoardInv', UNCHANGED booking, NEW d, NEW b, ActiveOn(d, b)' \subseteq ActiveOn(d, b)
    PROVE  Claimants(d, b)' \subseteq Claimants(d, b)
<1>1. \A k \in Bookings : Claims(k, d, b)' => Claims(k, d, b)
  BY ClaimsAfter, ClaimsAre
<1> QED
  BY <1>1 DEF Claimants

LEMMA TakenClaimants ==
    ASSUME BoardInv, BoardInv', NEW h \in LockIds, NEW own, NEW row, HoldTakes(h, own, row), NEW d \in Days, NEW b \in Boats
    PROVE  Claimants(d, b)' \subseteq Claimants(d, b) \/ Claimants(d, b)' \subseteq {h}
<1>1. /\ CanTake(row.day, row.boat, row.route, own) /\ (own = NoLock \/ own = h)
      /\ Writes(h, row) /\ UNCHANGED booking
  BY DEF HoldTakes
<1>2. \A i \in ActiveOn(d, b)' : (i = h /\ d = row.day /\ b = row.boat) \/ (i # h /\ i \in ActiveOn(d, b))
  BY <1>1 DEF ActiveOn, Active, Writes
<1>3. CASE d = row.day /\ b = row.boat
  <2>1. ActiveOn(d, b) \subseteq {own}
    BY <1>1, <1>3 DEF CanTake
  <2>2. \A i \in ActiveOn(d, b)' : i = h
    BY <1>1, <1>2, <2>1, LockAssumption DEF ActiveOn
  <2>3. \A j \in Bookings : ~Claims(j, d, b)'
    BY <1>1, <1>3, TakesFreeOfClaims, ClaimsAfter
  <2> QED
    BY <2>2, <2>3 DEF Claimants
<1>4. CASE ~(d = row.day /\ b = row.boat)
  BY <1>1, <1>2, <1>4, SameClaims
<1> QED
  BY <1>3, <1>4

LEMMA NewClaimants ==
    ASSUME BoardInv, BoardInv', Next, NEW d \in Days, NEW b \in Boats, NobodyStrays(d, b)
    PROVE  Claimants(d, b)' \subseteq Claimants(d, b) \/ \E x : Claimants(d, b)' \subseteq {x}
<1>1. ASSUME NEW k \in Bookings, NEW bk, BookingMoves(k, bk)
      PROVE  Claimants(d, b)' \subseteq Claimants(d, b) \/ \E x : Claimants(d, b)' \subseteq {x}
  BY <1>1, MovedClaimants, LockAssumption DEF BookingMoves
<1>2. ASSUME NEW h \in LockIds, Writes(h, NoHold) PROVE \A i \in LockIds : Active(i)' => i # h /\ hold'[i] = hold[i]
  BY <1>2 DEF Writes, Active, NoHold
<1>3. ASSUME NEW h \in LockIds, HoldEnds(h) PROVE Claimants(d, b)' \subseteq Claimants(d, b)
  <2>1. ActiveOn(d, b)' \subseteq ActiveOn(d, b)
    BY <1>2, <1>3 DEF HoldEnds, ActiveOn, Active
  <2> QED
    BY <1>3, <2>1, SameClaims DEF HoldEnds
<1>4. ASSUME NEW h \in LockIds, NEW k \in Bookings, NEW bk, HoldConverts(h, k, bk)
      PROVE  Claimants(d, b)' \subseteq Claimants(d, b) \/ \E x : Claimants(d, b)' \subseteq {x}
  BY <1>2, <1>4, MovedClaimants DEF HoldConverts
<1>5. ASSUME NEW h \in LockIds, NEW row, HoldStays(h, row) PROVE Claimants(d, b)' \subseteq Claimants(d, b)
  <2>1. \A i \in ActiveOn(d, b)' : i \in ActiveOn(d, b)
    <3> TAKE i \in ActiveOn(d, b)'
    <3>1. i \in LockIds /\ hold'[i].status = "active" /\ hold'[i].day = d /\ hold'[i].boat = b
      BY DEF ActiveOn, Active
    <3>2. hold[i].status = "active" /\ hold[i].day = d /\ hold[i].boat = b
      BY <1>5, <3>1 DEF HoldStays, Writes, Active
    <3> QED
      BY <3>1, <3>2 DEF ActiveOn, Active
  <2> QED
    BY <1>5, <2>1, SameClaims DEF HoldStays
<1>6. ASSUME NEW h \in LockIds, NEW own, NEW row, HoldTakes(h, own, row)
      PROVE  Claimants(d, b)' \subseteq Claimants(d, b) \/ \E x : Claimants(d, b)' \subseteq {x}
  BY <1>6, TakenClaimants
<1>7. ASSUME UNCHANGED <<hold, booking>> PROVE Claimants(d, b)' \subseteq Claimants(d, b)
  BY <1>7, SameClaims DEF ActiveOn, Active
<1> QED
  BY <1>1, <1>3, <1>4, <1>5, <1>6, <1>7, StepCases DEF BoatSails, SeatsChange, CatalogueChanges

LEMMA OneClaimantKept == ASSUME BoardInv, BoardInv', Next PROVE OneClaimant
<1> SUFFICES ASSUME NEW d \in Days, NEW b \in Boats, NobodyStrays(d, b)
             PROVE  ~(Cardinality(Claimants(d, b)') > 1 /\ Cardinality(Claimants(d, b)') > Cardinality(Claimants(d, b)))
  BY DEF OneClaimant, NobodyStrays
<1> DEFINE old == Claimants(d, b)
           new == Claimants(d, b)'
<1>1. new \subseteq old \/ \E x : new \subseteq {x}
  BY NewClaimants
<1>2. IsFiniteSet(old)
  BY ClaimantsFinite
<1> HIDE DEF old, new
<1>3. ~(Cardinality(new) > 1 /\ Cardinality(new) > Cardinality(old))
  BY <1>1, <1>2, FewerClaimants
<1> QED
  BY <1>3 DEF old, new

\* Who has a boat whole on a day keeps it and is the only one: a charter that claims a boat never
\* loses it to another route, and a boat gets no second claimant, but by a charter that comes back
\* (restored, or a quote confirmed) or one adrift already.
THEOREM ClaimedOnce == Spec => BoatsAreClaimedOnce
<1>1. BoardInv /\ BoardInv' /\ [Next]_vars => [ClaimKeepsBoat /\ OneClaimant]_vars
  BY ClaimKept, OneClaimantKept
<1> QED
  BY <1>1, BoardTypes, PTL DEF Spec, BoatsAreClaimedOnce

-----------------------------------------------------------------------------
(* A held boat stays empty                                                  *)

LEMMA MovedAboard ==
    ASSUME BoardInv, NEW k \in Bookings, NEW h, NEW bk, Moved(k, h, bk), UNCHANGED board,
           NEW i \in LockIds, i # h, hold'[i] = hold[i], NEW j \in Aboard(i)' \ Aboard(i)
    PROVE  \/ Exists(j) /\ (~HoldsSeats(j) \/ HasItToo(j, i))
           \/ booking'[j].mode = "charter" /\ hold'[i].boat \in DOMAIN booking'[j].split
<1> DEFINE b == hold[i].boat
<1>1. /\ j \in Bookings /\ Active(i) /\ HoldsSeats(j)'
      /\ booking'[j].day = hold[i].day /\ PaxOn(booking'[j], b) > 0
  BY DEF Aboard, Active
<1>2. hold[i] \in HoldRows /\ board[hold[i].day][b] = hold[i].route /\ b \in Boats
  BY <1>1, HoldOf DEF HoldRows
<1>3. HoldsSeats(j) /\ booking[j].day = hold[i].day => ~(PaxOn(booking[j], b) > 0)
  BY <1>1 DEF Aboard
<1>4. j = k /\ booking'[j] = bk
  <2>1. CASE j # k
    <3>1. booking'[j] = booking[j]
      BY <1>1, <2>1, MovedRows
    <3>2. HoldsSeats(j)
      BY <1>1, <3>1 DEF HoldsSeats, IsOpen, Waits
    <3> QED
      BY <1>1, <1>3, <3>1, <3>2
  <2> QED
    BY <2>1, MovedRows
<1>5. bk.status \notin Releasing \cup {"pending_approval"}
  BY <1>1, <1>4 DEF HoldsSeats, IsOpen, Waits
<1>6. Boarded(k, h, bk, b)
  BY <1>1, <1>2, <1>4, <1>5 DEF Moved
<1>7. ASSUME NEW x, Free(bk.day, bk.route, b, x, h) PROVE FALSE
  BY <1>1, <1>2, <1>4, <1>7 DEF Free
<1>8. \/ Exists(k) /\ ~HoldsSeats(k)
      \/ Exists(k) /\ booking[k].mode = "charter" /\ booking[k].day = bk.day /\ booking[k].boat = b
      \/ bk.mode = "charter" /\ b \in DOMAIN bk.split
  BY <1>1, <1>3, <1>4, <1>6, <1>7 DEF Boarded
<1> QED
  BY <1>1, <1>4, <1>8 DEF HasItToo

\* Where no booking moves, passengers come aboard a hold only if the hold comes to them.
LEMMA SameAboard ==
    ASSUME UNCHANGED booking, NEW i \in LockIds,
           Active(i)' => Active(i) /\ hold'[i].day = hold[i].day /\ hold'[i].boat = hold[i].boat
    PROVE  Aboard(i)' \ Aboard(i) = {}
<1>1. ASSUME NEW k \in Aboard(i)' PROVE k \in Aboard(i)
  <2>1. k \in Bookings /\ Active(i)' /\ HoldsSeats(k)' /\ booking[k].day = hold'[i].day /\ PaxOn(booking[k], hold'[i].boat) > 0
    BY DEF Aboard
  <2>2. HoldsSeats(k)
    BY <2>1 DEF HoldsSeats, IsOpen, Waits
  <2> QED
    BY <2>1, <2>2 DEF Aboard
<1> QED
  BY <1>1

LEMMA HeldStaysEmpty == ASSUME BoardInv, Next PROVE HeldBoatStaysEmpty
<1> DEFINE Allowed(j, i) == \/ Exists(j) /\ (~HoldsSeats(j) \/ HasItToo(j, i))
                            \/ booking'[j].mode = "charter" /\ hold'[i].boat \in DOMAIN booking'[j].split
<1> SUFFICES ASSUME NEW i \in LockIds, NEW j \in Aboard(i)' \ Aboard(i) PROVE Allowed(j, i)
  BY DEF HeldBoatStaysEmpty
<1>1. Active(i)'
  BY DEF Aboard
<1>2. \A h \in LockIds : Writes(h, NoHold) => i # h /\ hold'[i] = hold[i]
  BY <1>1 DEF Writes, Active, NoHold
<1>3. ASSUME NEW k \in Bookings, NEW bk, BookingMoves(k, bk) PROVE Allowed(j, i)
  <2>1. i # NoLock /\ hold'[i] = hold[i]
    BY <1>3, LockAssumption DEF BookingMoves
  <2> QED
    BY <1>3, <2>1, MovedAboard DEF BookingMoves
<1>4. ASSUME NEW h \in LockIds, NEW k \in Bookings, NEW bk, HoldConverts(h, k, bk) PROVE Allowed(j, i)
  BY <1>2, <1>4, MovedAboard DEF HoldConverts
<1>5. ASSUME NEW h \in LockIds, HoldEnds(h) PROVE FALSE
  BY <1>2, <1>5, SameAboard DEF HoldEnds, Active
<1>6. ASSUME NEW h \in LockIds, NEW row, HoldStays(h, row) PROVE FALSE
  <2>1. Active(i) /\ hold'[i].day = hold[i].day /\ hold'[i].boat = hold[i].boat /\ UNCHANGED booking
    BY <1>1, <1>6 DEF HoldStays, Writes, Active
  <2> QED
    BY <2>1, SameAboard
<1>7. ASSUME NEW h \in LockIds, NEW own, NEW row, HoldTakes(h, own, row) PROVE FALSE
  <2>1. Writes(h, row) /\ UNCHANGED booking /\ CanTake(row.day, row.boat, row.route, own)
    BY <1>7 DEF HoldTakes
  <2>2. CASE i = h
    <3>1. /\ j \in Bookings /\ HoldsSeats(j)' /\ booking[j].day = row.day /\ PaxOn(booking[j], row.boat) > 0
      BY <2>1, <2>2 DEF Aboard, Writes
    <3>2. j \in {k \in Bookings : HoldsSeats(k) /\ booking[k].day = row.day}
      BY <2>1, <3>1 DEF HoldsSeats, IsOpen, Waits
    <3>3. PaxOn(booking[j], row.boat) = 0
      BY <2>1, <3>2 DEF CanTake
    <3> QED
      BY <3>1, <3>3
  <2>3. CASE i # h
    <3>1. hold'[i] = hold[i] /\ Active(i)
      BY <1>1, <2>1, <2>3 DEF Writes, Active
    <3> QED
      BY <2>1, <3>1, SameAboard
  <2> QED
    BY <2>2, <2>3
<1>8. ASSUME UNCHANGED <<hold, booking>> PROVE FALSE
  BY <1>1, <1>8, SameAboard DEF Active
<1> QED
  BY <1>3, <1>4, <1>5, <1>6, <1>7, <1>8, StepCases DEF BoatSails, SeatsChange, CatalogueChanges

-----------------------------------------------------------------------------
(* A hold strands nobody                                                    *)

LEMMA SeatsOfBoat ==
    ASSUME BoardInv, NEW d \in Days, NEW b \in Boats
    PROVE  Sellable(b, DaySeats(d, b)) \in Nat
<1>1. Licence[b] \in Nat /\ Capacity[b] \in Nat
  BY BoatAssumption, BoardAssumption
<1>2. override[d][b] \in Int /\ override[d][b] >= NoCap
  BY <1>1 DEF BoardInv, OverrideFits, NoCap
<1>3. DaySeats(d, b) \in Nat
  BY <1>1, <1>2 DEF DaySeats, NoCap
<1> QED
  BY <1>1, <1>3 DEF Sellable, Least

LEMMA RoomTable ==
    ASSUME BoardInv, NEW d \in Days, NEW S \in SUBSET Boats
    PROVE  IsTable([b \in S |-> Sellable(b, DaySeats(d, b))]) /\ RoomOn(d, S) \in Nat
<1> DEFINE f == [b \in S |-> Sellable(b, DaySeats(d, b))]
<1>1. IsFiniteSet(S)
  BY BoatAssumption, FS_Subset
<1>2. IsTable(f)
  BY <1>1, SeatsOfBoat DEF IsTable
<1> HIDE DEF f
<1>3. Total(f) \in Nat
  BY <1>2, TableTotal
<1> QED
  BY <1>2, <1>3 DEF f, RoomOn

LEMMA RoomGrows ==
    ASSUME BoardInv, NEW d \in Days, NEW S \in SUBSET Boats, NEW T \in SUBSET S
    PROVE  RoomOn(d, T) <= RoomOn(d, S)
<1> DEFINE f == [b \in S |-> Sellable(b, DaySeats(d, b))]
<1>1. IsTable(f) /\ T \in SUBSET DOMAIN f
  BY RoomTable
<1>2. [b \in T |-> f[b]] = [b \in T |-> Sellable(b, DaySeats(d, b))]
  OBVIOUS
<1> HIDE DEF f
<1>3. Total([b \in T |-> f[b]]) <= Total(f)
  BY <1>1, TotalPart
<1> QED
  BY <1>2, <1>3 DEF f, RoomOn

LEMMA RoomWithout ==
    ASSUME BoardInv, NEW d \in Days, NEW S \in SUBSET Boats, NEW b \in S
    PROVE  RoomOn(d, S) = RoomOn(d, S \ {b}) + Sellable(b, DaySeats(d, b))
<1> DEFINE f == [c \in S |-> Sellable(c, DaySeats(d, c))]
<1>1. IsTable(f) /\ DOMAIN f = S /\ f[b] = Sellable(b, DaySeats(d, b))
  BY RoomTable
<1>2. [c \in S \ {b} |-> f[c]] = [c \in S \ {b} |-> Sellable(c, DaySeats(d, c))]
  OBVIOUS
<1> HIDE DEF f
<1>3. Total(f) = Total([c \in S \ {b} |-> f[c]]) + f[b]
  BY <1>1, TotalSplit
<1> QED
  BY <1>1, <1>2, <1>3 DEF f, RoomOn

LEMMA PaxTable ==
    ASSUME BoardInv, NEW d, NEW r, NEW S \in SUBSET HereOn(d, r)
    PROVE  IsTable([k \in S |-> booking[k].pax]) /\ PaxOf(S) \in Nat
<1> DEFINE f == [k \in S |-> booking[k].pax]
<1>1. IsFiniteSet(S)
  BY BoardAssumption, FS_Subset DEF HereOn
<1>2. \A k \in S : booking[k].pax \in Nat
  BY RowOf, Fields DEF HereOn, HoldsSeats
<1>3. IsTable(f)
  BY <1>1, <1>2 DEF IsTable
<1> HIDE DEF f
<1>4. Total(f) \in Nat
  BY <1>3, TableTotal
<1> QED
  BY <1>3, <1>4 DEF f, PaxOf

\* Nobody is left standing for want of a boat that was there: the same people, and the boats that were left.
LEMMA NoWorse ==
    ASSUME BoardInv, UNCHANGED override, NEW d \in Days, NEW r,
           Standing(d, r)' = Standing(d, r), \A k \in Standing(d, r) : booking'[k].pax = booking[k].pax,
           Left(d, r)' \subseteq Boats, Left(d, r) \subseteq Left(d, r)'
    PROVE  Unseated(d, r)' <= Unseated(d, r)
<1>1. PaxOf(Standing(d, r))' = PaxOf(Standing(d, r))
  BY DEF PaxOf
<1>2. PaxOf(Standing(d, r)) \in Nat
  BY PaxTable DEF Standing, Charters
<1> DEFINE after == Left(d, r)'
<1>3. RoomOn(d, Left(d, r))' = RoomOn(d, after)
  BY DEF RoomOn, DaySeats
<1> HIDE DEF after
<1>4. after \subseteq Boats /\ Left(d, r) \subseteq after
  BY DEF after
<1>5. RoomOn(d, Left(d, r)) <= RoomOn(d, after) /\ RoomOn(d, Left(d, r)) \in Nat /\ RoomOn(d, after) \in Nat
  BY <1>4, RoomTable, RoomGrows DEF Left, Deployed
<1> QED
  BY <1>1, <1>2, <1>3, <1>5 DEF Unseated, Clip

ChartersIn(trips) == {x \in DOMAIN trips : trips[x].mode = "charter"}
BookedIn(trips) == [x \in DOMAIN trips \ ChartersIn(trips) |-> trips[x].pax]
UnplacedIn(trips, boatsOf, deps) ==
    [x \in {y \in ChartersIn(trips) : boatsOf[y] \cap DOMAIN deps = {}} |-> trips[x].pax]
SeatsIn(open, deps) == [b \in open |-> Sellable(b, deps[b])]

\* On a day without locks, the seats not available are those booked, and those of charters with no boat there.
LEMMA CapacitySums ==
    ASSUME NEW deps, DOMAIN deps # {}, NEW trips, NEW boatsOf, NEW held, NEW rows, DOMAIN rows = {}, NEW drawn
    PROVE  /\ DayCapacity(deps, trips, boatsOf, held, rows, drawn, FALSE).locked = 0
           /\ DayCapacity(deps, trips, boatsOf, held, rows, drawn, FALSE).available =
                 Total(SeatsIn(DayCapacity(deps, trips, boatsOf, held, rows, drawn, FALSE).open, deps))
                     - Total(UnplacedIn(trips, boatsOf, deps)) - Total(BookedIn(trips)) - 0
<1> DEFINE tops == {l \in DOMAIN rows : rows[l].parent = NoLock}
           tree == [t \in tops |-> TreeOf(rows, drawn, t)]
           table == [t \in tops |-> tree[t].held]
<1>1. DOMAIN table = {}
  OBVIOUS
<1>2. Total(table) = 0
  <2> HIDE DEF table
  <2> QED
    BY <1>1, TotalEmpty
<1> QED
  BY <1>2 DEF DayCapacity, ChartersIn, BookedIn, UnplacedIn, SeatsIn

LEMMA OpenIsLeft ==
    ASSUME BoardInv, NEW d, NEW r
    PROVE  Day(d, r, Nobody, NoLock).open = Left(d, r)
<1> SUFFICES ASSUME NEW b PROVE b \in Day(d, r, Nobody, NoLock).open <=> b \in Left(d, r)
  OBVIOUS
<1>1. b \in Day(d, r, Nobody, NoLock).open <=> Free(d, r, b, Nobody, NoLock)
  BY DayOpen
<1>2. HereOn(d, r) \ {Nobody} = HereOn(d, r) /\ LockIds \ {NoLock} = LockIds
  BY BoardAssumption, LockAssumption DEF HereOn, Nobody
<1>3. (\A k \in HereOn(d, r) : booking[k].mode = "charter" => b \notin CharterBoatsOf(k))
         <=> \A k \in Charters(d, r) : b \notin CharterBoatsOf(k)
  BY DEF Charters
<1>4. ASSUME NEW h \in LockIds, Active(h), hold[h].day = d, hold[h].boat = b, board[d][b] = r PROVE hold[h].route = r
  BY <1>4, HoldOf
<1>5. board[d][b] = r =>
         ((\A h \in LockIds : Active(h) /\ hold[h].day = d /\ hold[h].route = r => hold[h].boat # b)
             <=> \A h \in LockIds : Active(h) /\ hold[h].day = d => hold[h].boat # b)
  BY <1>4
<1> QED
  BY <1>1, <1>2, <1>3, <1>5 DEF Free, Left, Deployed

\* What a hold is weighed against: the seats of the boats left, and the passengers with no boat of their own.
LEMMA DaySold ==
    ASSUME BoardInv, NEW d \in Days, NEW r \in Routes, Deployed(d, r) # {}
    PROVE  /\ OpenSeats(Day(d, r, Nobody, NoLock)) = RoomOn(d, Left(d, r))
           /\ Sold(Day(d, r, Nobody, NoLock)) = PaxOf(Standing(d, r))
<1> DEFINE here == {j \in Bookings \ {Nobody} : HoldsSeats(j) /\ booking[j].day = d /\ booking[j].route = r}
           holding == {i \in LockIds \ {NoLock} : Active(i) /\ hold[i].day = d /\ hold[i].route = r}
           taking == {i \in holding : hold[i].boat \in Deployed(d, r)}
           deps == [x \in Deployed(d, r) |-> DaySeats(d, x)]
           trips == [j \in here |-> Asks(booking[j])]
           boatsOf == [j \in here |-> CharterBoatsOf(j)]
           held == {hold[i].boat : i \in taking}
           rows == [i \in holding \ taking |-> [parent |-> NoLock, pax |-> hold[i].pax, pending |-> 0,
                                                released |-> 0, status |-> "active", holder |-> Office]]
           day == Day(d, r, Nobody, NoLock)
           bookedOf == BookedIn(trips)
           unplacedOf == UnplacedIn(trips, boatsOf, deps)
           seated == HereOn(d, r) \ Charters(d, r)
           afloat == {k \in Charters(d, r) : CharterBoatsOf(k) \cap Deployed(d, r) = {}}
<1>1. day = DayCapacity(deps, trips, boatsOf, held, rows, NoDraws, FALSE)
  BY DEF Day
<1>2. here = HereOn(d, r)
  BY BoardAssumption DEF HereOn, Nobody
<1>3. DOMAIN rows = {}
  <2> SUFFICES ASSUME NEW i \in holding PROVE i \in taking
    OBVIOUS
  <2>1. board[d][hold[i].boat] = r /\ hold[i].boat \in Boats
    BY HoldOf DEF HoldRows
  <2> QED
    BY <2>1 DEF Deployed
<1>4. /\ day.locked = 0
      /\ day.available = Total(SeatsIn(day.open, deps)) - Total(unplacedOf) - Total(bookedOf) - 0
  <2>1. DOMAIN deps # {}
    OBVIOUS
  <2> HIDE DEF deps, trips, boatsOf, held, rows, day
  <2>2. /\ DayCapacity(deps, trips, boatsOf, held, rows, NoDraws, FALSE).locked = 0
        /\ DayCapacity(deps, trips, boatsOf, held, rows, NoDraws, FALSE).available =
              Total(SeatsIn(DayCapacity(deps, trips, boatsOf, held, rows, NoDraws, FALSE).open, deps))
                  - Total(UnplacedIn(trips, boatsOf, deps)) - Total(BookedIn(trips)) - 0
    BY <1>3, <2>1, CapacitySums
  <2> QED
    BY <1>1, <2>2
<1>5. day.open = Left(d, r) /\ day.deps = deps
  BY OpenIsLeft, DayOpen
<1>6. bookedOf = [k \in seated |-> booking[k].pax]
  <2>1. DOMAIN bookedOf = seated
    BY <1>2 DEF Charters, Asks, BookedIn, ChartersIn
  <2>2. \A x \in seated : bookedOf[x] = booking[x].pax
    BY <1>2, <2>1 DEF Asks, BookedIn
  <2> QED
    BY <2>1, <2>2 DEF BookedIn
<1>7. unplacedOf = [k \in afloat |-> booking[k].pax]
  <2>1. DOMAIN unplacedOf = afloat
    BY <1>2 DEF Charters, Asks, UnplacedIn, ChartersIn
  <2>2. \A x \in afloat : unplacedOf[x] = booking[x].pax
    BY <1>2, <2>1 DEF Asks, Charters, UnplacedIn
  <2> QED
    BY <2>1, <2>2 DEF UnplacedIn
<1>8. \A b \in Left(d, r) : deps[b] = DaySeats(d, b)
  BY DEF Left
<1> HIDE DEF deps, trips, boatsOf, held, rows, day, here, holding, taking, bookedOf, unplacedOf
<1>9. OpenSeats(day) = RoomOn(d, Left(d, r))
  BY <1>5, <1>8 DEF OpenSeats, RoomOn
<1>10. Total(SeatsIn(day.open, deps)) = RoomOn(d, Left(d, r))
  BY <1>5, <1>8 DEF RoomOn, SeatsIn
<1>11. PaxOf(Standing(d, r)) = PaxOf(seated) + PaxOf(afloat)
  <2> DEFINE f == [k \in Standing(d, r) |-> booking[k].pax]
  <2>1. IsTable(f)
    BY PaxTable DEF Standing, Charters
  <2>2. DOMAIN f = seated \cup afloat /\ seated \cap afloat = {}
    BY DEF Standing
  <2>3. PaxOf(seated) = Total([k \in seated |-> f[k]]) /\ PaxOf(afloat) = Total([k \in afloat |-> f[k]])
    BY <2>2 DEF PaxOf
  <2> HIDE DEF f, seated, afloat
  <2>4. Total(f) = Total([k \in seated |-> f[k]]) + Total([k \in afloat |-> f[k]])
    BY <2>1, <2>2, TotalDisjoint
  <2> QED
    BY <2>3, <2>4 DEF f, PaxOf
<1>12. PaxOf(seated) \in Nat /\ PaxOf(afloat) \in Nat /\ RoomOn(d, Left(d, r)) \in Nat
  BY PaxTable, RoomTable DEF Charters, Left, Deployed
<1>13. Total(bookedOf) = PaxOf(seated) /\ Total(unplacedOf) = PaxOf(afloat)
  BY <1>6, <1>7 DEF PaxOf
<1> HIDE DEF seated, afloat
<1>14. Sold(day) = Clip(OpenSeats(day) - day.available - day.locked)
  BY DEF Sold
<1>15. OpenSeats(day) - day.available - day.locked = PaxOf(seated) + PaxOf(afloat)
  BY <1>4, <1>9, <1>10, <1>12, <1>13
<1>16. Sold(day) = PaxOf(Standing(d, r))
  BY <1>11, <1>12, <1>14, <1>15 DEF Clip
<1> QED
  BY <1>9, <1>16 DEF day

LEMMA SameStanding ==
    ASSUME UNCHANGED booking, NEW d, NEW r,
           \A k \in Charters(d, r) : CharterBoatsOf(k) \cap Deployed(d, r)' = CharterBoatsOf(k) \cap Deployed(d, r)
    PROVE  /\ Charters(d, r)' = Charters(d, r) /\ Standing(d, r)' = Standing(d, r)
           /\ \A k \in Bookings : CharterBoatsOf(k)' = CharterBoatsOf(k)
<1>1. HereOn(d, r)' = HereOn(d, r) /\ \A k : CharterBoatsOf(k)' = CharterBoatsOf(k)
  BY DEF HereOn, HoldsSeats, IsOpen, Waits, CharterBoatsOf
<1>2. Charters(d, r)' = Charters(d, r)
  BY <1>1 DEF Charters
<1> QED
  BY <1>1, <1>2 DEF Standing

LEMMA HoldsShrink ==
    ASSUME BoardInv, UNCHANGED <<board, override, booking>>, NEW d \in Days, NEW r,
           \A i \in LockIds : Active(i)' /\ hold'[i].day = d => Active(i) /\ hold[i].day = d /\ hold'[i].boat = hold[i].boat
    PROVE  Unseated(d, r)' <= Unseated(d, r)
<1>1. Deployed(d, r)' = Deployed(d, r)
  BY DEF Deployed
<1>2. /\ Charters(d, r)' = Charters(d, r) /\ Standing(d, r)' = Standing(d, r)
      /\ \A k \in Bookings : CharterBoatsOf(k)' = CharterBoatsOf(k)
  BY <1>1, SameStanding
<1>3. Left(d, r) \subseteq Left(d, r)'
  BY <1>1, <1>2 DEF Left, Charters, HereOn
<1>4. Left(d, r)' \subseteq Boats
  BY DEF Left, Deployed
<1> QED
  BY <1>2, <1>3, <1>4, NoWorse

\* A charter keeps off the boat a hold takes, whether it has it or is split over it, but for a share of nobody.
LEMMA NotSplitOver ==
    ASSUME BoardInv, NEW d, NEW b \in Boats, NEW r, NEW own, CanTake(d, b, r, own), NEW q, NEW k \in Charters(d, q),
           ~EmptyShare(k, d, q)
    PROVE  b \notin CharterBoatsOf(k)
<1>1. k \in Bookings /\ HoldsSeats(k) /\ booking[k].day = d /\ booking[k].route = q /\ booking[k].mode = "charter"
  BY DEF Charters, HereOn
<1>2. k \in {i \in Bookings : HoldsSeats(i) /\ booking[i].day = d}
  BY <1>1
<1>3. booking[k].boat # b /\ PaxOn(booking[k], b) = 0
  BY <1>1, <1>2 DEF CanTake
<1>4. Exists(k) /\ SoundRow(booking[k])
  BY <1>1, RowOf DEF HoldsSeats
<1>5. ASSUME b \in DOMAIN booking[k].split PROVE FALSE
  <2>1. booking[k].onto = NoBoat /\ b # NoBoat
    BY <1>4, <1>5, BoatAssumption DEF SoundRow
  <2>2. booking[k].split[b] = 0
    BY <1>3, <1>5, <2>1 DEF PaxOn
  <2> QED
    BY <1>1, <1>4, <1>5, <2>2 DEF EmptyShare
<1> QED
  BY <1>3, <1>5 DEF CharterBoatsOf

LEMMA ConvertStrandsNobody ==
    ASSUME BoardInv, NEW h \in LockIds, NEW k \in Bookings, NEW bk, HoldConverts(h, k, bk), NEW d \in Days, NEW r
    PROVE  Unseated(d, r)' <= Unseated(d, r)
<1>1. /\ Active(h) /\ ~Exists(k) /\ Writes(h, NoHold) /\ UNCHANGED <<board, override>>
      /\ bk.mode = "charter" /\ bk.boat = hold[h].boat /\ bk.day = hold[h].day /\ bk.route = hold[h].route
      /\ bk.split = NoSplit
      /\ booking'[k] = bk /\ \A j \in Bookings \ {k} : booking'[j] = booking[j]
  BY MovedRows DEF HoldConverts
<1>2. hold[h].boat \in Deployed(hold[h].day, hold[h].route)
  BY <1>1, HoldOf DEF Deployed, HoldRows
<1>3. k \notin HereOn(d, r)
  BY <1>1, RowOf DEF HereOn, HoldsSeats
<1>4. \A j \in Bookings \ {k} : (j \in HereOn(d, r)' <=> j \in HereOn(d, r)) /\ CharterBoatsOf(j)' = CharterBoatsOf(j)
  BY <1>1 DEF HereOn, HoldsSeats, IsOpen, Waits, CharterBoatsOf
<1>5. k \in HereOn(d, r)' => hold[h].day = d /\ hold[h].route = r
  BY <1>1 DEF HereOn
<1>6. CharterBoatsOf(k)' = {hold[h].boat}
  BY <1>1, NoSplitRow DEF CharterBoatsOf
<1>7. \A j : j \in Charters(d, r)' => j = k \/ j \in Charters(d, r)
  BY <1>1, <1>4 DEF Charters, HereOn
<1>8. Deployed(d, r)' = Deployed(d, r)
  BY <1>1 DEF Deployed
<1>9. Standing(d, r)' = Standing(d, r)
  <2>1. k \notin Standing(d, r)
    BY <1>3 DEF Standing, Charters
  <2>2. k \notin Standing(d, r)'
    BY <1>1, <1>2, <1>5, <1>6, <1>8 DEF Standing, Charters
  <2>3. ASSUME NEW j, j # k PROVE j \in Standing(d, r)' <=> j \in Standing(d, r)
    <3>1. j \in HereOn(d, r)' <=> j \in HereOn(d, r)
      BY <1>4, <2>3 DEF HereOn
    <3>2. j \in Bookings => booking'[j] = booking[j] /\ CharterBoatsOf(j)' = CharterBoatsOf(j)
      BY <1>1, <1>4, <2>3
    <3>3. (j \in HereOn(d, r) => j \in Bookings) /\ (j \in HereOn(d, r)' => j \in Bookings)
      BY DEF HereOn
    <3>4. j \in Charters(d, r)' <=> j \in Charters(d, r)
      BY <3>1, <3>2, <3>3 DEF Charters
    <3>5. j \in Charters(d, r) => j \in Bookings
      BY <3>3 DEF Charters
    <3> QED
      BY <1>8, <3>1, <3>2, <3>4, <3>5 DEF Standing
  <2> QED
    BY <2>1, <2>2, <2>3
<1>10. \A j \in Standing(d, r) : booking'[j].pax = booking[j].pax
  BY <1>1, <1>3 DEF Standing, Charters, HereOn
<1>11. Left(d, r) \subseteq Left(d, r)'
  <2> SUFFICES ASSUME NEW b \in Left(d, r) PROVE b \in Left(d, r)'
    OBVIOUS
  <2>1. ASSUME NEW j \in Charters(d, r)' PROVE b \notin CharterBoatsOf(j)'
    <3>1. CASE j = k
      <4>1. hold[h].day = d
        BY <1>5, <3>1 DEF Charters
      <4> QED
        BY <1>1, <1>6, <3>1, <4>1 DEF Left
    <3>2. CASE j # k
      BY <1>4, <1>7, <3>2 DEF Left, Charters, HereOn
    <3> QED
      BY <3>1, <3>2
  <2>2. ASSUME NEW i \in LockIds, Active(i)', hold'[i].day = d PROVE hold'[i].boat # b
    <3>1. hold'[i] = hold[i] /\ Active(i)
      BY <1>1, <2>2 DEF Writes, Active, NoHold
    <3> QED
      BY <2>2, <3>1 DEF Left
  <2> QED
    BY <1>8, <2>1, <2>2 DEF Left
<1>12. Left(d, r)' \subseteq Boats
  BY DEF Left, Deployed
<1> QED
  BY <1>1, <1>9, <1>10, <1>11, <1>12, NoWorse

\* A hold that takes a boat left on its route was weighed against the route's passengers.
LEMMA TakenWasUnsold ==
    ASSUME BoardInv, NEW d \in Days, NEW r \in Routes, NEW b \in Left(d, r), NEW own \in LockIds \cup {NoLock},
           own # NoLock => Active(own), CanTake(d, b, r, own)
    PROVE  PaxOf(Standing(d, r)) <= RoomOn(d, Left(d, r) \ {b})
<1> DEFINE day == Day(d, r, Nobody, NoLock)
           mine == own # NoLock /\ hold[own].boat = b /\ hold[own].day = d
<1>1. b \in Boats /\ b \in Deployed(d, r)
  BY DEF Left, Deployed
<1>2. ~mine
  BY DEF Left
<1>3. b \in day.open
  BY OpenIsLeft
<1>4. Sold(day) + Sellable(b, day.deps[b]) <= OpenSeats(day)
  <2>1. ~mine /\ b \in day.open => Sold(day) + Sellable(b, day.deps[b]) <= OpenSeats(day)
    BY DEF CanTake
  <2> QED
    BY <1>2, <1>3, <2>1
<1>5. day.deps[b] = DaySeats(d, b)
  <2>1. day.deps = [x \in Deployed(d, r) |-> DaySeats(d, x)]
    BY DayOpen
  <2> HIDE DEF day
  <2> QED
    BY <1>1, <2>1
<1>6. OpenSeats(day) = RoomOn(d, Left(d, r)) /\ Sold(day) = PaxOf(Standing(d, r))
  BY <1>1, DaySold
<1>7. Left(d, r) \subseteq Boats
  BY DEF Left, Deployed
<1>8. RoomOn(d, Left(d, r)) = RoomOn(d, Left(d, r) \ {b}) + Sellable(b, DaySeats(d, b))
  BY <1>7, RoomWithout
<1>9. RoomOn(d, Left(d, r) \ {b}) \in Nat /\ Sellable(b, DaySeats(d, b)) \in Nat /\ PaxOf(Standing(d, r)) \in Nat
  BY <1>1, <1>7, RoomTable, SeatsOfBoat, PaxTable DEF Standing, Charters
<1> HIDE DEF day
<1> QED
  BY <1>4, <1>5, <1>6, <1>8, <1>9

LEMMA TakesStrandsNobody ==
    ASSUME BoardInv, NEW h \in LockIds, NEW own, NEW row, HoldTakes(h, own, row), NEW d \in Days, NEW r \in Routes,
           \A k \in Bookings : ~EmptyShare(k, d, r)
    PROVE  Unseated(d, r)' <= Unseated(d, r)
<1> DEFINE b == row.boat
<1>1. /\ CanTake(row.day, b, row.route, own) /\ Writes(h, row) /\ Sails(row.day, b, row.route)
      /\ UNCHANGED <<override, booking>> /\ own \in LockIds \cup {NoLock} /\ (own # NoLock => own = h /\ Active(own))
  BY DEF HoldTakes
<1>2. b \in Boats /\ row.day \in Days /\ row.route \in Routes
  BY DEF HoldTakes, HoldRows
<1> HIDE DEF b
<1>3. \A c \in Boats : ~(d = row.day /\ c = b) => (c \in Deployed(d, r)' <=> c \in Deployed(d, r))
  BY <1>1 DEF Sails, Deployed
<1>4. /\ Charters(d, r)' = Charters(d, r) /\ Standing(d, r)' = Standing(d, r)
      /\ \A k \in Bookings : CharterBoatsOf(k)' = CharterBoatsOf(k)
  <2>1. ASSUME NEW k \in Charters(d, r), d = row.day PROVE b \notin CharterBoatsOf(k)
    BY <1>1, <1>2, <2>1, NotSplitOver DEF Charters, HereOn
  <2>2. Deployed(d, r) \subseteq Boats /\ Deployed(d, r)' \subseteq Boats
    BY DEF Deployed
  <2>3. \A k \in Charters(d, r) : CharterBoatsOf(k) \cap Deployed(d, r)' = CharterBoatsOf(k) \cap Deployed(d, r)
    BY <1>3, <2>1, <2>2
  <2> QED
    BY <1>1, <2>3, SameStanding
<1>5. \A c \in Left(d, r) : ~(d = row.day /\ c = b) => c \in Left(d, r)'
  <2> SUFFICES ASSUME NEW c \in Left(d, r), ~(d = row.day /\ c = b) PROVE c \in Left(d, r)'
    OBVIOUS
  <2>1. c \in Boats /\ c \in Deployed(d, r)
    BY DEF Left, Deployed
  <2>2. c \in Deployed(d, r)'
    BY <1>3, <2>1
  <2>3. \A k \in Charters(d, r)' : c \notin CharterBoatsOf(k)'
    BY <1>4 DEF Left, Charters, HereOn
  <2>4. ASSUME NEW i \in LockIds, Active(i)', hold'[i].day = d PROVE hold'[i].boat # c
    <3>1. CASE i = h
      BY <1>1, <2>4, <3>1 DEF Writes, b
    <3>2. CASE i # h
      <4>1. hold'[i] = hold[i] /\ Active(i)
        BY <1>1, <2>4, <3>2 DEF Writes, Active
      <4> QED
        BY <2>4, <4>1 DEF Left
    <3> QED
      BY <3>1, <3>2
  <2> QED
    BY <2>2, <2>3, <2>4 DEF Left
<1>6. Left(d, r)' \subseteq Boats /\ Left(d, r) \subseteq Boats
  BY DEF Left, Deployed
<1>7. CASE ~(d = row.day /\ b \in Left(d, r))
  <2>1. Left(d, r) \subseteq Left(d, r)'
    BY <1>5, <1>7
  <2> QED
    BY <1>1, <1>4, <1>6, <2>1, NoWorse
<1>8. CASE d = row.day /\ b \in Left(d, r)
  <2>1. r = row.route
    <3>1. board[d][b] = r /\ r # Off
      BY <1>8, BoardAssumption DEF Left, Deployed
    <3>2. ~(own # NoLock /\ hold[own].boat = b /\ hold[own].day = d)
      BY <1>1, <1>8 DEF Left
    <3> QED
      BY <1>1, <1>8, <3>1, <3>2 DEF CanTake
  <2>2. PaxOf(Standing(d, r)) <= RoomOn(d, Left(d, r) \ {b})
    BY <1>1, <1>2, <1>8, <2>1, TakenWasUnsold
  <2> DEFINE after == Left(d, r)'
  <2>3. RoomOn(d, Left(d, r))' = RoomOn(d, after) /\ PaxOf(Standing(d, r))' = PaxOf(Standing(d, r))
    BY <1>1, <1>4 DEF RoomOn, DaySeats, PaxOf
  <2>4. after \subseteq Boats /\ Left(d, r) \ {b} \subseteq after
    BY <1>5, <1>6
  <2> HIDE DEF after
  <2>5. RoomOn(d, Left(d, r) \ {b}) <= RoomOn(d, after) /\ RoomOn(d, Left(d, r) \ {b}) \in Nat
        /\ RoomOn(d, after) \in Nat /\ RoomOn(d, Left(d, r)) \in Nat
    BY <1>6, <2>4, RoomGrows, RoomTable
  <2>6. PaxOf(Standing(d, r)) \in Nat
    BY PaxTable DEF Standing, Charters
  <2> QED
    BY <2>2, <2>3, <2>5, <2>6 DEF Unseated, Clip
<1> QED
  BY <1>7, <1>8

LEMMA NobodyStranded == ASSUME BoardInv, Next PROVE HoldStrandsNobody
<1> SUFFICES ASSUME hold' # hold, NEW d \in Days, NEW r \in Routes, \A k \in Bookings : ~EmptyShare(k, d, r)
             PROVE  Unseated(d, r)' <= Unseated(d, r)
  BY DEF HoldStrandsNobody
<1>1. ASSUME NEW h \in LockIds, HoldEnds(h) PROVE Unseated(d, r)' <= Unseated(d, r)
  <2>1. \A i \in LockIds : Active(i)' => hold'[i] = hold[i] /\ Active(i)
    BY <1>1 DEF HoldEnds, Writes, Active, NoHold
  <2> QED
    BY <1>1, <2>1, HoldsShrink DEF HoldEnds
<1>2. ASSUME NEW h \in LockIds, NEW k \in Bookings, NEW bk, HoldConverts(h, k, bk) PROVE Unseated(d, r)' <= Unseated(d, r)
  BY <1>2, ConvertStrandsNobody
<1>3. ASSUME NEW h \in LockIds, NEW row, HoldStays(h, row) PROVE Unseated(d, r)' <= Unseated(d, r)
  <2>1. \A i \in LockIds : Active(i)' => Active(i) /\ hold'[i].day = hold[i].day /\ hold'[i].boat = hold[i].boat
    BY <1>3 DEF HoldStays, Writes, Active
  <2> QED
    BY <1>3, <2>1, HoldsShrink DEF HoldStays
<1>4. ASSUME NEW h \in LockIds, NEW own, NEW row, HoldTakes(h, own, row) PROVE Unseated(d, r)' <= Unseated(d, r)
  BY <1>4, TakesStrandsNobody
<1> QED
  BY <1>1, <1>2, <1>3, <1>4, StepCases DEF BookingMoves, BoatSails, SeatsChange, CatalogueChanges

\* A hold takes an unsold boat and keeps it unsold: nobody is put on a held boat, but with a booking
\* restored or approved, with a charter that has it too, or by splitting a charter over it; and no
\* hold taken, changed, ended or converted leaves more passengers than the route-day can seat, but
\* beside a charter split over a boat with nobody on it.
THEOREM HoldsTakeUnsold == Spec => HoldsTakeUnsoldBoats
<1>1. BoardInv /\ [Next]_vars => [HeldBoatStaysEmpty /\ HoldStrandsNobody]_vars
  BY HeldStaysEmpty, NobodyStranded
<1> QED
  BY <1>1, BoardTypes, PTL DEF Spec, HoldsTakeUnsoldBoats
=============================================================================
