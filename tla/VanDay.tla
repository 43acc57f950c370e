------------------------------- MODULE VanDay -------------------------------
(***************************************************************************)
(* Vans on one route's day: the passengers of a trip split into parts, the *)
(* parts grouped into outbound van runs, the vans the month matrix offers, *)
(* the stops that ride along, and check-in by part.                        *)
(*                                                                         *)
(* Bookings are amended, moved and cancelled beside it, and take their     *)
(* parts along. A passenger is a passenger: the four categories add up     *)
(* alike. Pickup times, the order within a group, group numbers and the    *)
(* texts of the van's log are left out.                                    *)
(***************************************************************************)
EXTENDS Integers, Sequences, FiniteSets, FiniteSetsExt, SequencesExt, TLC

CONSTANTS
    Trips, Groups, Vans, Stops, \* one trip per booking; groups are made in order 1, 2, ...
    MaxPax, VanSeats,           \* passengers of a trip or stop, and the seats a van may have
    MaxVanAsks,                 \* bound: the requests of a history
    Nothing                     \* no group, no van

ASSUME VanAssumption ==
    /\ MaxPax \in Nat /\ MaxPax >= 2 /\ VanSeats \subseteq Nat \ {0}
    /\ Nothing \notin Groups \cup Vans

Zones == {"PK", "KL", "NoTransfer"}
SelfArrive == "NoTransfer"
Sources == {"main", "manual", "alt_pickup"}
Pax == 1..MaxPax
Parts == [idx : 0..2, source : Sources, pax : 0..MaxPax, group : Groups \cup {Nothing}, ret : Vans \cup {Nothing}]
\* An alternate pickup: its passengers, and whether it is somewhere of its own or a drop-off only.
Alts == [pax : Pax, own : BOOLEAN]
Events == {"live", "undone"}

VARIABLES
    trip,       \* per trip: whether it is active and of this day, its passengers, zone and alternate pickups
    parts,      \* per trip: the parts stored, <<>> for one whole, ungrouped part
    same,       \* the trips that come back on the same van
    group,      \* the groups made: zone, van, return van
    van,        \* per van: seats, whether active, on the route, its day status and range
    stop,       \* the stops made: group, seats taken, and whether they were added anyway
    checkin,    \* per trip: slot -> count and events
    vanAsks     \* bound: the requests made

dayVars == <<trip, parts, same, group, van, stop, checkin>>
vanVars == <<dayVars, vanAsks>>

-----------------------------------------------------------------------------
(* Parts                                                                   *)

Whole(n) == [idx |-> 0, source |-> "main", pax |-> n, group |-> Nothing, ret |-> Nothing]
PartsOf(t) == IF parts[t] = <<>> THEN <<Whole(trip[t].pax)>> ELSE parts[t]
PartsToStore(ps) == IF Len(ps) = 1 /\ ps[1].group = Nothing /\ ps[1].ret = Nothing THEN <<>> ELSE ps
PaxSum(ps) == FoldLeft(LAMBDA n, p : n + p.pax, 0, ps)

(* rebalanceParts: the main part takes the change of passengers; when they *)
(* fall below what the others carry, those shrink from the last one back.  *)
Rebalanced(ps, n) ==
    IF ps = <<>> \/ ps[1].source # "main" THEN ps
    ELSE LET rest == Tail(ps)
             excess == PaxSum(rest) - n
             cut(i) == Max({0, Min({rest[i].pax, excess - PaxSum(SubSeq(rest, i + 1, Len(rest)))})})
             shrunk == [i \in DOMAIN rest |-> [rest[i] EXCEPT !.pax = @ - cut(i)]]
         IN  PartsToStore(<<[ps[1] EXCEPT !.pax = n - PaxSum(shrunk)]>> \o SelectSeq(shrunk, LAMBDA p : p.pax > 0))

(* altPickupParts: each alternate pickup a part of its own beside the main *)
(* part; a split made by hand is left alone, and entries that no longer    *)
(* fit fold an automatic split back.                                       *)
AltParts(alts, n, ps) ==
    LET isAuto == \E i \in DOMAIN ps : ps[i].source = "alt_pickup"
        taken == PaxSum(alts)
        was(i) == {p \in Range(ps) : p.idx = i}
        main == {p \in Range(ps) : p.source = "main"}
        givenBy(from, p) == IF from = {} THEN p ELSE LET f == CHOOSE x \in from : TRUE IN [p EXCEPT !.group = f.group, !.ret = f.ret]
        rest == IF taken < n THEN <<givenBy(main, Whole(n - taken))>> ELSE <<>>
        entry(i) == givenBy(IF was(i) # {} THEN was(i) ELSE IF alts[i].own THEN {} ELSE main,
                            [Whole(alts[i].pax) EXCEPT !.idx = i, !.source = "alt_pickup"])
    IN  CASE (Len(ps) > 1 /\ ~isAuto) \/ (Len(ps) = 1 /\ ps[1].source # "main") -> ps
          [] alts = <<>> \/ taken > n \/ n < 2 -> IF isAuto THEN PartsToStore(<<givenBy(main, Whole(n))>>) ELSE ps
          [] OTHER -> rest \o [i \in DOMAIN alts |-> entry(i)]
\* syncAltParts: after every change of an active booking.
SyncAlts(ps, row) ==
    LET current == IF ps = <<>> THEN <<Whole(row.pax)>> ELSE ps
        built == AltParts(row.alts, row.pax, current)
    IN  IF row.active /\ built # current THEN built ELSE ps
\* rezonedParts: a trip whose zone changed leaves its group.
\* Mutant: it stays.
RezonedStays(ps, before, after) == ps
Rezoned(ps, before, after) ==
    IF before.zone # after.zone /\ \E p \in Range(ps) : p.group # Nothing
    THEN PartsToStore([i \in DOMAIN ps |-> [ps[i] EXCEPT !.group = Nothing]]) ELSE ps

-----------------------------------------------------------------------------
(* Groups, their seats and the pools of vans                               *)

Here == {t \in Trips : trip[t].active /\ trip[t].here}
Members(ps, g) == {m \in Here \X (0..2) : \E p \in Range(ps[m[1]]) : p.idx = m[2] /\ p.group = g}
AllParts == [t \in Trips |-> PartsOf(t)]
StopSeats(on, g) == MapThenSumSet(LAMBDA s : on[s].seats, {s \in DOMAIN on : on[s].group = g})
LoadOf(ps, on, g) ==
    MapThenSumSet(LAMBDA t : PaxSum(SelectSeq(ps[t], LAMBDA p : p.group = g)), Here) + StopSeats(on, g)
Load(g) == LoadOf(AllParts, stop, g)

\* The day's own status wins, then the range that covers the day.
StatusOn(v) == IF van[v].day # "none" THEN van[v].day ELSE van[v].range
Usable(v) == van[v].active /\ StatusOn(v) \notin {"off", "maintenance"}
OutboundPool == {v \in Vans : Usable(v) /\ van[v].onRoute}
ReturnPool(zone) == IF zone = SelfArrive THEN {} ELSE OutboundPool \cup {v \in Vans : Usable(v) /\ van[v].zone = zone}
OtherRounds(v, g) == {o \in DOMAIN group \ {g} : group[o].van = v /\ Members(AllParts, o) # {}}

\* assertCapacity, over the parts, stops and groups a command would leave.
\* Mutants: the stops that ride along take no seats.
FitsWithoutStops(ps, on, rows, g) == rows[g].van # Nothing => LoadOf(ps, <<>>, g) <= van[rows[g].van].seats
Fits(ps, on, rows, g) == rows[g].van # Nothing => LoadOf(ps, on, g) <= van[rows[g].van].seats

Joinable(t, i, zone) ==
    /\ t \in Here /\ \E p \in Range(PartsOf(t)) : p.idx = i
    /\ trip[t].zone # SelfArrive /\ trip[t].zone = zone
Joined(refs, g) ==
    [t \in Trips |-> [i \in DOMAIN PartsOf(t) |->
        IF <<t, PartsOf(t)[i].idx>> \in refs THEN [PartsOf(t)[i] EXCEPT !.group = g] ELSE PartsOf(t)[i]]]
PutParts(ps) == parts' = [t \in Trips |-> IF ps[t] = PartsOf(t) THEN parts[t] ELSE PartsToStore(ps[t])]

-----------------------------------------------------------------------------
(* Van groups                                                              *)

\* Given a return van, a group's members no longer come back on the same van.
SameAfterReturn(ps, g, r) == IF r \in Vans THEN same \ {m[1] : m \in Members(ps, g)} ELSE same
MaySet(ps, rows, g, v, second) ==
    /\ v # Nothing => v \in OutboundPool /\ (OtherRounds(v, g) # {} => second)
    /\ Fits(ps, stop, rows, g)
\* POST /operations/van-groups
CreateGroup(g, zone, refs, v, second) ==
    LET rows == (g :> [zone |-> zone, van |-> v, ret |-> Nothing]) @@ group
        ps == Joined(refs, g)
    IN  /\ g = 1 + Cardinality(DOMAIN group) /\ refs # {}
        /\ \A m \in refs : Joinable(m[1], m[2], zone)
        /\ MaySet(ps, rows, g, v, second)
        /\ group' = rows /\ PutParts(ps)
        /\ UNCHANGED <<trip, same, van, stop, checkin>>
\* POST .../members: moved here from wherever they rode.
AddMembers(g, refs) ==
    /\ group[g].zone # "gone" /\ refs # {}
    /\ \A m \in refs : Joinable(m[1], m[2], group[g].zone)
    /\ Fits(Joined(refs, g), stop, group, g)
    /\ PutParts(Joined(refs, g)) /\ UNCHANGED <<trip, same, group, van, stop, checkin>>
\* PATCH .../{id}: the van, and the return van.
SetGroup(g, v, r, second) ==
    LET rows == [group EXCEPT ![g].van = v, ![g].ret = r]
    IN  /\ group[g].zone # "gone"
        /\ IF v = group[g].van THEN Fits(AllParts, stop, rows, g) ELSE MaySet(AllParts, rows, g, v, second)
        /\ r # group[g].ret => r = Nothing \/ r \in ReturnPool(group[g].zone)
        /\ group' = rows /\ same' = IF r = group[g].ret THEN same ELSE SameAfterReturn(AllParts, g, r)
        /\ UNCHANGED <<trip, parts, van, stop, checkin>>
\* DELETE .../{id}: every member leaves, cancelled ones too, with its return van.
\* Mutant: only those riding today leave.
DisbandRiding(g) ==
    /\ group[g].zone # "gone" /\ group' = [group EXCEPT ![g] = [zone |-> "gone", van |-> Nothing, ret |-> Nothing]]
    /\ PutParts([t \in Trips |-> [i \in DOMAIN PartsOf(t) |->
                    IF t \in Here /\ PartsOf(t)[i].group = g THEN [PartsOf(t)[i] EXCEPT !.group = Nothing, !.ret = Nothing] ELSE PartsOf(t)[i]]])
    /\ stop' = [s \in DOMAIN stop |-> IF stop[s].group = g THEN [stop[s] EXCEPT !.group = Nothing] ELSE stop[s]]
    /\ UNCHANGED <<trip, same, van, checkin>>
Disband(g) ==
    /\ group[g].zone # "gone" /\ group' = [group EXCEPT ![g] = [zone |-> "gone", van |-> Nothing, ret |-> Nothing]]
    /\ PutParts([t \in Trips |-> [i \in DOMAIN PartsOf(t) |->
                    IF PartsOf(t)[i].group = g THEN [PartsOf(t)[i] EXCEPT !.group = Nothing, !.ret = Nothing] ELSE PartsOf(t)[i]]])
    /\ stop' = [s \in DOMAIN stop |-> IF stop[s].group = g THEN [stop[s] EXCEPT !.group = Nothing] ELSE stop[s]]
    /\ UNCHANGED <<trip, same, van, checkin>>
\* POST /operations/van-groups/clear
ClearVans ==
    /\ group' = [g \in DOMAIN group |-> [group[g] EXCEPT !.van = Nothing]]
    /\ UNCHANGED <<trip, parts, same, van, stop, checkin>>

-----------------------------------------------------------------------------
(* A trip's parts replaced: PATCH /operations/trip-ops/{trip_id}           *)

\* Each row is a part's passengers, group and return van; idx 0 is the main part.
SetTripParts(t, rows, back) ==
    LET kept == {p \in Range(PartsOf(t)) : p.source = "alt_pickup"}
        source(i) == CASE \E p \in kept : p.idx = i -> "alt_pickup" [] i = 0 -> "main" [] OTHER -> "manual"
        made == [i \in DOMAIN rows |-> [idx |-> i, source |-> source(i), pax |-> rows[i].pax, group |-> rows[i].group, ret |-> rows[i].ret]]
        new == SetToSortSeq(Range(made), LAMBDA a, b : a.idx < b.idx)
        ps == [AllParts EXCEPT ![t] = new]
    IN  /\ t \in Here
        /\ 0 \notin DOMAIN rows => \A p \in Range(PartsOf(t)) : p.source # "main"
        /\ \A p \in kept : p.idx \in DOMAIN rows /\ rows[p.idx].pax = p.pax
        /\ PaxSum(new) = trip[t].pax
        /\ \A p \in Range(new) :
              /\ p.group # Nothing => p.group \in DOMAIN group /\ trip[t].zone # SelfArrive /\ group[p.group].zone = trip[t].zone
              /\ p.ret # Nothing => ~back /\ p.ret \in ReturnPool(trip[t].zone)
              /\ p.group # Nothing => Fits(ps, stop, group, p.group)
        /\ parts' = [parts EXCEPT ![t] = PartsToStore(new)]
        /\ same' = IF back THEN same \cup {t} ELSE same \ {t}
        /\ UNCHANGED <<trip, group, van, stop, checkin>>
\* Only return_same_van: every part's own return van goes.
\* Mutant: they stay, as legacy left them.
ComeBackKeeping(t) ==
    /\ t \in Here /\ same' = same \cup {t} /\ UNCHANGED <<trip, parts, group, van, stop, checkin>>
ComeBack(t) ==
    /\ t \in Here /\ same' = same \cup {t}
    /\ parts' = [parts EXCEPT ![t] = PartsToStore([i \in DOMAIN @ |-> [@[i] EXCEPT !.ret = Nothing]])]
    /\ UNCHANGED <<trip, group, van, stop, checkin>>
\* The one change a cancelled booking's dispatch takes: its parts cleared.
ClearStranded(t) ==
    /\ ~trip[t].active /\ parts' = [parts EXCEPT ![t] = <<>>]
    /\ UNCHANGED <<trip, same, group, van, stop, checkin>>

-----------------------------------------------------------------------------
(* The bookings                                                            *)

Amend(t, n, zone, alts) ==
    LET row == [trip[t] EXCEPT !.pax = n, !.zone = zone, !.alts = alts]
        repaxed == IF n = trip[t].pax THEN parts[t] ELSE Rebalanced(parts[t], n)
    IN  /\ trip[t].active /\ trip' = [trip EXCEPT ![t] = row]
        /\ parts' = [parts EXCEPT ![t] = SyncAlts(Rezoned(repaxed, trip[t], row), row)]
        /\ UNCHANGED <<same, group, van, stop, checkin>>
\* A move to another day or route clears the dispatch arranged for this one.
Move(t) ==
    /\ trip[t].active /\ trip' = [trip EXCEPT ![t].here = ~@]
    /\ parts' = [parts EXCEPT ![t] = SyncAlts(<<>>, trip[t])]
    /\ checkin' = [checkin EXCEPT ![t] = <<>>] /\ same' = same \ {t}
    /\ UNCHANGED <<group, van, stop>>
Cancel(t) == /\ trip[t].active /\ trip' = [trip EXCEPT ![t].active = FALSE]
             /\ UNCHANGED <<parts, same, group, van, stop, checkin>>
Restore(t) ==
    /\ ~trip[t].active /\ trip' = [trip EXCEPT ![t].active = TRUE]
    /\ parts' = [parts EXCEPT ![t] = SyncAlts(parts[t], trip'[t])]
    /\ UNCHANGED <<same, group, van, stop, checkin>>

-----------------------------------------------------------------------------
(* Vans, stops and check-in                                                *)

EditVan(v, seats, active) == /\ van' = [van EXCEPT ![v].seats = seats, ![v].active = active]
                             /\ UNCHANGED <<trip, parts, same, group, stop, checkin>>
SetVanDay(v, onRoute, status) == /\ van' = [van EXCEPT ![v].onRoute = onRoute, ![v].day = status]
                                 /\ UNCHANGED <<trip, parts, same, group, stop, checkin>>
SetRange(v, status) == /\ van' = [van EXCEPT ![v].range = status]
                       /\ UNCHANGED <<trip, parts, same, group, stop, checkin>>

\* A ride-along takes seats in its group, checked unless told to add it anyway.
PutStop(s, g, seats, anyway) ==
    LET before == IF s \in DOMAIN stop /\ stop[s].group = g THEN stop[s].seats ELSE 0
        on == (s :> [group |-> g, seats |-> seats, agreed |-> anyway]) @@ stop
        asked == s \notin DOMAIN stop \/ stop[s].group # g
    IN  /\ g # Nothing => group[g].zone # "gone" /\ (asked => group[g].van # Nothing)
        /\ g = Nothing => s \in DOMAIN stop /\ stop[s].group = Nothing
        /\ g # Nothing /\ seats > before /\ ~anyway => Fits(AllParts, on, group, g)
        /\ stop' = on /\ UNCHANGED <<trip, parts, same, group, van, checkin>>
DeleteStop(s) == /\ stop' = [x \in DOMAIN stop \ {s} |-> stop[x]]
                 /\ UNCHANGED <<trip, parts, same, group, van, checkin>>

\* applyCheckin: the whole record, its events kept and an undo final.
\* Mutant: an undone event may be restored.
KeptOrUndone(was, now) == Len(was) <= Len(now)
Kept(was, now) == Len(was) <= Len(now) /\ \A i \in DOMAIN was : was[i] = "undone" => now[i] = "undone"
PutCheckin(t, i, count, events) ==
    /\ \E p \in Range(PartsOf(t)) : p.idx = i /\ count <= p.pax
    /\ i \in DOMAIN checkin[t] => Kept(checkin[t][i].events, events)
    /\ checkin' = [checkin EXCEPT ![t] = (i :> [count |-> count, events |-> events]) @@ @]
    /\ UNCHANGED <<trip, parts, same, group, van, stop>>
DeleteCheckin(t, i) ==
    /\ i \in DOMAIN checkin[t] /\ \E p \in Range(PartsOf(t)) : p.idx = i
    /\ checkin' = [checkin EXCEPT ![t] = [x \in DOMAIN @ \ {i} |-> @[x]]]
    /\ UNCHANGED <<trip, parts, same, group, van, stop>>

-----------------------------------------------------------------------------
(* The specification                                                       *)

Refs == Trips \X (0..2)
AltChoices == {<<>>, <<[pax |-> 1, own |-> TRUE]>>, <<[pax |-> 2, own |-> FALSE]>>}
Rows == [{0} -> [pax : {2}, group : {Nothing}, ret : Vans]]
        \cup [{0, 1} -> [pax : Pax, group : DOMAIN group \cup {Nothing}, ret : {Nothing}]]

\* The day begins with nothing arranged, or with one trip already in a group on a van.
VanInit ==
    /\ trip = [t \in Trips |-> [active |-> TRUE, here |-> TRUE, pax |-> 2, zone |-> "PK", alts |-> <<>>]]
    /\ same = {} /\ stop = <<>> /\ checkin = [t \in Trips |-> <<>>]
    /\ van \in [Vans -> [seats : {Max(VanSeats)}, active : {TRUE}, onRoute : BOOLEAN, day : {"none"}, range : {"none"}, zone : {"PK"}]]
    /\ \/ group = <<>> /\ parts = [t \in Trips |-> <<>>]
       \/ \E t \in Trips, v \in Vans :
            /\ van[v].onRoute /\ group = (1 :> [zone |-> "PK", van |-> v, ret |-> Nothing])
            /\ parts = [[x \in Trips |-> <<>>] EXCEPT ![t] = <<[Whole(2) EXCEPT !.group = 1]>>]
    /\ vanAsks = 0

GroupStep ==
    \/ \E g \in Groups, zone \in Zones, refs \in SUBSET Refs, v \in Vans \cup {Nothing}, second \in BOOLEAN :
            CreateGroup(g, zone, refs, v, second)
    \/ \E g \in DOMAIN group : \/ \E refs \in SUBSET Refs : AddMembers(g, refs)
                               \/ \E v, r \in Vans \cup {Nothing}, second \in BOOLEAN : SetGroup(g, v, r, second)
                               \/ Disband(g)
    \/ ClearVans
PartStep == \E t \in Trips : ComeBack(t) \/ ClearStranded(t)
                             \/ \E rows \in Rows, back \in BOOLEAN : SetTripParts(t, rows, back)
BookingStep == \E t \in Trips : \/ \E n \in Pax, zone \in Zones, alts \in AltChoices : PaxSum(alts) <= n /\ Amend(t, n, zone, alts)
                                \/ Move(t) \/ Cancel(t) \/ Restore(t)
VanStep == \E v \in Vans : \/ \E seats \in VanSeats, active \in BOOLEAN : EditVan(v, seats, active)
                           \/ \E onRoute \in BOOLEAN, status \in {"none", "available"} : SetVanDay(v, onRoute, status)
                           \/ \E status \in {"none", "off"} : SetRange(v, status)
StopStep == \E s \in Stops : DeleteStop(s)
                             \/ \E g \in DOMAIN group \cup {Nothing}, seats \in {1, MaxPax}, anyway \in BOOLEAN : PutStop(s, g, seats, anyway)
CheckStep == \E t \in Trips, i \in 0..1 : DeleteCheckin(t, i)
                                          \/ \E events \in {<<"live">>, <<"undone">>} : PutCheckin(t, i, 1, events)
VanNext == /\ vanAsks < MaxVanAsks /\ vanAsks' = vanAsks + 1
           /\ GroupStep \/ PartStep \/ BookingStep \/ VanStep \/ StopStep \/ CheckStep
VanSpec == VanInit /\ [][VanNext]_vanVars

-----------------------------------------------------------------------------
(* Properties                                                              *)

\* The rows the tables hold.
TripRows == [active : BOOLEAN, here : BOOLEAN, pax : Pax, zone : Zones, alts : AltChoices]
GroupRows == [zone : Zones \cup {"gone"}, van : Vans \cup {Nothing}, ret : Vans \cup {Nothing}]
StopRows == [group : DOMAIN group \cup {Nothing}, seats : 1..MaxPax, agreed : BOOLEAN]

\* Every row has its type; a part names a group that stands.
VanTypeOK ==
    /\ trip \in [Trips -> TripRows] /\ \A g \in DOMAIN group : group[g] \in GroupRows
    /\ \A t \in Trips : Range(parts[t]) \subseteq Parts /\ IsInjective([i \in DOMAIN parts[t] |-> parts[t][i].idx])
    /\ \A t \in Trips : \A p \in Range(parts[t]) : p.group # Nothing => group[p.group].zone # "gone"
    /\ same \subseteq Trips /\ \A s \in DOMAIN stop : stop[s] \in StopRows
    /\ \A s \in DOMAIN stop : stop[s].group # Nothing => group[stop[s].group].zone # "gone"

\* However a booking's passengers change under the split its vans were
\* arranged in, the parts go on carrying exactly the passengers it has, a
\* booking all of whose passengers alternate pickups take apart.
\* (rebalanceParts, altPickupParts, setTripParts)
MainTakesTheRest == \A t \in Trips : (\E p \in Range(PartsOf(t)) : p.source # "alt_pickup") => PaxSum(PartsOf(t)) = trip[t].pax

\* A van picks up in one zone: whatever was rezoned, moved, cancelled and
\* restored, everyone riding in a group is in its zone. (joinable, rezonedParts)
OneZonePerGroup == \A t \in Here : \A p \in Range(PartsOf(t)) : p.group # Nothing => trip[t].zone = group[p.group].zone

\* A booking that comes back on the van it came out on has no part with a
\* return van of its own. (setTripParts, setGroup)
SameVanOrReturn == \A t \in same : \A p \in Range(PartsOf(t)) : p.ret = Nothing

\* The desk's own commands never put more into a group than its van seats: one
\* gets fuller than that only when a booking or a van changes under it, or a
\* stop is added anyway. (assertCapacity, of every command's outcome)
Seated(g) == group[g].van # Nothing => Load(g) <= van[group[g].van].seats
VansFit == trip' = trip /\ van' = van =>
    \A g \in DOMAIN group' :
        Seated(g)' \/ (g \in DOMAIN group /\ group[g].van = group'[g].van /\ Load(g)' <= Load(g))
        \/ \E s \in DOMAIN stop' : stop'[s].group = g /\ stop'[s].agreed
=============================================================================
