--------------------------- MODULE MCOperations ---------------------------
(* Small instances of the parts an operations day is made of, a history    *)
(* being of one of them: the vans and their papers, the care of a closed   *)
(* trip and of its guests, the partner's orders, what a trip earns and     *)
(* costs, the route's days, the boat's seats, the staff's free seats, the  *)
(* route list, the change log's rows, and two people editing one record.   *)
EXTENDS VanDay, VanPapers, TripCare, HeldOrders, TripProfit, RouteDays, BoatSeats,
        StaffSeats, RouteList, ChangeRows, EditConflicts

CONSTANTS n1, u1, w1, w2, c1, c2, t1, t2, v1, v2, k1, k2, a1, a2, g1, e1

VARIABLE area

SplitPax == [b \in Riders |-> IF b = w1 THEN <<1, 1>> ELSE <<1>>]
Fetched == [b \in Riders |-> 1]

SoldTrips == [b \in Guests |-> IF b = c1 THEN <<[route |-> "x", day |-> 1], [route |-> "y", day |-> 2]>>
                               ELSE <<[route |-> "x", day |-> 1]>>]

SomePeople == UNION {[1 .. n -> {"thai", "foreign", "unknown"}] : n \in 0 .. 3}
SomeOrders == {p \in [thai : 0 .. 2, other : 0 .. 2, people : SomePeople] : Len(p.people) <= p.thai + p.other}

\* Cost lines: fuel at the boat's litres, a meal a head, crew by steps, a van on demand, longtails.
CostPart(kind, q, u) ==
    [kind |-> kind, q |-> q, q4 |-> q, u |-> u, u4 |-> u, uTh |-> u, uCh |-> u, uChTh |-> u,
     fuel |-> FALSE, every |-> 1, min |-> 0, over |-> 0, add |-> 0]
Line(g, vat, demand, ps) ==
    [group |-> g, vat |-> vat, demand |-> demand, demandQty |-> 0, parts |-> ps]
SomeIds == {"fuel", "meal", "crew", "van", "ltj", "ltc"}
SomeLines == [l \in SomeIds |->
    CASE l = "fuel" -> Line("fuel", TRUE, FALSE, <<[CostPart("fix", 2, 0) EXCEPT !.fuel = TRUE], [CostPart("var", 1, 0) EXCEPT !.fuel = TRUE]>>)
      [] l = "meal" -> Line("food", FALSE, FALSE, <<[CostPart("var", 1, 4) EXCEPT !.uTh = 2, !.uCh = 2]>>)
      [] l = "crew" -> Line("crew", FALSE, FALSE, <<CostPart("fix", 1, 4), [CostPart("step", 1, 2) EXCEPT !.over = 1, !.add = 1]>>)
      [] l = "van" -> Line("van", FALSE, TRUE, <<CostPart("var", 1, 2)>>)
      [] l = "ltj" -> Line("longtail", FALSE, TRUE, <<CostPart("var", 1, 2)>>)
      [] l = "ltc" -> Line("longtail", FALSE, TRUE, <<CostPart("fix", 1, 4)>>)]
TourLeg(overnight, amount) == [tour |-> "x", ovn |-> overnight, amount |-> amount]
Party(legs, zone, back, lt) ==
    [ad |-> 1, chd |-> 1, th |-> 0, legs |-> legs, total |-> 20, zone |-> zone, coach |-> k1, back |-> back, lt |-> lt]
SomeParties == {Party(1 :> TourLeg(FALSE, 0), "PK", NoCoach, "charter"),
                Party(1 :> TourLeg(FALSE, 0) @@ 2 :> TourLeg(TRUE, 0), "KL", k2, "none")}
SomeCoachRates(c, t, z) == IF c = k2 THEN 8 ELSE IF z = "KL" THEN 16 ELSE 4
SomeRents == {[OwnBoat EXCEPT !.rented = TRUE, !.total = 56, !.owner = {"crew"}, !.vat = TRUE]}
SomePlans == {[NoPlan EXCEPT !.off = {"crew"}, !.price = 2], [NoPlan EXCEPT !.unit["meal"] = 6]}
SomeRecounts == {[Untouched EXCEPT !.counted = 1], [Untouched EXCEPT !.van.any = 2],
                 [Untouched EXCEPT !.van.any = 2, !.cameAlone = 1],
                 [Untouched EXCEPT !.pier = [ad |-> 1, chd |-> 1, any |-> 0]]}
SomeMeals == {[adult |-> 4, child |-> 2]}
EngineCounts == v1 :> 3 @@ v2 :> 4

PartySizes == a1 :> 5 @@ a2 :> 3
OneDeparture == g1 :> {e1}

\* An area that is not the history's stays in one of its first states.
OpsInit ==
    /\ area \in {"vans", "rides", "sheets", "bills", "weather", "desk", "orders", "riders", "costs",
                 "days", "seats", "staff", "list", "rows", "edits"}
    /\ CareInit /\ HeldInit /\ StaffInit /\ ListInit /\ RowsInit
    /\ VanInit /\ (area \notin {"vans", "rides"} => group = <<>>) /\ (area # "rides" => \A v \in Vans : van[v].onRoute)
    /\ area = "vans" => group # <<>>
    /\ group # <<>> => group[1].van = u1 /\ parts[n1] # <<>>    \* trips and vans are alike
    /\ PapersInit /\ (area \notin {"sheets", "bills"} => \A g \in Rounds : car[g] = NoCar)
    /\ ProfitInit /\ (area # "riders" => party[t2] = party[t1])
    /\ area \notin {"riders", "costs"} => party[t1].zone = "PK"
    /\ DaysInit /\ (area # "days" => seasons = {})
    /\ SeatsInit /\ (area # "seats" => craft = [cap |-> 3, lic |-> Unset, retired |-> FALSE])
    /\ EditInit /\ (area # "edits" => login)

\* Bound of the vans' histories: the groups change beside the bookings, or beside the vans and their stops.
VansNext ==
    /\ vanAsks < MaxVanAsks /\ vanAsks' = vanAsks + 1
    /\ \/ GroupStep
       \/ area = "vans" /\ (PartStep \/ BookingStep)
       \/ area = "rides" /\ (VanStep \/ StopStep \/ CheckStep)
\* Bound of the costs' histories: one party of the first day, on one of two vessels.
CostsNext ==
    /\ MoneyStep
    /\ rides'[t2] = rides[t2] /\ actuals'[2] = actuals[2] /\ t2 \notin cancelled'
    /\ \A v \in Vessels : rides'[t1][1][v] # 1
ProfitsNext ==
    /\ profits < MaxProfits /\ profits' = profits + 1
    /\ IF area = "riders" THEN RiderStep ELSE CostsNext
PaperNext == IF area = "sheets" THEN SheetHistory ELSE BillHistory
CaringNext == IF area = "weather" THEN TripStep ELSE DeskStep

\* The parts of the history's area take a step, the others none.
OpsNext ==
    /\ UNCHANGED area
    /\ IF area \in {"vans", "rides"} THEN VansNext ELSE UNCHANGED vanVars
    /\ IF area \in {"sheets", "bills"} THEN PaperNext ELSE UNCHANGED paperVars
    /\ IF area \in {"weather", "desk"} THEN CaringNext ELSE UNCHANGED careVars
    /\ IF area = "orders" THEN HeldNext ELSE UNCHANGED heldVars
    /\ IF area \in {"riders", "costs"} THEN ProfitsNext ELSE UNCHANGED profitVars
    /\ IF area = "days" THEN DaysNext ELSE UNCHANGED calendarVars
    /\ IF area = "seats" THEN SeatsNext ELSE UNCHANGED seatVars
    /\ IF area = "staff" THEN StaffNext ELSE UNCHANGED staffVars
    /\ IF area = "list" THEN ListNext ELSE UNCHANGED listVars
    /\ IF area = "rows" THEN RowsNext ELSE UNCHANGED rowVars
    /\ IF area = "edits" THEN EditNext ELSE UNCHANGED editVars
opsVars == <<vanVars, paperVars, careVars, heldVars, profitVars, calendarVars, seatVars, staffVars,
             listVars, rowVars, editVars, area>>
OpsSpec == OpsInit /\ [][OpsNext]_opsVars

-----------------------------------------------------------------------------
\* Every variable of the day's parts keeps its type.
OpsTypes ==
    /\ area \in {"vans", "rides"} => VanTypeOK
    /\ area \in {"sheets", "bills"} => PapersTypeOK
    /\ area \in {"weather", "desk"} => CareTypeOK
    /\ area = "orders" => HeldTypeOK
    /\ area = "days" => DaysTypeOK
    /\ area = "seats" => SeatsTypeOK
    /\ area = "staff" => StaffTypeOK
    /\ area = "list" => ListTypeOK
    /\ area = "edits" => EditTypeOK

\* The vans: the main part takes the passengers the others leave, a run stays in one zone, nobody both
\* comes back on the same van and has a return of their own; the pickup sheets carry every passenger
\* and a partner's bill counts each ride once.
VansKept ==
    /\ area \in {"vans", "rides"} => MainTakesTheRest /\ OneZonePerGroup /\ SameVanOrReturn
    /\ area \in {"sheets", "bills"} => SheetsCarryEveryone /\ BillCountsOnce

\* Days and seats: nobody is left on a day its route does not run unless somebody said so, a boat's
\* day is oversold or its seats rewritten only where somebody said so, staff take no more free seats
\* than their quota, and the route list stays numbered and whole.
SeatsAndDaysKept ==
    /\ area = "days" => NoneStrandedInSilence
    /\ area = "seats" => SeatsKept
    /\ area = "staff" => StaffKept
    /\ area = "list" => RoutesKept

\* What is said and counted elsewhere stays true of the bookings: a guest's care, a partner's held
\* order, the riders and the money of a trip, the lock log, and nothing saved over unseen.
RecordsKept ==
    /\ area \in {"weather", "desk"} => CareKept
    /\ area = "orders" => HeldKept /\ (pushes = 0 => MixedIsRight)
    /\ area = "riders" => ReportsAgree /\ SoldOnce /\ MealsFollowHeads
    /\ area = "costs" => CostsAddUp
    /\ area = "rows" => LogMatchesDraws
    /\ area = "edits" => NothingOverwritten

\* What a step may never do: load a van past its seats, touch a bill that is paid, unsettle a case that
\* was resolved or a decided order, move another pier's routes, or write without telling the screens.
OpsHistory ==
    [][/\ area \in {"vans", "rides"} => VansFit
       /\ area = "bills" => PaidBillStands
       /\ area \in {"weather", "desk"} => SettledStays
       /\ area = "orders" => DecisionsStand
       /\ area = "list" => DragKeepsOthers
       /\ area = "rows" => EveryWriteIsTold]_opsVars
=============================================================================
