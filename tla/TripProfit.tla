------------------------------ MODULE TripProfit ------------------------------
(***************************************************************************)
(* The Trip P&L: the heads of each boat's day and what they paid, priced   *)
(* by the cost model (the template's lines, the route's plan, the boat's   *)
(* rent), then line by line replaced by what was really spent;             *)
(* the pier's meal order, "ran empty", close and reopen; and the Daily     *)
(* Report's van and longtail costs of the same days.                       *)
(*                                                                         *)
(* A booking travels on one or two days.  Heads are counted in Scale       *)
(* parts, so a booking split over two boats is not rounded before the code *)
(* rounds it.  Names, times, colours, notes and the reasons shown beside a *)
(* line are left out; prices are whole numbers every share divides.        *)
(***************************************************************************)
EXTENDS Integers, Sequences, FiniteSetsExt, SequencesExt

CONSTANTS
    LineIds,        \* the ids of the template's lines
    LineOf,         \* [LineIds -> the line: group, vat, demand, demandQty, parts]
    VatRate,        \* VAT, per hundred
    NoUnit,         \* a plan that leaves a line's price alone
    Trippers, Vessels, Coaches, Tours, TourDays,
    TripParties,         \* the bookings people make, see PartyShape
    Engines,             \* [Vessels -> Nat]
    CoachRate(_, _, _),  \* the day rate of a van on a route from a zone
    CoachFallback,       \* what a van costs when no van has a rate
    MealPrices,          \* what a restaurant asks: [adult, child]
    Rents, Plans,        \* the rent records and the route plans people save
    Litres, FuelPrices,
    Recounts,            \* the check-in records people write, see Untouched
    Scale,               \* parts of a head
    NoVessel, NoTour, NoCoach, NoMeal, NoCount, NotClosed,
    MaxProfits           \* bound: the requests of a history

ASSUME CostAssumption ==
    /\ {"fuel", "meal", "van", "ltj", "ltc"} \subseteq LineIds /\ "rent" \notin LineIds
    /\ VatRate \in Nat

ASSUME ProfitAssumption ==
    /\ NoVessel \notin Vessels /\ NoTour \notin Tours /\ NoCoach \notin Coaches
    /\ Scale \in Nat \ {0} /\ MaxProfits \in Nat

-----------------------------------------------------------------------------
(* The cost model: what one trip of a boat costs, line by line.            *)

Least(a, b) == IF a < b THEN a ELSE b
AtLeast0(n) == IF n < 0 THEN 0 ELSE n
Nearest(num, den) == (2 * num + den) \div (2 * den)
CeilDiv(a, b) == (a + b - 1) \div b
Summed(S, f(_)) == MapThenSumSet(f, S)

\* f of a value computed once, however often f names it.
Given(x, f(_)) == CHOOSE y \in {f(z) : z \in {x}} : TRUE

\* The VAT inside a VAT-inclusive amount.
VatIn(a) == (a * VatRate) \div (100 + VatRate)

-----------------------------------------------------------------------------
(* Rented boats                                                            *)

\* Without a record a boat is our own and burns what the template says.
OwnBoat == [rented |-> FALSE, total |-> 0, days |-> 30, off |-> 2, trips |-> 1, vat |-> FALSE,
            from |-> 1, to |-> 99, fuelPct |-> 100, owner |-> {}]

\* The rent of one trip: over the days the boat runs, and the trips of a day.
PerTrip(r) == LET run == r.days - Least(r.days - 1, r.off) IN (r.total \div run) \div r.trips

\* The rent counts inside the contract, and only when there is one.
RentCounts(r, day) == r.rented /\ r.from <= day /\ day <= r.to /\ PerTrip(r) > 0

-----------------------------------------------------------------------------
(* The lines of a trip                                                     *)

NoPlan == [off |-> {}, unit |-> [l \in LineIds |-> NoUnit], groupsOff |-> {}, pct |-> 0, price |-> 0]

\* The line's parts with the plan's price laid over the first one.
EffectiveParts(l, plan) ==
    LET parts == LineOf[l].parts IN
    IF plan.unit[l] = NoUnit THEN parts
    ELSE [i \in DOMAIN parts |-> IF i = 1 THEN [parts[i] EXCEPT !.u = plan.unit[l], !.u4 = plan.unit[l],
                                                                !.uTh = plan.unit[l], !.uCh = plan.unit[l], !.uChTh = plan.unit[l]]
                                 ELSE parts[i]]

\* Adults and children, foreign and Thai: children split as the boat's nationalities.
PaxSplit(ctx) ==
    LET th == Least(ctx.th, ctx.pax)
        ch == Least(ctx.ch, ctx.pax)
        both == IF ctx.pax = 0 THEN 0 ELSE Least(Nearest(ch * th, ctx.pax), Least(ch, th))
    IN [adTh |-> th - both, adFr |-> AtLeast0(ctx.pax - ch - (th - both)), chTh |-> both, chFr |-> ch - both]

FixAmount(p, ctx) ==
    (IF ctx.engines >= 4 THEN p.q4 ELSE p.q) * (IF p.fuel THEN ctx.fuel ELSE IF ctx.engines >= 4 THEN p.u4 ELSE p.u)

HeadAmount(p, ctx) ==
    IF p.fuel THEN p.q * ctx.fuel * ctx.pax
    ELSE LET s == PaxSplit(ctx) IN s.adFr * p.u + s.adTh * p.uTh + s.chFr * p.uCh + s.chTh * p.uChTh

StepAmount(p, ctx) ==
    p.u * (IF p.over > 0 THEN (IF ctx.pax > p.over THEN p.add ELSE 0)
           ELSE IF p.min > CeilDiv(ctx.pax, p.every) THEN p.min ELSE CeilDiv(ctx.pax, p.every))

PartAmount(p, ctx) ==
    CASE p.kind = "fix" -> FixAmount(p, ctx) [] p.kind = "var" -> HeadAmount(p, ctx) [] p.kind = "step" -> StepAmount(p, ctx)

\* What was really ordered first (in parts of one), else what the line expects of the heads.
DemandAmount(l, unit, ctx) ==
    IF l \in DOMAIN ctx.ordered THEN (AtLeast0(ctx.ordered[l]) * unit) \div ctx.scale
    ELSE unit * (IF LineOf[l].parts[1].kind = "var" THEN Nearest(ctx.pax * LineOf[l].demandQty, 100) ELSE LineOf[l].demandQty)

\* A line's amounts: [fixed, variable]; a fuel part is scaled by the boat's fuel factor.
LineAmounts(l, plan, ctx, rent) ==
    LET parts == EffectiveParts(l, plan)
        amount(p) == IF p.fuel THEN (PartAmount(p, ctx) * rent.fuelPct) \div 100 ELSE PartAmount(p, ctx)
        sumOf(kinds) == FoldLeft(LAMBDA acc, p: acc + (IF p.kind \in kinds THEN amount(p) ELSE 0), 0, parts)
        marked(n) == (n * (100 + plan.pct)) \div 100
    IN IF LineOf[l].demand
       THEN [fixed |-> 0, variable |-> marked(DemandAmount(l, FoldLeft(LAMBDA acc, p: acc + p.u, 0, parts), ctx))]
       ELSE [fixed |-> marked(sumOf({"fix", "step"})), variable |-> marked(sumOf({"var"}))]

NetOf(a, vat) == a - (IF vat THEN VatIn(a) ELSE 0)

RowOf(l, group, amounts, vat) ==
    LET a == amounts.fixed + amounts.variable IN
    [line |-> l, group |-> group, taxed |-> vat, amount |-> a, vat |-> IF vat THEN VatIn(a) ELSE 0, net |-> NetOf(a, vat),
     fixedNet |-> NetOf(amounts.fixed, vat), varNet |-> NetOf(amounts.variable, vat)]

\* The lines charged: not those the owner of a rented boat pays, nor those the plan turns off.
Charged(plan, ctx, template, rent) ==
    {l \in template : /\ ~(RentCounts(rent, ctx.day) /\ l \in rent.owner)
                      /\ LineOf[l].group \notin plan.groupsOff /\ l \notin plan.off}

RentRow(rent) == RowOf("rent", "rent", [fixed |-> PerTrip(rent), variable |-> 0], rent.vat)

CalcRows(plan, ctx, template, rent) ==
    {RowOf(l, LineOf[l].group, LineAmounts(l, plan, ctx, rent), LineOf[l].vat) : l \in Charged(plan, ctx, template, rent)}
    \cup (IF RentCounts(rent, ctx.day) THEN {RentRow(rent)} ELSE {})

\* Every line of the template for this plan and this trip.
Calc(plan, ctx, template, rent) ==
    Given(CalcRows(plan, ctx, template, rent), LAMBDA rows:
        [rows |-> rows,
         net |-> Summed(rows, LAMBDA r: r.amount) - Summed(rows, LAMBDA r: r.vat),
         fixedNet |-> Summed(rows, LAMBDA r: r.fixedNet),
         varNet |-> Summed(rows, LAMBDA r: r.varNet)])

-----------------------------------------------------------------------------
(* Profit and break-even                                                   *)

\* A plan's own heads and prices, for a trip of n: the day's Thai heads first.
CtxAt(base, n) == [base EXCEPT !.pax = n, !.th = Least(base.th, n), !.ch = 0, !.ordered = <<>>]

ProfitAt(plan, base, n, template, rent) ==
    LET rev == n * plan.price IN (rev - VatIn(rev)) - Calc(plan, CtxAt(base, n), template, rent).net

\* Steps make a closed formula wrong: walk to the first profit, 0 for none.
BreakEven(plan, base, cap, template, rent) ==
    LET paying == {n \in 1 .. cap : ProfitAt(plan, base, n, template, rent) > 0} IN
    IF paying = {} THEN 0 ELSE Min(paying)

\* The longtail prices of a route: a line turned off is 0; with no line, the default boat price.
LongtailRate(l, template, plan, default) ==
    IF l \notin template THEN default
    ELSE IF LineOf[l].group \in plan.groupsOff \/ l \in plan.off THEN 0
    ELSE EffectiveParts(l, plan)[1].u

-----------------------------------------------------------------------------
(* Bookings, boats and what is kept of them                                *)

(* A party: ad, chd, th (how many are Thai), legs (day -> [tour, ovn, amount], the
   days it travels), total, zone ("PK" or "KL"), coach and back (the van it
   rides and the one an overnight return takes), lt (what longtail it booked:
   "none", "join" or "charter").                                             *)
Heads(p) == p.ad + p.chd

Untouched == [van |-> [ad |-> 0, chd |-> 0, any |-> 0], pier |-> [ad |-> 0, chd |-> 0, any |-> 0],
              reinstated |-> FALSE, cameAlone |-> 0, counted |-> NoCount]

VARIABLES
    party,                  \* [Trippers -> Parties]
    cancelled,              \* the bookings cancelled
    rides,                  \* [Trippers -> [TourDays -> [Vessels -> heads]]]: the boat, or the split over boats
    checkins,               \* [Trippers -> [TourDays -> check-in]]
    upgraded,               \* [Trippers -> BOOLEAN]: an upgrade, whose money the company keeps
    sold,                   \* [Trippers -> TourDays \cup {0}]: the day of an on-tour sale
    runs,                   \* [TourDays -> [Vessels -> the route it is deployed on]]
    template, plan, rents,  \* the cost model's records (one route plan)
    litres, fuelPrice,      \* [TourDays -> [Vessels -> litres]], and the day's effective price
    mealPrice,              \* what the restaurant asks now
    actuals,                \* [TourDays -> [Vessels -> the boat's day as it went]]
    profits                 \* bound: the requests made

bookingVars == <<party, cancelled, rides, checkins, upgraded, sold>>
costVars == <<template, plan, rents, litres, fuelPrice, mealPrice>>
profitVars == <<bookingVars, runs, costVars, actuals, profits>>

BlankActual == [noMeal |-> FALSE, meal |-> NoMeal, stays |-> {}, out |-> {}, ran |-> FALSE, closed |-> NotClosed]

OnDay(b, d) == d \in DOMAIN party[b].legs
Leg(b, d) == party[b].legs[d]
Live(d) == {b \in Trippers \ cancelled : OnDay(b, d)}

-----------------------------------------------------------------------------
(* Who is on the boat                                                      *)

\* One head that came alone comes back off the lost: off those with no breakdown, else off the larger kind.
GaveBack(lost) ==
    IF lost.any > 0 THEN [lost EXCEPT !.any = @ - 1]
    ELSE IF lost.ad >= lost.chd THEN [lost EXCEPT !.ad = AtLeast0(@ - 1)] ELSE [lost EXCEPT !.chd = @ - 1]

\* Lost on the van and at the pier; a van no-show of a booking the pier reinstated is not lost.
LostByType(c) ==
    LET van == IF c.reinstated THEN [ad |-> 0, chd |-> 0, any |-> 0] ELSE c.van
    IN FoldLeft(LAMBDA lost, i: GaveBack(lost),
                [ad |-> van.ad + c.pier.ad, chd |-> van.chd + c.pier.chd, any |-> van.any + c.pier.any],
                [i \in 1 .. c.cameAlone |-> i])
LostTotal(c) == LET l == LostByType(c) IN l.ad + l.chd + l.any

\* Everyone booked was lost; lost with no breakdown comes off the adults.
IsVoid(b, d) ==
    LET l == LostByType(checkins[b][d]) IN l.ad + l.any >= party[b].ad /\ l.chd >= party[b].chd

\* The pier's count once it counted, else booked less the lost.
OnBoard(b, d) ==
    IF checkins[b][d].counted # NoCount THEN checkins[b][d].counted
    ELSE AtLeast0(Heads(party[b]) - LostTotal(checkins[b][d]))

OnBoat(d, v) == {b \in Live(d) : rides[b][d][v] > 0}
ShareOf(b, d, v, amount) == (amount * rides[b][d][v]) \div Heads(party[b])
ScaledHeads(b, d, v) == ShareOf(b, d, v, Scale * OnBoard(b, d))
Rounded(x) == Nearest(x, Scale)

\* The trip's own price on a booking of several trips, else the booking's; a return leg is free.
TripAmount(b, d) ==
    IF Leg(b, d).ovn THEN 0
    ELSE IF Cardinality(DOMAIN party[b].legs) > 1 /\ Leg(b, d).amount > 0 THEN Leg(b, d).amount ELSE party[b].total

AboardOn(d, v) == {b \in OnBoat(d, v) : ~IsVoid(b, d) /\ OnBoard(b, d) > 0}

\* The heads by kind: the missing are taken off every category in proportion.
TripPax(d, v) ==
    LET on == AboardOn(d, v)
        kind(n(_)) == Rounded(Summed(on, LAMBDA b: (n(party[b]) * ScaledHeads(b, d, v)) \div Heads(party[b])))
    IN [total |-> Rounded(Summed(on, LAMBDA b: ScaledHeads(b, d, v))),
        chd |-> kind(LAMBDA p: p.chd), th |-> kind(LAMBDA p: p.th),
        bookings |-> Cardinality(on), revenue |-> Summed(on, LAMBDA b: ShareOf(b, d, v, TripAmount(b, d)))]

-----------------------------------------------------------------------------
(* What was ordered, sold and driven                                       *)

\* (mutant) a booking split over two boats charters a longtail for each.
TripLongtailEach(d, v) ==
    LET on == {b \in OnBoat(d, v) : ~IsVoid(b, d)} IN
    [charter |-> Scale * Cardinality({b \in on : party[b].lt = "charter"}),
     join |-> Summed({b \in on : party[b].lt = "join"}, LAMBDA b: ScaledHeads(b, d, v))]

\* Longtail boats chartered and join heads (those on board), for one boat.
TripLongtail(d, v) ==
    LET on == {b \in OnBoat(d, v) : ~IsVoid(b, d)} IN
    [charter |-> Summed({b \in on : party[b].lt = "charter"}, LAMBDA b: ShareOf(b, d, v, Scale)),
     join |-> Summed({b \in on : party[b].lt = "join"}, LAMBDA b: ScaledHeads(b, d, v))]

FirstDay(b) == Min(DOMAIN party[b].legs)
UpgradeKept == 2
SaleKept == 2

\* (mutant) an upgrade counts on every day the booking travels.
TripUpsellEveryDay(d, v) ==
    Summed(OnBoat(d, v), LAMBDA b: ShareOf(b, d, v, (IF upgraded[b] THEN UpgradeKept ELSE 0) + (IF sold[b] = d THEN SaleKept ELSE 0)))

\* What the company keeps of what was sold: an upgrade on the booking's first trip, a sale on its day.
TripUpsell(d, v) ==
    Summed(OnBoat(d, v), LAMBDA b: ShareOf(b, d, v, (IF upgraded[b] /\ FirstDay(b) = d THEN UpgradeKept ELSE 0)
                                                    + (IF sold[b] = d THEN SaleKept ELSE 0)))

\* The van of a leg: an overnight return rides its return van.
CoachOn(b, d) == IF Leg(b, d).ovn /\ party[b].back # NoCoach THEN party[b].back ELSE party[b].coach
Drove(d, c) == {b \in Live(d) : CoachOn(b, d) = c}
CoachHeads(d, c) == Summed(Drove(d, c), LAMBDA b: Heads(party[b]))
DearerZone(S) == IF \E b \in S : party[b].zone = "KL" THEN "KL" ELSE "PK"

\* (mutant) each boat pays the whole van.
CoachShareWhole(d, v, c) == CoachRate(c, runs[d][v], DearerZone({b \in Drove(d, c) : rides[b][d][v] > 0}))

\* A van's day rate on this boat's route, shared by the heads it took.
CoachShare(d, v, c) ==
    LET mine == {b \in Drove(d, c) : rides[b][d][v] > 0} IN
    (CoachRate(c, runs[d][v], DearerZone(mine)) * Summed(mine, LAMBDA b: rides[b][d][v])) \div CoachHeads(d, c)
CoachesOf(d, v) == {CoachOn(b, d) : b \in OnBoat(d, v)} \ {NoCoach}
TripVanCost(d, v) == Summed(CoachesOf(d, v), LAMBDA c: CoachShare(d, v, c))

-----------------------------------------------------------------------------
(* The meal order                                                          *)

\* (mutant) those lost at the pier eat all the same.
SeatedLost(b, d) ==
    LET c == checkins[b][d] IN IF c.counted = NoCount THEN Heads(party[b]) ELSE c.counted

\* The heads that will sit down: booked less the lost, and less the pier's missing once it counted.
HeadsOn(b, d) ==
    LET c == checkins[b][d]
        missing == IF c.counted = NoCount THEN 0 ELSE AtLeast0(Heads(party[b]) - c.counted)
    IN AtLeast0(Heads(party[b]) - LostTotal(c) - missing)

Returning(d, v) == {b \in OnBoat(d, v) : ~IsVoid(b, d) /\ Leg(b, d).ovn}
Undecided(d, v) == {b \in Returning(d, v) : OnBoard(b, d) > 0} \ (actuals[d][v].stays \cup actuals[d][v].out)
Eating(d, v) == {b \in OnBoat(d, v) : ~IsVoid(b, d) /\ (Leg(b, d).ovn => b \in actuals[d][v].stays)}

MealPreview(d, v) ==
    LET tot(b) == ShareOf(b, d, v, Scale * HeadsOn(b, d))
        kids(b) == Least(Scale * party[b].chd, tot(b))
    IN [adults |-> Rounded(Summed(Eating(d, v), LAMBDA b: tot(b) - kids(b))),
        children |-> Rounded(Summed(Eating(d, v), kids))]

MealCost(m) == m.adults * mealPrice.adult + m.children * mealPrice.child

-----------------------------------------------------------------------------
(* One boat's day                                                          *)

PlanFor(d, v) == IF runs[d][v] = NoTour THEN NoPlan ELSE plan
EffectiveFuel(d, v) == IF fuelPrice[d] > 0 THEN fuelPrice[d] ELSE PlanFor(d, v).price

TripCtx(d, v) ==
    Given(TripPax(d, v), LAMBDA px:
        LET lt == TripLongtail(d, v) IN
        [engines |-> Engines[v], fuel |-> EffectiveFuel(d, v), day |-> d, pax |-> px.total, th |-> px.th,
         ch |-> Least(px.total, px.chd), scale |-> Scale, ordered |-> [ltj |-> lt.join, ltc |-> lt.charter]])

\* What was really spent, by line: fuel logged, the meal sent, the vans that carried them.
Spent(d, v) ==
    LET fuel == litres[d][v] * EffectiveFuel(d, v)
        meal == actuals[d][v].meal
    IN (IF fuel > 0 THEN [fuel |-> fuel] ELSE <<>>) @@ (IF meal # NoMeal THEN [meal |-> meal.amount] ELSE <<>>)
       @@ (IF CoachesOf(d, v) # {} THEN [van |-> TripVanCost(d, v)] ELSE <<>>)

Estimate(d, v) == Calc(PlanFor(d, v), TripCtx(d, v), template, rents[v])

\* The money of this moment, before any freeze: a line's use is what was spent, net, else the formula's.
Moment(d, v) ==
    LET spent == Spent(d, v)
        use(r) == IF r.line \in DOMAIN spent THEN NetOf(spent[r.line], r.taxed) ELSE r.net
        gross == TripPax(d, v).revenue + TripUpsell(d, v)
    IN Given({[line |-> r.line, group |-> r.group, use |-> use(r)] : r \in Estimate(d, v).rows}, LAMBDA uses:
           [uses |-> uses, cost |-> Summed(uses, LAMBDA u: u.use), revenue |-> gross - VatIn(gross)])

\* A closed trip's money stands still; its heads are still live.
Frozen(d, v, m) ==
    LET z == actuals[d][v].closed
        held(u) == {x \in z.rows : x.line = u.line}
    IN IF z = NotClosed THEN m
       ELSE [uses |-> {u \in m.uses : held(u) = {}} \cup UNION {held(u) : u \in m.uses}, cost |-> z.cost, revenue |-> z.revenue]

\* On the board but nobody and no booking: it did not sail, unless marked as ran.
NoSail(d, v) == TripPax(d, v).total = 0 /\ TripPax(d, v).bookings = 0 /\ ~actuals[d][v].ran

\* (mutant) a boat that did not sail costs nothing, and its rows still do.
TripPLRowsKept(d, v) ==
    Given(Frozen(d, v, Moment(d, v)), LAMBDA m: IF NoSail(d, v) THEN [m EXCEPT !.cost = 0] ELSE m)

TripPL(d, v) ==
    Given(Frozen(d, v, Moment(d, v)), LAMBDA m:
        IF NoSail(d, v) THEN [m EXCEPT !.uses = {[u EXCEPT !.use = 0] : u \in @}, !.cost = 0] ELSE m)

DayBoats(d) == {v \in Vessels : runs[d][v] # NoTour}

\* Every boat on the board that day, and the day by cost group.
DayPL(d) ==
    Given({<<v, TripPL(d, v)>> : v \in DayBoats(d)}, LAMBDA pl:
        LET kept == UNION {{<<t[1], u>> : u \in t[2].uses} : t \in pl}
            groups == {x[2].group : x \in kept}
        IN [cost |-> Summed(pl, LAMBDA t: t[2].cost), revenue |-> Summed(pl, LAMBDA t: t[2].revenue),
            byGroup |-> {<<g, Summed({x \in kept : x[2].group = g}, LAMBDA x: x[2].use)>> : g \in groups}])

-----------------------------------------------------------------------------
(* The Daily Report's vans and longtails                                   *)

\* Each van's day cost by route, split by the heads it took there.
DailyVanCost(d) ==
    LET cells == {<<CoachOn(b, d), Leg(b, d).tour>> : b \in {x \in Live(d) : CoachOn(x, d) # NoCoach}}
        riders(c) == {b \in Drove(d, c[1]) : Leg(b, d).tour = c[2]}
        cost(c) == (CoachRate(c[1], c[2], DearerZone(riders(c))) * Summed(riders(c), LAMBDA b: Heads(party[b]))) \div CoachHeads(d, c[1])
        total == Summed(cells, cost)
    IN IF total = 0 THEN Cardinality({c[1] : c \in cells}) * CoachFallback ELSE total

\* Longtail boats of the day; an overnight return's was paid on the way out.
DailyLongtail(d) == Cardinality({b \in Live(d) : ~Leg(b, d).ovn /\ party[b].lt = "charter"})

-----------------------------------------------------------------------------
(* Bookings, boats and the log                                             *)

Place(b, d) ==
    /\ OnDay(b, d)
    /\ \E r \in [Vessels -> 0 .. Heads(party[b])] :
           /\ Summed(Vessels, LAMBDA v: r[v]) \in {0, Heads(party[b])}
           /\ \A v \in Vessels : r[v] > 0 => runs[d][v] = Leg(b, d).tour
           /\ rides' = [rides EXCEPT ![b][d] = r]
    /\ UNCHANGED <<party, cancelled, checkins, upgraded, sold>>

CheckIn(b, d) ==
    /\ OnDay(b, d)
    /\ \E c \in Recounts : checkins' = [checkins EXCEPT ![b][d] = c]
    /\ UNCHANGED <<party, cancelled, rides, upgraded, sold>>

CancelTripper(b) == cancelled' = cancelled \cup {b} /\ UNCHANGED <<party, rides, checkins, upgraded, sold>>

SellUpgrade(b) ==
    /\ ~upgraded[b] /\ upgraded' = [upgraded EXCEPT ![b] = TRUE]
    /\ UNCHANGED <<party, cancelled, rides, checkins, sold>>
SellOnTour(b, d) ==
    /\ OnDay(b, d) /\ sold[b] = 0 /\ sold' = [sold EXCEPT ![b] = d]
    /\ UNCHANGED <<party, cancelled, rides, checkins, upgraded>>

\* A deployment is removed only when no booking holds a seat on the boat.
DeployVessel(d, v) ==
    \/ /\ runs[d][v] = NoTour /\ \E t \in Tours : runs' = [runs EXCEPT ![d][v] = t]
    \/ /\ runs[d][v] # NoTour /\ OnBoat(d, v) = {} /\ runs' = [runs EXCEPT ![d][v] = NoTour]

LogFuel(d, v) ==
    /\ \E n \in Litres : litres' = [litres EXCEPT ![d][v] = n]
    /\ UNCHANGED <<template, plan, rents, fuelPrice, mealPrice>>
PriceFuel(d) ==
    /\ \E n \in FuelPrices : fuelPrice' = [fuelPrice EXCEPT ![d] = n]
    /\ UNCHANGED <<template, plan, rents, litres, mealPrice>>
PutTemplate(kept) == template' = kept /\ UNCHANGED <<plan, rents, litres, fuelPrice, mealPrice>>
PutPlan(p) == plan' = p /\ UNCHANGED <<template, rents, litres, fuelPrice, mealPrice>>
PutRent(v, r) == rents' = [rents EXCEPT ![v] = r] /\ UNCHANGED <<template, plan, litres, fuelPrice, mealPrice>>
PatchVenue(m) == mealPrice' = m /\ UNCHANGED <<template, plan, rents, litres, fuelPrice>>

CostStep ==
    /\ \/ \E d \in TourDays : PriceFuel(d) \/ \E v \in Vessels : LogFuel(d, v)
       \/ \E l \in LineIds : PutTemplate(template \ {l}) \/ PutTemplate(template \cup {l})
       \/ \E p \in Plans \cup {NoPlan} : PutPlan(p)
       \/ \E v \in Vessels, r \in Rents \cup {OwnBoat} : PutRent(v, r)
       \/ \E m \in MealPrices : PatchVenue(m)
    /\ UNCHANGED <<bookingVars, runs, actuals>>

-----------------------------------------------------------------------------
(* The boat's day as it went                                               *)

SetActual(d, v, a) == actuals' = [actuals EXCEPT ![d][v] = a]

SetVenue(d, v) == \E none \in BOOLEAN : SetActual(d, v, [actuals[d][v] EXCEPT !.noMeal = none])

\* Counted and priced here, then frozen; sending again replaces it.
SendMeal(d, v) ==
    LET m == MealPreview(d, v) IN
    /\ ~actuals[d][v].noMeal /\ Undecided(d, v) = {} /\ m.adults + m.children > 0
    /\ SetActual(d, v, [actuals[d][v] EXCEPT !.meal = [adults |-> m.adults, children |-> m.children, amount |-> MealCost(m)]])

\* Whether an overnight return's meal counts: in, out, or not decided.
DecideOvernight(d, v, b) ==
    /\ b \in Trippers /\ OnDay(b, d) /\ Leg(b, d).ovn /\ rides[b][d][v] > 0
    /\ \E include \in {"in", "out", "none"} :
           SetActual(d, v, [actuals[d][v] EXCEPT !.stays = IF include = "in" THEN @ \cup {b} ELSE @ \ {b},
                                                  !.out = IF include = "out" THEN @ \cup {b} ELSE @ \ {b}])

\* The money of this moment, frozen; a boat that did not sail has nothing to freeze.
CloseTrip(d, v) ==
    \E m \in {TripPL(d, v)} :
    /\ runs[d][v] # NoTour /\ actuals[d][v].closed = NotClosed /\ ~NoSail(d, v)
    /\ SetActual(d, v, [actuals[d][v] EXCEPT !.closed = [cost |-> m.cost, revenue |-> m.revenue, rows |-> m.uses]])

ReopenTrip(d, v) ==
    /\ runs[d][v] # NoTour /\ actuals[d][v].closed # NotClosed
    /\ SetActual(d, v, [actuals[d][v] EXCEPT !.closed = NotClosed])

\* Only a boat with nobody and no booking is marked as ran empty.
MarkRan(d, v) ==
    /\ runs[d][v] # NoTour /\ TripPax(d, v).total = 0 /\ TripPax(d, v).bookings = 0
    /\ SetActual(d, v, [actuals[d][v] EXCEPT !.ran = TRUE])
UnmarkRan(d, v) == runs[d][v] # NoTour /\ SetActual(d, v, [actuals[d][v] EXCEPT !.ran = FALSE])

\* Who rode what, what was sold on tour, and the meals ordered for them.
RiderStep ==
    /\ \/ /\ \E b \in Trippers : \/ CancelTripper(b) \/ SellUpgrade(b)
                                 \/ \E d \in TourDays : Place(b, d) \/ CheckIn(b, d) \/ SellOnTour(b, d)
          /\ UNCHANGED actuals
       \/ /\ \E d \in TourDays, v \in Vessels : \/ SetVenue(d, v) \/ SendMeal(d, v)
                                               \/ \E b \in Trippers : DecideOvernight(d, v, b)
          /\ UNCHANGED bookingVars
    /\ UNCHANGED <<runs, costVars>>

\* What a boat's day cost while its bookings come and go, and its close.
MoneyStep ==
    \/ CostStep
    \/ /\ \E d \in TourDays, v \in Vessels : SendMeal(d, v) \/ CloseTrip(d, v) \/ ReopenTrip(d, v) \/ MarkRan(d, v) \/ UnmarkRan(d, v)
       /\ UNCHANGED <<bookingVars, runs, costVars>>
    \/ /\ \E b \in Trippers, d \in TourDays : Place(b, d) \/ CancelTripper(b)
       /\ UNCHANGED <<runs, costVars, actuals>>
    \/ /\ \E d \in TourDays, v \in Vessels : DeployVessel(d, v)
       /\ UNCHANGED <<bookingVars, costVars, actuals>>

ProfitNext ==
    /\ profits < MaxProfits /\ profits' = profits + 1
    /\ RiderStep \/ MoneyStep

ProfitInit ==
    /\ party \in [Trippers -> TripParties] /\ cancelled = {}
    /\ rides = [b \in Trippers |-> [d \in TourDays |-> [v \in Vessels |-> 0]]]
    /\ checkins = [b \in Trippers |-> [d \in TourDays |-> Untouched]]
    /\ upgraded = [b \in Trippers |-> FALSE] /\ sold = [b \in Trippers |-> 0]
    /\ runs \in {[d \in TourDays |-> [v \in Vessels |-> t]] : t \in Tours}
    /\ template = LineIds /\ plan = NoPlan /\ rents = [v \in Vessels |-> OwnBoat]
    /\ litres = [d \in TourDays |-> [v \in Vessels |-> 0]] /\ fuelPrice = [d \in TourDays |-> 0]
    /\ mealPrice \in MealPrices
    /\ actuals = [d \in TourDays |-> [v \in Vessels |-> BlankActual]] /\ profits = 0

ProfitSpec == ProfitInit /\ [][ProfitNext]_profitVars

-----------------------------------------------------------------------------
(* Properties                                                              *)

Rides(b, d) == Summed(Vessels, LAMBDA v: rides[b][d][v]) = Heads(party[b])

(* The Trip P&L and the Daily Report price the same vans and the same
   longtail boats, when everyone is on a boat and a van picks up in one zone:
   a van feeding two boats is one day's cost, a return leg rides its return
   van, a booking split over boats charters one longtail (tripVanCost,
   tripLongtail; dailyVanCost, dailyLongtail).                               *)
ReportsAgree ==
    \A d \in TourDays :
        (\A b \in Live(d) : Rides(b, d)) =>
            /\ (\A c \in Coaches : Cardinality({party[b].zone : b \in Drove(d, c)}) <= 1) =>
                   (Live(d) # {} => Summed(DayBoats(d), LAMBDA v: TripVanCost(d, v)) = DailyVanCost(d))
            /\ (\A b \in Live(d) : ~IsVoid(b, d) /\ ~Leg(b, d).ovn) =>
                   Summed(DayBoats(d), LAMBDA v: TripLongtail(d, v).charter) = Scale * DailyLongtail(d)

(* What was sold on tour reaches the Trip P&L at most once over all the boats
   and days of its booking, and exactly once when the booking rides whole on
   its first day and on the day of the sale (tripUpsell).                    *)
SoldOnce ==
    LET kept(b) == (IF upgraded[b] THEN UpgradeKept ELSE 0) + (IF sold[b] > 0 THEN SaleKept ELSE 0)
        counted == Summed(TourDays, LAMBDA d: Summed(Vessels, LAMBDA v: TripUpsell(d, v)))
    IN /\ counted <= Summed(Trippers, kept)
       /\ (\A b \in Trippers : b \notin cancelled /\ \A d \in DOMAIN party[b].legs : Rides(b, d)) => counted = Summed(Trippers, kept)

(* The meals the order would send are the heads on board that eat, as the
   Trip P&L counts them, for bookings the pier recorded one way: its count,
   or the events of those lost (mealPreview, onBoard).                       *)
MealsFollowHeads ==
    \A d \in TourDays, v \in Vessels :
        (\A b \in Eating(d, v) : LET c == checkins[b][d] IN c.counted = NoCount \/ LostTotal(c) = 0) =>
            LET m == MealPreview(d, v)
                heads == Rounded(Summed(Eating(d, v), LAMBDA b: ScaledHeads(b, d, v)))
            IN m.adults + m.children - heads \in {0, 1}

(* Every cost of a trip is in one row, in one group, and is either fixed or
   follows the heads: the rows, the groups of the day and the fixed and
   variable sums all give the same cost, unless a trip is closed (calc,
   tripPL, dayPL).                                                           *)
CostsAddUp ==
    \A d \in TourDays :
        /\ \A v \in DayBoats(d) : \A c \in {Estimate(d, v)} : c.net = c.fixedNet + c.varNet
        /\ (\A v \in DayBoats(d) : actuals[d][v].closed = NotClosed) =>
               \A day \in {DayPL(d)} : day.cost = Summed(day.byGroup, LAMBDA g: g[2])
=============================================================================
