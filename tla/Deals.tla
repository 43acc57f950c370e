-------------------------------- MODULE Deals --------------------------------
(***************************************************************************)
(* What an agent is sold at: rate types and their owners, the agent's own  *)
(* rate and seasons, its main contract, its promotions, its programmes,    *)
(* the contract templates, and one booking priced from them.               *)
(*                                                                         *)
(* One agent, one booking of one seat trip on one day: seasons and         *)
(* promotions are seen from that day, so a promotion is the routes it      *)
(* covers on it. Codes, names, colours, documents and the activity lines   *)
(* are left out; the price itself is Pricing's.                            *)
(***************************************************************************)
EXTENDS Pricing, TLC

CONSTANTS
    Rates, Routes, People, Templates, Promos, \* Promos are numbers: the order their contracts are read in
    Lists,                  \* the seat prices a route of a rate may be given
    Offs,                   \* the amounts a promotion may take off
    SeasonTables,           \* the season tables an agent may be given: sets of [rate, from, to]
    TripDay, Party,         \* the booking's day and passengers
    MaxDeals,               \* bound: the requests of a history
    Nil

ASSUME DealsAssumption ==
    /\ Promos \subseteq Nat /\ TripDay \in Nat
    /\ Nil \notin Rates \cup Routes \cup People \cup Templates \cup Promos
    /\ \A table \in SeasonTables : IsFiniteSet(table) /\ \A s \in table : s.rate \in Rates /\ s.from \in Nat

VARIABLES
    rate,       \* per rate type: its owner and each route's seat prices, Nil when there is none
    agent,      \* the agent's salesperson, rate, seasons, programmes, template, and whether it is active
    main,       \* its main contract, as imported: rate and status
    promo,      \* per promotion: its form and status, Nil before it is made
    people,     \* the salespeople
    template,   \* per template: whether it is active and the default, Nil when there is none
    sold,       \* the booking: its trip as priced, and the prices of its rate when it was priced
    deals       \* bound: the requests made

books == <<rate, agent, main, promo, people, template, sold>>
dealVars == <<books, deals, ask>>

RateRows == [owner : People \cup {Nil}, list : [Routes -> Lists \cup {NotPriced}]]
(* A promotion's form holds the fields of its mode only.                   *)
Forms ==
    [mode : {"rate"}, rate : Rates, list : {NotPriced}, off : {0}, routes : (SUBSET Routes) \ {{}}, priority : 1..2]
        \cup [mode : {"own"}, rate : {Nil}, list : Lists, off : {0}, routes : (SUBSET Routes) \ {{}}, priority : 1..2]
        \cup [mode : {"discount"}, rate : {Nil}, list : {NotPriced}, off : Offs, routes : (SUBSET Routes) \ {{}}, priority : 1..2]
PromoRows == [form : Forms, status : {"active", "void"}]
TemplateRows == [active : BOOLEAN, default : BOOLEAN]

\* A row that is not there is none of the rows.
ASSUME NilAssumption == Nil \notin RateRows \cup PromoRows \cup TemplateRows

Exists(r) == r # Nil /\ rate[r] # Nil
Block(r, route) == IF Exists(r) THEN rate[r].list[route] ELSE NotPriced
PricedRoutes(r) == {x \in Routes : Offered(Block(r, x))}

-----------------------------------------------------------------------------
(* Which rate prices a trip                                                *)

(* rateTypeFor: the season with the latest start that covers the day, else *)
(* the agent's own rate.                                                   *)
Covering(day) == {s \in agent.seasons : s.from <= day /\ day <= s.to}
RateFor(day) ==
    IF Covering(day) = {} THEN agent.rate
    ELSE (CHOOSE s \in Covering(day) : \A u \in Covering(day) : u.from <= s.from).rate
MainRate(day) == IF Exists(RateFor(day)) THEN RateFor(day) ELSE Nil

(* promoMainRate: without a day or seasons, the first main contract's rate *)
(* whatever its status, else the agent's.                                  *)
ContractRate == IF main.status # "none" /\ main.rate # Nil THEN main.rate ELSE agent.rate
PromoMainRate(day) == IF agent.seasons # {} /\ MainRate(day) # Nil THEN MainRate(day) ELSE ContractRate

(* baseFor: the kept rate on an edit keeping it, else today's, else the    *)
(* booking's.                                                              *)
\* Mutant: today's rate even when the booking keeps the one it was sold at.
BaseForToday(keep, kept, ref, day) ==
    IF MainRate(day) # Nil THEN MainRate(day)
    ELSE IF keep /\ Exists(IF kept # Nil THEN kept ELSE ref) THEN IF kept # Nil THEN kept ELSE ref
    ELSE IF Exists(ref) THEN ref ELSE Nil
BaseFor(keep, kept, ref, day) ==
    LET old == IF kept # Nil THEN kept ELSE ref
    IN  IF keep /\ Exists(old) THEN old
        ELSE IF MainRate(day) # Nil THEN MainRate(day)
        ELSE IF Exists(ref) THEN ref ELSE Nil

(* withPromo: of the active promotions that cover the route and have a     *)
(* price for it, the highest priority, laid over the base.                 *)
HasRate(p, route) ==
    CASE p.mode = "own" -> p.list # NotPriced
      [] p.mode = "discount" -> Block(ContractRate, route) # NotPriced
      [] OTHER -> Block(p.rate, route) # NotPriced
Live(i) == promo[i] # Nil /\ promo[i].status = "active"
Hits(route) == {i \in Promos : Live(i) /\ route \in promo[i].form.routes /\ HasRate(promo[i].form, route)}
Winner(route) ==
    CHOOSE i \in Hits(route) : \A j \in Hits(route) :
        \/ promo[j].form.priority < promo[i].form.priority
        \/ promo[j].form.priority = promo[i].form.priority /\ i <= j

Off(n, off) == IF n <= 0 THEN n ELSE Clip(n - off)
Discounted(cells, off) == [fr |-> Off(cells.fr, off), th |-> Off(cells.th, off), chd |-> Off(cells.chd, off)]
Laid(base, route) == [rate |-> base, cells |-> Block(base, route), promo |-> Nil]
WithPromo(base, route, day) ==
    IF Hits(route) = {} THEN Laid(base, route)
    ELSE LET i == Winner(route)
             p == promo[i].form
             today == Block(PromoMainRate(day), route)
         IN  CASE p.mode = "own" -> [rate |-> base, cells |-> p.list, promo |-> i]
               [] p.mode = "discount" ->
                    IF today = NotPriced THEN Laid(base, route)
                    ELSE [rate |-> base, cells |-> Discounted(today, p.off), promo |-> i]
               \* The base is the promotion's own rate: nothing is laid over, and no promotion is named.
               [] OTHER -> IF p.rate = base THEN Laid(base, route)
                           ELSE [rate |-> p.rate, cells |-> Block(p.rate, route), promo |-> i]

-----------------------------------------------------------------------------
(* The booking                                                             *)

NoSale == [route |-> Nil, rate |-> Nil, promo |-> Nil, ref |-> Nil, baht |-> 0, list |-> NotPriced,
           live |-> FALSE, promoted |-> {}]

(* priceFor and assertPriced: the price, or a refusal when there is none.  *)
Reprice(keep, route, kept, ref, before) ==
    LET won == WithPromo(BaseFor(keep, kept, ref, TripDay), route, TripDay)
    IN  /\ Offered(won.cells)
        /\ sold' = [route |-> route, rate |-> won.rate, promo |-> won.promo, ref |-> ref,
                    baht |-> SeatPrice(won.cells, Party), list |-> Block(won.rate, route), live |-> TRUE,
                    promoted |-> IF won.promo # Nil THEN {won.promo}
                                 ELSE {i \in before : keep /\ promo[i].form.mode = "rate" /\ promo[i].form.rate = won.rate}]

CreateBooking ==
    /\ ~sold.live /\ sold.route = Nil /\ agent.active
    /\ \E route \in Routes : Reprice(FALSE, route, Nil, agent.rate, {})
    /\ UNCHANGED <<rate, agent, main, promo, people, template>>

\* An edit that re-prices: the trip it was sold as, by its id or else by its route and day, keeps its
\* rate when the edit keeps it.
PriceFor(keep, route, same) ==
    LET ref == IF keep \/ agent.rate = Nil THEN sold.ref ELSE agent.rate
    IN  Reprice(keep /\ same, route, IF same THEN sold.rate ELSE Nil, ref, IF same THEN sold.promoted ELSE {})
EditBooking(keep, route, byId) ==
    /\ sold.live
    /\ PriceFor(keep, route, byId \/ route = sold.route)
    /\ UNCHANGED <<rate, agent, main, promo, people, template>>

CancelBooking ==
    /\ sold.live /\ sold' = [sold EXCEPT !.live = FALSE]
    /\ UNCHANGED <<rate, agent, main, promo, people, template>>

-----------------------------------------------------------------------------
(* Rate types                                                              *)

RateTypeExists(r) == rate[r] # Nil
(* assertRateTypeUnused: agents and bookings are counted; contracts,       *)
(* seasons and trips reference the row, so its delete fails.               *)
\* Mutant: an agent naming it is not counted, and nothing else holds agents.rate_type_id.
RateUnusedByAgents(r) ==
    /\ (sold.route # Nil) => (sold.ref # r /\ sold.rate # r)
    /\ main.rate # r /\ \A i \in Promos : promo[i] # Nil => promo[i].form.rate # r
    /\ \A s \in agent.seasons : s.rate # r
RateUnused(r) ==
    /\ agent.rate # r /\ \A s \in agent.seasons : s.rate # r
    /\ (sold.route # Nil) => (sold.ref # r /\ sold.rate # r)
    /\ main.rate # r /\ \A i \in Promos : promo[i] # Nil => promo[i].form.rate # r

CreateRate(r, owner, list) ==
    /\ ~RateTypeExists(r) /\ owner \in people \cup {Nil}
    /\ rate' = [rate EXCEPT ![r] = [owner |-> owner, list |-> [x \in Routes |-> list]]]
    /\ UNCHANGED <<agent, main, promo, people, template, sold>>
PatchRate(r, owner) ==
    /\ RateTypeExists(r) /\ owner \in people \cup {Nil}
    /\ rate' = [rate EXCEPT ![r].owner = owner]
    /\ UNCHANGED <<agent, main, promo, people, template, sold>>
PutRateRoute(r, route, list) ==
    /\ RateTypeExists(r) /\ rate' = [rate EXCEPT ![r].list[route] = list]
    /\ UNCHANGED <<agent, main, promo, people, template, sold>>
DeleteRateRoute(r, route) ==
    /\ RateTypeExists(r) /\ rate[r].list[route] # NotPriced
    /\ rate' = [rate EXCEPT ![r].list[route] = NotPriced]
    /\ UNCHANGED <<agent, main, promo, people, template, sold>>
DeleteRate(r) ==
    /\ RateTypeExists(r) /\ RateUnused(r) /\ rate' = [rate EXCEPT ![r] = Nil]
    /\ UNCHANGED <<agent, main, promo, people, template, sold>>

-----------------------------------------------------------------------------
(* The agent                                                               *)

RateFits(r, salesId) == Exists(r) /\ rate[r].owner \in {Nil, salesId}
(* mainContractsToSync: a main contract that is not expired or void takes  *)
(* the agent's new rate.                                                   *)
\* Mutant: only a change of the rate itself is followed, not one made by a renewal.
SyncedOnChange(newRate, renewing) ==
    IF main.status = "active" /\ ~renewing THEN [main EXCEPT !.rate = newRate] ELSE main
Synced(newRate, renewing) ==
    IF main.status = "active" THEN [main EXCEPT !.rate = newRate] ELSE main

PatchAgent(salesId, t) ==
    /\ salesId \in people \cup {Nil} /\ (t # Nil => template[t] # Nil)
    /\ agent' = [agent EXCEPT !.sales = salesId, !.template = t]
    /\ UNCHANGED <<rate, main, promo, people, template, sold>>
SetActive(on) ==
    /\ agent' = [agent EXCEPT !.active = on] /\ UNCHANGED <<rate, main, promo, people, template, sold>>
PutPrograms(routes) ==
    /\ agent' = [agent EXCEPT !.programs = routes] /\ UNCHANGED <<rate, main, promo, people, template, sold>>
PutSeasons(table) ==
    /\ \A s \in table : Exists(s.rate)
    /\ agent' = [agent EXCEPT !.seasons = table] /\ UNCHANGED <<rate, main, promo, people, template, sold>>

\* drop: whether programmes the new rate does not price are removed; it must be said when there are some.
ChangeRate(r, drop) ==
    /\ r # agent.rate
    /\ r # Nil => RateFits(r, agent.sales)
    /\ LET cover == PricedRoutes(r)
           uncovered == IF r = Nil THEN {} ELSE agent.programs \ cover
       IN  /\ drop = "unsaid" => uncovered = {}
           /\ agent' = [agent EXCEPT !.rate = r,
                        !.programs = IF drop = "yes" THEN (@ \cup cover) \ uncovered ELSE @ \cup cover]
    /\ main' = Synced(r, FALSE)
    /\ UNCHANGED <<rate, promo, people, template, sold>>

\* A renewal may bring a new rate, which the programmes do not follow; they may be left behind.
Renew(r, carry) ==
    /\ r # agent.rate => RateFits(r, agent.sales)
    /\ agent' = [agent EXCEPT !.rate = r, !.programs = IF carry THEN @ ELSE {}]
    /\ main' = IF r = agent.rate THEN main ELSE Synced(r, TRUE)
    /\ UNCHANGED <<rate, promo, people, template, sold>>

-----------------------------------------------------------------------------
(* Promotions                                                              *)

(* checkPromo: routes the agent or the promotion already has, the fields   *)
(* of its mode only, and a discount below the cheapest adult price.        *)
AdultPrices(r, routes) == {n \in UNION {{Block(r, x).fr, Block(r, x).th} : x \in {y \in routes : Block(r, y) # NotPriced}} : n > 0}
CheckPromo(f, i) ==
    /\ f.routes \subseteq agent.programs \cup (IF promo[i] = Nil THEN {} ELSE promo[i].form.routes)
    /\ f.mode = "rate" => Exists(f.rate)
    /\ f.mode = "own" => Offered(f.list)
    /\ f.mode = "discount" => \A n \in AdultPrices(ContractRate, f.routes) : f.off < n

AddPromo(i, f) ==
    /\ promo[i] = Nil /\ \A j \in Promos : j < i => promo[j] # Nil
    /\ CheckPromo(f, i)
    /\ promo' = [promo EXCEPT ![i] = [form |-> f, status |-> "active"]]
    /\ UNCHANGED <<rate, agent, main, people, template, sold>>
\* promoSoldTrips: the trips that name it, on bookings that hold their seats.
SoldTrips(i) == sold.live /\ sold.promo = i
EditPromo(i, f, soldAnyway) ==
    /\ Live(i) /\ CheckPromo(f, i) /\ f # promo[i].form
    /\ SoldTrips(i) => soldAnyway
    /\ promo' = [promo EXCEPT ![i].form = f]
    /\ UNCHANGED <<rate, agent, main, people, template, sold>>
VoidPromo(i) ==
    /\ Live(i) /\ promo' = [promo EXCEPT ![i].status = "void"]
    /\ UNCHANGED <<rate, agent, main, people, template, sold>>

-----------------------------------------------------------------------------
(* Contract templates and salespeople                                      *)

TemplateMade(t) == template[t] # Nil
CreateTemplate(t, on) ==
    /\ ~TemplateMade(t)
    /\ LET first == \A u \in Templates : ~TemplateMade(u)
       IN  template' = [template EXCEPT ![t] = [active |-> first \/ on, default |-> first]]
    /\ UNCHANGED <<rate, agent, main, promo, people, sold>>
\* Mutant: the default may be switched off.
MayPatchTemplateAny(t, on) == TemplateMade(t)
MayPatchTemplate(t, on) == TemplateMade(t) /\ (~on => ~template[t].default)
PatchTemplate(t, on) ==
    /\ MayPatchTemplate(t, on) /\ template' = [template EXCEPT ![t].active = on]
    /\ UNCHANGED <<rate, agent, main, promo, people, sold>>
SetDefault(t) ==
    /\ TemplateMade(t)
    /\ template' = [u \in Templates |-> IF u = t THEN [active |-> TRUE, default |-> TRUE]
                                        ELSE IF TemplateMade(u) THEN [template[u] EXCEPT !.default = FALSE] ELSE Nil]
    /\ UNCHANGED <<rate, agent, main, promo, people, sold>>
DeleteTemplate(t) ==
    /\ TemplateMade(t) /\ ~template[t].default
    /\ template' = [template EXCEPT ![t] = Nil]
    /\ agent' = [agent EXCEPT !.template = IF @ = t THEN Nil ELSE @]
    /\ UNCHANGED <<rate, main, promo, people, sold>>

(* effectiveTemplateId: the agent's own when it is active, else the        *)
(* default, else any that is active, else any.                             *)
EffectiveTemplates ==
    LET active == {u \in Templates : TemplateMade(u) /\ template[u].active}
        default == {u \in active : template[u].default}
    IN  IF agent.template \in active THEN {agent.template}
        ELSE IF default # {} THEN default
        ELSE IF active # {} THEN active ELSE {u \in Templates : TemplateMade(u)}

\* assertSalesDeletable: a rate type of theirs keeps them; their agent is left with nobody.
DeletePerson(s) ==
    /\ s \in people /\ \A r \in Rates : rate[r] # Nil => rate[r].owner # s
    /\ people' = people \ {s}
    /\ agent' = [agent EXCEPT !.sales = IF @ = s THEN Nil ELSE @]
    /\ UNCHANGED <<rate, main, promo, template, sold>>
CreatePerson(s) ==
    /\ s \notin people /\ people' = people \cup {s}
    /\ UNCHANGED <<rate, agent, main, promo, template, sold>>

-----------------------------------------------------------------------------
(* Specification                                                           *)

(* One rate priced on every route and shared, the agent sold at it, with   *)
(* or without a main contract from the import, and one default template.   *)
DealsInit ==
    /\ \E r \in Rates, list \in [Rates -> Lists \cup {Nil}] :
        /\ list[r] # Nil
        /\ rate = [q \in Rates |-> IF list[q] # Nil THEN [owner |-> Nil, list |-> [x \in Routes |-> list[q]]] ELSE Nil]
        /\ \E s \in People : agent = [sales |-> s, rate |-> r, seasons |-> {}, programs |-> Routes, template |-> Nil, active |-> TRUE]
        /\ main \in {[rate |-> r, status |-> "active"], [rate |-> r, status |-> "expired"], [rate |-> Nil, status |-> "none"]}
    /\ promo = [i \in Promos |-> Nil] /\ people = People
    /\ \E t \in Templates : template = [u \in Templates |-> IF u = t THEN [active |-> TRUE, default |-> TRUE] ELSE Nil]
    /\ sold = NoSale /\ deals = 0

RateStep ==
    \E r \in Rates :
        \/ \E owner \in People \cup {Nil} : PatchRate(r, owner) \/ \E list \in Lists : CreateRate(r, owner, list)
        \/ \E route \in Routes : DeleteRateRoute(r, route) \/ \E list \in Lists : PutRateRoute(r, route, list)
        \/ DeleteRate(r)
AgentStep ==
    \/ \E s \in People \cup {Nil}, t \in Templates \cup {Nil} : PatchAgent(s, t)
    \/ \E on \in BOOLEAN : SetActive(on)
    \/ \E routes \in SUBSET Routes : PutPrograms(routes)
    \/ \E table \in SeasonTables : PutSeasons(table)
    \/ \E r \in Rates \cup {Nil}, drop \in {"unsaid", "yes", "no"} : ChangeRate(r, drop)
    \/ \E r \in Rates, carry \in BOOLEAN : Renew(r, carry)
PromoStep ==
    \E i \in Promos :
        \/ \E f \in Forms : AddPromo(i, f) \/ \E anyway \in BOOLEAN : EditPromo(i, f, anyway)
        \/ VoidPromo(i)
DeskStep ==
    \/ \E t \in Templates : SetDefault(t) \/ DeleteTemplate(t)
                            \/ \E on \in BOOLEAN : CreateTemplate(t, on) \/ PatchTemplate(t, on)
    \/ \E s \in People : DeletePerson(s) \/ CreatePerson(s)
BookingDeal ==
    \/ CreateBooking \/ CancelBooking
    \/ \E keep, byId \in BOOLEAN, route \in Routes : EditBooking(keep, route, byId)

DealsNext ==
    /\ deals < MaxDeals /\ deals' = deals + 1
    /\ RateStep \/ AgentStep \/ PromoStep \/ DeskStep \/ BookingDeal
DealsSpec == QuoteInit /\ DealsInit /\ [][DealsNext /\ UNCHANGED ask]_dealVars

-----------------------------------------------------------------------------
(* Properties                                                              *)

\* Every row has its type.
DealsTypeOK ==
    /\ rate \in [Rates -> RateRows \cup {Nil}] /\ people \subseteq People
    /\ agent.sales \in People \cup {Nil} /\ agent.rate \in Rates \cup {Nil} /\ agent.programs \subseteq Routes
    /\ agent.seasons \in SeasonTables \cup {{}} /\ agent.template \in Templates \cup {Nil} /\ agent.active \in BOOLEAN
    /\ \A i \in Promos : promo[i] # Nil => promo[i] \in PromoRows
    /\ \A t \in Templates : TemplateMade(t) => template[t] \in TemplateRows
    /\ main.rate \in Rates \cup {Nil} /\ sold.rate \in Rates \cup {Nil} /\ sold.promoted \subseteq Promos
    /\ deals \in 0..MaxDeals

\* The contract a bill is argued from says what the agent is billed at: through rate changes and
\* renewals, a main contract still in force carries the agent's rate.
MainFollowsAgent == main.status = "active" => main.rate = agent.rate

\* Nothing names a rate type, a template or a salesperson that is gone, whatever was deleted since.
NothingDangling ==
    /\ agent.rate # Nil => Exists(agent.rate)
    /\ \A s \in agent.seasons : Exists(s.rate)
    /\ main.rate # Nil => Exists(main.rate)
    /\ \A i \in Promos : promo[i] # Nil /\ promo[i].form.rate # Nil => Exists(promo[i].form.rate)
    /\ sold.rate # Nil => Exists(sold.rate)
    /\ sold.ref # Nil => Exists(sold.ref)
    /\ \A r \in Rates : rate[r] # Nil => rate[r].owner \in people \cup {Nil}
    /\ agent.sales \in people \cup {Nil}
    /\ agent.template # Nil => TemplateMade(agent.template)

\* An agent's contract always prints with exactly one template, and it is one in use: its own, or the
\* one default there is.
OneTemplatePrints ==
    /\ Cardinality({t \in Templates : TemplateMade(t) /\ template[t].default}) = 1
    /\ \E t \in Templates : EffectiveTemplates = {t} /\ template[t].active

\* An edit that keeps the booking's rate keeps its price, whatever the agent's rate, seasons and
\* contract have become, while the rate's own prices stand and no promotion is laid over it.
KeptPriceStands ==
    (/\ sold.route # Nil /\ EditBooking(TRUE, sold.route, TRUE)
     /\ Offered(sold.list) /\ sold.list = Block(sold.rate, sold.route) /\ sold.baht = SeatPrice(sold.list, Party)
     /\ \A i \in Hits(sold.route) : promo[i].form.mode = "rate" /\ promo[i].form.rate = sold.rate)
    => sold'.baht = sold.baht
=============================================================================
