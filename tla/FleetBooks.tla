------------------------------ MODULE FleetBooks ------------------------------
(***************************************************************************)
(* What the fleet's reports say its work cost: the jobs and the purchase   *)
(* memos they read, the safety replace wizard that writes both, and the    *)
(* six reports computed from them; and the boat's certificates: the rows   *)
(* kept of each document, renewed by name, and the one row per type the    *)
(* matrix shows.                                                           *)
(*                                                                         *)
(* Days are counted two to a month.  Prices are before VAT, a memo has one *)
(* line, and costs are multiples every split of them divides, so nothing   *)
(* is rounded.  Names, suppliers, hours and the stock itself are left out  *)
(* (FleetStock).                                                           *)
(***************************************************************************)
EXTENDS Integers, Sequences, FiniteSetsExt, SequencesExt

CONSTANTS
    CompanyBoats, HiredBoats,
    MaxWorks, MaxBuys,  \* bounds: the jobs and the memos made
    Gear,
    PartNames,
    Costs,              \* what a part, a purchase or an hour of labour costs
    WorkForms,          \* the jobs people open: [boat, kind, assets, the sequence of the kinds of its assets]
    BuyForms,           \* the memos people write: [kind, boat, name, stocked, bought into the stock]
    LastBookDay,
    NoWork,
    MaxBooked,          \* bound: the requests of a history
    CertNames,      \* the documents people name
    CertType,       \* [CertNames -> types]: the type a name reads as, "other" for none
    CertDays,       \* the expiry dates
    MaxCerts        \* bound: the renewals of a history

ASSUME CertAssumption == CertDays \subseteq Nat \ {0} /\ DOMAIN CertType = CertNames
ASSUME BooksAssumption ==
    /\ CompanyBoats \cap HiredBoats = {} /\ NoWork \notin CompanyBoats \cup HiredBoats
    /\ MaxWorks \in Nat /\ MaxBuys \in Nat
    /\ Costs \subseteq Nat \ {0} /\ LastBookDay \in Nat \ {0}

BookBoats == CompanyBoats \cup HiredBoats
BookDays == 1 .. LastBookDay
NoBookDay == 0
BookMonths == {(d + 1) \div 2 : d \in BookDays}
MonthOn(d) == (d + 1) \div 2
AssetKinds == {"hull", "engine", "gearbox", "propeller"}
Categories == AssetKinds \cup {"other", "memo"}
WorkKinds == {"corrective", "preventive"}
BuyStates == {"pending_approval", "approved", "ordered", "received", "paid", "cancelled"}

VARIABLES
    bookDay,    \* today
    jobRows,    \* the jobs
    buys,       \* the memos
    gear,       \* [Gear -> BOOLEAN]: whether the item is still in service
    swaps,      \* history: the replacements bought new, the job and the memo of each
    booked      \* bound: the requests made

booksVars == <<bookDay, jobRows, buys, gear, swaps, booked>>

WorkIds == 1 .. MaxWorks
BuyIds == 1 .. MaxBuys
WorkRows == [state : {"pending", "inprogress", "done"}, boat : BookBoats, kind : WorkKinds, assets : Seq(AssetKinds),
             start : BookDays, end : BookDays \cup {NoBookDay}, parts : Seq([name : PartNames, cost : Costs])]
BuyRows == [state : BuyStates, kind : {"parts", "labor"}, work : WorkIds \cup {NoWork}, boat : BookBoats \cup {NoWork},
            name : PartNames, stocked : BOOLEAN, amount : Costs, on : BookDays]

-----------------------------------------------------------------------------
(* Jobs, memos and the wizard                                              *)

\* Ids are given in order.
NewWork(row) == Len(jobRows) < MaxWorks /\ jobRows' = Append(jobRows, row)
NewBuy(row) == Len(buys) < MaxBuys /\ buys' = Append(buys, row)

OpenJob(form) ==
    /\ NewWork([state |-> "pending", boat |-> form.boat, kind |-> form.kind, assets |-> form.assets,
                start |-> bookDay, end |-> NoBookDay, parts |-> <<>>])
    /\ UNCHANGED <<buys, gear, swaps>>

StartWork(w) ==
    /\ jobRows[w].state = "pending" /\ jobRows' = [jobRows EXCEPT ![w].state = "inprogress"]
    /\ UNCHANGED <<buys, gear, swaps>>

\* A part may still be added, marked late, once the job is closed.
AddWorkPart(w, part) ==
    /\ jobRows' = [jobRows EXCEPT ![w].parts = Append(@, part)]
    /\ UNCHANGED <<buys, gear, swaps>>

\* A job is closed from pending or in progress, dated today.
CloseWork(w) ==
    /\ jobRows[w].state # "done"
    /\ jobRows' = [jobRows EXCEPT ![w].state = "done", ![w].end = bookDay]
    /\ UNCHANGED <<buys, gear, swaps>>

Buy(form, work, amount) ==
    /\ work # NoWork => form.boat = jobRows[work].boat
    /\ NewBuy([state |-> "pending_approval", kind |-> form.kind, work |-> work, boat |-> form.boat, name |-> form.name,
               stocked |-> form.stocked, amount |-> amount, on |-> bookDay])
    /\ UNCHANGED <<jobRows, gear, swaps>>

\* PATCH …/memos/{id}: the memo names a job, or another, until it is paid.
LinkBuy(b, work) ==
    /\ buys[b].state # "paid" /\ buys[b].work # work
    /\ buys' = [buys EXCEPT ![b].work = work]
    /\ UNCHANGED <<jobRows, gear, swaps>>

MayBecome(b, state) ==
    CASE state = "approved" -> buys[b].state = "pending_approval"
      [] state = "ordered" -> buys[b].state = "approved" /\ buys[b].kind # "labor"
      [] state = "received" -> buys[b].state = "ordered"
      [] state = "paid" -> buys[b].state = (IF buys[b].kind = "labor" THEN "approved" ELSE "received")
      [] state = "cancelled" -> buys[b].state \notin {"paid", "cancelled"}
StepBuy(b, state) ==
    /\ MayBecome(b, state) /\ buys' = [buys EXCEPT ![b].state = state]
    /\ UNCHANGED <<jobRows, gear, swaps>>

(* POST /v1/fleet/safety/{id}/replace: one item out of service, and a job  *)
(* done on it, with the part from the stock or one bought new: the job     *)
(* carries its price, and the memo that buys it names no job.              *)
Replace(g, boat, part, labour, boughtNew) ==
    /\ gear[g] /\ gear' = [gear EXCEPT ![g] = FALSE]
    /\ NewWork([state |-> "done", boat |-> boat, kind |-> "corrective", assets |-> <<>>, start |-> bookDay, end |-> bookDay,
                parts |-> <<part>> \o labour])
    /\ IF boughtNew
       THEN /\ NewBuy([state |-> "pending_approval", kind |-> "parts", work |-> NoWork, boat |-> boat, name |-> part.name,
                       stocked |-> TRUE, amount |-> part.cost, on |-> bookDay])
            /\ swaps' = swaps \cup {<<Len(jobRows) + 1, Len(buys) + 1>>}
       ELSE UNCHANGED <<buys, swaps>>

-----------------------------------------------------------------------------
(* What a job cost                                                         *)

CountedStates == {"paid", "received", "approved"}
LinkedMemos(w) == {b \in DOMAIN buys : buys[b].work = w /\ buys[b].state \in CountedStates}
PaidNames(w) == {buys[b].name : b \in {c \in LinkedMemos(w) : buys[c].kind = "parts"}}
AmountsOf(bs) == MapThenSumSet(LAMBDA b : buys[b].amount, bs)
JobCost(w) ==
    LET parts == jobRows[w].parts IN
    MapThenSumSet(LAMBDA i : parts[i].cost, {i \in DOMAIN parts : parts[i].name \notin PaidNames(w)})
    + AmountsOf(LinkedMemos(w))
CostsOf(ws) == MapThenSumSet(JobCost, ws)

\* Rule 1: a job's cost is dated by its close.
ClosedOn(w) == IF jobRows[w].state = "done" THEN jobRows[w].end ELSE NoBookDay
ClosedWorks == {w \in DOMAIN jobRows : jobRows[w].state = "done"}
ClosedIn(days) == {w \in DOMAIN jobRows : ClosedOn(w) \in days}
DaysOfMonth(m) == {d \in BookDays : MonthOn(d) = m}
OpenWorks == DOMAIN jobRows \ ClosedWorks

-----------------------------------------------------------------------------
(* GET /v1/fleet/reports/cost                                              *)

Periods == {"all", "ytd", "last30", "month"}
ScopeOf(period) == CASE period = "month" -> DaysOfMonth(MonthOn(bookDay))
                     [] period = "last30" -> {d \in BookDays : d >= bookDay - 1}
                     [] OTHER -> BookDays

\* directShare: the part of a memo not bought into stock.
Direct(b) == IF buys[b].boat = NoWork \/ buys[b].stocked THEN 0 ELSE buys[b].amount
UnlinkedCounted == {b \in DOMAIN buys : buys[b].work = NoWork /\ buys[b].state \in CountedStates}
CentralMemos(period) == {b \in UnlinkedCounted : buys[b].on \in ScopeOf(period) /\ Direct(b) # buys[b].amount}

ReportWorks(period) ==
    {w \in DOMAIN jobRows : \/ jobRows[w].state = "inprogress"
                            \/ jobRows[w].state = "done" /\ ClosedOn(w) \in ScopeOf(period)}
ReportMemos(period) == {b \in UnlinkedCounted : Direct(b) > 0 /\ buys[b].on \in ScopeOf(period)}

CatsOf(w) == IF jobRows[w].assets = <<>> THEN <<"other">> ELSE jobRows[w].assets
\* Mutant: a category takes its share once, however many of the job's assets are of it.
ShareOnce(w, cat) == LET cats == CatsOf(w) IN
    IF \E i \in DOMAIN cats : cats[i] = cat THEN JobCost(w) \div Len(cats) ELSE 0
ShareOf(w, cat) == LET cats == CatsOf(w) IN
    (JobCost(w) \div Len(cats)) * Cardinality({i \in DOMAIN cats : cats[i] = cat})

CostReport(period) ==
    LET ws == ReportWorks(period)  ms == ReportMemos(period) IN
    [total |-> CostsOf(ws) + MapThenSumSet(Direct, ms),
     done |-> CostsOf(ws \cap ClosedWorks) + MapThenSumSet(Direct, {b \in ms : buys[b].state = "paid"}),
     central |-> MapThenSumSet(LAMBDA b : buys[b].amount - Direct(b), CentralMemos(period)),
     categories |-> [c \in Categories |->
        IF c = "memo" THEN MapThenSumSet(Direct, ms) ELSE MapThenSumSet(LAMBDA w : ShareOf(w, c), ws)],
     types |-> [k \in WorkKinds |-> CostsOf({w \in ws : jobRows[w].kind = k})],
     boats |-> [t \in BookBoats |-> CostsOf({w \in ws : jobRows[w].boat = t})
                                  + MapThenSumSet(Direct, {b \in ms : buys[b].boat = t})],
     months |-> [m \in BookMonths |-> CostsOf(ClosedIn(DaysOfMonth(m)))
        + MapThenSumSet(Direct, {b \in UnlinkedCounted : MonthOn(buys[b].on) = m /\ buys[b].state = "paid"})]]

-----------------------------------------------------------------------------
(* The other reports                                                       *)

\* GET /v1/fleet/insights
InsightDays(period) == CASE period = "all" -> BookDays
                         [] period = "month" -> {d \in DaysOfMonth(MonthOn(bookDay)) : d <= bookDay}
                         [] OTHER -> {d \in BookDays : d <= bookDay}
Insights(period) ==
    LET closed == IF period = "all" THEN ClosedWorks ELSE ClosedIn(InsightDays(period)) IN
    [closed |-> Cardinality(closed), spent |-> CostsOf(closed), open_cost |-> CostsOf(OpenWorks),
     boats |-> [t \in CompanyBoats |->
        [cost |-> CostsOf({w \in closed : jobRows[w].boat = t}),
         open |-> CostsOf({w \in OpenWorks : jobRows[w].boat = t /\ (period = "all" \/ jobRows[w].start \in InsightDays(period))})]],
     types |-> [k \in WorkKinds |-> CostsOf({w \in closed : jobRows[w].kind = k})],
     months |-> [m \in BookMonths |-> CostsOf({w \in ClosedWorks : MonthOn(jobRows[w].end) = m})],
     bought |-> AmountsOf({b \in DOMAIN buys : buys[b].state \in CountedStates \cup {"ordered"}
                              /\ (period = "all" \/ buys[b].on \in InsightDays(period))})]

\* GET /v1/fleet/dashboard
Dashboard ==
    [trend |-> [m \in BookMonths |-> CostsOf({w \in DOMAIN jobRows : ClosedOn(w) # NoBookDay /\ MonthOn(ClosedOn(w)) = m})],
     open_cost |-> CostsOf(OpenWorks),
     pending |-> [t \in CompanyBoats |-> CostsOf({w \in OpenWorks : jobRows[w].boat = t})]]

\* GET /v1/fleet/reports/upkeep, its repairs.
\* Mutant: the month a job was started in, as legacy had it.
RepairsStarted(boat, month) == CostsOf({w \in ClosedWorks : jobRows[w].boat = boat /\ MonthOn(jobRows[w].start) = month})
RepairsOf(boat, month) == CostsOf({w \in ClosedIn(DaysOfMonth(month)) : jobRows[w].boat = boat})

\* GET /v1/fleet/repair-history
RepairHistory(boat) == {w \in ClosedWorks : jobRows[w].boat = boat}

\* GET /v1/fleet/reports/fleet: any memo dated in the range that is not cancelled.
FleetReport(days) ==
    LET memos == {b \in DOMAIN buys : buys[b].on \in days /\ buys[b].state # "cancelled"} IN
    [closed |-> Cardinality(ClosedIn(days)), repairs |-> CostsOf(ClosedIn(days)), purchasing |-> AmountsOf(memos),
     total |-> CostsOf(ClosedIn(days)) + AmountsOf({b \in memos : buys[b].work = NoWork})]

\* GET /v1/fleet/reports/memo-spend
MemoSpend(days) == AmountsOf({b \in DOMAIN buys : buys[b].state \in CountedStates /\ buys[b].on \in days})

-----------------------------------------------------------------------------
BooksInit ==
    /\ bookDay = 1 /\ jobRows = <<>> /\ buys = <<>> /\ gear = [g \in Gear |-> TRUE]
    /\ swaps = {} /\ booked = 0

\* A job and its steps.
WorkAsks ==
    \/ \E form \in WorkForms : OpenJob(form)
    \/ \E w \in DOMAIN jobRows :
         \/ StartWork(w) \/ CloseWork(w)
         \/ \E name \in PartNames, cost \in Costs : AddWorkPart(w, [name |-> name, cost |-> cost])

\* A memo and its steps.
BuyAsks ==
    \/ \E form \in BuyForms, work \in DOMAIN jobRows \cup {NoWork}, amount \in Costs : Buy(form, work, amount)
    \/ \E b \in DOMAIN buys :
         \/ \E work \in DOMAIN jobRows \cup {NoWork} : LinkBuy(b, work)
         \/ \E state \in BuyStates \ {"pending_approval"} : StepBuy(b, state)

\* The wizard.
SwapAsks ==
    \E g \in Gear, boat \in BookBoats, name \in PartNames, cost \in Costs, boughtNew \in BOOLEAN :
        \E labour \in {<<>>} \cup {<<[name |-> n, cost |-> cost]>> : n \in PartNames \ {name}} :
            Replace(g, boat, [name |-> name, cost |-> cost], labour, boughtNew)

NextBookDay == bookDay < LastBookDay /\ bookDay' = bookDay + 1 /\ UNCHANGED <<jobRows, buys, gear, swaps, booked>>

BooksNext ==
    \/ NextBookDay
    \/ /\ booked < MaxBooked /\ booked' = booked + 1 /\ UNCHANGED bookDay
       /\ WorkAsks \/ BuyAsks \/ SwapAsks

BooksSpec == BooksInit /\ [][BooksNext]_booksVars

-----------------------------------------------------------------------------
BooksTypeOK ==
    /\ bookDay \in BookDays /\ gear \in [Gear -> BOOLEAN] /\ swaps \subseteq WorkIds \X BuyIds /\ booked \in 0 .. MaxBooked
    /\ DOMAIN jobRows \subseteq WorkIds /\ \A w \in DOMAIN jobRows : jobRows[w] \in WorkRows
    /\ DOMAIN buys \subseteq BuyIds /\ \A b \in DOMAIN buys : buys[b] \in BuyRows

SumOf(f) == MapThenSumSet(LAMBDA x : f[x], DOMAIN f)

(* Every split of the cost report adds up to its total, whichever way the  *)
(* jobs are cut: by asset, by kind of job or by boat.                      *)
SplitsAddUp ==
    \A p \in Periods : LET report == CostReport(p) IN
        /\ SumOf(report.categories) = report.total /\ SumOf(report.boats) = report.total
        /\ SumOf(report.types) + report.categories["memo"] = report.total
        /\ report.done <= report.total

(* The definition every fleet figure shares: the cost of the jobs closed   *)
(* in a month is one number, whichever report is asked for it, and all the *)
(* months together are what Insights, the cost report and the boats'       *)
(* repair histories say was ever spent.                                    *)
OneCostEverywhere ==
    LET insights == Insights("all")  dashboard == Dashboard IN
    /\ \A m \in BookMonths : LET spent == FleetReport(DaysOfMonth(m)).repairs IN
         /\ insights.months[m] = spent /\ dashboard.trend[m] = spent
         /\ SumOf([t \in BookBoats |-> RepairsOf(t, m)]) = spent
    /\ SumOf(dashboard.trend) = insights.spent
    /\ SumOf([t \in BookBoats |-> CostsOf(RepairHistory(t))]) = insights.spent
    /\ dashboard.open_cost = insights.open_cost
    /\ \A t \in CompanyBoats : dashboard.pending[t] = insights.boats[t].open

(* A memo that counts as spent is in one place of the cost report: in its  *)
(* job's cost, with its boat, or central.                                  *)
SpentIsPlaced ==
    AmountsOf({b \in DOMAIN buys : buys[b].state \in CountedStates /\ buys[b].work # NoWork})
      + CostReport("all").categories["memo"] + CostReport("all").central = MemoSpend(BookDays)

\* The reports agree.
FiguresAgree == SplitsAddUp /\ OneCostEverywhere /\ SpentIsPlaced

(* The wizard's comment (fleet-replace.ts): the job carries the purchase   *)
(* at its price and the memo is not linked, so nothing counts twice.  The  *)
(* Fleet Report's total is what was paid for the closed jobs' parts and    *)
(* for what no job holds: a part bought by the wizard is in it once.       *)
NothingCountsTwice ==
    \A days \in SUBSET BookDays :
        LET HeldByItsJob(b) == \E w \in ClosedIn(days) : <<w, b>> \in swaps
            bought == {b \in DOMAIN buys : buys[b].on \in days /\ buys[b].state # "cancelled" /\ buys[b].work = NoWork}
        IN  FleetReport(days).total = CostsOf(ClosedIn(days)) + AmountsOf({b \in bought : ~HeldByItsJob(b)})

-----------------------------------------------------------------------------
(* A boat's certificates                                                   *)

NoExpiry == 0
Marks == {"none", "processing", "done"}
CertTypes == {CertType[n] : n \in CertNames} \ {"other"}
CertRows == [name : CertNames, exp : CertDays \cup {NoExpiry}, mark : Marks]

VARIABLES
    certs,      \* the boat's rows, in order
    certDay,    \* today
    renewals    \* bound: the renewals made

certVars == <<certs, certDay, renewals>>

LatestOf(name) == SelectLastInSeq(certs, LAMBDA d : d.name = name)

\* state "exp": the latest row's mark is cleared, if there is one.
MarkExpired(name) ==
    certs' = IF LatestOf(name) = 0 THEN certs ELSE [certs EXCEPT ![LatestOf(name)].mark = "none"]

\* state "processing": the latest row is marked, its expiry replaced when one is sent, or a row is added.
MarkProcessing(name, exp) ==
    certs' = IF LatestOf(name) = 0 THEN Append(certs, [name |-> name, exp |-> exp, mark |-> "processing"])
             ELSE [certs EXCEPT ![LatestOf(name)].mark = "processing", ![LatestOf(name)].exp = IF exp = NoExpiry THEN @ ELSE exp]

\* state "ok": the name's rows in process are done, and the renewed one is added.
Renewed(name, exp) ==
    Append([i \in DOMAIN certs |-> IF certs[i].name = name /\ certs[i].mark = "processing" THEN [certs[i] EXCEPT !.mark = "done"]
                                   ELSE certs[i]],
           [name |-> name, exp |-> exp, mark |-> "none"])
RenewOk(name, exp) == exp # NoExpiry /\ certs' = Renewed(name, exp)

RenewStep ==
    \E name \in CertNames, exp \in CertDays \cup {NoExpiry} :
        MarkExpired(name) \/ MarkProcessing(name, exp) \/ RenewOk(name, exp)

\* Mutant: a row with a later expiry does not replace a dated one.
BetterUndated(existing, doc) ==
    \/ doc.mark = "processing"
    \/ existing.mark = "done" /\ doc.mark # "done"
    \/ existing.exp = NoExpiry /\ doc.exp # NoExpiry
\* Whether a row shows instead of the one before it of its type.
Better(existing, doc) ==
    \/ doc.mark = "processing"
    \/ existing.mark = "done" /\ doc.mark # "done"
    \/ existing.exp = NoExpiry /\ doc.exp # NoExpiry
    \/ doc.exp # NoExpiry /\ existing.exp # NoExpiry /\ doc.exp > existing.exp

\* The row shown for a type, 0 when it has none.
Shown(rows, type) ==
    FoldLeft(LAMBDA best, i : IF CertType[rows[i].name] # type THEN best
                              ELSE IF best = 0 \/ Better(rows[IF best = 0 THEN i ELSE best], rows[i]) THEN i ELSE best,
             0, [i \in DOMAIN rows |-> i])

DocStatus(doc) ==
    CASE doc.mark = "processing" -> "processing"
      [] doc.mark # "processing" /\ doc.exp = NoExpiry -> "na"
      [] doc.mark # "processing" /\ doc.exp # NoExpiry /\ doc.exp < certDay -> "exp"
      [] OTHER -> "valid"

\* GET /v1/fleet/certificates, one boat's cells.
Cell(rows, type) == IF Shown(rows, type) = 0 THEN "na" ELSE DocStatus(rows[Shown(rows, type)])
Matrix == [s \in {"valid", "exp", "processing", "na"} |-> Cardinality({t \in CertTypes : Cell(certs, t) = s})]

CertInit == certs = <<>> /\ certDay = 1 /\ renewals = 0

CertNext ==
    \/ renewals < MaxCerts /\ renewals' = renewals + 1 /\ RenewStep /\ UNCHANGED certDay
    \/ certDay < Max(CertDays) /\ certDay' = certDay + 1 /\ UNCHANGED <<certs, renewals>>

CertSpec == CertInit /\ [][CertNext]_certVars

CertTypeOK ==
    /\ certs \in Seq(CertRows) /\ certDay \in 1 .. Max(CertDays) /\ renewals \in 0 .. MaxCerts
    /\ FoldFunction(LAMBDA n, m : n + m, 0, Matrix) = Cardinality(CertTypes)

(* A certificate renewed to run longer than every other row of its type is *)
(* the one shown from then on: until a later row is sent or put in process *)
(* no old mark or older row hides it.                                      *)
LongestRenewalShows ==
    \A name \in CertNames, exp \in CertDays :
      LET type == CertType[name]
          others == {i \in DOMAIN certs : CertType[certs[i].name] = type}
      IN  /\ type # "other" /\ certs' = Renewed(name, exp)
          /\ \A i \in others : certs[i].exp < exp
          => Shown(certs', type) = Len(certs')
=============================================================================
