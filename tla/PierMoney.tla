------------------------------- MODULE PierMoney -------------------------------
(***************************************************************************)
(* The money taken at a pier: what a booking pays there on a travel day,   *)
(* what is sold to it on tour (sales and upgrades, each with a seller's    *)
(* commission), the day's cash handed over to accounts, and the sellers'   *)
(* commissions paid out.                                                   *)
(*                                                                         *)
(* One pier. Each action is one request, run as one transaction. A booking *)
(* travels on one day at a time; reschedule and cancel are another         *)
(* component's and appear here as what they change. Transfers and cards,   *)
(* which no one counts, are one method; their fees and slips are left out. *)
(***************************************************************************)
EXTENDS Totals, Sequences, TLC

CONSTANTS
    Riders, Days, Sellers,
    TourCash,           \* what each booking owes in cash on tour
    Terms,              \* what items are sold at: [price, to_company]
    MaxSales,           \* bound: sales ever made, and upgrade ids a client sends
    PierAmounts,        \* amounts paid at the pier
    PierOverrides,      \* whether overpay_anyway is sent
    MaxPierRequests     \* bound: the requests of a history

ASSUME PierAssumption ==
    /\ TourCash \in Nat /\ MaxSales \in Nat /\ PierAmounts \subseteq Nat \ {0} /\ PierOverrides \subseteq BOOLEAN
    /\ \A t \in Terms : t.price \in Nat \ {0} /\ t.to_company \in 0..t.price

PierMethods == {"cash", "card"}
SaleMethods == PierMethods \cup {"cot"}     \* "cot": to be collected on the travel day
\* A sale has an id of the server's, an upgrade its client's.
SaleIds == {"tour_sale"} \X (1..MaxSales)
UpgradeIds == {"upgrade"} \X (1..MaxSales)
SaleItems == SaleIds \cup UpgradeIds
Items == [booking : Riders, day : Days, price : Nat, to_company : Nat, seller : Sellers, method : SaleMethods]
PierPayments == [booking : Riders, day : Days, amount : Nat \ {0}, method : PierMethods, deleted : BOOLEAN]
HandoverStates == {"handed", "accepted", "void"}

VARIABLES
    travels,       \* [Bookings -> the day it travels]
    live,          \* the bookings not cancelled
    pierPayments,  \* pier payments, oldest first
    saleItem,      \* the sales and upgrades there are, by id
    salesMade,     \* how many sales were ever made
    handovers,     \* [day, expected, state], oldest first
    payouts,       \* [seller, paid, void]: paid is what each item named earned
    pierRequests   \* bound: the requests made

desk == <<travels, live, pierPayments, saleItem, salesMade, handovers, payouts>>
pierVars == <<desk, pierRequests>>

-----------------------------------------------------------------------------
(* What is owed and what was taken                                         *)

\* "cot" is what is still to collect, for an upgrade as for a sale.
Collected(x) == saleItem[x].method # "cot"
\* tourSaleView and upgradeView: the commission is what the company is not owed.
Commission(i) == Clip(i.price - i.to_company)
\* upgradeDay: an upgrade has no day of its own.
DayOf(x) == IF x \in UpgradeIds THEN travels[saleItem[x].booking] ELSE saleItem[x].day
ItemsOf(b) == {x \in DOMAIN saleItem : saleItem[x].booking = b}
LiveHere(b, d) == {p \in DOMAIN pierPayments : pierPayments[p].booking = b /\ pierPayments[p].day = d /\ ~pierPayments[p].deleted}

(* pierMoney: the cash on tour, and what was sold but not collected. A     *)
(* sale of another day is not this day's.                                  *)
Gross(b, d) ==
    TourCash + Total([x \in {x \in ItemsOf(b) : ~Collected(x) /\ (x \in SaleIds => saleItem[x].day = d)} |-> saleItem[x].price])
Due(b, d) == Clip(Gross(b, d) - Total([p \in LiveHere(b, d) |-> pierPayments[p].amount]))

(* takings: the day's cash at the pier, of the bookings that travel then.  *)
Takings(d) ==
    LET here == {b \in Riders : travels[b] = d}
    IN  Total([p \in {p \in UNION {LiveHere(b, d) : b \in here} : pierPayments[p].method = "cash"} |-> pierPayments[p].amount])
        + Total([x \in {x \in UNION {ItemsOf(b) : b \in here} : saleItem[x].method = "cash" /\ DayOf(x) = d} |-> saleItem[x].price])

\* The payout an item is on, unless it was voided.
PaidOn(x) == {n \in DOMAIN payouts : ~payouts[n].void /\ x \in DOMAIN payouts[n].paid}

-----------------------------------------------------------------------------
(* Pier payments                                                           *)

\* POST /v1/bookings/{id}/pier-payments: more than is owed only when told to.
RecordPierPayment(b, amount, method, anyway) ==
    LET d == travels[b]
    IN  /\ b \in live
        /\ amount > Due(b, d) => anyway
        /\ pierPayments' = Append(pierPayments, [booking |-> b, day |-> d, amount |-> amount, method |-> method, deleted |-> FALSE])
        /\ UNCHANGED <<travels, live, saleItem, salesMade, handovers, payouts>>

\* DELETE /v1/bookings/{id}/pier-payments/{id}: kept, out of every total.
DeletePierPayment(p) ==
    /\ ~pierPayments[p].deleted
    /\ pierPayments' = [pierPayments EXCEPT ![p].deleted = TRUE]
    /\ UNCHANGED <<travels, live, saleItem, salesMade, handovers, payouts>>

-----------------------------------------------------------------------------
(* Sales and upgrades                                                      *)

NewItem(b, d, terms, seller, method) ==
    [booking |-> b, day |-> d, price |-> terms.price, to_company |-> terms.to_company, seller |-> seller, method |-> method]
SetItems(i) == saleItem' = i /\ UNCHANGED <<travels, live, pierPayments, handovers, payouts>>
Without(x) == [y \in DOMAIN saleItem \ {x} |-> saleItem[y]]

\* POST /v1/bookings/{id}/tour-sales
SellTour(b, terms, seller, method) ==
    LET x == <<"tour_sale", salesMade + 1>>
    IN  /\ b \in live /\ salesMade < MaxSales
        /\ SetItems(With(saleItem, x, NewItem(b, travels[b], terms, seller, method)))
        /\ salesMade' = salesMade + 1

(* assertNotPaidOut: a sale whose commission was paid keeps what it was    *)
(* paid on.                                                                *)
SameTerms(x, next) == Commission(next) = Commission(saleItem[x]) /\ next.seller = saleItem[x].seller
\* Mutant: another seller for the same commission is let through.
MayRetermSeller(x, next) == Commission(next) = Commission(saleItem[x]) \/ PaidOn(x) = {}
MayReterm(x, next) == SameTerms(x, next) \/ PaidOn(x) = {}

\* PATCH /v1/bookings/{id}/tour-sales/{id}: only to a day the booking travels, when a day is sent.
EditTourSale(x, d, terms, seller, method) ==
    LET next == NewItem(saleItem[x].booking, d, terms, seller, method)
    IN  /\ d # saleItem[x].day => d = travels[saleItem[x].booking]
        /\ next # saleItem[x]
        /\ MayReterm(x, next)
        /\ SetItems([saleItem EXCEPT ![x] = next])
        /\ UNCHANGED salesMade

\* POST .../tour-sales/{id}/collect and .../upgrades/{id}/collect
Collect(x, method) ==
    /\ ~Collected(x)
    /\ SetItems([saleItem EXCEPT ![x].method = method])
    /\ UNCHANGED salesMade

\* DELETE /v1/bookings/{id}/tour-sales/{id}
DeleteTourSale(x) ==
    /\ PaidOn(x) = {}
    /\ SetItems(Without(x))
    /\ UNCHANGED salesMade

(* PATCH /v1/bookings/{id} with its whole list of upgrades, here one       *)
(* change at a time: an upgrade added, edited (collecting it is a command  *)
(* of its own), or left out. No payout is looked at.                       *)
AddUpgrade(b, x, terms, seller, method) ==
    /\ b \in live /\ x \notin DOMAIN saleItem
    /\ SetItems(With(saleItem, x, NewItem(b, travels[b], terms, seller, method)))
    /\ UNCHANGED salesMade
EditUpgrade(x, terms, seller, method) ==
    LET next == NewItem(saleItem[x].booking, saleItem[x].day, terms, seller, method)
    IN  /\ saleItem[x].booking \in live /\ next # saleItem[x]
        /\ (method = "cot") = ~Collected(x)
        /\ SetItems([saleItem EXCEPT ![x] = next])
        /\ UNCHANGED salesMade
DropUpgrade(x) ==
    /\ saleItem[x].booking \in live
    /\ SetItems(Without(x))
    /\ UNCHANGED salesMade

-----------------------------------------------------------------------------
(* The day's cash handed over                                              *)

LiveHandovers(d) == {n \in DOMAIN handovers : handovers[n].day = d /\ handovers[n].state # "void"}

\* POST /v1/pier-handovers: what it expects is the takings then.
HandOver(d) ==
    /\ LiveHandovers(d) = {}
    /\ handovers' = Append(handovers, [day |-> d, expected |-> Takings(d), state |-> "handed"])
    /\ UNCHANGED <<travels, live, pierPayments, saleItem, salesMade, payouts>>
\* POST /v1/pier-handovers/{id}/accept
Accept(n) ==
    /\ handovers[n].state = "handed"
    /\ handovers' = [handovers EXCEPT ![n].state = "accepted"]
    /\ UNCHANGED <<travels, live, pierPayments, saleItem, salesMade, payouts>>
\* Mutant: an accepted hand-over may be voided.
VoidAnyHandover(n) ==
    /\ handovers[n].state # "void"
    /\ handovers' = [handovers EXCEPT ![n].state = "void"]
    /\ UNCHANGED <<travels, live, pierPayments, saleItem, salesMade, payouts>>
\* POST /v1/pier-handovers/{id}/void: not once accounts accepted it.
VoidHandover(n) ==
    /\ handovers[n].state = "handed"
    /\ handovers' = [handovers EXCEPT ![n].state = "void"]
    /\ UNCHANGED <<travels, live, pierPayments, saleItem, salesMade, payouts>>

-----------------------------------------------------------------------------
(* Commissions paid out                                                    *)

\* Mutant: an item paid before is paid again.
PayableAgain(x, seller) == Collected(x) /\ saleItem[x].seller = seller /\ Commission(saleItem[x]) > 0
\* Mutant: a sale that earned nothing is paid out too.
PayableForNothing(x, seller) == Collected(x) /\ saleItem[x].seller = seller /\ PaidOn(x) = {}
\* planPayout: the seller's, collected, and not paid already.
Payable(x, seller) == Collected(x) /\ saleItem[x].seller = seller /\ Commission(saleItem[x]) > 0 /\ PaidOn(x) = {}

\* POST /v1/commission-payouts
PayCommission(seller, xs) ==
    /\ \A x \in xs : Payable(x, seller)
    /\ payouts' = Append(payouts, [seller |-> seller, paid |-> [x \in xs |-> Commission(saleItem[x])], void |-> FALSE])
    /\ UNCHANGED <<travels, live, pierPayments, saleItem, salesMade, handovers>>
\* POST /v1/commission-payouts/{id}/void frees its items.
VoidPayout(n) ==
    /\ ~payouts[n].void
    /\ payouts' = [payouts EXCEPT ![n].void = TRUE]
    /\ UNCHANGED <<travels, live, pierPayments, saleItem, salesMade, handovers>>

-----------------------------------------------------------------------------
(* Bookings, as this component sees them                                   *)

\* A reschedule moves the booking, and not what was paid or sold.
Reschedule(b, d) ==
    /\ b \in live /\ travels[b] # d
    /\ travels' = [travels EXCEPT ![b] = d]
    /\ UNCHANGED <<live, pierPayments, saleItem, salesMade, handovers, payouts>>
CancelOrRestore(b) ==
    /\ live' = IF b \in live THEN live \ {b} ELSE live \cup {b}
    /\ UNCHANGED <<travels, pierPayments, saleItem, salesMade, handovers, payouts>>

PierInit ==
    /\ travels \in [Riders -> Days] /\ live = Riders
    /\ pierPayments = <<>> /\ saleItem = <<>> /\ salesMade = 0
    /\ handovers = <<>> /\ payouts = <<>> /\ pierRequests = 0

PierRequest ==
    \/ \E b \in Riders :
          \/ \E amount \in PierAmounts, method \in PierMethods, anyway \in PierOverrides : RecordPierPayment(b, amount, method, anyway)
          \/ \E terms \in Terms, seller \in Sellers, method \in SaleMethods :
                \/ SellTour(b, terms, seller, method)
                \/ \E x \in UpgradeIds : AddUpgrade(b, x, terms, seller, method)
          \/ \E d \in Days : Reschedule(b, d)
          \/ CancelOrRestore(b)
    \/ \E p \in DOMAIN pierPayments : DeletePierPayment(p)
    \/ \E x \in DOMAIN saleItem \cap SaleIds :
          \/ \E d \in Days, terms \in Terms, seller \in Sellers, method \in SaleMethods : EditTourSale(x, d, terms, seller, method)
          \/ DeleteTourSale(x)
    \/ \E x \in DOMAIN saleItem, method \in PierMethods : Collect(x, method)
    \/ \E x \in DOMAIN saleItem \cap UpgradeIds :
          \/ \E terms \in Terms, seller \in Sellers, method \in SaleMethods : EditUpgrade(x, terms, seller, method)
          \/ DropUpgrade(x)
    \/ \E d \in Days : HandOver(d)
    \/ \E n \in DOMAIN handovers : Accept(n) \/ VoidHandover(n)
    \/ \E seller \in Sellers, xs \in (SUBSET DOMAIN saleItem) \ {{}} : PayCommission(seller, xs)
    \/ \E n \in DOMAIN payouts : VoidPayout(n)

PierNext == pierRequests < MaxPierRequests /\ pierRequests' = pierRequests + 1 /\ PierRequest

PierSpec == PierInit /\ [][PierNext]_pierVars

-----------------------------------------------------------------------------
(* Properties                                                              *)

\* The rows are ones the tables can hold; a payout names each item with what it earned.
PierTypeOK ==
    /\ travels \in [Riders -> Days] /\ live \subseteq Riders
    /\ \A p \in DOMAIN pierPayments : pierPayments[p] \in PierPayments
    /\ DOMAIN saleItem \subseteq SaleItems /\ \A x \in DOMAIN saleItem : saleItem[x] \in Items
    /\ salesMade \in 0..MaxSales
    /\ \A n \in DOMAIN handovers : handovers[n].state \in HandoverStates /\ handovers[n].expected \in Nat
    /\ \A n \in DOMAIN payouts : \A x \in DOMAIN payouts[n].paid : payouts[n].paid[x] \in Nat \ {0}

(* planPayout, voidPayout: whatever is edited, dropped, voided and paid    *)
(* again, the commission of a sale or an upgrade is on one payout that     *)
(* stands.                                                                 *)
CommissionPaidOnce == \A x \in SaleItems : Cardinality(PaidOn(x)) <= 1

(* routes/money.ts, assertNotPaidOut: a sale on a payout that stands is    *)
(* still there, the same seller's, and earns what was paid for it.         *)
PaidSaleKeepsTerms ==
    \A x \in SaleIds : \A n \in PaidOn(x) :
        /\ x \in DOMAIN saleItem
        /\ saleItem[x].seller = payouts[n].seller /\ Commission(saleItem[x]) = payouts[n].paid[x]

(* planHandover, acceptHandover, voidHandover: a day is handed over once   *)
(* at a time, and what accounts accepted stands, with what it expected,    *)
(* whatever is taken later.                                                *)
HandoverStands ==
    /\ \A n, m \in DOMAIN handovers' :
          handovers'[n].day = handovers'[m].day /\ "void" \notin {handovers'[n].state, handovers'[m].state} => n = m
    /\ \A n \in DOMAIN handovers : /\ handovers[n].state = "accepted" => handovers'[n] = handovers[n]
                                   /\ handovers'[n].expected = handovers[n].expected
=============================================================================
