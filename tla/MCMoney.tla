------------------------------ MODULE MCMoney ------------------------------
(* Small instances of the money's parts, a history being of one of them: an *)
(* agent's invoices and credit, a pier's sales, a pier's cash box and its   *)
(* lists, the price of one quote, and the agent's deals.                    *)
EXTENDS Ledger, PierMoney, PierOffice, Deals

CONSTANTS r1, r2

VARIABLE area

OnePrice == [b \in Bookings |-> 1]
SmallTerms == {[price |-> 1, to_company |-> 0], [price |-> 1, to_company |-> 1], [price |-> 2, to_company |-> 1]}

Months == [d \in CashDays |-> IF d = 3 THEN 2 ELSE 1]
FirstDayRuns == [d \in CashDays |-> IF d = 1 THEN CashBoats ELSE {}]
Capitals == [t \in CodeTexts |-> IF t = "pp" THEN "PP" ELSE t]

SomeSeats == {[fr |-> 2, th |-> 1, chd |-> 1], [fr |-> 0, th |-> 3, chd |-> 1]}
SomeBundles == {NotPriced} \cup {[mode |-> m, to |-> t, adult |-> 1, child |-> 1] : m \in {"free", "paid"}, t \in {"seat", "both"}}
SomeBlocks == [seat : SomeSeats \cup {NotPriced}, charter : {NotPriced, [starter |-> 3, includes |-> 2, extra |-> 1]},
               bundle : SomeBundles, longtail : {NotPriced, [join |-> 2, charter |-> 1]}]
Pax(fr, bare, th, chd) == [fr |-> fr, bare |-> bare, th |-> th, chd |-> chd, foc |-> 0]
SomePax == {Pax(1, 0, 0, 0), Pax(1, 0, 1, 0), Pax(0, 2, 0, 1)}
Leg(m, x, p) == [route |-> x, zone |-> TRUE, leg |-> FALSE, mode |-> m, byHand |-> NotPriced, pax |-> p]
SomeTrips == {<<Leg(m, "x", p)>> : m \in {"seat", "charter"}, p \in SomePax}
             \cup {<<Leg(m, "x", p), Leg("seat", y, q)>> : m \in {"seat", "charter"}, p, q \in SomePax, y \in {"x", "y"}}
Cheap == [seat |-> [fr |-> 1, th |-> 1, chd |-> 0], charter |-> NotPriced, bundle |-> NotPriced,
          longtail |-> [join |-> 1, charter |-> 0]]
SomeQuotes == {[trips |-> ts, rate |-> [x |-> b, y |-> Cheap], join |-> j, asked |-> a, charters |-> 1,
                mode |-> off[1], off |-> off[2], extra |-> 1, byHand |-> NotPriced] :
               ts \in SomeTrips, b \in SomeBlocks, j \in {"none", "some"}, a \in {0, 2},
               off \in {<<"percent", 50>>, <<"amount", 3>>}}

List(f, c) == [fr |-> f, th |-> f, chd |-> c]
TwoLists == {List(2, 1), List(4, 2)}
Season(r, from, to) == [rate |-> r, from |-> from, to |-> to]
SomeTables == {{Season(r, 1, 3)} : r \in {r1, r2}} \cup {{Season(r, 1, 3), Season(q, 2, 2)} : r \in {r1, r2}, q \in {r1, r2}}
OneFamily == Pax(1, 0, 0, 1)

MoneySymmetric == Permutations(Bookings) \cup Permutations({r1, r2}) \cup Permutations(Sellers)

AnyQuote == CHOOSE q \in SomeQuotes : TRUE
\* An area that is not the history's stays in one of its first states.
MoneyInit ==
    /\ area \in {"ledger", "sales", "cash", "lists", "quote", "deals"}
    /\ Init /\ OfficeInit
    /\ PierInit /\ (area # "sales" => travels = [b \in Riders |-> CHOOSE d \in Days : TRUE])
    /\ DealsInit
    /\ area # "deals" => /\ rate[r1] # Nil /\ rate[r1].list = [x \in Routes |-> List(2, 1)] /\ rate[r2] = Nil
                        /\ agent.sales = (CHOOSE s \in People : TRUE) /\ main.status = "none"
                        /\ template[CHOOSE t \in Templates : TRUE] # Nil
    /\ QuoteInit /\ (area # "quote" => ask = AnyQuote)
MoneyNext ==
    /\ UNCHANGED <<area, ask>>
    /\ \/ area = "ledger" /\ Next /\ UNCHANGED <<pierVars, officeVars, books, deals>>
       \/ area = "sales" /\ PierNext /\ UNCHANGED <<vars, officeVars, books, deals>>
       \/ area = "cash" /\ CashStep /\ UNCHANGED <<vars, pierVars, books, deals>>
       \/ area = "lists" /\ ListStep /\ UNCHANGED <<vars, pierVars, books, deals>>
       \/ area = "deals" /\ DealsNext /\ UNCHANGED <<vars, pierVars, officeVars>>
MoneySpec == MoneyInit /\ [][MoneyNext]_<<vars, pierVars, officeVars, dealVars, area>>

-----------------------------------------------------------------------------
\* Every variable of the money's parts keeps its type.
MoneyTypes ==
    /\ area = "ledger" => TypeOK
    /\ area = "sales" => PierTypeOK
    /\ area \in {"cash", "lists"} => OfficeTypeOK
    /\ area = "deals" => DealsTypeOK

\* Invoices, payments, refunds and credit agree with the bookings and with one another: an invoice
\* totals its lines, a charge is billed once, a cancelled booking owes nothing, no credit is spent
\* twice and nothing is returned that was not paid.
LedgerKept == area = "ledger" =>
    TotalFollowsLines /\ BilledOnce /\ BillsFollowStatus /\ CreditNeverOverdrawn /\ ReturnedWasPaid

\* At the pier, a sale earns its seller once and on the terms it was paid out on, and the lists' rows
\* stay placed and numbered among the rows there are.
PierKept ==
    /\ area = "sales" => CommissionPaidOnce /\ PaidSaleKeepsTerms
    /\ area = "lists" => ListsKept

\* An agent's deals: the main contract follows its agent, nothing refers to a deleted row, and one
\* template is printed.
DealsKept == area = "deals" => MainFollowsAgent /\ NothingDangling /\ OneTemplatePrints

\* What a sale stands on: at the pier its seller, terms and payout, in the office the agent's deals.
SalesKept == PierKept /\ DealsKept

\* What is added up agrees: the cash box's days carry over whole; one adult more is never cheaper, and
\* the longtail join is charged once per adult.
SumsAgree ==
    /\ area = "cash" => CashKept
    /\ area = "quote" => OneMoreNeverCheaper /\ JoinChargedOnce

\* What was issued, handed over or priced stays as it was: bills keep their paper trail, a handover
\* accepted stands, and an edit that keeps its trip and passengers keeps its price.
MoneyHistory ==
    [][/\ area = "ledger" => PaperTrail
       /\ area = "sales" => HandoverStands
       /\ area = "deals" => KeptPriceStands]_<<vars, pierVars, officeVars, dealVars, area>>
=============================================================================
