\* Ledger: two bookings of one agent, two payments' amounts, a fee or none.
\* Pier: one booking that may move between two days, two sellers. Cash box: one pier over three days.
\* Lists: two piers, two rows of each list. Deals: two rates, two salespeople, two templates, two promotions.
SPECIFICATION MoneySpec
CONSTANTS
    Bookings = {k1, k2}
    Price <- OnePrice
    Charges = {0, 1}
    CashOnTour = 1
    Discounts = {1}
    Amounts = {1, 2}
    Overrides = {FALSE, TRUE}
    MaxRequests = 6
    Riders = {g1}
    Days = {d1, d2}
    Sellers = {s1, s2}
    TourCash = 1
    Terms <- SmallTerms
    MaxSales = 1
    PierAmounts = {2}
    PierOverrides = {FALSE, TRUE}
    MaxPierRequests = 5
    Piers = {p1, p2}
    CashPiers = {p1}
    CashDays = {1, 2, 3}
    MonthOf <- Months
    CashBoats = {b1}
    RunningOn <- FirstDayRuns
    CashAmounts = {2}
    Times = {480, 90000}
    KindIds = {1, 2}
    GoodsIds = {1}
    SectionIds = {1, 2}
    StaffIds = {1, 2}
    CodeIds = {1, 2}
    CodeTexts = {"pp", "PP", "SE"}
    Upper <- Capitals
    NoPier = NoPier
    MaxOffice = 3
    r1 = r1
    r2 = r2
    Rates = {r1, r2}
    Routes = {x1}
    People = {o1, o2}
    Templates = {c1, c2}
    Promos = {1, 2}
    Lists <- TwoLists
    Offs = {1}
    SeasonTables <- SomeTables
    TripDay = 2
    Party <- OneFamily
    MaxDeals = 3
    Nil = Nil
    NotPriced = NotPriced
    Asked <- SomeQuotes
SYMMETRY MoneySymmetric
CHECK_DEADLOCK FALSE
INVARIANT MoneyTypes
INVARIANT LedgerKept
INVARIANT SalesKept
INVARIANT SumsAgree
PROPERTY MoneyHistory
