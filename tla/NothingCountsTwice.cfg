\* The instance of Fleet, for what the replacement wizard's comment says of its purchases.
SPECIFICATION FleetSpec
CONSTANTS
    i1 = i1
    i2 = i2
    i4 = i4
    f1 = f1
    h1 = h1
    pn1 = pn1
    pn2 = pn2
    lb1 = lb1
    lb2 = lb2
    lp1 = lp1
    lr1 = lr1
    lr2 = lr2
    fam1 = fam1
    None = None
    Items = {i1, i2, i3, i4}
    Warehouses = {tublamu, panwa}
    Memos = {m1}
    Jobs = {job1}
    Draws = {c1}
    NameOf <- TwoNames
    Held <- Duplicates
    Quantities = {1}
    MemoQuantities = {1, 2}
    Overrides = {FALSE, TRUE}
    MaxRequests = 2
    JobIds = {1, 2}
    JobNos = {mj1, mj2}
    ProjectNo = prj
    FirstDay = 2
    LastDay = 3
    PickedStatuses = {"available"}
    JobStatuses = {"available", "fixing"}
    StartDays = {3}
    NoJob = 0
    MaxAsks = 3
    Engines = {e1, e2}
    Gearboxes = {g1, g2}
    Propellers = {p1, p2}
    Places <- OnePlace
    GearJobs <- OneGearJob
    Nowhere = Nowhere
    NoBoat = NoBoat
    NoPos = NoPos
    NoEngine = NoEngine
    NoGearbox = NoGearbox
    MaxGear = 3
    CompanyBoats = {f1}
    HiredBoats = {h1}
    MaxWorks = 2
    MaxBuys = 1
    Gear = {s1}
    PartNames = {pn1, pn2}
    Costs = {6}
    WorkForms <- SomeWork
    BuyForms <- SomeBuys
    LastBookDay = 3
    NoWork = NoWork
    MaxBooked = 4
    CertNames = {"lic", "licence", "crew"}
    CertType <- LicenceNames
    CertDays = {1, 2, 3}
    MaxCerts = 3
    LogBoats = {lb1, lb2}
    LogPiers = {lp1, lp2}
    LogRoutes = {lr1, lr2}
    LogDays = {1, 2}
    HomeAtFirst <- SamePier
    OwnBoats = {lb1, lb2}
    BookedPax <- BookedThen
    FamilyOf <- TwoFamilies
    Fuel = {0, 6}
    Prices = {1}
    NoHome = NoHome
    MaxLog = 3
SYMMETRY FleetSymmetric
CHECK_DEADLOCK FALSE
INVARIANT NothingCountsTwice
