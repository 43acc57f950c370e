\* The instance of Operations, for what README 442-448 says of an edit of a boat.
SPECIFICATION OpsSpec
CONSTANTS
    n1 = n1
    u1 = u1
    w1 = w1
    w2 = w2
    c1 = c1
    c2 = c2
    t1 = t1
    t2 = t2
    v1 = v1
    v2 = v2
    k1 = k1
    k2 = k2
    a1 = a1
    a2 = a2
    g1 = g1
    e1 = e1
    Trips = {n1, n2}
    Groups = {1, 2}
    Vans = {u1, u2}
    Stops = {s1}
    MaxPax = 2
    VanSeats = {2, 4}
    MaxVanAsks = 3
    Nothing = Nothing
    Riders = {w1, w2}
    PartPax <- SplitPax
    PickupTime <- Fetched
    Rounds = {1, 2}
    Cars = {x1, x2}
    Partners = {x1, x2}
    NoCar = NoCar
    NoRound = 0
    Rates = {1}
    MaxPapers = 3
    Guests = {c1, c2}
    Sold <- SoldTrips
    Routes = {"x", "y"}
    Days = {1, 2}
    Room = 2
    Closures = {1, 2}
    Papers = {p1}
    MaxCares = 4
    Orders = {o1, o2}
    Parties <- SomeOrders
    MaxPushes = 3
    Trippers = {t1, t2}
    Vessels = {v1, v2}
    Coaches = {k1, k2}
    Tours = {"x"}
    TourDays = {1, 2}
    TripParties <- SomeParties
    Engines <- EngineCounts
    CoachRate <- SomeCoachRates
    CoachFallback = 10
    MealPrices <- SomeMeals
    Rents <- SomeRents
    Plans <- SomePlans
    Litres = {4}
    FuelPrices = {2}
    Recounts <- SomeRecounts
    Scale = 4
    NoVessel = NoVessel
    NoTour = NoTour
    NoCoach = NoCoach
    NoMeal = NoMeal
    NoCount = NoCount
    NotClosed = NotClosed
    MaxProfits = 3
    LineIds <- SomeIds
    LineOf <- SomeLines
    VatRate = 100
    NoUnit = NoUnit
    Travellers = {f1}
    Ships = {h1}
    TripNos = {1, 2}
    LastDay = 2
    SeasonIds = {0, 1}
    NoTripDay = 0
    MaxEdits = 4
    Aboard = {a1, a2}
    PartyOf <- PartySizes
    Charters = {a1}
    Seats = {3, 4}
    Licences = {4, 5}
    Typed = {5}
    TypedLicences = {4}
    Unset = Unset
    DayCount = 2
    MaxCalls = 5
    StaffOrders = {so1, so2}
    Years = {1, 2}
    FreeSeats = {0, 1}
    Quotas = {0, 1}
    LastStaff = 1
    Nobody = Nobody
    MaxStaffCalls = 4
    RouteIds = {r1, r2, r3}
    FamilyIds = {fam1}
    RoutePiers = {NoPlace, pier1}
    ExtIds = {ext1}
    Referrers = {ref1}
    NoPlace = NoPlace
    MaxEditsOfList = 5
    FeedBookings = {b1, b2}
    FeedLocks = {1, 2}
    FeedInvoices = {i1}
    FeedRoutes = {y1, y2}
    FeedDates = {1}
    Gone = Gone
    MaxWrites = 3
    Copied = {d1, e1}
    BulkIds = {g1}
    DeparturesOf <- OneDeparture
    Callers = {q1, q2}
    NoCopy = NoCopy
    MaxSaves = 2
CHECK_DEADLOCK FALSE
INVARIANT EditAsksFirst
