SPECIFICATION BulkSpec
CONSTANTS
    b1 = b1
    a1 = a1
    a2 = a2
    Boats = {b1}
    NoBoat = NoBoat
    Licence <- BulkBoat
    LockIds = {1, 2, 3, 4}
    NoLock = 0
    Office = Office
    Bookings = {k1}
    Agents = {a1, a2}
    Days = {1, 2}
    Land = {}
    TripChoices <- BulkTrips
    Intents = {"confirm"}
    Capacities = {2}
    Movable = {}
    Holders = {Office, a1, a2}
    MaxLockPax = 2
    MaxKids = 1
    Relapse = FALSE
    RunsOn = {1, 2}
    Weekdays <- Chosen
    Cutoffs = {NoCutoff, 1}
    NoCutoff = NoCutoff
    MaxBulk = 3
SYMMETRY Sellers
INVARIANT OneHolder
PROPERTY SubGroupsStayInside
PROPERTY DeparturesKeepTheirSeats
PROPERTY DrawsStayHome
CHECK_DEADLOCK FALSE
