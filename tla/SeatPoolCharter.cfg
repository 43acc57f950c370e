\* One day, two boats of which one comes and goes, no locks: two bookings over seats and charters.
SPECIFICATION Spec
CONSTANTS
    b1 = b1
    b2 = b2
    Boats = {b1, b2}
    NoBoat = NoBoat
    Licence <- TwoBoats
    LockIds = {}
    NoLock = 0
    Office = Office
    Bookings = {k1, k2}
    Agents = {a1}
    Days = {1}
    Land = {}
    TripChoices <- MixedTrips
    Intents = {"quote", "confirm"}
    Capacities = {2}
    Movable = {b1, b2}
    Holders = {Office}
    MaxLockPax = 2
    MaxKids = 0
    Relapse = FALSE
SYMMETRY Symmetric
PROPERTY CharterExclusive
