\* One day, one boat of 2 seats (licence 3), a lock with a sub-group, and a booking that draws on either.
SPECIFICATION Spec
CONSTANTS
    b1 = b1
    b2 = b2
    Boats = {b1}
    NoBoat = NoBoat
    Licence <- OneBoat
    LockIds = {1, 2}
    NoLock = 0
    Office = Office
    Bookings = {k1}
    Agents = {a1}
    Days = {1}
    Land = {}
    TripChoices <- LockTrips
    Intents = {"confirm"}
    Capacities = {2}
    Movable = {}
    Holders = {Office}
    MaxLockPax = 2
    MaxKids = 1
    Relapse = TRUE
SYMMETRY Symmetric
INVARIANT TypeOK
PROPERTY OversellNeedsConsent
PROPERTY GivingBackFreesSeats
