\* One day, two boats on two routes, two bookings and one hold.
SPECIFICATION Spec
CONSTANTS
    b1 = b1
    b2 = b2
    Boats = {b1, b2}
    NoBoat = NoBoat
    Licence <- Licences
    LockIds = {1}
    NoLock = 0
    Office = Office
    Bookings = {k1, k2}
    Routes = {r1, r2}
    Off = Off
    Days = {1}
    TripChoices <- SeatsOrBoat
    Capacity <- Capacities
    DaySeatChoices = {2}
    Deals = {"any"}
    Splits <- SplitOver
    Minimums = {1}
SYMMETRY Symmetric
INVARIANT BoardKeepsPromises
PROPERTY BoatsAreClaimedOnce
PROPERTY HoldsTakeUnsoldBoats
