\* Two rides compete for one driver; one cancellation, expiry or fault of either service; drivers do nothing.
CONSTANTS
    Topics = {"ride.requested", "ride.cancelled", "driver.reserved", "driver.rejected"}
    NoTopic = NoTopic
    MaxAttempts = 1
    Rides = {r1, r2}
    Drivers = {d1}
    Otps = {o1}
    Calls = {}
    None = None
    MaxEvents = 5
    MaxLog = 3
    MaxFaults = 1
    Members = {m1}
    CandidateLimit = 1
    MaxDFaults = 1
    MaxTroubles = 1
SPECIFICATION FairSystemSpec
INVARIANTS
    NoDoubleBookingUnlessLapsed
    ReservedIsExplained
PROPERTIES
    RideSettles
    ImplementsDispatch
CHECK_DEADLOCK FALSE
