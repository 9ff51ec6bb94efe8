\* Two HTTP requests in flight beside the consumer; one answer of Dispatch.
CONSTANTS
    Topics = {"ride.requested", "ride.cancelled", "driver.reserved", "driver.rejected"}
    NoTopic = NoTopic
    MaxAttempts = 2
    Rides = {r1}
    Drivers = {d1}
    Otps = {o1}
    Calls = {c1,c2}
    None = None
    MaxEvents = 2
    MaxLog = 2
    MaxFaults = 1
SYMMETRY Symmetry
SPECIFICATION Spec
INVARIANTS
    TypeOK
    NoLegSkipped
    DriverIffMatched
    OnTripOnlyIfStarted
    ExactlyOnce
CHECK_DEADLOCK FALSE
