\* The consumer by itself: three events, two of them perhaps answers for the same
\* ride, and two faults.  The requests run beside it in MCTripRequests.
CONSTANTS
    Topics = {"ride.requested", "ride.cancelled", "driver.reserved", "driver.rejected"}
    NoTopic = NoTopic
    MaxAttempts = 2
    Rides = {r1}
    Drivers = {d1,d2}
    Otps = {o1}
    Calls = {}
    None = None
    MaxEvents = 3
    MaxLog = 2
    MaxFaults = 2
SPECIFICATION FairSpec
INVARIANTS
    NothingDropped
PROPERTIES
    DriverNeverReassigned
    AnswerReachesRide
CHECK_DEADLOCK FALSE
