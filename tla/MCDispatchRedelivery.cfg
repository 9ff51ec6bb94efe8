\* One replica, one ride, two drivers: one restart is enough.
CONSTANTS
    Topics = {"ride.requested"}
    NoTopic = NoTopic
    MaxAttempts = 1
    Rides = {r1}
    Drivers = {d1, d2}
    None = None
    Members = {m1}
    CandidateLimit = 2
    MaxLog = 1
    MaxFaults = 1
SPECIFICATION Spec
INVARIANTS
    OneAnswerPerRide
CHECK_DEADLOCK FALSE
