\* Two HTTP requests, no faults: enough for a cancel to race a start.
CONSTANTS
    Topics = {"ride.requested", "ride.cancelled", "driver.reserved", "driver.rejected"}
    NoTopic = NoTopic
    MaxAttempts = 1
    Rides = {r1}
    Drivers = {d1}
    Otps = {o1}
    Calls = {c1, c2}
    None = None
    MaxEvents = 2
    MaxLog = 1
    MaxFaults = 0
SPECIFICATION Spec
PROPERTIES
    NeverCancelledInProgress
CHECK_DEADLOCK FALSE
