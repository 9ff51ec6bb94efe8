\* Two rides, and two polls that overtake each other.
CONSTANTS
    MaxRides = 2
    Tab = {1}
    Told = {"DRIVER_ARRIVING"}
    Polls = {p1, p2}
    Load = 3
    None = None
SPECIFICATION FairSpec
INVARIANTS
    CodeIsOfRide
    EndIsTrue
PROPERTIES
    ScreenCatchesUp
    DriverSettles
CHECK_DEADLOCK FALSE
