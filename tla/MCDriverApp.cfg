\* One ride; two polls that may overtake each other, one tap, one failure, and
\* no more than three of these at once.
CONSTANTS
    Rides = {1}
    Polls = {p1, p2}
    Taps = {t1}
    None = None
    MaxFaults = 1
    Load = 3
SPECIFICATION FairSpec
INVARIANTS
    RowFollowsTrip
    LockedOutOnlyIfBlind
PROPERTIES
    ScreenReconciles
CHECK_DEADLOCK FALSE
