\* Two drivers.  Each request of the page takes one candidate, so that a stale
\* member hides a live one; Dispatch takes both.
CONSTANTS
    MaxDrivers = 2
    DispatchReach = 2
    PageReach = 2
    CandidateLimit = 2
    Threshold = 2
    RateLimit = 1
SPECIFICATION FairSpec
INVARIANTS
    FreshIsListed
    WindowHolds
PROPERTIES
    LookupsFind
    CircuitCloses
CHECK_DEADLOCK FALSE
