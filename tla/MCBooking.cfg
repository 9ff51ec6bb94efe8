\* Two places, one detection beside the rider's taps.
CONSTANTS
    Places = {a, b}
    Detections = {d1}
    None = None
SPECIFICATION Spec
INVARIANTS
    RequestIsAsConfirmed
    ResultsAreForText
    EstimateIsForPickup
    LoadingHasLookup
CHECK_DEADLOCK FALSE
