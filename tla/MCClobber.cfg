\* The detection a page starts when it opens, and one choice.
CONSTANTS
    Places = {a, b}
    Detections = {d1}
    None = None
SPECIFICATION Spec
PROPERTIES
    ExplicitChoiceKept
CHECK_DEADLOCK FALSE
