\* Two topics, one message published on each, one fault (an unreadable record is one), one run of
\* the tool.
CONSTANTS
    Topics = {t1, t2}
    NoTopic = NoTopic
    MaxAttempts = 2
    Events = {e1}
    Malformed = Malformed
    Empty = Empty
    MaxLog = 2
    MaxFaults = 1
    MaxPublished = 1
    Unreadable = Unreadable
SPECIFICATION ReplaySpec
INVARIANTS
    TypeOK
    NothingDropped
    ReplayReadsAll
PROPERTIES
    ImplementsAtLeastOnce
    EventuallyCommitted
    ReplayEnds
CHECK_DEADLOCK FALSE
