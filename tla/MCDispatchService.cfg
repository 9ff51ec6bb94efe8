\* Two rides compete for two drivers; two replicas; one fault, which retrying
\* does not mend: a failed attempt parks the message.
CONSTANTS
    Topics = {"ride.requested"}
    NoTopic = NoTopic
    MaxAttempts = 1
    Rides = {r1, r2}
    Drivers = {d1, d2}
    None = None
    Members = {m1, m2}
    CandidateLimit = 2
    MaxLog = 2
    MaxFaults = 1
SPECIFICATION FairSpec
INVARIANTS
    TypeOK
    PromisedOnce
    MarkedIsAnswered
    NothingDropped
    AnswersBounded
PROPERTIES
    EventuallyAnswered
CHECK_DEADLOCK FALSE
