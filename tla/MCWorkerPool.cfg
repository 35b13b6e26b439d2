SPECIFICATION FairSpec
CONSTANTS
    Events = {e1, e2, e3}
    Submitters = {s1, s2}
    Workers = {w1, w2}
    QueueSize = 1
    Policies = {"block", "fail"}
    NoEvent = NoEvent
INVARIANTS
    TypeOK
    Conservation
    OneOutcome
    DrainedOnClose
PROPERTIES
    SubmitReturns
    CloseReturns
