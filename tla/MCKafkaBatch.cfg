SPECIFICATION FairSpec
CONSTANTS
    Events = {e1, e2, e3}
    Writers = {w1, w2}
    BatchSize = 2
    Retries = 1
    ClientAttempts = 2
    MaxUnencodable = 1
INVARIANTS
    TypeOK
    OnePlace
    NeverStranded
    StoredAtLeastOnce
    HonestCounters
PROPERTIES
    EveryEventSettles
CHECK_DEADLOCK FALSE
