SPECIFICATION Spec
CONSTANTS
    e1 = e1
    e2 = e2
    e3 = e3
    Events <- MCEvents
    Time <- MCTime
    Id <- MCId
    Configs <- MCConfigs
    Workers = {w1, w2}
    QueueSize = 1
    Policies = {"block", "fail"}
    NoEvent = NoEvent
INVARIANTS
    ShutdownPrintsStats
