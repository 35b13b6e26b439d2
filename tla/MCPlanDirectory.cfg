SPECIFICATION Spec
CONSTANTS
    None = None
    Torn = Torn
    Blank = Blank
    Words <- MCWords
    Retries = 2
    MaxRetryDuration = 9
    BackoffFactor = 4
    Timeout = 5
    Required = {"f", "d"}
    Mappings <- MCMappings
    Defaults = {"d"}
    Plans <- MCPlans
    Providers = {"mock", "ai"}
    MaxRetries = 1
    Sinks <- MCSinks
    Limits <- MCLimits
    MaxCommands = 4
    MaxBeforeRun = 1
INVARIANTS
    RefsInPool
    ForcedIsFresh
    EveryEventAccounted
CHECK_DEADLOCK FALSE
