SPECIFICATION FairSpec
CONSTANTS
    NumEvents = 3
    Clients = {c1, c2}
    ReplaySize = 2
    ChannelSize = 1
INVARIANTS
    TypeOK
    InOrderOnce
    NothingSilentlyMissed
PROPERTIES
    WritesReturn
    HandlersExit
CHECK_DEADLOCK FALSE
