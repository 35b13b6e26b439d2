SPECIFICATION FairSpec
CONSTANTS
    Peers = {p1, p2, p3}
    Allowed = {p1, p2}
    NumEvents = 2
    TTL = 2
    NoPeer = NoPeer
INVARIANTS
    TypeOK
    NoWriteToClosed
    ServedOnceListed
    FreshClientsServed
PROPERTIES
    CloseReturns
CHECK_DEADLOCK FALSE
