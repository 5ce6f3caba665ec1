\* Three clients, two database connections, three messages, two instants.
SPECIFICATION FairSpec
CONSTANTS
    Conns = {c1, c2, c3}
    PoolMax = 2
    MaxSent = 3
    MaxClock = 1
CHECK_DEADLOCK FALSE
INVARIANTS
    TypeOK
    PublishedStored
    NoSilentLoss
    SenderOrder
    PoolAccounted
PROPERTY SendCompletes
