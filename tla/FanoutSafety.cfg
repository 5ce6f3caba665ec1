\* Two rooms, three connections, one pooled Redis connection, one outage.
SPECIFICATION Spec
CONSTANTS
    Rooms = {r1, r2}
    Conns = {c1, c2, c3}
    NoTask = NoTask
    RoomOf <- AnyRoomOf
    RedisPoolMax = 1
    MaxPublished = 2
    MaxOutages = 1
    MaxStalled = 0
CHECK_DEADLOCK FALSE
SYMMETRY Symmetry
INVARIANTS
    TypeOK
    OneDispatcher
    DispatcherKnown
    ReceivedInOrder
    RegistryOK
    CoveredRoom
    NoOrphanListener
PROPERTY ImplementsChannel
