\* Two clients of one room and one of another, one of them slow; Redis stays up.
SPECIFICATION FairSpec
CONSTANTS
    Rooms = {r1, r2}
    Conns = {c1, c2, c3}
    NoTask = NoTask
    RoomOf <- AnyRoomOf
    RedisPoolMax = 2
    MaxPublished = 1
    MaxOutages = 0
    MaxStalled = 1
CHECK_DEADLOCK FALSE
PROPERTIES
    PendingDelivered
    IdleRoomReleased
    ShutdownEnds
