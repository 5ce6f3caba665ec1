\* A cancelled or crashed listener while Redis is away.
SPECIFICATION Spec
CONSTANTS
    Rooms = {r1}
    Conns = {c1, c2}
    NoTask = NoTask
    RoomOf <- AnyRoomOf
    RedisPoolMax = 2
    MaxPublished = 1
    MaxOutages = 1
    MaxStalled = 0
CHECK_DEADLOCK FALSE
INVARIANT NoLeakedConnection
