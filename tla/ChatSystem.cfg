\* Two senders and a reader over two database connections, three messages,
\* pages of up to two.
SPECIFICATION SystemSpec
CONSTANTS
    Conns = {s1, s2, rd}
    Reader = rd
    PoolMax = 2
    MaxSent = 3
    MaxClock = 0
    MaxLimit = 2
CHECK_DEADLOCK FALSE
INVARIANT SeamCovered
PROPERTY ImplementsHistory
