\* Messages of several senders, dated by their transactions.
SPECIFICATION Spec
CONSTANTS
    Conns = {c1, c2, c3}
    PoolMax = 2
    MaxSent = 3
    MaxClock = 2
CHECK_DEADLOCK FALSE
SYMMETRY Symmetry
INVARIANT HistoryChronological
