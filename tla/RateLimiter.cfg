\* Two threads, a limit of one trace per interval of one tick, two calls each within four ticks.
CONSTANTS
    p1 = p1
    p2 = p2
    Threads = {p1, p2}
    maxTracesPerInterval = 1
    Interval = 1
    MaxClock = 4
    MaxCalls = 2
SPECIFICATION Spec
CHECK_DEADLOCK FALSE
INVARIANTS
    TypeOK
    OvershootBounded
    RefusalRecent
    RateAtMostOne
SYMMETRY Symmetry
