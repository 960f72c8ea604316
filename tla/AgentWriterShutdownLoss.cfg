\* FlushAndCloseAsync against WriteTrace, for what its callers expect.
CONSTANTS
    t1 = t1
    t2 = t2
    t3 = t3
    Traces = {t1}
    Size <- UnitSize
    MaxBufferSize = 6
    Serializer = serializer
    FlushLoop = loop
    FlushCallers = {}
    Closers = {c1}
    Faulty = {}
    AutomaticFlush = TRUE
    None = none
SPECIFICATION Spec
INVARIANTS
    FlushAndCloseFlushes
CHECK_DEADLOCK FALSE
