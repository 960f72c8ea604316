\* FlushAndCloseAsync at any moment of the life of a trace; the writer may stop.
CONSTANTS
    t1 = t1
    t2 = t2
    t3 = t3
    Traces = {t1}
    Size <- UnitSize
    MaxBufferSize = 6
    Serializer = serializer
    FlushLoop = loop
    FlushCallers = {}
    Closers = {c1}
    Faulty = {}
    AutomaticFlush = TRUE
    None = none
SPECIFICATION FairSpec
INVARIANTS
    NoLostWakeup
    FlushAndClosePromise
PROPERTIES
    TracesSettle
    ShutdownTerminates
CHECK_DEADLOCK FALSE
