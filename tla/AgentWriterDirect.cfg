\* No serialization thread: the callers of WriteTrace serialize concurrently; every call ends.
CONSTANTS
    t1 = t1
    t2 = t2
    t3 = t3
    Traces = {t1, t2, t3}
    Size <- UnitSize
    MaxBufferSize = 7
    Serializer = serializer
    FlushLoop = loop
    FlushCallers = {}
    Closers = {c1, c2}
    Faulty = {t3}
    AutomaticFlush = FALSE
    None = none
SPECIFICATION Spec
INVARIANTS
    PayloadIntact
    KeepRateConservation
SYMMETRY Symmetry
CHECK_DEADLOCK FALSE
