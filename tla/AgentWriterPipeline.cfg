\* Three application threads, the serialization thread and the flush loop; one trace makes the formatter throw.
CONSTANTS
    t1 = t1
    t2 = t2
    t3 = t3
    Traces = {t1, t2, t3}
    Size <- UnitSize
    MaxBufferSize = 6
    Serializer = serializer
    FlushLoop = loop
    FlushCallers = {}
    Closers = {}
    Faulty = {t3}
    AutomaticFlush = TRUE
    None = none
SPECIFICATION Spec
INVARIANTS
    TypeOK
    NoLostWakeup
    NoStrandedTraces
    EagerFlush
    AtMostOnce
    KeepRateConservation
SYMMETRY Symmetry
