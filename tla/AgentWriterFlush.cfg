\* A call of FlushTracesAsync races with the flush loop and with WriteTrace.
CONSTANTS
    t1 = t1
    t2 = t2
    t3 = t3
    Traces = {t1}
    Size <- UnitSize
    MaxBufferSize = 6
    Serializer = serializer
    FlushLoop = loop
    FlushCallers = {f1}
    Closers = {}
    Faulty = {}
    AutomaticFlush = TRUE
    None = none
SPECIFICATION FairSpec
INVARIANTS
    PayloadIntact
    FlushTracesPromise
PROPERTIES
    FlushTracesTerminates
    ImplementsDelivery
