\* Three threads and three spans of one trace, which may be flushed partially.
CONSTANTS
    s1 = s1
    s2 = s2
    s3 = s3
    Spans = {s1, s2, s3}
    Threads = {a, b, c}
    Priorities = {keep, reject}
    PartialFlushEnabled = TRUE
    PartialFlushMinSpans = 2
    None = none
SPECIFICATION FairSpec
INVARIANTS
    TypeOK
    SpansConserved
    OpenSpansCounts
    NothingLeftBehind
    ChunkPriority
PROPERTIES
    CompleteTraceWritten
