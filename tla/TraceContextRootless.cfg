\* The last chunk of a partially flushed trace.
CONSTANTS
    s1 = s1
    s2 = s2
    s3 = s3
    Spans = {s1, s2, s3}
    Threads = {a, b}
    Priorities = {keep, reject}
    PartialFlushEnabled = TRUE
    PartialFlushMinSpans = 2
    None = none
SPECIFICATION Spec
INVARIANT
    RootlessChunkPriority
