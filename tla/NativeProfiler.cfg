\* Two threads of the runtime, and a JIT that is at rest when Shutdown is called.
CONSTANTS
    framework = framework
    application = application
    f = f
    first = first
    second = second
    i1 = i1
    i2 = i2
    Callers = {a, b}
    Rejit = rejit
    Modules = {framework, application}
    MethodDefs = {f}
    NGenModules = {framework}
    Instrumentable = {framework, application}
    DomainOf <- MCDomainOf
    Definitions <- MCDefinitions
    Matches <- MCMatches
    Inliners <- MCInliners
    JitDuringShutdown = FALSE
    None = none
SPECIFICATION FairSpec
CHECK_DEADLOCK FALSE
INVARIANTS
    TypeOK
    PairsCovered
    NgenCovered
    HandlerAlive
    NoStaleModules
PROPERTIES
    CallbacksReturn
    QueueDrains
