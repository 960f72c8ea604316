\* As NativeProfiler, but a thread may be in a JIT callback when Shutdown is called.
CONSTANTS
    framework = framework
    application = application
    f = f
    first = first
    second = second
    i1 = i1
    i2 = i2
    Callers = {a, b}
    Rejit = rejit
    Modules = {framework, application}
    MethodDefs = {f}
    NGenModules = {framework}
    Instrumentable = {framework, application}
    DomainOf <- MCDomainOf
    Definitions <- MCDefinitions
    Matches <- MCMatches
    Inliners <- MCInliners
    JitDuringShutdown = TRUE
    None = none
SPECIFICATION Spec
CHECK_DEADLOCK FALSE
INVARIANT
    HandlerAlive
