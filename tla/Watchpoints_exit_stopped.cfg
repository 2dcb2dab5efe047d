\* Tracing with -p, the run is ended.
CONSTANTS
    t1 = t1
    Probes = {"p1"}
    AsyncProbes = {}
    Args <- MCArgsOne
    Threads = {t1}
    UnwatchArgs = {}
    HwRegisters = 4
    RingSize = 4
    MissingError = TRUE
    HasChild = FALSE
    MayFinalize = TRUE
    MaxCalls = 3
    MaxUnwatch = 0
SPECIFICATION FairSpec
PROPERTIES
    TraceeContinues
