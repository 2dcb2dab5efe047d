\* One thread; p1 and p2 stop the tracee, p3 does not; unwatch(), three registers,
\* a ring buffer that may overflow, and the run may be ended.
CONSTANTS
    t1 = t1
    Probes = {"p1", "p2", "p3"}
    AsyncProbes = {"p3"}
    Args <- MCArgs
    Threads = {t1}
    UnwatchArgs = {1, 2}
    HwRegisters = 3
    RingSize = 2
    MissingError = TRUE
    HasChild = TRUE
    MayFinalize = TRUE
    MaxCalls = 4
    MaxUnwatch = 2
SPECIFICATION FairSpec
INVARIANTS
    NoEventMissed
    RepeatedOnlyAfterAnother
PROPERTIES
    TraceeContinues
    UnwatchOne
