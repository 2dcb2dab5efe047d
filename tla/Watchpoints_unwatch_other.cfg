\* One function, two addresses, unwatch() of either.
CONSTANTS
    t1 = t1
    Probes = {"p1"}
    AsyncProbes = {}
    Args <- MCArgsBoth
    Threads = {t1}
    UnwatchArgs = {1, 2}
    HwRegisters = 4
    RingSize = 4
    MissingError = TRUE
    HasChild = TRUE
    MayFinalize = FALSE
    MaxCalls = 3
    MaxUnwatch = 1
SPECIFICATION Spec
PROPERTIES
    UnwatchExact
