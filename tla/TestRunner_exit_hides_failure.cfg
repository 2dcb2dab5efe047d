\* The first test calls exit().
CONSTANTS
    Modes = {"test"}
    NProgs = 2
    Events = {"printf", "errorf", "exit0", "exit1"}
    MaxEvents = 1
    BeginEvents = {}
    EndEvents = {}
    MaxIters = 1
    MaySignal = FALSE
SPECIFICATION Spec
INVARIANTS
    EveryFailureReported
