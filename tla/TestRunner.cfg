\* Two tests or two benchmarks that may do anything; an exit signal.
CONSTANTS
    Modes = {"test", "bench"}
    NProgs = 2
    Events = {"errorf", "exit0", "exit1"}
    MaxEvents = 2
    BeginEvents = {"printf"}
    EndEvents = {"printf"}
    MaxIters = 2
    MaySignal = TRUE
SPECIFICATION Spec
INVARIANTS
    NoFalseFailure
    NoDanglingOutput
PROPERTIES
    NoFalsePass
