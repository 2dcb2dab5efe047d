SPECIFICATION FairSpec
CONSTANTS
    NCpus = 2
    NKeys = 2
    NSlots = 2
    Kinds = {"count", "hist", "min", "avg"}
    Samples <- ThreeSamples
    MaxHits = 3
    MaxOps = 1
INVARIANTS ReduceExact ServedAsAsked
PROPERTIES ImplementsCounters EventServed
CHECK_DEADLOCK FALSE
