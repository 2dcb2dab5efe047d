SPECIFICATION SeriesSpec
CONSTANTS
    NCpus = 2
    Keys = {1, 2}
    NumIntervals = 2
    Interval = 2
    Aggs = {"avg"}
    MaxEntries = 2
    Samples <- ThreeSamples
    StartTime = 5
    MaxTime = 8
    MaxOps = 2
    LogWidth = 3
    IntBits = 6
    MaxBuckets = 10
    Histograms = {}
    Numbers64 = {}
    Repeats = {}
    MaxSamples = 2
INVARIANTS AverageDefined
CHECK_DEADLOCK FALSE
