SPECIFICATION SeriesSpec
CONSTANTS
    NCpus = 2
    Keys = {1, 2}
    NumIntervals = 2
    Interval = 2
    Aggs = {"none", "avg", "max", "min", "sum"}
    MaxEntries = 2
    Samples <- ThreeSamples
    StartTime = 5
    MaxTime = 8
    MaxOps = 2
    LogWidth = 3
    IntBits = 6
    MaxBuckets = 10
    Histograms <- AllHistograms
    Numbers64 <- MCNumbers
    Repeats <- Once
    MaxSamples = 2
INVARIANTS SeriesExact SamplesShown
CHECK_DEADLOCK FALSE
