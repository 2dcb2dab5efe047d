SPECIFICATION HistSpec
CONSTANTS
    LogWidth = 3
    IntBits = 6
    MaxBuckets = 10
    Histograms <- WideLHists
    Numbers64 <- MCNumbers
    Repeats <- Once
    MaxSamples = 2
INVARIANT SamplesShown
CHECK_DEADLOCK FALSE
