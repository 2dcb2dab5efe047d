\* With and without USDT probes; two foreign signals, one interrupted waitpid, and
\* bpftrace may be killed.
CONSTANTS
    MaxExt = 2
    MaxEintr = 1
    MayCrash = TRUE
SPECIFICATION FairSpec
INVARIANTS
    KillsOnlyItsChild
    StatusReported
    NothingLeftBehind
    PausedAfterExec
PROPERTIES
    NobodyHangs
