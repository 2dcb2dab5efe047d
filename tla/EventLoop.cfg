\* Every kind of script, one exit signal, one SIGUSR1, three CPUs; probes fire without
\* bound, and the loss counters saturate.
CONSTANTS
    Scripts <- AllScripts
    NCpus = 3
    RingCap = 2
    SkbCap = 2
    MaxLoss = 1
    MaxExitSig = 1
    MaxUsr1 = 1
SPECIFICATION FairSpec
INVARIANTS
    TypeOK
    BuffersDrained
    EndEventHeard
    BeginFirstEndLast
    FinalizeDetaches
    LossNotOverstated
    LossAllReported
PROPERTIES
    RunEnds
    SkbHeard
