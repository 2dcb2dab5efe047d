\* Two CPUs, so that max_cpu_id is the id of a CPU.
CONSTANTS
    Scripts <- PlainScripts
    NCpus = 2
    RingCap = 2
    SkbCap = 2
    MaxLoss = 1
    MaxExitSig = 0
    MaxUsr1 = 0
SPECIFICATION Spec
INVARIANT
    LossAllReported
