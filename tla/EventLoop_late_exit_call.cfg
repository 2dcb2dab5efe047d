\* No signal at all: a leftover exit() in the last drain.
CONSTANTS
    Scripts <- PlainScripts
    NCpus = 1
    RingCap = 2
    SkbCap = 2
    MaxLoss = 1
    MaxExitSig = 0
    MaxUsr1 = 0
SPECIFICATION Spec
INVARIANT
    EndNeverIgnored
