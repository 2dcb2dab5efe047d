CONSTANTS
    Width = 5
    Half = 16
    IntConfig <- MCIntConfig
    Tokens <- MCTokens
    Scripts <- AssignScripts
    Bodies = {}
    Definitions = {}
    Blocks = {}
    Symbols <- MCSymbols
    ProbeScripts = {}
    MaxBpfProgs = 4
    MapScripts = {}
    BufferScripts = {}
    ProbeLists = {}
    NCpus = 3
    MaxFails = 3
SPECIFICATION Spec
CHECK_DEADLOCK FALSE
INVARIANTS
    IdsAgree
