CONSTANTS
    Width = 5
    Half = 16
    IntConfig <- MCIntConfig
    Tokens <- MCTokens
    Scripts <- OrderedScripts
    Bodies <- PlainBodies
    Definitions <- AllDefinitions
    Blocks <- AllProbes
    Symbols <- MCSymbols
    ProbeScripts <- PlainProbeScripts
    MaxBpfProgs = 4
    MapScripts <- PlainMapScripts
    BufferScripts <- PlainBufferScripts
    ProbeLists <- MCProbeLists
    NCpus = 3
    MaxFails = 3
SPECIFICATION Spec
CHECK_DEADLOCK FALSE
INVARIANTS
    FoldExact
    IdsAgree
    RunsAsWritten
    Hygienic
    ProbesAsWritten
    WholeProbes
    MapsAsWritten
    BuffersKept
    AttachedAsAsked
