CONSTANTS
    Width = 5
    Half = 16
    IntConfig <- NoConfig
    Tokens = {}
    Vars <- MCVars
    Maps <- MCMaps
    TypeScripts <- ShortScripts
    MaxSize = 4
    ByteBits = 1
    Leaves <- AllLeaves
SPECIFICATION FairSpec
CHECK_DEADLOCK FALSE
INVARIANTS
    NothingTruncated
    AcceptedIsTyped
    OperatorsExact
PROPERTY Settles
