CONSTANTS
    Width = 5
    Half = 16
    IntConfig <- NoConfig
    Tokens = {}
    Vars <- MCVars
    Maps <- MCMaps
    TypeScripts = {}
    MaxSize = 4
    ByteBits = 1
    Leaves <- AllLeaves
SPECIFICATION Spec
CHECK_DEADLOCK FALSE
INVARIANTS
    PromotionsSafe
