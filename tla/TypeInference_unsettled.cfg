CONSTANTS
    Vars <- MCVars
    Maps <- MCMaps
    TypeScripts <- Chains
    MaxSize = 4
SPECIFICATION TypesSpec
INVARIANT NodesAgree
