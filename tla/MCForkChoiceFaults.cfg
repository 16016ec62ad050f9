SPECIFICATION Spec
CONSTANTS
    Block <- MidBlock
    Genesis <- MCGenesis
    Null <- MCNull
    Parent <- MidParent
    Slot <- MidSlot
    Epoch <- MidEpoch
    Terminal <- MidTerminal
    Ancestors <- MidAncestors
    ReorgLimit = 4
    Invalid = {}
    Transient = TRUE
    SlowRpc = TRUE
    MaxCrashes = 1
INVARIANTS
    NoBlockForgotten
    ValidHasState
    TipIsTracked
