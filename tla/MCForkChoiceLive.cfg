SPECIFICATION FairSpec
CONSTANTS
    Block <- ShortBlock
    Genesis <- MCGenesis
    Null <- MCNull
    Parent <- ShortParent
    Slot <- ShortSlot
    Epoch <- ShortEpoch
    Terminal <- ShortTerminal
    Ancestors <- ShortAncestors
    ReorgLimit = 4
    Invalid = {"x"}
    Transient = FALSE
    SlowRpc = FALSE
    MaxCrashes = 1
PROPERTIES
    StoredIsDecided
    ProductionContinues
    FinalityCatchesUp
