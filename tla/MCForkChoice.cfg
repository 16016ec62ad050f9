SPECIFICATION Spec
CONSTANTS
    Block <- SeqBlock
    Genesis <- MCGenesis
    Null <- MCNull
    Parent <- SeqParent
    Slot <- SeqSlot
    Epoch <- SeqEpoch
    Terminal <- SeqTerminal
    Ancestors <- SeqAncestors
    ReorgLimit = 4
    Invalid = {"x", "y"}
    Transient = FALSE
    SlowRpc = FALSE
    MaxCrashes = 2
INVARIANTS
    OneLiveBlockPerSlot
    ExecutionMatchesTip
    FinalizedIsCanonical
    CanonicalIsTipChain
    FcmNeverFails
PROPERTIES
    ImplementsChain
