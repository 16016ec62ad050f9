SPECIFICATION Spec
CONSTANTS
    Tx = {"commit", "reveal"}
    Direct = {"commit"}
    Depth = 2
    MaxTroubles = 1
INVARIANTS
    NoEntryForgotten
    FinalizedIsDeep
