SPECIFICATION Spec
CONSTANTS
    Intents = {"x", "y"}
    Callers = {"c1", "c2"}
    Keys = {"k1"}
    InProcess = "inprocess"
    MaxAttempts = 2
    Rotates = FALSE
    MaxTroubles = 1
INVARIANTS
    EarlierAreFinal
    BundledInOrder
