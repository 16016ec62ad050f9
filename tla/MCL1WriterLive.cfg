SPECIFICATION FairSpec
CONSTANTS
    Intents = {"x"}
    Callers = {"c1"}
    Keys = {"k1", "k2"}
    InProcess = "inprocess"
    MaxAttempts = 3
    Rotates = TRUE
    MaxTroubles = 1
INVARIANTS
    FinalIsOnL1
PROPERTIES
    IntentIsPosted
