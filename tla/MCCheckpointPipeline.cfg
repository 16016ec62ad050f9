SPECIFICATION FairSpec
CONSTANTS
    Tasks <- TwoEpochs
    MaxImages = 2
    MaxFails = 1
    MaxCrashes = 1
INVARIANTS
    PostedInOrder
    NoStaleProof
    UnsignedIsIndexed
PROPERTIES
    EpochIsAccepted
CHECK_DEADLOCK FALSE
