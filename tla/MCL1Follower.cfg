SPECIFICATION FairSpec
CONSTANTS
    Parent <- Branches
    SafeDepth = 3
    MaxReorgs = 1
    MaxFaults = 1
    EpochOf <- Epochs
    Logs <- MinedLogs
INVARIANTS
    KeepsRunning
    FinalIsOnChain
    NoCkptSkipped
PROPERTIES
    FollowsClient
CHECK_DEADLOCK FALSE
