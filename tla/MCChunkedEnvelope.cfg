SPECIFICATION FairSpec
CONSTANTS
    MaxEnvelopes = 2
    Reveals <- ShortReveals
    SmallPackage = FALSE
    SameTx = TRUE
    MaxTroubles = 1
INVARIANTS
    FinalizedIsComplete
    RevealsWaitForCommit
    AcceptedIsRecorded
PROPERTIES
    SignedInOrder
    EnvelopeFinalizes
