SPECIFICATION FairSpec
CONSTANTS
    Tasks = {"task"}
    Runs = {1}
    Kinds <- Both
    MaxRetries = 3
    MaxResubmits = 2
    MaxRechecks = 1
    MaxJobs = 4
    MaxTroubles = 1
    MaxCrashes = 1
INVARIANTS
    CompletedHasProof
    RetriesAreEarned
PROPERTIES
    ImplementsProofService
    TaskSettles
    WaiterIsAnswered
CHECK_DEADLOCK FALSE
