\* A registry that changes while it is read.
CONSTANTS
    DeveloperBatchSize = 2
    KnownDevelopers = 5
    MaxChanges = 2
    InitialRegistries <- MCInitial
    Requests <- MCRequests
SPECIFICATION FairRegistrySpec
INVARIANTS
    RequestedOnce
    DetailsOnlyForMoved
PROPERTY ReadingEnds
\* The call is over.
CHECK_DEADLOCK FALSE
