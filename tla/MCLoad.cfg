\* The Load stage over every plan of MaxOps operations.
CONSTANTS
    MaxOps = 3
    Plans <- MCPlans
SPECIFICATION FairSpec
INVARIANTS
    NothingTwice
    CrmIsSound
    ResultsAreTrue
    OneUntold
    BlockedDownstream
PROPERTIES
    LoadEnds
\* The load ends; nothing runs after it.
CHECK_DEADLOCK FALSE
