\* One visit with a browser that may die at any step.
CONSTANT MaxAttempts = 3
SPECIFICATION FairVisitSpec
INVARIANTS
    VisitIsSound
PROPERTY VisitEnds
\* The visit is over.
CHECK_DEADLOCK FALSE
