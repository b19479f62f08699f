\* Listings of two regions that move between the answers.
CONSTANTS
    RegionCount = 2
    Target = 3
    BatchSize = 2
    PageSizes = {2, 3}
    MaxObject = 7
    KnownObjects = 5
    InitialListings <- MCInitial
SPECIFICATION FairObjectsSpec
INVARIANTS
    ObjectsAreExplained
PROPERTY ObjectListingEnds
\* The listing is over.
CHECK_DEADLOCK FALSE
