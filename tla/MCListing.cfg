\* A listing while records are created and deleted.
CONSTANTS
    PageSize = 2
    MaxRecord = 6
    Initial <- MCInitial
SPECIFICATION FairSpec
INVARIANTS
    ListingIsSound
PROPERTIES
    ListingEnds
\* The listing is over; the CRM need not change any more.
CHECK_DEADLOCK FALSE
