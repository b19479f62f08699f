\* One run of two sessions with two launches each.
CONSTANTS
    SessionAttempts = 2
    LaunchAttempts = 2
SPECIFICATION FairSpec
INVARIANTS
    RecordIsSound
    CrmWrittenOnRecord
    EndIsTold
    BrowsersAccounted
PROPERTIES
    RunEnds
\* The run is over.
CHECK_DEADLOCK FALSE
