\* A context and an extract, over what the CRM and the site may answer.
CONSTANTS
    Answers <- MCAnswers
    UserLists <- MCUserLists
    Specs <- MCSpecs
    Configured <- MCConfigured
    Regions = {1}
    ObjectLists <- MCObjectLists
    DeveloperLists <- MCDeveloperLists
    GroupRecords <- MCGroupRecords
SPECIFICATION PreparationSpec
INVARIANTS
    ContextIsSound
    ResultIsClosed
    InputsAreAccepted
\* The preparation is over.
CHECK_DEADLOCK FALSE
