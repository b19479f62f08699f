\* What the transformer makes of small inputs.
CONSTANTS
    ExtractResults <- MCExtracts
    CrmContexts <- MCContexts
    RegionSettings <- MCSettings
SPECIFICATION Spec
INVARIANTS
    PlansAreValid
    NaturalKeysOnce
\* The service returns or raises; nothing runs after it.
CHECK_DEADLOCK FALSE
