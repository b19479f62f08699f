\* Two runs over one CRM at once, or three in turn, each failing where it may.
CONSTANTS
    r1 = r1
    r2 = r2
    r3 = r3
    Runs = {r1, r2, r3}
    Last = r3
    OnSite <- WithOrWithoutGroup
    Settings <- MCSettings
SYMMETRY RunsSymmetry
CONSTRAINT Bounds
SPECIFICATION MCSpec
INVARIANTS
    OnlyOverlapsDuplicate
    ContextStaysUsable
    LeadsStandOnCompanyAndGroup
    SuccessIsComplete
\* The runs end; nothing has to come after them.
CHECK_DEADLOCK FALSE
