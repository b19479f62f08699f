SPECIFICATION Spec
CONSTANTS
    SessionAttempts = 1
    LaunchAttempts = 1
INVARIANTS
    SuccessIsTransform
CHECK_DEADLOCK FALSE
