\* Three calls, a queue of two: it is full before the worker wakes.
CONSTANTS
    c1 = c1
    c2 = c2
    c3 = c3
    none = none
    Calls <- ThreeCalls
    QueueMax = 2
    NoCall <- none
SPECIFICATION CallerFairSpec
INVARIANTS
    JobsAreAccounted
    NoOvertaking
PROPERTIES
    ImplementsCallService
    EveryCallAnswered
    QueueDrains
\* The server may stop, and the callers may be done.
CHECK_DEADLOCK FALSE
