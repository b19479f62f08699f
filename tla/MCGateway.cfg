\* Two calls through dispatcher and executor, with every mixture of errors,
\* limits, waits, a timeout, a death and a shutdown.
CONSTANTS
    add = add
    list = list
    c1 = c1
    c2 = c2
    none = none
    Methods <- TwoMethods
    Calls <- TwoCalls
    NoCall <- none
    Workloads <- MCWorkloads
    QueueMax = 1
    MaxAttempts = 2
    MinInterval = 1
    RetryDelay = 1
    MaxReset = 2
SPECIFICATION GatewayFairSpec
CONSTRAINT OneTimeout
INVARIANTS
    SentOnce
    ResultIsHonest
    CooldownRespected
PROPERTIES
    StartsSpaced
    JobEnds
    ImplementsGatewayService
\* The server may stop, and the callers may be done.
CHECK_DEADLOCK FALSE
