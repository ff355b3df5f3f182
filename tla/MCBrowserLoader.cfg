CONSTANTS
    Callers = {a, b, c}
    Sources = {url, bytes}
    NoSource = none
    MaxLoads = 3
SPECIFICATION FairSpec
CHECK_DEADLOCK FALSE
INVARIANTS
    OneRuntime
PROPERTIES
    RetryStartsFresh
    EveryCallerAnswered
    ImplementsContract
