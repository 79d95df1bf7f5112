\* One caller against the documented atomic breaker.
CONSTANTS
    caller = c1
    Caller = {c1}
    FailureThreshold = 3
    RecoveryTimeout = 3
    RedisMayFail = FALSE
    MaxCrashes = 0
SPECIFICATION Spec
PROPERTY ImplementsDocstring
