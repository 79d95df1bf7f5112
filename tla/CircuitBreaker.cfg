\* Two callers, Redis that comes and goes, one crash: every interleaving.
CONSTANTS
    Caller = {c1, c2}
    FailureThreshold = 2
    RecoveryTimeout = 2
    RedisMayFail = TRUE
    MaxCrashes = 1
SPECIFICATION FairSpec
INVARIANTS
    NoSpuriousOpen
PROPERTIES
    NeverWedged
    Recovers
    FailsFast
