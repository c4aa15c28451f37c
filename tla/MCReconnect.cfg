SPECIFICATION Spec
CONSTANTS
    Idle = 21
    KeepAlive = 10
    Retry = 30
    Horizon = 73
    P2pBuilt = TRUE
INVARIANTS
    TypeOK
    RefusedAtMostTwice
    BackOnline
