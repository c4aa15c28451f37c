SPECIFICATION FairSpec
CONSTANTS
    a = a
    b = b
    c = c
    Devices = {a, b, c}
    Reqs <- ChainReqs
    SeenAddr <- MCSeen
    TestedAddr <- MCTested
    NoAddr = NoAddr
    PortLen = 1000
INVARIANTS
    TypeOK
    BothIntroduced
PROPERTIES
    RequestSettled
    MapUpdated
    EntriesStand
CHECK_DEADLOCK FALSE
