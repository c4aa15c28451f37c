SPECIFICATION FairSpec
CONSTANTS
    Macs = {m1, m2}
    Conns = {c1, c2}
    Reqs = {r1, r2}
    NoConn = NoConn
    NoMac = NoMac
    MaxMacs = 1
    MaxStreams = 2
PROPERTIES
    GhostsRemoved
    LookupServed
    RegistrationServed
    ReadsBounded
