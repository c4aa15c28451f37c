SPECIFICATION Spec
CONSTANTS
    Macs = {m1, m2}
    Conns = {c1, c2}
    Reqs = {r1, r2}
    NoConn = NoConn
    NoMac = NoMac
    MaxMacs = 2
    MaxStreams = 1
SYMMETRY Symmetry
INVARIANTS
    TypeOK
    OwnershipExact
    HeldEntryStable
    RoutedToAnnouncer
PROPERTIES
    NoEviction
    DirectorySpec
