SPECIFICATION Spec
CONSTANTS
    m1 = m1
    m2 = m2
    m3 = m3
    a1 = a1
    a2 = a2
    relayAddr = relayAddr
    Requests <- MCRequests
    Macs = {m1, m2, m3}
    Addrs = {a1, a2, relayAddr}
    Route <- MCRoute
    ServerAddr = relayAddr
    NoLabel = NoLabel
    NotMac = NotMac
    NoAddr = NoAddr
    MaxAnswer = 2
INVARIANTS
    LabelAnnounced
