SPECIFICATION FairSpec
CONSTANTS
    Locals = {l1, l2}
    Conns = {c1, c2}
    NoConn = NoConn
INVARIANTS
    TypeOK
    OpenWhileUsed
PROPERTY NoneHangs
CHECK_DEADLOCK FALSE
