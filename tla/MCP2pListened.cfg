SPECIFICATION ShortSpec
CONSTANTS
    Locals = {l1, l2}
    Conns = {c1}
    NoConn = NoConn
PROPERTY ListenedIsProxied
CHECK_DEADLOCK FALSE
