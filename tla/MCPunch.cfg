SPECIFICATION Spec
CONSTANTS
    Attempts = {1, 2}
    Tmo <- CodeTmo
    Tries <- CodeTries
    Refusable = {2}
    MaxLag = 18
INVARIANTS
    TypeOK
    MetBeforeGivingUp
PROPERTY FailureComesLast
