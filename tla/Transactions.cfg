SPECIFICATION FairSpec
CONSTANTS
    Calls = {t1, t2, t3}
    MaxConns = 2
CHECK_DEADLOCK FALSE
INVARIANTS
    TypeOK
    ResultsAreTrue
    RollbackKeepsConnection
PROPERTIES
    EveryCallEnds
