SPECIFICATION Spec
CONSTANTS
    s1 = s1
    s2 = s2
    Servers = {s1, s2}
    Rank <- Order
    NoServer = NoServer
    ServerTTL = 2
INVARIANTS
    TypeOK
    RegisteredIsVisible
    DeadIsForgotten
    SelectsFirst
