SPECIFICATION Spec
CONSTANTS
    u1 = u1
    u2 = u2
    c1 = c1
    c2 = c2
    Users = {u1, u2}
    Characters = {c1, c2}
    Servers = {s1, s2}
    Peers = {p1, p2}
    Tokens = {t1, t2}
    OwnerOf <- TwoOwners
    NoServer = NoServer
    NoGrant = NoGrant
    NoSession = NoSession
    LockTTL = 2
    TokenTTL = 2
SYMMETRY Symmetry
INVARIANTS
    TypeOK
    DoubleLoadOnlyAfterLapse
    HolderOwnsLock
    PlayerHasEntity
PROPERTIES
    ImplementsJoinGrant
