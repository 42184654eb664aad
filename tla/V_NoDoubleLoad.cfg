SPECIFICATION Spec
CONSTANTS
    u1 = u1
    u2 = u2
    c1 = c1
    c2 = c2
    Users = {u1, u2}
    Characters = {c1}
    Servers = {s1, s2}
    Peers = {p1}
    Tokens = {t1, t2}
    OwnerOf <- OneOwner
    NoServer = NoServer
    NoGrant = NoGrant
    NoSession = NoSession
    LockTTL = 1
    TokenTTL = 3
INVARIANT NoDoubleLoad
