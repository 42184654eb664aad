SPECIFICATION LeaseFairSpec
CONSTANTS
    Users = {}
    Characters = {c1, c2}
    Servers = {s1, s2, s3}
    NoServer = NoServer
    LockTTL = 2
    Requested <- Asked
INVARIANTS
    LeaseTypeOK
    LeaseIsSound

PROPERTIES
    DeadServersLoseLocks
