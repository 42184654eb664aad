SPECIFICATION Spec
CONSTANTS
    Users = {u1, u2}
    SessionIDs = {i1, i2, i3}
    Requests = {r1, r2}
    NoUser = NoUser
    SessionTTL = 2
SYMMETRY Symmetry
INVARIANTS
    TypeOK
    SessionIndexed
    RevokedStaysDead
PROPERTIES
    NoCollateralRevocation
