SPECIFICATION Spec
CONSTANTS
    Peers = {p1, p2}
    Characters = {c1, c2}
    Nobody = Nobody
    Directions <- SomeDirections
    NaN = NaN
    NoDirection = NoDirection
    NoInput = NoInput
    Full = 2
    Divisor = 2
    MaxTick = 5
SYMMETRY Symmetry
INVARIANTS
    TypeOK
    SnapshotsMoveAtSpeed
    NobodyWaits
    NaNStaysHome
PROPERTIES
    NoGhostMovement
