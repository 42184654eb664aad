SPECIFICATION Spec
CONSTANTS
    ann = ann
    Ann = Ann
    axe = axe
    bow = bow
    empty = empty
    Invalid = Invalid
    NoRow = NoRow
    Mailbox <- OneMailbox
    NameKey <- TwoNames
    Requests = {r1, r2, r3, r4, r5}
    Emails = {ann, Ann}
    Passwords = {x, y}
    Names = {axe, bow, empty}
    UUIDs = {1, 2}
    MaxClock = 1
SYMMETRY Symmetry
CHECK_DEADLOCK FALSE
INVARIANTS
    TypeOK
    SessionsForOwners
    ListsAgree
PROPERTIES
    AcknowledgedIsListed
