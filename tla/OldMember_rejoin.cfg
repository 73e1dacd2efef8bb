SPECIFICATION Spec
CONSTANTS
    MaxOwner = 1
    MaxExp = 1
    MaxAuth = 1
    MaxNonce = 3
    Upsets = {"lose", "move", "age", "unsaved", "fault", "leave"}
INVARIANTS
    TypeOK
    ClosedUntilReleased
    NoOrphanOwner
CHECK_DEADLOCK FALSE
