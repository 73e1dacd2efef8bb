SPECIFICATION Spec
CONSTANTS
    MaxNonce = 2
    MaxGen = 1
    MaxRev = 2
    MaxMgr = 1
    MaxPgd = 1
    MaxReg = 1
    MaxWindow = 1
    GuestJoins = TRUE
INVARIANTS
    TypeOK
    ReplayOwnsTicket
    PayloadBelongsToTicket
    FinalAfterSeed
    OneOutcome
PROPERTIES
    LatePassOnlyDrainsSeed
