SPECIFICATION FairSpec
CONSTANTS
    MaxNonce = 2
    MaxGen = 1
    MaxRev = 1
    MaxMgr = 1
    MaxPgd = 1
    MaxReg = 1
    MaxWindow = 1
    GuestJoins = FALSE
PROPERTIES
    ReplayEnds
    PendingTicketResolves
