SPECIFICATION Spec
CONSTANTS
    MaxNonce = 2
    MaxGen = 2
    MaxRev = 1
    MaxMgr = 1
    MaxPgd = 2
    MaxReg = 1
    MaxWindow = 1
    GuestJoins = FALSE
INVARIANTS
    GateMeansRestored
    FinalTicketMeansRestored
    CompletedMeansRestored
PROPERTIES
    
    OneFinalPerAttempt
