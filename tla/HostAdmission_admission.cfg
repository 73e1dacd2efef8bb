SPECIFICATION Spec
CONSTANTS
    MaxPeer = 2
    Capacity = 2
    SlotCap = 1
    MaxSerial = 3
    MaxNonce = 1
    MaxGen = 1
    MaxRev = 1
    Events = {}
    Upsets = {"lose"}
INVARIANTS
    TypeOK
    OneAttemptPerPeer
    LostStaysLost
