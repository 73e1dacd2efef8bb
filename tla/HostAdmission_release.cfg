SPECIFICATION Spec
CONSTANTS
    MaxPeer = 1
    Capacity = 1
    SlotCap = 1
    MaxSerial = 2
    MaxNonce = 2
    MaxGen = 1
    MaxRev = 2
    Events = {"ready"}
    Upsets = {"lose", "expire"}
INVARIANTS
    PinHasOwner
    StatusBeforeRelease
    OneRevisionPerAttempt
