SPECIFICATION Spec
CONSTANTS
    MaxPeer = 1
    Capacity = 1
    SlotCap = 1
    MaxSerial = 1
    MaxNonce = 1
    MaxGen = 2
    MaxRev = 1
    Events = {"owner", "ready"}
    Upsets = {"retire", "reset", "world"}
INVARIANTS
    NoMissedRelease
