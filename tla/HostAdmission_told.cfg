SPECIFICATION Spec
CONSTANTS
    MaxPeer = 1
    Capacity = 1
    SlotCap = 1
    MaxSerial = 1
    MaxNonce = 1
    MaxGen = 1
    MaxRev = 1
    Events = {}
    Upsets = {"lose"}
PROPERTIES
    ToldIsHeld
