SPECIFICATION Spec
CONSTANTS
    Host = h
    Members = {m1}
    Changing = {m1}
    MaxVal = 1
    MaxRev = 2
    MaxSeq = 2
    AssemblyCap = 1
    MaxNet = 2
    MaxUpset = 1
INVARIANTS TypeOK  PublishedIsHeld
PROPERTIES ImplementsReplica
CHECK_DEADLOCK FALSE
