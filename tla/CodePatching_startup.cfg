SPECIFICATION Spec
CONSTANTS
    Options = {"nrsc", "ui", "markers"}
    Fragile = {67, 87, 122, 114, 120, 124, 232, 19}
    Suspect = {58, 210, 232}
    MaxFault = 1
    MaxPoll = 1
INVARIANTS
    TypeOK
    
    
    RouteMeansWhole
    
    
CHECK_DEADLOCK FALSE
