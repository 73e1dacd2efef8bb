SPECIFICATION FairSpec
CONSTANTS
    States = {4}
    Slots = {0, 1}
    MaxEntity = 2
    MaxHp = 2
    StableTicks = 1
    RepairTicks = 1
    CleanupTicks = 2
    MaxActive = 3
    CommandRoom = 1
    Mode = "original"
    Homes = {"local", "remote"}
    Kinds = {"vanilla", "chara"}
    PoolRoom = 1
    CreateFirst = TRUE
    MaxCreate = 2
    MaxUse = 1
    MaxAsk = 1
    MaxHit = 1
    MaxTrouble = 1
INVARIANTS
    TypeOK
    
    
    PgdOwned
PROPERTIES
    RecallHides
    CleanupLeavesOne
    DeadRecovers
