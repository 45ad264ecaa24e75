CONSTANTS
    Id = {m1, m2}
    NoId = NoId
    NoTime = NoTime
    Foreign = Foreign
    Floors = {0, 60}
    Importances = {1, 2}
    CoreAccessThreshold = 1
    ColdMigrationDays = 1
    Tasks = {t1, t2}
    Ops = {"store", "tick", "delete"}
    Categories = {"other"}
    Bands = {"conflict"}
    LLMModes = {TRUE, FALSE}
    ColdTTLDays = 0
    ConflictBatch = 1
    GroupSize = 1
    MaxPerTick = 1
    MaxNow = 1
SPECIFICATION FairSpec
INVARIANT
    SuccessorKnown
PROPERTIES
    ImplementsMemoryLife
    QueueDrains
