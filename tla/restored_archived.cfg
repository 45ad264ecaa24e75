CONSTANTS
    Id = {m1}
    NoId = NoId
    NoTime = NoTime
    Foreign = Foreign
    Floors = {0, 60}
    Importances = {1}
    CoreAccessThreshold = 1
    ColdMigrationDays = 1
    Tasks = {t1, t2}
    Ops = {"store", "tick", "get", "to_cold"}
    Categories = {"other"}
    Bands = {}
    LLMModes = {FALSE}
    ColdTTLDays = 0
    ConflictBatch = 2
    GroupSize = 1
    MaxPerTick = 1
    MaxNow = 1
SPECIFICATION Spec
PROPERTY
    OnlyColdIsArchived
