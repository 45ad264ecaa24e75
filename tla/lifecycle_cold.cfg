CONSTANTS
    Id = {m1}
    NoId = NoId
    NoTime = NoTime
    Foreign = Foreign
    Floors = {0, 60}
    Importances = {1}
    CoreAccessThreshold = 1
    ColdMigrationDays = 1
    Tasks = {t1, t2}
    Ops = {"store", "tick", "get", "search", "to_cold", "to_hot", "to_stub",
           "update", "retention", "batch_update", "disconnect", "restart", "clear", "supersede"}
    Categories = {"core", "other"}
    Bands = {}
    LLMModes = {FALSE}
    ColdTTLDays = 0
    ConflictBatch = 2
    GroupSize = 1
    MaxPerTick = 1
    MaxNow = 1
SPECIFICATION Spec
SYMMETRY Symmetry
INVARIANTS
    TypeOK
    ColdFlagsAgree
    EmbeddedUnlessStub
