CONSTANTS
    Id = {m1, m2}
    NoId = NoId
    NoTime = NoTime
    Foreign = Foreign
    Floors = {0, 60}
    Importances = {1}
    CoreAccessThreshold = 1
    ColdMigrationDays = 1
    Tasks = {t1, t2}
    Ops = {"store", "tick", "search", "delete", "restart", "link", "unlink"}
    Categories = {"other"}
    Bands = {"conflict", "tag"}
    LLMModes = {TRUE, FALSE}
    ColdTTLDays = 0
    ConflictBatch = 2
    GroupSize = 1
    MaxPerTick = 1
    MaxNow = 0
SPECIFICATION Spec
SYMMETRY Symmetry
INVARIANTS
    ReferentialIntegrity
    ContradictionsAcyclic
