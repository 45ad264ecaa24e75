CONSTANTS
    Id = {m1, m2, m3}
    Tasks = {t1, t2}
    Ops = {"batch", "link", "unlink", "store", "search", "update", "delete", "disconnect"}
    Full = 3
    Strengths <- SomeStrengths
    Amount = 1
    TagWeights = {1}
    Stabilities = {0, 1}
    NewStability = 0
    Reinforcement = 1
    Gains = {0, 1}
    BatchSize = 3
    MaxRequests = 3
SPECIFICATION Spec
SYMMETRY Symmetry
INVARIANTS
    TypeOK
    BatchLinked
    NothingUnearned
    UndatedIsTag
CHECK_DEADLOCK FALSE
