CONSTANTS
    Id = {m1, m2}
    Tasks = {t1, t2}
    Blank <- Spaces
    Texts <- Spellings
    Models <- AllModels
    Dim <- Dims
    None = None
SPECIFICATION FairSpec
INVARIANTS
    TypeOK
    VectorsTrue
    OneSpaceCompared
    IndexExact
PROPERTIES
    CallsCease
