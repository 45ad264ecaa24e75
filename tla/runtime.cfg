CONSTANTS
    Procs = {p1, p2, p3}
    Operators = {o1}
    None = None
    Empty = Empty
    Commands = {"start", "stop", "restart", "foreground"}
    MaxCrashes = 2
    MaxHaste = 1
    Versions = 2
    Statements = 2
SPECIFICATION FairSpec
INVARIANTS
    TypeOK
    SchemaComplete
    FilesOwned
PROPERTY
    Recovers
