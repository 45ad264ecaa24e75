CONSTANTS
    Procs = {p1, p2}
    Operators = {o1}
    None = None
    Empty = Empty
    Commands = {"start"}
    MaxCrashes = 1
    MaxHaste = 0
    Versions = 2
    Statements = 2
SPECIFICATION Spec
INVARIANT
    MigrationsReplay
