CONSTANTS
    Procs = {p1, p2}
    Operators = {o1}
    None = None
    Empty = Empty
    Commands = {"foreground"}
    MaxCrashes = 0
    MaxHaste = 1
    Versions = 1
    Statements = 1
SPECIFICATION Spec
PROPERTY
    SecondDaemonHarmless
