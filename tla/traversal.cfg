CONSTANTS
    Node = {n1, n2, n3, n4}
    Scenarios <- AllSearches
    MinFrontier = 1
    MaxAnchors = 3
    MaxDepth = 2
    MaxBridgePaths = 2
    MaxChanges = 1
SPECIFICATION Spec
SYMMETRY Symmetry
INVARIANTS
    TypeOK
    ChainsSound
    ShortestWhenStill
    OneQueryEach
    ExpansionBounded
CHECK_DEADLOCK FALSE
