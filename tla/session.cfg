CONSTANTS
    Conns = {agent, handler, boot}
    Callers = {agent}
    Kinds = {"work", "tick", "subscribe", "replay"}
    Payloads = {k1, k2}
    Capacity = 1
    MaxId = 3
    MaxEvents = 3
    MaxRestarts = 1
    Handlers = {handler}
    Boot = boot
    Tokens = {k1, k2}
    Bootstrap = bootstrap
    Stranger = stranger
    NoToken = NoToken
    MaxStarts = 2
    MaxHttp = 2
    Mixed = FALSE
SPECIFICATION BridgeSpec
SYMMETRY Symmetry
INVARIANTS
    BridgeTypeOK
    OwnAnswer
    MismatchNeedsTimeout
    NothingMissed
    StatusMatchesEffect
    RefusalJustified
CHECK_DEADLOCK FALSE
