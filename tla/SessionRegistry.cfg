SPECIFICATION Spec
CONSTANTS
    Players = {p1, p2}
    Servers = {s1, s2}
    NoServer = NoServer
    Offline = Offline
    NoEntry = NoEntry
    MaxTasks = 4
    MaxTime = 1
SYMMETRY Symmetry
INVARIANTS TypeOK SelfHeals
PROPERTIES MessageMatchesRegistry
CHECK_DEADLOCK FALSE
