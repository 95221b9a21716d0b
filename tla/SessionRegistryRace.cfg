SPECIFICATION FaultFreeSpec
CONSTANTS
    Players = {p1}
    Servers = {s1, s2}
    NoServer = NoServer
    Offline = Offline
    NoEntry = NoEntry
    MaxTasks = 3
    MaxTime = 0
INVARIANT RightWhenQuiet
CHECK_DEADLOCK FALSE
