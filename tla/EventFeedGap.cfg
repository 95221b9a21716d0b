SPECIFICATION FaultFreeSpec
CONSTANTS
    Events = {e1, e2}
    Conns = {c1}
    Pages = {p1}
    Cap = 1
    FeedCap = 2
    HistoryEnd = HistoryEnd
    NoConn = NoConn
INVARIANTS EveryEventStreamed
CHECK_DEADLOCK FALSE
