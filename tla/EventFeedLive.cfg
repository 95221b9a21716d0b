SPECIFICATION FairSpec
CONSTANTS
    Events = {e1, e2}
    Conns = {c1}
    Pages = {p1}
    Cap = 0
    FeedCap = 2
    HistoryEnd = HistoryEnd
    NoConn = NoConn
PROPERTIES DeliveredIsKept LiveEventShown SessionReleased
CHECK_DEADLOCK FALSE
