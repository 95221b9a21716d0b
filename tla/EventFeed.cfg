SPECIFICATION Spec
CONSTANTS
    Events = {e1, e2}
    Conns = {c1, c2}
    Pages = {p1}
    Cap = 0
    FeedCap = 2
    HistoryEnd = HistoryEnd
    NoConn = NoConn
INVARIANTS TypeOK NoEventTwice OrderKept NewestKept ListBounded FeedShowsConnection
SYMMETRY Symmetry
CHECK_DEADLOCK FALSE
