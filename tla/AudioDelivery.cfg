SPECIFICATION FairSpec
CONSTANTS
  Players = {p1, p2}
  Listener = p1
  Sessions = {s1}
  Owner <- OwnedByListener
  Silence = Silence
  Offline = Offline
  NoHowl = NoHowl
  Srcs = {a, b}
  Regions <- ThreeRegions
  a = a
  b = b
  MaxMoves = 3
INVARIANTS TypeOK PlaybackFollowsDesired ClosedIsSilent
PROPERTIES StreamImplemented LeaveIsKept StreamDelivers LeaveSilences
CHECK_DEADLOCK FALSE
