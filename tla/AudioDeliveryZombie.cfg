SPECIFICATION FaultFreeSpec
CONSTANTS
  Players = {p1}
  Listener = p1
  Sessions = {s1}
  Owner <- OwnedByListener
  Silence = Silence
  Offline = Offline
  NoHowl = NoHowl
  Srcs = {a}
  Regions <- LoopingRegion
  a = a
  b = b
  MaxMoves = 3
INVARIANT NoZombie
CHECK_DEADLOCK FALSE
