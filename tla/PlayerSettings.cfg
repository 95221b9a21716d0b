SPECIFICATION Spec
CONSTANTS
  Admins = {a1}
  Portals = {w1}
  Players = {p1, p2}
  Requests = {r1, r2, r3}
  Volumes = {1, 2}
  FullVolume = 2
  Keep = Keep
  Filled <- MCFilled
  NoPlayer = NoPlayer
  NoRequest = NoRequest
SYMMETRY Symmetry
INVARIANTS TypeOK SavedIsStored OnlyShownPlayer
PROPERTIES NeverOlder
CHECK_DEADLOCK FALSE
