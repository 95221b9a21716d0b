SPECIFICATION FaultFreeSpec
CONSTANTS
  Pages = {p1}
  Uploads = {u1, u2}
  Deletes = {d1, d2}
  Uploader = p1
  Owner <- OwnedByUploader
  NoClip = NoClip
INVARIANTS AlertIsTrue
CHECK_DEADLOCK FALSE
