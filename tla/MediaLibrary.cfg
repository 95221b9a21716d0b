SPECIFICATION Spec
CONSTANTS
  Pages = {p1}
  Uploads = {u1, u2}
  Deletes = {d1, d2}
  Uploader = p1
  Owner <- OwnedByUploader
  NoClip = NoClip
SYMMETRY Symmetry
INVARIANTS TypeOK PermalinkPlays RowHasObject BusyIsTrue SuccessIsStored ShownOnce
CHECK_DEADLOCK FALSE
