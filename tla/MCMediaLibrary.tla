-------------------------- MODULE MCMediaLibrary --------------------------
(* Small instances of MediaLibrary.  All uploads are made from one page.  *)
EXTENDS MediaLibrary, TLC
CONSTANTS Uploader

OwnedByUploader == [u \in Uploads |-> Uploader]
Symmetry == Permutations(Uploads) \cup Permutations(Deletes)
=============================================================================
