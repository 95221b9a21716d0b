------------------------ MODULE MediaLibrary_proofs ------------------------
(***************************************************************************)
(* What TLAPS proves about MediaLibrary, for any pages, uploads and        *)
(* deletes.                                                                *)
(***************************************************************************)
EXTENDS MediaLibrary, TLAPS

\* The steps of an upload whose clip may have, or have had, a row.
Late == {"refused", "inserted", "done", "failed"}

\* A delete gets its clip when it starts, and keeps it.
ClipInv == \A d \in Deletes : delete[d].step = "none" => delete[d].clip = NoClip

\* Between the PUT and the INSERT the object is there.
ObjectInv ==
    \A u \in Uploads : upload[u].step \in {"stored", "confirm", "insert"} => u \in bucket

\* A row that was inserted stays until somebody asks for its deletion.
RowInv ==
    \A u \in Uploads :
        (upload[u].step \in {"inserted", "done"} /\ ~IsDeleted(u)) => u \in rows

\* A row, and a delete, come after the upload's INSERT: there is no later one.
LateInv ==
    \A u \in Uploads : (u \in rows \/ IsDeleted(u)) => upload[u].step \in Late

\* What a page has heard of had a row.
SeenInv ==
    \A p \in Pages, u \in Uploads :
        (page[p].items[u] # 0 \/ u \in page[p].list \/ u \in page[p].copied)
            => u \in rows \/ IsDeleted(u)

\* Ending an upload always leaves the phases that are shown as in progress.
BusyInv ==
    \A p \in Pages : Busy(p) =>
        \E u \in Uploads :
            Owner[u] = p /\ upload[u].step \notin {"none", "done", "failed"}

\* The initial list is asked for once, and does not arrive again.
ListInv ==
    /\ \A p \in Pages : page[p].life = "new" => page[p].load = "none"
    /\ \A u \in Uploads : (upload[u].step # "none" /\ upload[u].listed) =>
         /\ page[Owner[u]].load = "over"
         /\ upload[u].step # "done" => page[Owner[u]].items[u] = 0

DataInv ==
    /\ ClipInv /\ ObjectInv /\ RowInv /\ LateInv /\ SeenInv
    /\ RowHasObject /\ ListInv /\ ShownOnce

LibraryInv == TypeOK /\ DataInv /\ BusyInv

-----------------------------------------------------------------------------
(* Frames: what groups of actions leave alone.                             *)

\* The pages' phases, and nothing else of them, may change.
OnlyPhases ==
    /\ page' \in [Pages -> Page]
    /\ \A p \in Pages :
         /\ page'[p].items = page[p].items /\ page'[p].list = page[p].list
         /\ page'[p].copied = page[p].copied /\ page'[p].load = page[p].load
         /\ page'[p].life = page[p].life

\* Upload u goes to the step "to"; the others stay.
OneMoves(u, to) ==
    /\ upload' \in [Uploads -> Upload]
    /\ upload'[u].step = to /\ upload'[u].listed = upload[u].listed
    /\ \A v \in Uploads \ {u} : upload'[v] = upload[v]

LEMMA MoveFacts ==
    ASSUME TypeOK, NEW u \in Uploads, NEW from,
           NEW to \in {"none", "askUrl", "url", "put", "stored", "confirm", "insert",
                       "refused", "inserted", "done", "failed"},
           Move(u, from, to)
    PROVE  OneMoves(u, to) /\ upload[u].step \in from
BY DEF TypeOK, Move, Upload, OneMoves

LEMMA PhaseFacts ==
    ASSUME TypeOK, NEW u \in Uploads, NEW phase \in Phase, SetPhase(u, phase)
    PROVE  /\ OnlyPhases
           /\ page'[Owner[u]].phase = phase
           /\ \A p \in Pages \ {Owner[u]} : page'[p].phase = page[p].phase
<1> DEFINE q == Owner[u]
           new == [page[q] EXCEPT !.phase = phase]
<1>1. q \in Pages /\ page \in [Pages -> Page] /\ page[q] \in Page
  BY OwnerAssumption DEF TypeOK
<1>2. page' = [page EXCEPT ![q] = new]
  BY DEF SetPhase
<1>3. /\ new \in Page /\ new.phase = phase
      /\ new.items = page[q].items /\ new.list = page[q].list
      /\ new.copied = page[q].copied /\ new.load = page[q].load
      /\ new.life = page[q].life
  BY <1>1 DEF Page
<1> HIDE DEF new, q
<1>4. page' \in [Pages -> Page] /\ page'[q] = new
  BY <1>1, <1>2, <1>3
<1>5. \A p \in Pages \ {q} : page'[p] = page[p]
  BY <1>1, <1>2
<1> QED
  BY <1>3, <1>4, <1>5 DEF OnlyPhases, q

LEMMA InitLibrary == Init => LibraryInv
<1> SUFFICES ASSUME Init
             PROVE  LibraryInv
  OBVIOUS
<1>1. TypeOK
  BY DEF Init, TypeOK, Upload, Delete, Page, Phase
<1>2. DataInv
  <2>1. \A u \in Uploads : upload[u].step = "none" /\ ~IsDeleted(u)
    BY NoClipAssumption DEF Init, IsDeleted
  <2>2. \A p \in Pages, u \in Uploads :
          page[p].items[u] = 0 /\ u \notin page[p].list /\ u \notin page[p].copied
    BY DEF Init
  <2>3. ClipInv /\ rows = {} /\ \A p \in Pages : page[p].load = "none"
    BY DEF Init, ClipInv
  <2> QED
    BY <2>1, <2>2, <2>3 DEF DataInv, ObjectInv, RowInv, LateInv, SeenInv,
       RowHasObject, ListInv, ShownOnce, Late
<1>3. BusyInv
  BY DEF Init, BusyInv, Busy
<1> QED
  BY <1>1, <1>2, <1>3 DEF LibraryInv

-----------------------------------------------------------------------------
(* DataInv, action by action.                                              *)

\* A step of upload u from "from" to "to" that touches no row, no object and
\* nothing of the pages but their phases.
LEMMA QuietMove ==
    ASSUME TypeOK, DataInv, OnlyPhases, UNCHANGED <<bucket, rows, delete>>,
           NEW u \in Uploads, NEW to, OneMoves(u, to),
           upload[u].step # "none", to \notin {"none", "done"},
           to \in {"stored", "confirm", "insert"} =>
               upload[u].step \in {"stored", "confirm", "insert"},
           to = "inserted" => upload[u].step \in {"inserted", "done"},
           upload[u].step \in Late => to \in Late,
           upload[u].step # "done"
    PROVE  DataInv'
<1>1. \A v \in Uploads : IsDeleted(v)' = IsDeleted(v) /\ IsTakenOut(v)' = IsTakenOut(v)
  BY DEF IsDeleted, IsTakenOut
<1>2. ClipInv' /\ RowHasObject'
  BY DEF DataInv, ClipInv, RowHasObject
<1>3. ObjectInv'
  BY DEF DataInv, ObjectInv, OneMoves
<1>4. RowInv' /\ LateInv'
  BY <1>1 DEF DataInv, RowInv, LateInv, OneMoves
<1>5. SeenInv'
  BY <1>1 DEF DataInv, SeenInv, OnlyPhases
<1>6. ListInv'
  <2>1. \A p \in Pages : page'[p].life = "new" => page'[p].load = "none"
    BY DEF DataInv, ListInv, OnlyPhases
  <2>2. ASSUME NEW v \in Uploads, upload'[v].step # "none", upload'[v].listed
        PROVE  /\ page'[Owner[v]].load = "over"
               /\ upload'[v].step # "done" => page'[Owner[v]].items[v] = 0
    <3>1. upload[v].step # "none" /\ upload[v].listed
          /\ (upload'[v].step # "done" => upload[v].step # "done")
      BY <2>2 DEF OneMoves
    <3> QED
      BY <3>1, OwnerAssumption DEF DataInv, ListInv, OnlyPhases
  <2> QED
    BY <2>1, <2>2 DEF ListInv
<1>7. ShownOnce'
  <2> SUFFICES ASSUME NEW v \in Uploads, upload'[v].step = "done", upload'[v].listed,
                      ~IsTakenOut(v)'
               PROVE  page'[Owner[v]].items[v] = 1
    BY DEF ShownOnce
  <2>1. upload[v].step = "done" /\ upload[v].listed
    BY DEF OneMoves
  <2> QED
    BY <1>1, <2>1, OwnerAssumption DEF DataInv, ShownOnce, OnlyPhases
<1> QED
  BY <1>2, <1>3, <1>4, <1>5, <1>6, <1>7 DEF DataInv

\* The steps of an upload that are quiet.
LEMMA QuietMoves ==
    ASSUME TypeOK, DataInv, NEW u \in Uploads,
           \/ RequestUploadUrl(u) \/ UrlRefused(u) \/ SendFile(u) \/ UploadFails(u)
           \/ UploadDone(u) \/ ConfirmUpload(u) \/ ConfirmFails(u) \/ UploadRefused(u)
    PROVE  TypeOK' /\ DataInv'
<1> USE DEF Late
<1>1. ASSUME UNCHANGED page
      PROVE  OnlyPhases
  BY <1>1 DEF TypeOK, OnlyPhases
<1>2. ASSUME pending' \subseteq Uploads, bucket' \subseteq Uploads, rows' \subseteq Uploads,
             UNCHANGED delete, OnlyPhases, NEW to, OneMoves(u, to)
      PROVE  TypeOK'
  BY <1>2 DEF TypeOK, OnlyPhases, OneMoves
<1>3. CASE RequestUploadUrl(u)
  <2>1. OneMoves(u, "url") /\ upload[u].step \in {"askUrl"}
    BY <1>3, MoveFacts DEF RequestUploadUrl
  <2>2. OnlyPhases /\ pending' \subseteq Uploads
    BY <1>1, <1>3 DEF RequestUploadUrl, TypeOK
  <2>3. UNCHANGED <<bucket, rows, delete>>
    BY <1>3 DEF RequestUploadUrl
  <2> QED
    BY <1>2, <2>1, <2>2, <2>3, QuietMove DEF TypeOK
<1>4. CASE UrlRefused(u)
  <2>1. OneMoves(u, "failed") /\ upload[u].step \in {"askUrl", "url"}
    BY <1>4, MoveFacts DEF UrlRefused
  <2>2. OnlyPhases /\ UNCHANGED <<pending, bucket, rows, delete>>
    BY <1>4, PhaseFacts DEF UrlRefused, Phase, stores
  <2> QED
    BY <1>2, <2>1, <2>2, QuietMove DEF TypeOK
<1>5. CASE SendFile(u)
  <2>1. OneMoves(u, "put") /\ upload[u].step \in {"url"}
    BY <1>5, MoveFacts DEF SendFile
  <2>2. OnlyPhases /\ UNCHANGED <<pending, bucket, rows, delete>>
    BY <1>1, <1>5 DEF SendFile, stores
  <2> QED
    BY <1>2, <2>1, <2>2, QuietMove DEF TypeOK
<1>6. CASE UploadFails(u)
  <2>1. OneMoves(u, "failed") /\ upload[u].step \in {"put", "stored"}
    BY <1>6, MoveFacts DEF UploadFails
  <2>2. OnlyPhases /\ UNCHANGED <<pending, bucket, rows, delete>>
    BY <1>6, PhaseFacts DEF UploadFails, Phase, stores
  <2> QED
    BY <1>2, <2>1, <2>2, QuietMove DEF TypeOK
<1>7. CASE UploadDone(u)
  <2>1. OneMoves(u, "confirm") /\ upload[u].step \in {"stored"}
    BY <1>7, MoveFacts DEF UploadDone
  <2>2. OnlyPhases /\ UNCHANGED <<pending, bucket, rows, delete>>
    BY <1>7, PhaseFacts DEF UploadDone, Phase, stores
  <2> QED
    BY <1>2, <2>1, <2>2, QuietMove DEF TypeOK
<1>8. CASE ConfirmUpload(u)
  <2> DEFINE to == IF u \in pending THEN "insert" ELSE "refused"
  <2>1. OneMoves(u, to) /\ upload[u].step \in {"confirm"}
    BY <1>8, MoveFacts DEF ConfirmUpload
  <2>2. OnlyPhases /\ pending' \subseteq Uploads
    BY <1>1, <1>8 DEF ConfirmUpload, TypeOK
  <2>3. UNCHANGED <<bucket, rows, delete>> /\ to \in {"insert", "refused"}
    BY <1>8 DEF ConfirmUpload
  <2> HIDE DEF to
  <2> QED
    BY <1>2, <2>1, <2>2, <2>3, QuietMove DEF TypeOK
<1>9. CASE ConfirmFails(u)
  <2>1. OneMoves(u, "refused") /\ upload[u].step \in {"confirm"}
    BY <1>9, MoveFacts DEF ConfirmFails
  <2>2. OnlyPhases /\ pending' \subseteq Uploads
    BY <1>1, <1>9 DEF ConfirmFails, TypeOK
  <2>3. UNCHANGED <<bucket, rows, delete>>
    BY <1>9 DEF ConfirmFails
  <2> QED
    BY <1>2, <2>1, <2>2, <2>3, QuietMove DEF TypeOK
<1>10. CASE UploadRefused(u)
  <2>1. OneMoves(u, "failed") /\ upload[u].step \in {"refused", "inserted"}
    BY <1>10, MoveFacts DEF UploadRefused
  <2>2. OnlyPhases /\ UNCHANGED <<pending, bucket, rows, delete>>
    BY <1>10, PhaseFacts DEF UploadRefused, Phase, stores
  <2> QED
    BY <1>2, <2>1, <2>2, QuietMove DEF TypeOK
<1> QED
  BY <1>3, <1>4, <1>5, <1>6, <1>7, <1>8, <1>9, <1>10

\* What the phases show is no part of DataInv.
LEMMA PhasesOnly ==
    ASSUME TypeOK, DataInv, OnlyPhases, pending' \subseteq Uploads,
           UNCHANGED <<bucket, rows, upload, delete>>
    PROVE  TypeOK' /\ DataInv'
<1>1. \A v \in Uploads : IsDeleted(v)' = IsDeleted(v) /\ IsTakenOut(v)' = IsTakenOut(v)
  BY DEF IsDeleted, IsTakenOut
<1>2. TypeOK'
  BY DEF TypeOK, OnlyPhases
<1>3. ClipInv' /\ RowHasObject' /\ ObjectInv' /\ RowInv' /\ LateInv'
  BY <1>1 DEF DataInv, ClipInv, RowHasObject, ObjectInv, RowInv, LateInv
<1>4. SeenInv'
  BY <1>1 DEF DataInv, SeenInv, OnlyPhases
<1>5. ListInv' /\ ShownOnce'
  BY <1>1, OwnerAssumption DEF DataInv, ListInv, ShownOnce, OnlyPhases
<1> QED
  BY <1>2, <1>3, <1>4, <1>5 DEF DataInv

LEMMA PhaseSteps ==
    ASSUME TypeOK, DataInv,
           \/ \E u \in Uploads : Progress(u) \/ PendingExpires(u)
           \/ \E p \in Pages : RejectFile(p) \/ Dismiss(p) \/ CloseTab(p)
    PROVE  TypeOK' /\ DataInv'
<1>1. CASE \E u \in Uploads : Progress(u)
  BY <1>1, PhaseFacts, PhasesOnly DEF Progress, Phase, stores, TypeOK
<1>2. CASE \E u \in Uploads : PendingExpires(u)
  <2>1. OnlyPhases
    BY <1>2 DEF PendingExpires, TypeOK, OnlyPhases
  <2> QED
    BY <1>2, <2>1, PhasesOnly DEF PendingExpires, TypeOK
<1>3. ASSUME NEW p \in Pages, RejectFile(p) \/ Dismiss(p)
      PROVE  TypeOK' /\ DataInv'
  <2>1. PICK phase \in Phase : page' = [page EXCEPT ![p].phase = phase]
    BY <1>3 DEF RejectFile, Dismiss, Phase
  <2>2. page \in [Pages -> Page] /\ page[p] \in Page
    BY DEF TypeOK
  <2>3. OnlyPhases
    BY <2>1, <2>2 DEF OnlyPhases, Page
  <2> QED
    BY <1>3, <2>3, PhasesOnly DEF RejectFile, Dismiss, stores, TypeOK
<1>4. ASSUME NEW p \in Pages, CloseTab(p)
      PROVE  TypeOK' /\ DataInv'
  <2>1. page \in [Pages -> Page] /\ page[p] \in Page
    BY DEF TypeOK
  <2>2. /\ page' \in [Pages -> Page]
        /\ \A q \in Pages :
             /\ page'[q].items = page[q].items /\ page'[q].list = page[q].list
             /\ page'[q].copied = page[q].copied /\ page'[q].load = page[q].load
             /\ page'[q].life = "new" => page[q].life = "new"
    BY <1>4, <2>1 DEF CloseTab, Page
  <2>3. UNCHANGED <<pending, bucket, rows, upload, delete>>
    BY <1>4 DEF CloseTab, stores
  <2>4. \A v \in Uploads : IsDeleted(v)' = IsDeleted(v) /\ IsTakenOut(v)' = IsTakenOut(v)
    BY <2>3 DEF IsDeleted, IsTakenOut
  <2>5. TypeOK'
    BY <2>2, <2>3 DEF TypeOK
  <2>6. ClipInv' /\ RowHasObject' /\ ObjectInv' /\ RowInv' /\ LateInv'
    BY <2>3, <2>4 DEF DataInv, ClipInv, RowHasObject, ObjectInv, RowInv, LateInv
  <2>7. SeenInv'
    BY <2>2, <2>3, <2>4 DEF DataInv, SeenInv
  <2>8. ListInv' /\ ShownOnce'
    BY <2>2, <2>3, <2>4, OwnerAssumption DEF DataInv, ListInv, ShownOnce
  <2> QED
    BY <2>5, <2>6, <2>7, <2>8 DEF DataInv
<1> QED
  BY <1>1, <1>2, <1>3, <1>4

\* The steps of the list: what a page has of it comes from the rows.
LEMMA ListSteps ==
    ASSUME TypeOK, DataInv, NEW p \in Pages,
           \/ Mount(p) \/ ListMedia(p) \/ ListShown(p) \/ LoadFails(p)
           \/ \E u \in Uploads : CopyRegionUrl(p, u)
    PROVE  TypeOK' /\ DataInv'
<1>1. page \in [Pages -> Page] /\ page[p] \in Page /\ page[p].list \subseteq Uploads
  BY DEF TypeOK, Page
<1>2. UNCHANGED <<pending, bucket, rows, upload, delete>>
  BY DEF Mount, ListMedia, ListShown, LoadFails, CopyRegionUrl, stores
<1>3. \A v \in Uploads : IsDeleted(v)' = IsDeleted(v) /\ IsTakenOut(v)' = IsTakenOut(v)
  BY <1>2 DEF IsDeleted, IsTakenOut
<1>4. ASSUME page' \in [Pages -> Page],
             \A q \in Pages \ {p} : page'[q] = page[q],
             \A v \in Uploads :
                (page'[p].items[v] # 0 \/ v \in page'[p].list \/ v \in page'[p].copied)
                    => v \in rows \/ IsDeleted(v),
             page'[p].life = "new" => page'[p].load = "none",
             page[p].load = "over" => page'[p].load = "over" /\ page'[p].items = page[p].items
      PROVE  TypeOK' /\ DataInv'
  <2>1. TypeOK'
    BY <1>2, <1>4 DEF TypeOK
  <2>2. ClipInv' /\ RowHasObject' /\ ObjectInv' /\ RowInv' /\ LateInv'
    BY <1>2, <1>3 DEF DataInv, ClipInv, RowHasObject, ObjectInv, RowInv, LateInv
  <2>3. SeenInv'
    BY <1>2, <1>3, <1>4 DEF DataInv, SeenInv
  <2>4. ListInv'
    BY <1>2, <1>4, OwnerAssumption DEF DataInv, ListInv
  <2>5. ShownOnce'
    <3> SUFFICES ASSUME NEW v \in Uploads, upload[v].step = "done", upload[v].listed,
                        ~IsTakenOut(v)
                 PROVE  page'[Owner[v]].items[v] = 1
      BY <1>2, <1>3 DEF ShownOnce
    <3>1. page[Owner[v]].load = "over" /\ page[Owner[v]].items[v] = 1
      BY DEF DataInv, ListInv, ShownOnce
    <3> QED
      BY <1>4, <3>1, OwnerAssumption
  <2> QED
    BY <2>1, <2>2, <2>3, <2>4, <2>5 DEF DataInv
<1>5. \A v \in Uploads :
        (page[p].items[v] # 0 \/ v \in page[p].list \/ v \in page[p].copied)
            => v \in rows \/ IsDeleted(v)
  BY DEF DataInv, SeenInv
<1>6. CASE Mount(p)
  <2>1. page[p].load = "none" /\ page[p].life = "new"
    BY <1>6 DEF Mount, DataInv, ListInv
  <2>2. /\ page' \in [Pages -> Page] /\ \A q \in Pages \ {p} : page'[q] = page[q]
        /\ page'[p].items = page[p].items /\ page'[p].list = page[p].list
        /\ page'[p].copied = page[p].copied /\ page'[p].life = "open"
    BY <1>1, <1>6 DEF Mount, Page
  <2> QED
    BY <1>4, <1>5, <2>1, <2>2
<1>7. CASE ListMedia(p)
  <2>1. /\ page' \in [Pages -> Page] /\ \A q \in Pages \ {p} : page'[q] = page[q]
        /\ page'[p].items = page[p].items /\ page'[p].list = rows
        /\ page'[p].copied = page[p].copied /\ page'[p].life = page[p].life
        /\ page[p].load = "asked"
    BY <1>1, <1>7 DEF ListMedia, Page, TypeOK
  <2>2. page[p].life # "new"
    BY <2>1 DEF DataInv, ListInv
  <2> QED
    BY <1>4, <1>5, <2>1, <2>2
<1>8. CASE ListShown(p)
  <2> DEFINE new == [u \in Uploads |-> IF u \in page[p].list THEN 1 ELSE 0]
  <2>1. new \in [Uploads -> Nat]
    OBVIOUS
  <2>2. /\ page' = [page EXCEPT ![p].load = "over", ![p].loadError = FALSE,
                                ![p].items = new]
        /\ page[p].life = "open" /\ page[p].load = "read"
    BY <1>8 DEF ListShown, IsOpen
  <2>3. \A v \in Uploads : new[v] # 0 => v \in page[p].list
    OBVIOUS
  <2> HIDE DEF new
  <2>4. /\ page' \in [Pages -> Page] /\ \A q \in Pages \ {p} : page'[q] = page[q]
        /\ page'[p].items = new /\ page'[p].list = page[p].list
        /\ page'[p].copied = page[p].copied /\ page'[p].life = "open"
    BY <1>1, <2>1, <2>2 DEF Page
  <2> QED
    BY <1>4, <1>5, <2>2, <2>3, <2>4
<1>9. CASE LoadFails(p)
  <2>1. /\ page' \in [Pages -> Page] /\ \A q \in Pages \ {p} : page'[q] = page[q]
        /\ page'[p].items = page[p].items /\ page'[p].list = page[p].list
        /\ page'[p].copied = page[p].copied /\ page'[p].life = "open"
        /\ page'[p].load = "over"
    BY <1>1, <1>9 DEF LoadFails, IsOpen, Page
  <2> QED
    BY <1>4, <1>5, <2>1
<1>10. ASSUME NEW u \in Uploads, CopyRegionUrl(p, u)
       PROVE  TypeOK' /\ DataInv'
  <2>1. page[p].items[u] # 0 /\ page[p].life = "open"
    BY <1>1, <1>10 DEF CopyRegionUrl, Shown, IsOpen, Page
  <2>2. /\ page' \in [Pages -> Page] /\ \A q \in Pages \ {p} : page'[q] = page[q]
        /\ page'[p].items = page[p].items /\ page'[p].list = page[p].list
        /\ page'[p].copied = page[p].copied \cup {u} /\ page'[p].life = page[p].life
        /\ page'[p].load = page[p].load
    BY <1>1, <1>10 DEF CopyRegionUrl, Page
  <2> QED
    BY <1>4, <1>5, <2>1, <2>2
<1> QED
  BY <1>6, <1>7, <1>8, <1>9, <1>10

\* An upload that starts has no row yet, and the page none of it.
LEMMA StartStep ==
    ASSUME TypeOK, DataInv, NEW u \in Uploads, StartUpload(u)
    PROVE  TypeOK' /\ DataInv'
<1>1. OnlyPhases /\ UNCHANGED <<pending, bucket, rows, delete>>
  BY PhaseFacts DEF StartUpload, Phase, stores
<1>2. /\ upload' \in [Uploads -> Upload]
      /\ upload[u].step = "none" /\ upload'[u].step = "askUrl"
      /\ upload'[u].listed => page[Owner[u]].load = "over"
      /\ \A v \in Uploads \ {u} : upload'[v] = upload[v]
  BY OwnerAssumption DEF StartUpload, TypeOK, Upload, Page
<1>3. \A v \in Uploads : IsDeleted(v)' = IsDeleted(v) /\ IsTakenOut(v)' = IsTakenOut(v)
  BY <1>1 DEF IsDeleted, IsTakenOut
<1>4. u \notin rows /\ ~IsDeleted(u)
  BY <1>2 DEF DataInv, LateInv, Late
<1>5. page[Owner[u]].items[u] = 0
  BY <1>4, OwnerAssumption DEF DataInv, SeenInv
<1>6. TypeOK'
  BY <1>1, <1>2 DEF TypeOK, OnlyPhases
<1>7. ClipInv' /\ RowHasObject' /\ ObjectInv' /\ RowInv' /\ LateInv'
  BY <1>1, <1>2, <1>3, <1>4
     DEF DataInv, ClipInv, RowHasObject, ObjectInv, RowInv, LateInv, Late
<1>8. SeenInv'
  BY <1>1, <1>3 DEF DataInv, SeenInv, OnlyPhases
<1>9. ListInv'
  <2>1. \A p \in Pages : page'[p].life = "new" => page'[p].load = "none"
    BY <1>1 DEF DataInv, ListInv, OnlyPhases
  <2>2. ASSUME NEW v \in Uploads, upload'[v].step # "none", upload'[v].listed
        PROVE  /\ page'[Owner[v]].load = "over"
               /\ upload'[v].step # "done" => page'[Owner[v]].items[v] = 0
    <3>1. Owner[v] \in Pages
      BY OwnerAssumption
    <3>2. CASE v = u
      BY <1>1, <1>2, <1>5, <2>2, <3>1, <3>2 DEF OnlyPhases
    <3>3. CASE v # u
      BY <1>1, <1>2, <2>2, <3>1, <3>3 DEF DataInv, ListInv, OnlyPhases
    <3> QED
      BY <3>2, <3>3
  <2> QED
    BY <2>1, <2>2 DEF ListInv
<1>10. ShownOnce'
  <2> SUFFICES ASSUME NEW v \in Uploads, upload'[v].step = "done", upload'[v].listed,
                      ~IsTakenOut(v)'
               PROVE  page'[Owner[v]].items[v] = 1
    BY DEF ShownOnce
  <2>1. upload[v].step = "done" /\ upload[v].listed
    BY <1>2
  <2> QED
    BY <1>1, <1>3, <2>1, OwnerAssumption DEF DataInv, ShownOnce, OnlyPhases
<1> QED
  BY <1>6, <1>7, <1>8, <1>9, <1>10 DEF DataInv

\* The stores grow: the object of an upload that is stored, or the row of one
\* whose object is there.
LEMMA StoreStep ==
    ASSUME TypeOK, DataInv, NEW u \in Uploads, NEW to \in {"stored", "inserted", "refused"},
           OneMoves(u, to), UNCHANGED <<pending, delete, page>>,
           \/ to = "stored" /\ upload[u].step = "put"
                /\ bucket' = bucket \cup {u} /\ UNCHANGED rows
           \/ to = "inserted" /\ upload[u].step = "insert"
                /\ rows' = rows \cup {u} /\ UNCHANGED bucket
           \/ to = "refused" /\ upload[u].step = "insert"
                /\ rows' \in {rows, rows \cup {u}} /\ UNCHANGED bucket
    PROVE  TypeOK' /\ DataInv'
<1>1. \A v \in Uploads : IsDeleted(v)' = IsDeleted(v) /\ IsTakenOut(v)' = IsTakenOut(v)
  BY DEF IsDeleted, IsTakenOut
<1>2. u \notin rows /\ ~IsDeleted(u) /\ (upload[u].step = "insert" => u \in bucket)
  BY DEF DataInv, LateInv, ObjectInv, Late
<1>3. /\ rows \subseteq rows' /\ rows' \subseteq rows \cup {u}
      /\ bucket \subseteq bucket' /\ bucket' \subseteq bucket \cup {u}
      /\ u \in rows' => u \in bucket' /\ to \in Late
      /\ to = "inserted" => u \in rows'
      /\ to = "stored" => u \in bucket'
  BY <1>2 DEF Late
<1>4. TypeOK'
  BY <1>3 DEF TypeOK, OneMoves
<1>5. ClipInv' /\ RowHasObject'
  BY <1>3 DEF DataInv, ClipInv, RowHasObject
<1>6. ObjectInv' /\ RowInv' /\ LateInv'
  BY <1>1, <1>2, <1>3 DEF DataInv, ObjectInv, RowInv, LateInv, OneMoves
<1>7. SeenInv'
  BY <1>1, <1>3 DEF DataInv, SeenInv
<1>8. ListInv' /\ ShownOnce'
  BY <1>1 DEF DataInv, ListInv, ShownOnce, OneMoves
<1> QED
  BY <1>4, <1>5, <1>6, <1>7, <1>8 DEF DataInv

LEMMA StoreSteps ==
    ASSUME TypeOK, DataInv, NEW u \in Uploads,
           StoreObject(u) \/ InsertRow(u) \/ InsertFails(u)
    PROVE  TypeOK' /\ DataInv'
<1>1. CASE StoreObject(u)
  <2>1. OneMoves(u, "stored") /\ upload[u].step \in {"put"}
    BY <1>1, MoveFacts DEF StoreObject
  <2> QED
    BY <1>1, <2>1, StoreStep DEF StoreObject
<1>2. CASE InsertRow(u)
  <2>1. OneMoves(u, "inserted") /\ upload[u].step \in {"insert"}
    BY <1>2, MoveFacts DEF InsertRow
  <2> QED
    BY <1>2, <2>1, StoreStep DEF InsertRow
<1>3. CASE InsertFails(u)
  <2>1. OneMoves(u, "refused") /\ upload[u].step \in {"insert"}
    BY <1>3, MoveFacts DEF InsertFails
  <2> QED
    BY <1>3, <2>1, StoreStep DEF InsertFails
<1> QED
  BY <1>1, <1>2, <1>3

\* What setItems does to the page of a confirmed upload.
LEMMA PrependedFacts ==
    ASSUME TypeOK, NEW u \in Uploads, page' = Prepended(Owner[u], u)
    PROVE  /\ page' \in [Pages -> Page]
           /\ \A p \in Pages \ {Owner[u]} : page'[p] = page[p]
           /\ page'[Owner[u]].items = [page[Owner[u]].items EXCEPT ![u] = @ + 1]
           /\ page'[Owner[u]].list = page[Owner[u]].list
           /\ page'[Owner[u]].copied = page[Owner[u]].copied
           /\ page'[Owner[u]].load = page[Owner[u]].load
           /\ page'[Owner[u]].life = page[Owner[u]].life
           /\ page'[Owner[u]].phase = "idle"
<1> DEFINE q == Owner[u]
           items == [page[q].items EXCEPT ![u] = @ + 1]
<1>1. q \in Pages /\ page \in [Pages -> Page] /\ page[q] \in Page
  BY OwnerAssumption DEF TypeOK
<1>2. items \in [Uploads -> Nat]
  BY <1>1 DEF Page
<1>3. page' = [page EXCEPT ![q].items = items, ![q].phase = "idle"]
  BY <1>1 DEF Prepended, Page
<1> HIDE DEF items, q
<1> DEFINE new == [page[q] EXCEPT !.items = items, !.phase = "idle"]
<1>4. page' = [page EXCEPT ![q] = new]
  BY <1>1, <1>3
<1>5. /\ new \in Page /\ new.items = items /\ new.list = page[q].list
      /\ new.copied = page[q].copied /\ new.load = page[q].load
      /\ new.life = page[q].life /\ new.phase = "idle"
  BY <1>1, <1>2 DEF Page, Phase
<1> HIDE DEF new
<1>6. /\ page' \in [Pages -> Page] /\ page'[q] = new
      /\ \A p \in Pages \ {q} : page'[p] = page[p]
  BY <1>1, <1>4, <1>5
<1> QED
  BY <1>5, <1>6 DEF items, q

LEMMA ConfirmedStep ==
    ASSUME TypeOK, DataInv, NEW u \in Uploads, UploadConfirmed(u)
    PROVE  TypeOK' /\ DataInv'
<1> DEFINE q == Owner[u]
<1>1. OneMoves(u, "done") /\ upload[u].step = "inserted"
  BY MoveFacts DEF UploadConfirmed
<1>2. UNCHANGED <<pending, bucket, rows, delete>>
  BY DEF UploadConfirmed, stores
<1>3. /\ page' \in [Pages -> Page] /\ \A p \in Pages \ {q} : page'[p] = page[p]
      /\ page'[q].items = [page[q].items EXCEPT ![u] = @ + 1]
      /\ page'[q].list = page[q].list /\ page'[q].copied = page[q].copied
      /\ page'[q].load = page[q].load /\ page'[q].life = page[q].life
  BY PrependedFacts DEF UploadConfirmed
<1>4. q \in Pages /\ page[q].items \in [Uploads -> Nat]
  BY OwnerAssumption DEF TypeOK, Page
<1> HIDE DEF q
<1>5. \A p \in Pages, v \in Uploads :
        /\ page'[p].list = page[p].list /\ page'[p].copied = page[p].copied
        /\ page'[p].load = page[p].load /\ page'[p].life = page[p].life
        /\ page'[p].items[v] =
             IF p = q /\ v = u THEN page[p].items[v] + 1 ELSE page[p].items[v]
  BY <1>3, <1>4
<1>6. \A v \in Uploads : IsDeleted(v)' = IsDeleted(v) /\ IsTakenOut(v)' = IsTakenOut(v)
  BY <1>2 DEF IsDeleted, IsTakenOut
<1>7. u \in rows \/ IsDeleted(u)
  BY <1>1 DEF DataInv, RowInv
<1>8. TypeOK'
  BY <1>1, <1>2, <1>3 DEF TypeOK, OneMoves
<1>9. ClipInv' /\ RowHasObject' /\ ObjectInv' /\ RowInv' /\ LateInv'
  BY <1>1, <1>2, <1>6
     DEF DataInv, ClipInv, RowHasObject, ObjectInv, RowInv, LateInv, OneMoves, Late
<1>10. SeenInv'
  BY <1>2, <1>5, <1>6, <1>7 DEF DataInv, SeenInv
<1>11. ListInv'
  <2>1. \A p \in Pages : page'[p].life = "new" => page'[p].load = "none"
    <3> SUFFICES ASSUME NEW p \in Pages, page'[p].life = "new"
                 PROVE  page'[p].load = "none"
      OBVIOUS
    <3>1. page[p].life = "new" /\ page'[p].load = page[p].load
      BY <1>3
    <3> QED
      BY <3>1 DEF DataInv, ListInv
  <2>2. ASSUME NEW v \in Uploads, upload'[v].step # "none", upload'[v].listed
        PROVE  /\ page'[Owner[v]].load = "over"
               /\ upload'[v].step # "done" => page'[Owner[v]].items[v] = 0
    <3>1. upload[v].step # "none" /\ upload[v].listed
      BY <1>1, <2>2 DEF OneMoves
    <3>2. /\ page[Owner[v]].load = "over" /\ Owner[v] \in Pages
          /\ upload[v].step # "done" => page[Owner[v]].items[v] = 0
      BY <3>1, OwnerAssumption DEF DataInv, ListInv
    <3>3. upload'[v].step # "done" => v # u /\ upload[v].step # "done"
      BY <1>1 DEF OneMoves
    <3> QED
      BY <1>5, <3>2, <3>3
  <2> QED
    BY <2>1, <2>2 DEF ListInv
<1>12. ShownOnce'
  <2> SUFFICES ASSUME NEW v \in Uploads, upload'[v].step = "done", upload'[v].listed,
                      ~IsTakenOut(v)'
               PROVE  page'[Owner[v]].items[v] = 1
    BY DEF ShownOnce
  <2>1. CASE v = u
    <3>1. page[q].items[u] = 0
      BY <1>1, <2>1 DEF DataInv, ListInv, OneMoves, q
    <3> QED
      BY <1>4, <1>5, <2>1, <3>1 DEF q
  <2>2. CASE v # u
    <3>1. upload[v].step = "done" /\ upload[v].listed /\ ~IsTakenOut(v)
      BY <1>1, <1>6, <2>2 DEF OneMoves
    <3>2. page[Owner[v]].items[v] = 1 /\ Owner[v] \in Pages
      BY <3>1, OwnerAssumption DEF DataInv, ShownOnce
    <3> QED
      BY <1>5, <2>2, <3>2
  <2> QED
    BY <2>1, <2>2
<1> QED
  BY <1>8, <1>9, <1>10, <1>11, <1>12 DEF DataInv

\* The steps of a delete: only an object whose row a delete is about to take is
\* removed, and clips of deletes only grow.
LEMMA DeleteFacts ==
    ASSUME TypeOK, DataInv, NEW d \in Deletes, NEW from,
           NEW to \in {"missing", "selectFailed", "object", "objectFailed", "row",
                       "rowFailed", "deleted"},
           from # "none", Advance(d, from, to)
    PROVE  /\ delete' \in [Deletes -> Delete]
           /\ delete[d].step = from /\ delete'[d].step = to
           /\ \A e \in Deletes \ {d} : delete'[e] = delete[e]
           /\ \A e \in Deletes : delete'[e].clip = delete[e].clip
                                 /\ delete'[e].told = delete[e].told
           /\ delete[d].clip \in Uploads \cup {NoClip}
BY DEF TypeOK, Advance, Delete

LEMMA RelayDeletes ==
    ASSUME TypeOK, DataInv, NEW d \in Deletes,
           \/ SelectRow(d) \/ SelectFails(d) \/ DeleteObject(d) \/ ObjectFails(d)
           \/ DeleteRow(d) \/ RowFails(d)
    PROVE  TypeOK' /\ DataInv'
<1> DEFINE c == delete[d].clip
<1>1. ASSUME NEW from, from # "none",
             NEW to \in {"missing", "selectFailed", "object", "objectFailed", "row",
                         "rowFailed", "deleted"},
             Advance(d, from, to), UNCHANGED <<pending, upload, page>>,
             bucket' \subseteq bucket, bucket \subseteq bucket' \cup {c},
             rows' \subseteq rows, rows \subseteq rows' \cup {c},
             c \in rows' \ bucket' =>
                 \/ to \in {"row", "rowFailed", "objectFailed"}
                 \/ c \in rows \ bucket /\ from \notin {"row", "rowFailed", "objectFailed"}
      PROVE  TypeOK' /\ DataInv'
  <2>1. /\ delete' \in [Deletes -> Delete]
        /\ delete[d].step = from /\ delete'[d].step = to
        /\ \A e \in Deletes \ {d} : delete'[e] = delete[e]
        /\ \A e \in Deletes : delete'[e].clip = delete[e].clip
                              /\ delete'[e].told = delete[e].told
        /\ c \in Uploads \cup {NoClip}
    BY <1>1, DeleteFacts
  <2>2. \A v \in Uploads : IsDeleted(v)' = IsDeleted(v) /\ IsTakenOut(v)' = IsTakenOut(v)
    BY <2>1 DEF IsDeleted, IsTakenOut
  <2>3. c \in Uploads => IsDeleted(c) /\ upload[c].step \in Late
    BY DEF IsDeleted, DataInv, LateInv
  <2>4. TypeOK'
    BY <1>1, <2>1 DEF TypeOK
  <2>5. ClipInv'
    BY <1>1, <2>1 DEF DataInv, ClipInv
  <2>6. ObjectInv'
    BY <1>1, <2>3 DEF DataInv, ObjectInv, Late
  <2>7. RowInv' /\ LateInv'
    BY <1>1, <2>2, <2>3 DEF DataInv, RowInv, LateInv
  <2>8. SeenInv'
    BY <1>1, <2>2, <2>3 DEF DataInv, SeenInv
  <2>9. RowHasObject'
    <3> SUFFICES ASSUME NEW u \in rows' \ bucket'
                 PROVE  \E e \in Deletes : delete'[e].clip = u
                          /\ delete'[e].step \in {"row", "rowFailed", "objectFailed"}
      BY DEF RowHasObject
    <3>1. CASE u = c /\ to \in {"row", "rowFailed", "objectFailed"}
      BY <2>1, <3>1
    <3>2. CASE u # c \/ to \notin {"row", "rowFailed", "objectFailed"}
      <4>1. /\ u \in rows \ bucket
            /\ u = c => from \notin {"row", "rowFailed", "objectFailed"}
        BY <1>1, <3>2
      <4>2. PICK e \in Deletes : delete[e].clip = u
                  /\ delete[e].step \in {"row", "rowFailed", "objectFailed"}
        BY <4>1 DEF DataInv, RowHasObject
      <4> QED
        BY <2>1, <4>1, <4>2
    <3> QED
      BY <3>1, <3>2
  <2>10. ListInv' /\ ShownOnce'
    BY <1>1, <2>2 DEF DataInv, ListInv, ShownOnce
  <2> QED
    BY <2>4, <2>5, <2>6, <2>7, <2>8, <2>9, <2>10 DEF DataInv
<1>2. CASE SelectRow(d)
  BY <1>1, <1>2 DEF SelectRow, stores
<1>3. CASE SelectFails(d)
  BY <1>1, <1>3 DEF SelectFails, stores
<1>4. CASE DeleteObject(d)
  BY <1>1, <1>4 DEF DeleteObject
<1>5. CASE ObjectFails(d)
  BY <1>1, <1>5 DEF ObjectFails
<1>6. CASE DeleteRow(d)
  BY <1>1, <1>6 DEF DeleteRow
<1>7. CASE RowFails(d)
  BY <1>1, <1>7 DEF RowFails
<1> QED
  BY <1>2, <1>3, <1>4, <1>5, <1>6, <1>7

\* A delete is for a clip its page shows, which therefore had a row.
LEMMA HandleDeleteStep ==
    ASSUME TypeOK, DataInv, NEW d \in Deletes, NEW p \in Pages, NEW u \in Uploads,
           HandleDelete(d, p, u)
    PROVE  TypeOK' /\ DataInv'
<1>1. UNCHANGED <<pending, bucket, rows, upload, page>>
  BY DEF HandleDelete, stores
<1>2. /\ delete' \in [Deletes -> Delete]
      /\ delete[d].step = "none" /\ delete'[d].step = "select"
      /\ delete'[d].clip = u /\ delete'[d].told = delete[d].told
      /\ \A e \in Deletes \ {d} : delete'[e] = delete[e]
  BY DEF HandleDelete, TypeOK, Delete
<1>3. delete[d].clip = NoClip
  BY <1>2 DEF DataInv, ClipInv
<1>4. /\ \A v \in Uploads : IsDeleted(v)' <=> (IsDeleted(v) \/ v = u)
      /\ \A v \in Uploads : IsTakenOut(v) => IsTakenOut(v)'
  BY <1>2, <1>3, NoClipAssumption DEF IsDeleted, IsTakenOut
<1>5. page[p].items[u] # 0
  BY DEF HandleDelete, Shown, TypeOK, Page
<1>6. upload[u].step \in Late
  BY <1>5 DEF DataInv, SeenInv, LateInv
<1>7. TypeOK'
  BY <1>1, <1>2 DEF TypeOK
<1>8. ClipInv' /\ ObjectInv' /\ RowInv' /\ LateInv' /\ SeenInv' /\ ListInv'
  BY <1>1, <1>2, <1>4, <1>6
     DEF DataInv, ClipInv, ObjectInv, RowInv, LateInv, SeenInv, ListInv
<1>9. ShownOnce'
  BY <1>1, <1>4 DEF DataInv, ShownOnce
<1>10. RowHasObject'
  BY <1>1, <1>2 DEF DataInv, RowHasObject
<1> QED
  BY <1>7, <1>8, <1>9, <1>10 DEF DataInv

\* The answer to a delete takes the clip out of its page, or alerts.
LEMMA AnswerSteps ==
    ASSUME TypeOK, DataInv, NEW d \in Deletes, DeleteAnswered(d) \/ DeleteLost(d)
    PROVE  TypeOK' /\ DataInv'
<1> DEFINE p == delete[d].page
           c == delete[d].clip
<1>1. /\ UNCHANGED <<pending, bucket, rows, upload>>
      /\ delete[d].step # "none" /\ delete[d].told = "nothing"
  BY DEF DeleteAnswered, DeleteLost, stores
<1>2. /\ page \in [Pages -> Page] /\ p \in Pages /\ page[p] \in Page
      /\ page[p].items \in [Uploads -> Nat]
  BY DEF TypeOK, Delete, Page
<1>3. /\ delete' \in [Deletes -> Delete]
      /\ \A e \in Deletes : delete'[e].clip = delete[e].clip
                            /\ delete'[e].step = delete[e].step
      /\ \A e \in Deletes \ {d} : delete'[e] = delete[e]
  BY DEF DeleteAnswered, DeleteLost, TypeOK, Delete
<1>4. \A v \in Uploads : IsDeleted(v)' = IsDeleted(v) /\ (IsTakenOut(v) => IsTakenOut(v)')
  <2>1. \A v \in Uploads : IsDeleted(v)' = IsDeleted(v)
    BY <1>3 DEF IsDeleted
  <2>2. \A v \in Uploads : IsTakenOut(v) => IsTakenOut(v)'
    BY <1>1, <1>3 DEF IsTakenOut
  <2> QED
    BY <2>1, <2>2
<1>5. \/ UNCHANGED page
      \/ page' = [page EXCEPT ![p].items[c] = 0] /\ delete'[d].told = "ok"
  BY DEF DeleteAnswered, DeleteLost, TypeOK, Delete
<1>6. /\ page' \in [Pages -> Page]
      /\ \A q \in Pages : page'[q].list = page[q].list
           /\ page'[q].copied = page[q].copied /\ page'[q].load = page[q].load
           /\ page'[q].life = page[q].life
      /\ \A q \in Pages, v \in Uploads :
           \/ page'[q].items[v] = page[q].items[v]
           \/ page'[q].items[v] = 0 /\ v = c /\ delete'[d].told = "ok"
  <2>1. CASE UNCHANGED page
    BY <1>2, <2>1
  <2>2. CASE page' = [page EXCEPT ![p].items[c] = 0] /\ delete'[d].told = "ok"
    <3> DEFINE items == [page[p].items EXCEPT ![c] = 0]
               new == [page[p] EXCEPT !.items = items]
    <3>1. items \in [Uploads -> Nat]
      BY <1>2
    <3>2. page' = [page EXCEPT ![p] = new]
      BY <1>2, <2>2
    <3>3. \A v \in Uploads : items[v] = page[p].items[v] \/ (items[v] = 0 /\ v = c)
      BY <1>2
    <3> HIDE DEF items
    <3>4. /\ new \in Page /\ new.items = items /\ new.list = page[p].list
          /\ new.copied = page[p].copied /\ new.load = page[p].load
          /\ new.life = page[p].life
      BY <1>2, <3>1 DEF Page
    <3> HIDE DEF new, p
    <3>5. /\ page' \in [Pages -> Page] /\ page'[p] = new
          /\ \A q \in Pages \ {p} : page'[q] = page[q]
      BY <1>2, <3>2, <3>4
    <3> QED
      BY <2>2, <3>3, <3>4, <3>5
  <2> QED
    BY <1>5, <2>1, <2>2
<1> HIDE DEF p
<1>7. TypeOK'
  BY <1>1, <1>3, <1>6 DEF TypeOK
<1>8. ClipInv' /\ ObjectInv' /\ RowInv' /\ LateInv' /\ RowHasObject'
  BY <1>1, <1>3, <1>4
     DEF DataInv, ClipInv, ObjectInv, RowInv, LateInv, RowHasObject
<1>9. SeenInv'
  BY <1>1, <1>4, <1>6 DEF DataInv, SeenInv
<1>10. ListInv'
  BY <1>1, <1>6, OwnerAssumption DEF DataInv, ListInv
<1>11. ShownOnce'
  <2> SUFFICES ASSUME NEW v \in Uploads, upload'[v].step = "done", upload'[v].listed,
                      ~IsTakenOut(v)'
               PROVE  page'[Owner[v]].items[v] = 1
    BY DEF ShownOnce
  <2>1. page[Owner[v]].items[v] = 1 /\ Owner[v] \in Pages
    BY <1>1, <1>4, OwnerAssumption DEF DataInv, ShownOnce
  <2>2. v = c => delete'[d].told # "ok"
    BY <1>3 DEF IsTakenOut
  <2> QED
    BY <1>6, <2>1, <2>2
<1> QED
  BY <1>7, <1>8, <1>9, <1>10, <1>11 DEF DataInv

-----------------------------------------------------------------------------
(* BusyInv: a step that ends an upload leaves the busy phases.             *)

LEMMA BusyKept ==
    ASSUME TypeOK, BusyInv, NEW q \in Pages,
           \A p \in Pages \ {q} : page'[p].phase = page[p].phase,
           \A u \in Uploads :
               \/ upload[u].step \in {"none", "done", "failed"}
               \/ upload'[u].step \notin {"none", "done", "failed"}
               \/ Owner[u] = q,
           Busy(q)' => \E u \in Uploads :
               Owner[u] = q /\ upload'[u].step \notin {"none", "done", "failed"}
    PROVE  BusyInv'
<1> SUFFICES ASSUME NEW p \in Pages, Busy(p)'
             PROVE  \E u \in Uploads :
                        Owner[u] = p /\ upload'[u].step \notin {"none", "done", "failed"}
  BY DEF BusyInv
<1>1. CASE p = q
  BY <1>1
<1>2. CASE p # q
  <2>1. Busy(p)
    BY <1>2 DEF Busy
  <2>2. PICK u \in Uploads :
            Owner[u] = p /\ upload[u].step \notin {"none", "done", "failed"}
    BY <2>1 DEF BusyInv
  <2> QED
    BY <1>2, <2>2
<1> QED
  BY <1>1, <1>2

LEMMA BusyFrame ==
    ASSUME BusyInv, \A p \in Pages : page'[p].phase = page[p].phase,
           \A u \in Uploads :
               \/ upload[u].step \in {"none", "done", "failed"}
               \/ upload'[u].step \notin {"none", "done", "failed"}
    PROVE  BusyInv'
BY DEF BusyInv, Busy

LEMMA BusyUploads ==
    ASSUME TypeOK, BusyInv, NEW u \in Uploads, UploadStep(u) \/ UrlRefused(u)
             \/ UploadFails(u) \/ ConfirmFails(u) \/ InsertFails(u) \/ PendingExpires(u)
    PROVE  BusyInv'
<1> DEFINE q == Owner[u]
<1>1. q \in Pages
  BY OwnerAssumption
<1>2. ASSUME NEW phase \in Phase, SetPhase(u, phase),
             \A v \in Uploads \ {u} : upload'[v] = upload[v],
             phase \in {"uploading", "confirming"} =>
                 upload'[u].step \notin {"none", "done", "failed"}
      PROVE  BusyInv'
  <2>1. page'[q].phase = phase /\ \A p \in Pages \ {q} : page'[p].phase = page[p].phase
    BY <1>2, PhaseFacts
  <2> QED
    BY <1>1, <1>2, <2>1, BusyKept DEF Busy
<1>3. CASE StartUpload(u)
  <2>1. /\ upload'[u].step = "askUrl"
        /\ \A v \in Uploads \ {u} : upload'[v] = upload[v]
    BY <1>3 DEF StartUpload, TypeOK
  <2> QED
    BY <1>2, <1>3, <2>1 DEF StartUpload, Phase
<1>4. CASE RequestUploadUrl(u) \/ SendFile(u) \/ StoreObject(u) \/ ConfirmUpload(u)
           \/ ConfirmFails(u) \/ InsertRow(u) \/ InsertFails(u) \/ PendingExpires(u)
  <2>1. UNCHANGED page
    BY <1>4 DEF RequestUploadUrl, SendFile, StoreObject, ConfirmUpload, ConfirmFails,
       InsertRow, InsertFails, PendingExpires
  <2>2. \A v \in Uploads :
          \/ upload'[v] = upload[v]
          \/ upload'[v].step \notin {"none", "done", "failed"}
    BY <1>4 DEF TypeOK, Upload, Move, RequestUploadUrl, SendFile, StoreObject,
       ConfirmUpload, ConfirmFails, InsertRow, InsertFails, PendingExpires
  <2> QED
    BY <2>1, <2>2, BusyFrame
<1>5. CASE Progress(u)
  BY <1>2, <1>5 DEF Progress, Phase
<1>6. CASE UploadDone(u)
  <2>1. OneMoves(u, "confirm")
    BY <1>6, MoveFacts DEF UploadDone
  <2> QED
    BY <1>2, <1>6, <2>1 DEF UploadDone, Phase, OneMoves
<1>7. CASE UploadRefused(u) \/ UrlRefused(u) \/ UploadFails(u)
  <2>1. OneMoves(u, "failed") /\ SetPhase(u, "error")
    BY <1>7, MoveFacts DEF UploadRefused, UrlRefused, UploadFails
  <2> QED
    BY <1>2, <2>1 DEF Phase, OneMoves
<1>8. CASE UploadConfirmed(u)
  <2>1. OneMoves(u, "done") /\ page' = Prepended(Owner[u], u)
    BY <1>8, MoveFacts DEF UploadConfirmed
  <2>2. page'[q].phase = "idle" /\ \A p \in Pages \ {q} : page'[p] = page[p]
    BY <2>1, PrependedFacts
  <2> QED
    BY <1>1, <2>1, <2>2, BusyKept DEF Busy, OneMoves
<1> QED
  BY <1>3, <1>4, <1>5, <1>6, <1>7, <1>8 DEF UploadStep

LEMMA BusyPages ==
    ASSUME TypeOK, BusyInv, NEW p \in Pages, PageStep(p) \/ LoadFails(p) \/ CloseTab(p)
    PROVE  BusyInv'
<1>1. UNCHANGED upload
  BY DEF PageStep, Mount, ListMedia, ListShown, LoadFails, RejectFile, Dismiss,
     CopyRegionUrl, CloseTab
<1>2. page \in [Pages -> Page] /\ page[p] \in Page
  BY DEF TypeOK
<1>3. CASE RejectFile(p) \/ Dismiss(p)
  <2>1. /\ \A q \in Pages \ {p} : page'[q].phase = page[q].phase
        /\ page'[p].phase \in {"error", "idle"}
    BY <1>2, <1>3 DEF RejectFile, Dismiss, Page
  <2>2. ~Busy(p)'
    BY <2>1 DEF Busy
  <2> QED
    BY <1>1, <2>1, <2>2, BusyKept
<1>4. CASE Mount(p) \/ ListMedia(p) \/ ListShown(p) \/ LoadFails(p) \/ CloseTab(p)
           \/ \E u \in Uploads : CopyRegionUrl(p, u)
  <2>1. Mount(p) => \A q \in Pages : page'[q].phase = page[q].phase
    BY <1>2 DEF Mount, Page
  <2>2. ListMedia(p) => \A q \in Pages : page'[q].phase = page[q].phase
    BY <1>2 DEF ListMedia, Page
  <2>3. ListShown(p) => \A q \in Pages : page'[q].phase = page[q].phase
    BY <1>2 DEF ListShown, Page
  <2>4. LoadFails(p) => \A q \in Pages : page'[q].phase = page[q].phase
    BY <1>2 DEF LoadFails, Page
  <2>5. CloseTab(p) => \A q \in Pages : page'[q].phase = page[q].phase
    BY <1>2 DEF CloseTab, Page
  <2>6. \A u \in Uploads :
          CopyRegionUrl(p, u) => \A q \in Pages : page'[q].phase = page[q].phase
    BY <1>2 DEF CopyRegionUrl, Page
  <2>7. \A q \in Pages : page'[q].phase = page[q].phase
    BY <1>4, <2>1, <2>2, <2>3, <2>4, <2>5, <2>6
  <2> QED
    BY <1>1, <2>7, BusyFrame
<1> QED
  BY <1>3, <1>4 DEF PageStep

LEMMA BusyDeletes ==
    ASSUME TypeOK, BusyInv, NEW d \in Deletes, DeleteStep(d) \/ SelectFails(d)
             \/ ObjectFails(d) \/ RowFails(d) \/ DeleteLost(d)
    PROVE  BusyInv'
<1>1. UNCHANGED upload
  BY DEF DeleteStep, HandleDelete, SelectRow, DeleteObject, DeleteRow, DeleteAnswered,
     SelectFails, ObjectFails, RowFails, DeleteLost
<1>2. \A q \in Pages : page'[q].phase = page[q].phase
  <2>1. CASE UNCHANGED page
    BY <2>1
  <2>2. CASE DeleteAnswered(d)
    BY <2>2 DEF DeleteAnswered, TypeOK, Page
  <2> QED
    BY <2>1, <2>2 DEF DeleteStep, HandleDelete, SelectRow, DeleteObject, DeleteRow,
       SelectFails, ObjectFails, RowFails, DeleteLost, stores
<1> QED
  BY <1>1, <1>2, BusyFrame

-----------------------------------------------------------------------------
LEMMA NextLibrary ==
    ASSUME LibraryInv, [Next]_vars
    PROVE  LibraryInv'
<1>1. TypeOK /\ DataInv /\ BusyInv
  BY DEF LibraryInv
<1>2. ASSUME NEW u \in Uploads, UploadStep(u) \/ UrlRefused(u)
             \/ UploadFails(u) \/ ConfirmFails(u) \/ InsertFails(u) \/ PendingExpires(u)
      PROVE  LibraryInv'
  BY <1>1, <1>2, QuietMoves, PhaseSteps, StartStep, StoreSteps, ConfirmedStep, BusyUploads
     DEF UploadStep, LibraryInv
<1>3. ASSUME NEW p \in Pages, PageStep(p) \/ LoadFails(p) \/ CloseTab(p)
      PROVE  LibraryInv'
  BY <1>1, <1>3, PhaseSteps, ListSteps, BusyPages DEF PageStep, LibraryInv
<1>4. ASSUME NEW d \in Deletes, DeleteStep(d) \/ SelectFails(d)
             \/ ObjectFails(d) \/ RowFails(d) \/ DeleteLost(d)
      PROVE  LibraryInv'
  BY <1>1, <1>4, RelayDeletes, HandleDeleteStep, AnswerSteps, BusyDeletes
     DEF DeleteStep, LibraryInv
<1>5. CASE UNCHANGED vars
  BY <1>5 DEF vars, LibraryInv, TypeOK, DataInv, BusyInv, ClipInv, ObjectInv, RowInv,
     LateInv, SeenInv, RowHasObject, ListInv, ShownOnce, IsDeleted, IsTakenOut, Busy
<1> QED
  BY <1>2, <1>3, <1>4, <1>5 DEF Next, Progresses, Faults

\* In every behaviour, with every failure, the inductive invariant holds.
THEOREM LibraryInvariant == Spec => []LibraryInv
<1>1. Init => LibraryInv
  BY InitLibrary
<1>2. LibraryInv /\ [Next]_vars => LibraryInv'
  BY NextLibrary
<1> QED
  BY <1>1, <1>2, PTL DEF Spec

\* Every variable of the library keeps its type.
THEOREM LibraryTypes == Spec => []TypeOK
<1>1. LibraryInv => TypeOK
  BY DEF LibraryInv
<1> QED
  BY <1>1, LibraryInvariant, PTL

\* Upload and delete never leave a row without its object, unless a delete is
\* between the object and the row, or stopped there.
THEOREM RowsHaveObjects == Spec => []RowHasObject
<1>1. LibraryInv => RowHasObject
  BY DEF LibraryInv, DataInv
<1> QED
  BY <1>1, LibraryInvariant, PTL

\* A region URL that was copied leads to an object until a delete is asked for.
THEOREM PermalinksPlay == Spec => []PermalinkPlays
<1>1. LibraryInv => PermalinkPlays
  <2> SUFFICES ASSUME LibraryInv, NEW p \in Pages, NEW u \in page[p].copied,
                      ~(u \in Uploads /\ IsDeleted(u))
               PROVE  Permalink(u) \cap bucket = {u}
    BY DEF PermalinkPlays
  <2>1. u \in Uploads
    BY DEF LibraryInv, TypeOK, Page
  <2>2. u \in rows
    BY <2>1 DEF LibraryInv, DataInv, SeenInv
  <2>3. u \in bucket
    BY <2>1, <2>2 DEF LibraryInv, DataInv, RowHasObject, IsDeleted
  <2> QED
    BY <2>2, <2>3 DEF Permalink
<1> QED
  BY <1>1, LibraryInvariant, PTL

\* Success that was told means that row and object are there.
THEOREM SuccessMeansStored == Spec => []SuccessIsStored
<1>1. LibraryInv => SuccessIsStored
  <2> SUFFICES ASSUME LibraryInv, NEW u \in Uploads, upload[u].step = "done", ~IsDeleted(u)
               PROVE  u \in rows \cap bucket
    BY DEF SuccessIsStored
  <2>1. u \in rows
    BY DEF LibraryInv, DataInv, RowInv
  <2> QED
    BY <2>1 DEF LibraryInv, DataInv, RowHasObject, IsDeleted
<1> QED
  BY <1>1, LibraryInvariant, PTL

\* A page does not stay busy with an upload that has ended.
THEOREM BusyMeansRunning == Spec => []BusyIsTrue
<1>1. LibraryInv => BusyIsTrue
  BY DEF LibraryInv, BusyInv, BusyIsTrue
<1> QED
  BY <1>1, LibraryInvariant, PTL

\* A confirmed upload is listed once.
THEOREM ListedOnce == Spec => []ShownOnce
<1>1. LibraryInv => ShownOnce
  BY DEF LibraryInv, DataInv
<1> QED
  BY <1>1, LibraryInvariant, PTL
=============================================================================
