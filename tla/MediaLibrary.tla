---------------------------- MODULE MediaLibrary ----------------------------
(***************************************************************************)
(* The media library: clips in S3, their rows in PostgreSQL, pending       *)
(* uploads in Redis, and the admin pages that upload, list and delete.     *)
(*                                                                         *)
(* An upload is one run of handleFile: it asks the relay for a presigned   *)
(* URL (and a pending key), PUTs the file to S3 and asks the relay to      *)
(* confirm, which consumes the pending key and inserts the row.  A delete  *)
(* reads the row, deletes the object, then the row.  No two of these steps *)
(* are atomic, each may fail after it took effect, and the answers to a    *)
(* page's requests may arrive in any order.                                *)
(***************************************************************************)
EXTENDS Naturals

CONSTANTS
    Pages,      \* each mounted once; a reload is another page
    Uploads,    \* each stands for its object key and for the id of its row
    Deletes,
    Owner,      \* the page an upload is started from
    NoClip

ASSUME OwnerAssumption == Owner \in [Uploads -> Pages]
ASSUME NoClipAssumption == NoClip \notin Uploads

VARIABLES
    pending,    \* Redis: audio:media:pending:<object key>
    bucket,     \* S3: the objects
    rows,       \* PostgreSQL: audio_media
    upload,     \* how far each run of handleFile is, and the list then
    delete,     \* how far each run of handleDelete is, and what it told the user
    page        \* the pages' state

stores == <<pending, bucket, rows>>
vars == <<pending, bucket, rows, upload, delete, page>>

-----------------------------------------------------------------------------
Phase == {"idle", "uploading", "confirming", "error"}

\* "listed": the initial list had been answered when the upload was started.
Upload ==
    [step : {"none", "askUrl", "url", "put", "stored", "confirm", "insert",
             "refused", "inserted", "done", "failed"},
     listed : BOOLEAN]

Delete ==
    [step : {"none", "select", "missing", "selectFailed", "object",
             "objectFailed", "row", "rowFailed", "deleted"},
     page : Pages, clip : Uploads \cup {NoClip},
     told : {"nothing", "ok", "alert"}]

\* "items": how many table rows the page has for a clip.  Their order is left out.
\* "copied": the clips whose region URL was copied.
Page ==
    [life : {"new", "open", "gone"}, load : {"none", "asked", "read", "over"},
     list : SUBSET Uploads, items : [Uploads -> Nat], loadError : BOOLEAN,
     phase : Phase, copied : SUBSET Uploads]

Init ==
    /\ pending = {} /\ bucket = {} /\ rows = {}
    /\ upload = [u \in Uploads |-> [step |-> "none", listed |-> FALSE]]
    /\ delete \in [Deletes -> [step : {"none"}, page : Pages, clip : {NoClip},
                               told : {"nothing"}]]
    /\ page = [p \in Pages |->
                 [life |-> "new", load |-> "none", list |-> {},
                  items |-> [u \in Uploads |-> 0], loadError |-> FALSE,
                  phase |-> "idle", copied |-> {}]]

IsOpen(p) == page[p].life = "open"

\* An upload goes from one of the steps in "from" to the step "to".
Move(u, from, to) ==
    /\ upload[u].step \in from
    /\ upload' = [upload EXCEPT ![u].step = to]

SetPhase(u, phase) == page' = [page EXCEPT ![Owner[u]].phase = phase]
-----------------------------------------------------------------------------
(* The list.                                                               *)

\* useEffect: the first render asks for the list, once.
Mount(p) ==
    /\ page[p].life = "new"
    /\ page' = [page EXCEPT ![p].life = "open", ![p].load = "asked"]
    /\ UNCHANGED <<stores, upload, delete>>

\* The relay's SELECT.
ListMedia(p) ==
    /\ page[p].load = "asked"
    /\ page' = [page EXCEPT ![p].load = "read", ![p].list = rows]
    /\ UNCHANGED <<stores, upload, delete>>

\* setItems(list): replaces what the page shows.
ListShown(p) ==
    /\ IsOpen(p) /\ page[p].load = "read"
    /\ page' = [page EXCEPT
          ![p].load = "over", ![p].loadError = FALSE,
          ![p].items = [u \in Uploads |-> IF u \in page[p].list THEN 1 ELSE 0]]
    /\ UNCHANGED <<stores, upload, delete>>

\* The relay refuses or fails, or the answer is lost.
LoadFails(p) ==
    /\ IsOpen(p) /\ page[p].load \in {"asked", "read"}
    /\ page' = [page EXCEPT ![p].load = "over", ![p].loadError = TRUE]
    /\ UNCHANGED <<stores, upload, delete>>

\* What the table shows; a load error takes its place for good.
Shown(p) == IF page[p].loadError THEN {} ELSE {u \in Uploads : page[p].items[u] > 0}

CopyRegionUrl(p, u) ==
    /\ IsOpen(p) /\ u \in Shown(p)
    /\ page' = [page EXCEPT ![p].copied = @ \cup {u}]
    /\ UNCHANGED <<stores, upload, delete>>

\* The tab is closed or reloaded: no callback of this page runs any more.
CloseTab(p) ==
    /\ IsOpen(p)
    /\ page' = [page EXCEPT ![p].life = "gone"]
    /\ UNCHANGED <<stores, upload, delete>>

-----------------------------------------------------------------------------
(* Uploads.  The zone takes a dropped file at any time, a chosen one only  *)
(* when no upload is shown: dropping covers both.                          *)

Busy(p) == page[p].phase \in {"uploading", "confirming"}

StartUpload(u) ==
    /\ IsOpen(Owner[u]) /\ upload[u].step = "none"
    /\ upload' = [upload EXCEPT ![u] =
          [step |-> "askUrl", listed |-> page[Owner[u]].load = "over"]]
    /\ SetPhase(u, "uploading")
    /\ UNCHANGED <<stores, delete>>

\* A dropped file that is no audio: an error, whatever else is under way.
RejectFile(p) ==
    /\ IsOpen(p)
    /\ page' = [page EXCEPT ![p].phase = "error"]
    /\ UNCHANGED <<stores, upload, delete>>

Dismiss(p) ==
    /\ IsOpen(p) /\ page[p].phase = "error"
    /\ page' = [page EXCEPT ![p].phase = "idle"]
    /\ UNCHANGED <<stores, upload, delete>>

\* The relay: a fresh object key.  SETEX may fail, which is ignored.
RequestUploadUrl(u) ==
    /\ Move(u, {"askUrl"}, "url")
    /\ pending' \in {pending, pending \cup {u}}
    /\ UNCHANGED <<bucket, rows, delete, page>>

\* Mutant of UploadFails, of UrlRefused: the error is not shown; the catch
\* clause of the PUT does not reject again, so the upload is confirmed.
UrlRefusedSilently(u) ==
    /\ IsOpen(Owner[u]) /\ Move(u, {"askUrl", "url"}, "failed")
    /\ UNCHANGED <<stores, delete, page>>

UploadFailsConfirming(u) ==
    /\ IsOpen(Owner[u]) /\ Move(u, {"put", "stored"}, "confirm")
    /\ SetPhase(u, "confirming")
    /\ UNCHANGED <<stores, delete>>

\* The portal or the relay answers with an error, or not at all.
UrlRefused(u) ==
    /\ IsOpen(Owner[u]) /\ Move(u, {"askUrl", "url"}, "failed")
    /\ SetPhase(u, "error")
    /\ UNCHANGED <<stores, delete>>

SendFile(u) ==
    /\ IsOpen(Owner[u]) /\ Move(u, {"url"}, "put")
    /\ UNCHANGED <<stores, delete, page>>

StoreObject(u) ==
    /\ IsOpen(Owner[u]) /\ Move(u, {"put"}, "stored")
    /\ bucket' = bucket \cup {u}
    /\ UNCHANGED <<pending, rows, delete, page>>

\* xhr.upload.onprogress: shows this upload, also in place of another one.
Progress(u) ==
    /\ IsOpen(Owner[u]) /\ upload[u].step \in {"put", "stored"}
    /\ SetPhase(u, "uploading")
    /\ UNCHANGED <<stores, upload, delete>>

\* xhr.onerror, or a status that is not 2xx; the object may be there.
UploadFails(u) ==
    /\ IsOpen(Owner[u]) /\ Move(u, {"put", "stored"}, "failed")
    /\ SetPhase(u, "error")
    /\ UNCHANGED <<stores, delete>>

UploadDone(u) ==
    /\ IsOpen(Owner[u]) /\ Move(u, {"stored"}, "confirm")
    /\ SetPhase(u, "confirming")
    /\ UNCHANGED <<stores, delete>>

\* The relay: GETDEL of the pending key.
ConfirmUpload(u) ==
    /\ Move(u, {"confirm"}, IF u \in pending THEN "insert" ELSE "refused")
    /\ pending' = pending \ {u}
    /\ UNCHANGED <<bucket, rows, delete, page>>

\* No connection, or GETDEL fails, before or after Redis executed it.
ConfirmFails(u) ==
    /\ Move(u, {"confirm"}, "refused")
    /\ pending' \in {pending, pending \ {u}}
    /\ UNCHANGED <<bucket, rows, delete, page>>

InsertRow(u) ==
    /\ Move(u, {"insert"}, "inserted")
    /\ rows' = rows \cup {u}
    /\ UNCHANGED <<pending, bucket, delete, page>>

\* The INSERT fails, or the relay does not learn that it succeeded.
InsertFails(u) ==
    /\ Move(u, {"insert"}, "refused")
    /\ rows' \in {rows, rows \cup {u}}
    /\ UNCHANGED <<pending, bucket, delete, page>>

Prepended(p, u) == [page EXCEPT ![p].items[u] = @ + 1, ![p].phase = "idle"]

\* Mutants of UploadConfirmed: the page also asks for the list again; it does
\* not look at the status of the answer; it ends in a phase it cannot show.
UploadConfirmedReloads(u) ==
    /\ IsOpen(Owner[u]) /\ Move(u, {"inserted"}, "done")
    /\ page' = [Prepended(Owner[u], u) EXCEPT ![Owner[u]].load = "asked"]
    /\ UNCHANGED <<stores, delete>>

UploadConfirmedAlways(u) ==
    /\ IsOpen(Owner[u]) /\ Move(u, {"inserted", "refused"}, "done")
    /\ page' = Prepended(Owner[u], u)
    /\ UNCHANGED <<stores, delete>>

UploadConfirmedOddly(u) ==
    /\ IsOpen(Owner[u]) /\ Move(u, {"inserted"}, "done")
    /\ page' = [Prepended(Owner[u], u) EXCEPT ![Owner[u]].phase = "done"]
    /\ UNCHANGED <<stores, delete>>

\* setItems((prev) => [item, ...prev]).
UploadConfirmed(u) ==
    /\ IsOpen(Owner[u]) /\ Move(u, {"inserted"}, "done")
    /\ page' = Prepended(Owner[u], u)
    /\ UNCHANGED <<stores, delete>>

\* Any other answer, or a lost one.
UploadRefused(u) ==
    /\ IsOpen(Owner[u]) /\ Move(u, {"refused", "inserted"}, "failed")
    /\ SetPhase(u, "error")
    /\ UNCHANGED <<stores, delete>>

\* Redis: the hour of SETEX is over.
PendingExpires(u) ==
    /\ u \in pending
    /\ pending' = pending \ {u}
    /\ UNCHANGED <<bucket, rows, upload, delete, page>>
-----------------------------------------------------------------------------
(* Deletes.                                                                *)

Advance(d, from, to) ==
    /\ delete[d].step = from
    /\ delete' = [delete EXCEPT ![d].step = to]

HandleDelete(d, p, u) ==
    /\ IsOpen(p) /\ u \in Shown(p)
    /\ delete[d].step = "none" /\ delete[d].page = p
    /\ delete' = [delete EXCEPT ![d].step = "select", ![d].clip = u]
    /\ UNCHANGED <<stores, upload, page>>

\* delete_media: SELECT, S3, DELETE.
SelectRow(d) ==
    /\ Advance(d, "select", IF delete[d].clip \in rows THEN "object" ELSE "missing")
    /\ UNCHANGED <<stores, upload, page>>

SelectFails(d) ==
    /\ Advance(d, "select", "selectFailed")
    /\ UNCHANGED <<stores, upload, page>>

DeleteObject(d) ==
    /\ Advance(d, "object", "row")
    /\ bucket' = bucket \ {delete[d].clip}
    /\ UNCHANGED <<pending, rows, upload, page>>

ObjectFails(d) ==
    /\ Advance(d, "object", "objectFailed")
    /\ bucket' \in {bucket, bucket \ {delete[d].clip}}
    /\ UNCHANGED <<pending, rows, upload, page>>

DeleteRow(d) ==
    /\ Advance(d, "row", "deleted")
    /\ rows' = rows \ {delete[d].clip}
    /\ UNCHANGED <<pending, bucket, upload, page>>

\* Mutant of RowFails: the error is ignored, as the one of the SETEX is.
RowFailsQuietly(d) ==
    /\ Advance(d, "row", "deleted")
    /\ rows' \in {rows, rows \ {delete[d].clip}}
    /\ UNCHANGED <<pending, bucket, upload, page>>

RowFails(d) ==
    /\ Advance(d, "row", "rowFailed")
    /\ rows' \in {rows, rows \ {delete[d].clip}}
    /\ UNCHANGED <<pending, bucket, upload, page>>

\* What the relay answers.
StatusOf(step) ==
    CASE step = "deleted" -> 204
      [] step = "missing" -> 404
      [] step \in {"selectFailed", "objectFailed", "rowFailed"} -> 500

\* The portal's proxy builds a response from the relay's body and status.  A
\* response with status 204 may have no body, not even an empty one: the
\* constructor throws, and the portal answers 500.
ProxyAnswer(status) == IF status = 204 THEN 500 ELSE status

\* api.deleteMedia returned or threw; every item of the clip is taken out, or
\* the user is alerted.
DeleteAnswered(d) ==
    LET p == delete[d].page
        isOk == ProxyAnswer(StatusOf(delete[d].step)) \in 200..299
    IN /\ IsOpen(p) /\ delete[d].told = "nothing"
       /\ delete[d].step \in {"missing", "selectFailed", "objectFailed", "rowFailed", "deleted"}
       /\ delete' = [delete EXCEPT ![d].told = IF isOk THEN "ok" ELSE "alert"]
       /\ page' = IF isOk THEN [page EXCEPT ![p].items[delete[d].clip] = 0] ELSE page
       /\ UNCHANGED <<stores, upload>>

\* The answer is lost; the relay goes on with the request.
DeleteLost(d) ==
    /\ IsOpen(delete[d].page) /\ delete[d].told = "nothing" /\ delete[d].step # "none"
    /\ delete' = [delete EXCEPT ![d].told = "alert"]
    /\ UNCHANGED <<stores, upload, page>>

-----------------------------------------------------------------------------
UploadStep(u) ==
    \/ StartUpload(u) \/ RequestUploadUrl(u) \/ SendFile(u) \/ StoreObject(u)
    \/ Progress(u) \/ UploadDone(u) \/ ConfirmUpload(u) \/ InsertRow(u)
    \/ UploadConfirmed(u) \/ UploadRefused(u)

DeleteStep(d) ==
    \/ \E p \in Pages, u \in Uploads : HandleDelete(d, p, u)
    \/ SelectRow(d) \/ DeleteObject(d) \/ DeleteRow(d) \/ DeleteAnswered(d)

PageStep(p) ==
    \/ Mount(p) \/ ListMedia(p) \/ ListShown(p) \/ RejectFile(p) \/ Dismiss(p)
    \/ \E u \in Uploads : CopyRegionUrl(p, u)

Faults ==
    \/ \E u \in Uploads :
         \/ UrlRefused(u) \/ UploadFails(u) \/ ConfirmFails(u) \/ InsertFails(u)
         \/ PendingExpires(u)
    \/ \E d \in Deletes : SelectFails(d) \/ ObjectFails(d) \/ RowFails(d) \/ DeleteLost(d)
    \/ \E p \in Pages : LoadFails(p) \/ CloseTab(p)

Progresses ==
    \/ \E u \in Uploads : UploadStep(u)
    \/ \E d \in Deletes : DeleteStep(d)
    \/ \E p \in Pages : PageStep(p)

Next == Progresses \/ Faults

Spec == Init /\ [][Next]_vars

\* No store, request or tab fails.
FaultFreeSpec == Init /\ [][Progresses]_vars

-----------------------------------------------------------------------------
(* Properties.                                                             *)

TypeOK ==
    /\ pending \subseteq Uploads /\ bucket \subseteq Uploads /\ rows \subseteq Uploads
    /\ upload \in [Uploads -> Upload]
    /\ delete \in [Deletes -> Delete]
    /\ page \in [Pages -> Page]

IsDeleted(u) == \E d \in Deletes : delete[d].clip = u

\* GET /media/:id: the object it redirects to, or 404.
Permalink(u) == IF u \in rows THEN {u} ELSE {}

\* docs/events.md: the permalink "302-redirects to a fresh presigned URL on
\* every request, so it never expires".  The region URL of a clip, once it was
\* copied from a page, leads to an object until somebody asks for its deletion,
\* whatever failed during its upload.
PermalinkPlays ==
    \A p \in Pages : \A u \in page[p].copied \ {v \in Uploads : IsDeleted(v)} :
        Permalink(u) \cap bucket = {u}

\* A row whose object is gone has a delete that got as far as the object and did
\* not say that it succeeded; neither an upload nor two deletes of one clip lead
\* there.  (An object without a row is what a failed INSERT leaves.)
RowHasObject ==
    \A u \in rows \ bucket : \E d \in Deletes :
        delete[d].clip = u /\ delete[d].step \in {"row", "rowFailed", "objectFailed"}

\* What is shown as in progress is: the zone is not disabled by an upload that
\* has ended, however several uploads, errors and dismissals overwrite the one
\* state they share.  The converse does not hold: the end of one upload overwrites
\* the progress of another.
BusyIsTrue ==
    \A p \in Pages : (IsOpen(p) /\ Busy(p)) =>
        \E u \in Uploads :
            Owner[u] = p /\ upload[u].step \notin {"none", "done", "failed"}

\* A page that was told of its upload's success tells the truth: row and object
\* are there until somebody asks for a deletion.
SuccessIsStored ==
    \A u \in Uploads : (upload[u].step = "done" /\ ~IsDeleted(u)) => u \in rows \cap bucket

\* An upload started after the list had arrived is, once confirmed, in the
\* page's list exactly once until the page takes it out, although other uploads
\* may be confirmed at any time.  (One started earlier may be lost with the
\* list's arrival, or doubled.)
IsTakenOut(u) == \E d \in Deletes : delete[d].clip = u /\ delete[d].told = "ok"

ShownOnce ==
    \A u \in Uploads :
        (upload[u].step = "done" /\ upload[u].listed /\ ~IsTakenOut(u)) =>
            page[Owner[u]].items[u] = 1

\* The alert of handleDelete, "Failed to delete ... Check relay/storage logs.":
\* it is not shown for a delete the relay carried out completely.
AlertIsTrue ==
    \A d \in Deletes : delete[d].told = "alert" => delete[d].step # "deleted"
=============================================================================
