---------------------------- MODULE VideoUpload ----------------------------
(***************************************************************************)
(* VideosService over the videos table and the S3 bucket.                  *)
(*                                                                         *)
(* The table and the bucket share no transaction: every handler is a chain *)
(* of awaited calls to one or the other, each call is a step, and the      *)
(* owner may have several requests for one video open at a time.  Content  *)
(* goes from the client to the bucket with pre-signed URLs, past the       *)
(* backend, whenever the client (or the network) sees fit.                 *)
(*                                                                         *)
(* Simplifications:                                                        *)
(*  - All requests come from the owner of the video; a handler refuses     *)
(*    anyone else at its first read.  Titles, sizes and visibility are     *)
(*    left out, and so are the handlers that only read.                    *)
(*  - A multipart upload has one part: all parts that complete will list.  *)
(*  - URLs do not expire.  S3 answers NoSuchUpload for an upload that has  *)
(*    been completed or aborted.                                           *)
(***************************************************************************)
EXTENDS Naturals, FiniteSets

CONSTANTS
  Videos,    \* the video ids crypto.randomUUID can return
  Requests,  \* requests the backend has open
  None,      \* no video
  Postgres,  \* USE_POSTGRES: PrismaVideoRepository or VideoRepository
  Failures   \* whether a request may die between two calls

ASSUME NoneAssumption == None \notin Videos
ASSUME SwitchesAssumption == Postgres \in BOOLEAN /\ Failures \in BOOLEAN

VARIABLES
  rows,      \* table videos
  objects,   \* keys of the bucket
  uploads,   \* multipart uploads of the bucket
  parts,     \* videos whose parts are all in the bucket
  req,       \* the local variables of each open request
  issued,    \* history: the videos initiateUpload has begun
  known,     \* history: the videos whose id a client has received
  stored,    \* history: the videos that have been in the bucket
  acked,     \* history: the videos a client has been told are complete
  removing,  \* history: the videos somebody set out to take from the bucket
  cut        \* history: the videos of which a Settling request died

history == <<issued, known, stored, acked, removing, cut>>
bucket == <<objects, uploads, parts>>
vars == <<rows, objects, uploads, parts, req, history>>

Row == [status: {"none", "pending", "ready"}, uploadId: BOOLEAN]
NoRow == [status |-> "none", uploadId |-> FALSE]

\* The calls of a request that has changed the bucket and not yet the row.
Settling == {"saveReady", "deleteRow"}

\* The call each request makes next, or how it was answered.
Request == [pc: {"idle", "createUpload", "saveUploadId", "finishUpload", "abortUpload",
                 "deleteObject", "saveUpdate", "ok", "error"} \cup Settling,
            video: Videos \cup {None}, uploadId: BOOLEAN]
NoRequest == [pc |-> "idle", video |-> None, uploadId |-> FALSE]

TypeOK ==
  /\ rows \in [Videos -> Row]
  /\ objects \subseteq Videos
  /\ uploads \in [Videos -> {"none", "open", "closed"}]
  /\ parts \subseteq Videos
  /\ req \in [Requests -> Request]
  /\ issued \subseteq Videos /\ known \subseteq issued /\ stored \subseteq Videos
  /\ acked \subseteq known /\ removing \subseteq known /\ cut \subseteq issued

Init ==
  /\ rows = [v \in Videos |-> NoRow]
  /\ objects = {} /\ parts = {}
  /\ uploads = [v \in Videos |-> "none"]
  /\ req = [r \in Requests |-> NoRequest]
  /\ issued = {} /\ known = {} /\ stored = {}
  /\ acked = {} /\ removing = {} /\ cut = {}

Pending(v) == rows[v].status = "pending"
Ready(v) == rows[v].status = "ready"
IsMultipart(v) == uploads[v] # "none"

Goto(r, label) == req' = [req EXCEPT ![r].pc = label]

Begin(r, v, label) ==
  req' = [req EXCEPT ![r] = [pc |-> label, video |-> v, uploadId |-> rows[v].uploadId]]

\* Mutant of UpdateRow: the row is written whether or not there still is one.
UpsertRow(r, row) ==
  /\ Goto(r, "ok")
  /\ rows' = [rows EXCEPT ![req[r].video] = row]

\* VideoRepository.update writes the row whether or not there still is one;
\* Prisma's update throws when there is none.
UpdateRow(r, row) ==
  LET v == req[r].video IN
  IF Postgres /\ rows[v].status = "none"
  THEN Goto(r, "error") /\ UNCHANGED rows
  ELSE Goto(r, "ok") /\ rows' = [rows EXCEPT ![v] = row]

-----------------------------------------------------------------------------
(* POST /videos/upload/initiate                                            *)

\* The row of a small file is written and its URL signed.
InitiateSingle(r, v) ==
  /\ req[r].pc = "idle" /\ v \notin issued
  /\ rows' = [rows EXCEPT ![v] = [status |-> "pending", uploadId |-> FALSE]]
  /\ issued' = issued \cup {v}
  /\ known' = known \cup {v}
  /\ Begin(r, v, "ok")
  /\ UNCHANGED <<bucket, stored, acked, removing, cut>>

\* The row of a big file is written first, without an uploadId.
InitiateMultipart(r, v) ==
  /\ req[r].pc = "idle" /\ v \notin issued
  /\ rows' = [rows EXCEPT ![v] = [status |-> "pending", uploadId |-> FALSE]]
  /\ issued' = issued \cup {v}
  /\ Begin(r, v, "createUpload")
  /\ UNCHANGED <<bucket, known, stored, acked, removing, cut>>

CreateUpload(r) ==
  /\ req[r].pc = "createUpload"
  /\ uploads' = [uploads EXCEPT ![req[r].video] = "open"]
  /\ Goto(r, "saveUploadId")
  /\ UNCHANGED <<rows, objects, parts, history>>

SaveUploadId(r) ==
  /\ req[r].pc = "saveUploadId"
  /\ UpdateRow(r, [status |-> "pending", uploadId |-> TRUE])
  /\ known' = known \cup {req[r].video}
  /\ UNCHANGED <<bucket, issued, stored, acked, removing, cut>>

-----------------------------------------------------------------------------
(* The client and the bucket.                                              *)

\* PUT to the pre-signed URL of a small file.
PutObject(v) ==
  /\ v \in known \ objects /\ ~IsMultipart(v)
  /\ objects' = objects \cup {v}
  /\ stored' = stored \cup {v}
  /\ UNCHANGED <<rows, uploads, parts, req, issued, known, acked, removing, cut>>

\* getPartUrls and the PUTs to the URLs it signs.
PutParts(v) ==
  /\ v \in known \ parts /\ uploads[v] = "open"
  /\ Pending(v) /\ rows[v].uploadId
  /\ parts' = parts \cup {v}
  /\ UNCHANGED <<rows, objects, uploads, req, history>>

-----------------------------------------------------------------------------
(* POST /videos/upload/:videoId/complete                                   *)

CompleteFind(r, v) ==
  /\ req[r].pc = "idle" /\ v \in known
  /\ Begin(r, v, IF Pending(v) THEN "finishUpload" ELSE "error")
  /\ UNCHANGED <<rows, bucket, history>>

\* Mutant of FinishUpload: the object of a small file is not looked up.
FinishUploadUnseen(r) ==
  LET v == req[r].video IN
  /\ req[r].pc = "finishUpload"
  /\ IF req[r].uploadId /\ uploads[v] = "open" /\ v \in parts
       THEN /\ uploads' = [uploads EXCEPT ![v] = "closed"]
            /\ objects' = objects \cup {v}
            /\ stored' = stored \cup {v}
       ELSE UNCHANGED <<uploads, objects, stored>>
  /\ Goto(r, "saveReady")
  /\ UNCHANGED <<rows, parts, issued, known, acked, removing, cut>>

\* CompleteMultipartUpload of a big file, HeadObject of a small one.
FinishUpload(r) ==
  LET v == req[r].video IN
  /\ req[r].pc = "finishUpload"
  /\ \/ /\ req[r].uploadId /\ uploads[v] = "open" /\ v \in parts
        /\ uploads' = [uploads EXCEPT ![v] = "closed"]
        /\ objects' = objects \cup {v}
        /\ stored' = stored \cup {v}
        /\ Goto(r, "saveReady")
     \/ /\ ~req[r].uploadId
        /\ Goto(r, IF v \in objects THEN "saveReady" ELSE "error")
        /\ UNCHANGED <<uploads, objects, stored>>
     \/ /\ req[r].uploadId /\ ~(uploads[v] = "open" /\ v \in parts)
        /\ Goto(r, "error")
        /\ UNCHANGED <<uploads, objects, stored>>
  /\ UNCHANGED <<rows, parts, issued, known, acked, removing, cut>>

\* Mutant of SaveReady: the row gets the status that nothing handles.
SaveFailed(r) ==
  /\ req[r].pc = "saveReady"
  /\ UpdateRow(r, [status |-> "failed", uploadId |-> FALSE])
  /\ UNCHANGED <<bucket, history>>

SaveReady(r) ==
  LET v == req[r].video IN
  /\ req[r].pc = "saveReady"
  /\ UpdateRow(r, [status |-> "ready", uploadId |-> FALSE])
  /\ acked' = IF req'[r].pc = "ok" THEN acked \cup {v} ELSE acked
  /\ UNCHANGED <<bucket, issued, known, stored, removing, cut>>

-----------------------------------------------------------------------------
(* DELETE /videos/upload/:videoId                                          *)

AbortFind(r, v) ==
  /\ req[r].pc = "idle" /\ v \in known
  /\ Begin(r, v, IF Pending(v) THEN "abortUpload" ELSE "error")
  /\ removing' = IF Pending(v) /\ ~rows[v].uploadId THEN removing \cup {v} ELSE removing
  /\ UNCHANGED <<rows, bucket, issued, known, stored, acked, cut>>

\* Mutant of AbortUpload: an upload that is no longer there is no error.
AbortUploadAnyway(r) ==
  LET v == req[r].video IN
  /\ req[r].pc = "abortUpload"
  /\ \/ /\ req[r].uploadId
        /\ uploads' = [uploads EXCEPT ![v] = "closed"]
        /\ parts' = parts \ {v}
        /\ Goto(r, "deleteRow")
     \/ /\ ~req[r].uploadId
        /\ Goto(r, IF v \in objects THEN "deleteObject" ELSE "deleteRow")
        /\ UNCHANGED <<uploads, parts>>
  /\ UNCHANGED <<rows, objects, history>>

\* Mutant of AbortUpload: the row of a big file is not deleted.
AbortUploadKeepsRow(r) ==
  LET v == req[r].video IN
  /\ req[r].pc = "abortUpload"
  /\ IF req[r].uploadId /\ uploads[v] = "open"
       THEN uploads' = [uploads EXCEPT ![v] = "closed"] /\ parts' = parts \ {v}
       ELSE UNCHANGED <<uploads, parts>>
  /\ Goto(r, "ok")
  /\ UNCHANGED <<rows, objects, history>>

\* AbortMultipartUpload of a big file, HeadObject of a small one.
AbortUpload(r) ==
  LET v == req[r].video IN
  /\ req[r].pc = "abortUpload"
  /\ \/ /\ req[r].uploadId /\ uploads[v] = "open"
        /\ uploads' = [uploads EXCEPT ![v] = "closed"]
        /\ parts' = parts \ {v}
        /\ Goto(r, "deleteRow")
     \/ /\ req[r].uploadId /\ uploads[v] # "open"
        /\ Goto(r, "error")
        /\ UNCHANGED <<uploads, parts>>
     \/ /\ ~req[r].uploadId
        /\ Goto(r, IF v \in objects THEN "deleteObject" ELSE "deleteRow")
        /\ UNCHANGED <<uploads, parts>>
  /\ UNCHANGED <<rows, objects, history>>

-----------------------------------------------------------------------------
(* DELETE /videos/:id and PATCH /videos/:id                                *)

DeleteFind(r, v) ==
  /\ req[r].pc = "idle" /\ v \in known
  /\ Begin(r, v, IF Ready(v) THEN "deleteObject" ELSE "error")
  /\ removing' = IF Ready(v) THEN removing \cup {v} ELSE removing
  /\ UNCHANGED <<rows, bucket, issued, known, stored, acked, cut>>

\* DeleteObject succeeds whether or not the object exists.
DeleteObject(r) ==
  /\ req[r].pc = "deleteObject"
  /\ objects' = objects \ {req[r].video}
  /\ Goto(r, "deleteRow")
  /\ UNCHANGED <<rows, uploads, parts, history>>

\* Prisma's delete throws when the row is gone; VideoRepository.delete says no.
DeleteRow(r) ==
  /\ req[r].pc = "deleteRow"
  /\ Goto(r, IF Postgres /\ rows[req[r].video].status = "none" THEN "error" ELSE "ok")
  /\ rows' = [rows EXCEPT ![req[r].video] = NoRow]
  /\ UNCHANGED <<bucket, history>>

UpdateFind(r, v) ==
  /\ req[r].pc = "idle" /\ v \in known
  /\ Begin(r, v, IF Ready(v) THEN "saveUpdate" ELSE "error")
  /\ UNCHANGED <<rows, bucket, history>>

\* The row is written back as it was read, but for the title and visibility.
SaveUpdate(r) ==
  /\ req[r].pc = "saveUpdate"
  /\ UpdateRow(r, [status |-> "ready", uploadId |-> FALSE])
  /\ UNCHANGED <<bucket, history>>

-----------------------------------------------------------------------------

\* A bucket or database error, or the death of the process.
Fail(r) ==
  /\ Failures
  /\ req[r].pc \notin {"idle", "ok", "error"}
  /\ cut' = IF req[r].pc \in Settling THEN cut \cup {req[r].video} ELSE cut
  /\ Goto(r, "error")
  /\ UNCHANGED <<rows, bucket, issued, known, stored, acked, removing>>

\* The connection of an answered request is closed.
Close(r) ==
  /\ req[r].pc \in {"ok", "error"}
  /\ req' = [req EXCEPT ![r] = NoRequest]
  /\ UNCHANGED <<rows, bucket, history>>

HandlerStep(r) ==
  \/ CreateUpload(r) \/ SaveUploadId(r) \/ FinishUpload(r) \/ SaveReady(r)
  \/ AbortUpload(r) \/ DeleteObject(r) \/ DeleteRow(r) \/ SaveUpdate(r)

Next ==
  \/ \E r \in Requests, v \in Videos :
       \/ InitiateSingle(r, v) \/ InitiateMultipart(r, v)
       \/ CompleteFind(r, v) \/ AbortFind(r, v) \/ DeleteFind(r, v) \/ UpdateFind(r, v)
  \/ \E v \in Videos : PutObject(v) \/ PutParts(v)
  \/ \E r \in Requests : HandlerStep(r) \/ Fail(r) \/ Close(r)

Spec == Init /\ [][Next]_vars

-----------------------------------------------------------------------------
(* Correctness.                                                            *)

\* A watchable video has its content in the bucket, but for the time between
\* the two deletions of an abort or a delete, or after a request that died there.
\* However complete, abort, delete and update overlap, none of them leaves a
\* video listed that cannot be played.
ReadyHasObject ==
  \A v \in Videos :
    Ready(v) /\ v \notin objects =>
      \/ v \in cut
      \/ \E r \in Requests : req[r].video = v /\ req[r].pc = "deleteRow"

\* The object of a big file is never left without a row that leads to it: an
\* abort that comes too late fails instead of taking the row.
MultipartNeverOrphaned ==
  \A v \in objects : IsMultipart(v) => rows[v].status # "none"

\* An upload the client was told is complete stays watchable until somebody sets
\* out to delete it, or had already set out to abort the upload of a small file.
AckedKept ==
  \A v \in acked \ removing : Ready(v) /\ v \in objects

\* A pending multipart upload that a client knows of can still be completed or
\* aborted, unless a request that will settle its row is on its way or died.
PendingCanBeSettled ==
  \A v \in known :
    Pending(v) /\ rows[v].uploadId /\ uploads[v] # "open" =>
      \/ v \in cut
      \/ \E r \in Requests : req[r].video = v /\ req[r].pc \in Settling

Lifecycle == INSTANCE VideoLifecycle WITH
  status <- [v \in Videos |-> IF v \in issued /\ rows[v].status = "none"
                              THEN "gone" ELSE rows[v].status]

\* A video becomes watchable only with its content stored, never goes back to
\* pending, and never returns once its row is deleted.
ImplementsLifecycle == Lifecycle!Spec

\* A video whose row has been deleted never returns.  decisions.md D-010 on the
\* repositories in memory and on PostgreSQL: "the two implementations must behave
\* identically where it matters for correctness."
DeletedStaysDeleted ==
  [][\A v \in issued : rows[v].status = "none" => rows'[v].status = "none"]_vars

\* videos.service.ts: "Cannot delete a pending upload - use the abort endpoint
\* instead".  With nothing in flight, the abort endpoint finds the upload of
\* every pending video that has one.
AbortEndpointWorks ==
  (\A r \in Requests : req[r].pc \in {"idle", "ok", "error"}) =>
    \A v \in known : Pending(v) /\ rows[v].uploadId => uploads[v] = "open"

-----------------------------------------------------------------------------
(* What makes the invariants, and the refinement, inductive.  Only what it *)
(* says of a removal half done needs PostgreSQL: in memory an update may   *)
(* bring back the row of a video that is gone.                             *)

At(r, v, labels) == req[r].video = v /\ req[r].pc \in labels
SomeAt(v, labels) == \E r \in Requests : At(r, v, labels)

\* A removal of v's object has not reached its row, or never will.
HalfRemoved(v) == v \in cut \/ SomeAt(v, {"deleteRow"})

\* What request r knows of the video it works on.
RequestOK(r) ==
  LET v == req[r].video
      pc == req[r].pc
  IN /\ pc # "idle" => v \in issued
     /\ pc \in {"createUpload", "saveUploadId"} =>
          /\ v \notin known
          /\ pc = "saveUploadId" => uploads[v] = "open"
          /\ \A q \in Requests : At(q, v, {"createUpload", "saveUploadId"}) => q = r
     /\ pc = "createUpload" => uploads[v] = "none"
     /\ pc \in {"finishUpload", "abortUpload", "deleteObject", "saveUpdate"} \cup Settling =>
          v \in known
     /\ pc \in {"finishUpload", "abortUpload"} => req[r].uploadId = IsMultipart(v)
     /\ pc = "abortUpload" /\ ~IsMultipart(v) => v \in removing
     /\ pc = "deleteObject" => v \in removing
     /\ pc = "deleteRow" => v \in removing \/ (IsMultipart(v) /\ v \notin stored)
     /\ pc \in {"saveUpdate", "saveReady"} => v \in stored
     /\ pc = "saveReady" /\ v \notin removing => v \in objects
     /\ pc = "saveUpdate" => ~Pending(v)
     /\ Postgres /\ pc \in {"saveUpdate", "saveReady"}
          /\ rows[v].status # "none" /\ v \notin objects => HalfRemoved(v)

VideoOK(v) ==
  /\ v \notin issued => uploads[v] = "none" /\ rows[v] = NoRow
  /\ v \in issued \ known => Pending(v) /\ ~rows[v].uploadId
  /\ v \in known /\ Pending(v) => rows[v].uploadId = IsMultipart(v)
  /\ v \in stored => v \in known
  /\ v \in objects => v \in stored
  /\ Ready(v) => v \in stored /\ ~rows[v].uploadId
  /\ Postgres /\ Ready(v) /\ v \notin objects => HalfRemoved(v)
  /\ v \in acked => v \in stored
  /\ v \in acked \ removing => Ready(v) /\ v \in objects

\* The life of an upload of the bucket: it is open until the one request that
\* closes it, and its object, once there, has a row.
UploadOK(v) ==
  /\ uploads[v] = "open" =>
       /\ Pending(v) /\ v \notin stored
       /\ ~SomeAt(v, {"deleteObject", "saveUpdate"} \cup Settling)
  /\ IsMultipart(v) /\ v \in objects =>
       rows[v].status # "none" /\ ~SomeAt(v, {"deleteRow"})
  /\ uploads[v] = "closed" /\ v \in known /\ Pending(v) => v \in cut \/ SomeAt(v, Settling)

IInv ==
  /\ TypeOK
  /\ \A r \in Requests : RequestOK(r)
  /\ \A v \in Videos : VideoOK(v) /\ UploadOK(v)
=============================================================================
