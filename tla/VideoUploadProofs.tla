------------------------- MODULE VideoUploadProofs -------------------------
(***************************************************************************)
(* Proofs about VideoUpload for any number of videos and open requests,    *)
(* with and without failures; on PostgreSQL and in memory, but for what    *)
(* a theorem assumes of the repository.                                    *)
(*                                                                         *)
(* A step concerns one video (Touches).  For that video each action shows  *)
(* what its requests know (RequestOK), how the row and the object agree    *)
(* (VideoOK) and where the upload of the bucket stands (UploadOK); the     *)
(* other videos are the business of the lemma Focus.                       *)
(***************************************************************************)
EXTENDS VideoUpload, TLAPS

\* The step is about video v, if it is about any.
Touches(v) ==
  /\ \A u \in Videos \ {v} :
       /\ rows'[u] = rows[u] /\ uploads'[u] = uploads[u]
       /\ (u \in objects') = (u \in objects) /\ (u \in issued') = (u \in issued)
       /\ (u \in known') = (u \in known) /\ (u \in stored') = (u \in stored)
       /\ (u \in acked') = (u \in acked) /\ (u \in removing') = (u \in removing)
       /\ (u \in cut') = (u \in cut)
  /\ \A q \in Requests :
       \/ req'[q] = req[q]
       \/ /\ req[q].video = v \/ req[q].pc = "idle"
          /\ req'[q].video = v \/ req'[q].pc = "idle"

\* The labels of the calls a request has yet to make.
Busy == {"createUpload", "saveUploadId", "finishUpload", "abortUpload", "deleteObject",
         "saveUpdate", "saveReady", "deleteRow"}

LEMMA OtherVideos ==
  ASSUME NEW v, Touches(v), NEW u \in Videos \ {v}, NEW L \in SUBSET Busy
  PROVE  SomeAt(u, L)' <=> SomeAt(u, L)
BY DEF Touches, SomeAt, At, Busy

\* It is enough to look at the video that a step is about.
LEMMA Focus ==
  ASSUME IInv, NEW v \in Videos, TypeOK', Touches(v),
         \A q \in Requests : req'[q].video = v => RequestOK(q)',
         VideoOK(v)', UploadOK(v)'
  PROVE  IInv'
<1>1. ASSUME NEW u \in Videos \ {v} PROVE VideoOK(u)' /\ UploadOK(u)'
  <2>1. /\ SomeAt(u, {"deleteRow"})' <=> SomeAt(u, {"deleteRow"})
        /\ SomeAt(u, Settling)' <=> SomeAt(u, Settling)
        /\ SomeAt(u, {"deleteObject", "saveUpdate"} \cup Settling)'
             <=> SomeAt(u, {"deleteObject", "saveUpdate"} \cup Settling)
    BY OtherVideos, <1>1 DEF Busy, Settling
  <2>2. VideoOK(u) /\ UploadOK(u)
    BY <1>1 DEF IInv
  <2>3. VideoOK(u)'
    BY <2>1, <2>2, <1>1 DEF VideoOK, HalfRemoved, Touches, Pending, Ready, IsMultipart
  <2>4. UploadOK(u)'
    BY <2>1, <2>2, <1>1 DEF UploadOK, Touches, Pending, IsMultipart
  <2>5. QED
    BY <2>3, <2>4
<1>2. ASSUME NEW q \in Requests, req'[q].video # v PROVE RequestOK(q)'
  <2>1. CASE req'[q].pc = "idle"
    BY <2>1 DEF RequestOK, Settling
  <2>2. CASE req'[q].pc # "idle"
    <3>1. req'[q] = req[q] /\ RequestOK(q)
      BY <2>2, <1>2 DEF Touches, IInv
    <3>2. PICK u \in Videos \ {v} : u = req[q].video
      BY <3>1, <1>2, <2>2 DEF IInv, TypeOK, RequestOK, Request
    <3>3. HalfRemoved(u)' <=> HalfRemoved(u)
      BY <3>2, OtherVideos DEF HalfRemoved, Touches, Busy
    <3>4. ASSUME NEW p \in Requests, At(p, u, {"createUpload", "saveUploadId"})'
          PROVE  At(p, u, {"createUpload", "saveUploadId"})
      BY <3>2, <3>4 DEF At, Touches
    <3>5. req'[q].video = u
      BY <3>1, <3>2
    <3>6. QED
      BY <3>1, <3>2, <3>3, <3>4, <3>5
      DEF RequestOK, Touches, Pending, IsMultipart, Settling
  <2>3. QED
    BY <2>1, <2>2
<1>3. QED
  BY <1>1, <1>2 DEF IInv

-----------------------------------------------------------------------------
(* What the building blocks of the actions do to the requests.             *)

LEMMA GotoFacts ==
  ASSUME TypeOK, NEW r \in Requests, NEW l \in Busy \cup {"ok", "error"}, Goto(r, l)
  PROVE  /\ req' \in [Requests -> Request]
         /\ req'[r].pc = l /\ req'[r].video = req[r].video
         /\ req'[r].uploadId = req[r].uploadId
         /\ \A q \in Requests : q # r => req'[q] = req[q]
BY DEF TypeOK, Request, Settling, Busy, Goto

LEMMA BeginFacts ==
  ASSUME TypeOK, NEW r \in Requests, NEW v \in Videos,
         NEW l \in Busy \cup {"ok", "error"}, Begin(r, v, l)
  PROVE  /\ req' \in [Requests -> Request]
         /\ req'[r].pc = l /\ req'[r].video = v
         /\ req'[r].uploadId = rows[v].uploadId
         /\ \A q \in Requests : q # r => req'[q] = req[q]
BY DEF TypeOK, Request, Settling, Busy, Begin, Row

\* A working request has a video, and knows what RequestOK says of it.
LEMMA Working ==
  ASSUME IInv, NEW r \in Requests, req[r].pc \in Busy
  PROVE  /\ TypeOK /\ req[r].video \in Videos /\ RequestOK(r)
         /\ VideoOK(req[r].video) /\ UploadOK(req[r].video)
BY DEF IInv, TypeOK, RequestOK, Busy

-----------------------------------------------------------------------------
(* One lemma for each action.                                              *)

LEMMA InitOK == Init => IInv
<1> SUFFICES ASSUME Init PROVE IInv
  OBVIOUS
<1>1. TypeOK
  BY DEF Init, TypeOK, Row, NoRow, Request, NoRequest, Settling
<1>2. \A r \in Requests : RequestOK(r)
  BY DEF Init, RequestOK, NoRequest, Settling
<1>3. \A v \in Videos : VideoOK(v) /\ UploadOK(v)
  BY DEF Init, VideoOK, UploadOK, NoRow, Pending, Ready, IsMultipart
<1>4. QED
  BY <1>1, <1>2, <1>3 DEF IInv

LEMMA InitiateKeeps ==
  ASSUME IInv, NEW r \in Requests, NEW v \in Videos,
         InitiateSingle(r, v) \/ InitiateMultipart(r, v)
  PROVE  IInv'
<1>1. PICK l \in {"ok", "createUpload"} :
        /\ v \notin issued /\ Begin(r, v, l) /\ req[r].pc = "idle"
        /\ rows' = [rows EXCEPT ![v] = [status |-> "pending", uploadId |-> FALSE]]
        /\ issued' = issued \cup {v}
        /\ known' = IF l = "ok" THEN known \cup {v} ELSE known
        /\ UNCHANGED <<bucket, stored, acked, removing, cut>>
  BY DEF InitiateSingle, InitiateMultipart
<1>2. /\ TypeOK /\ VideoOK(v) /\ v \notin known /\ rows[v] = NoRow /\ uploads[v] = "none"
  BY <1>1 DEF IInv, TypeOK, VideoOK
<1>3. /\ req' \in [Requests -> Request] /\ req'[r].pc = l /\ req'[r].video = v
      /\ \A q \in Requests : q # r => req'[q] = req[q]
  BY <1>1, <1>2, BeginFacts DEF Busy
<1>4. rows' \in [Videos -> Row] /\ rows'[v] = [status |-> "pending", uploadId |-> FALSE]
  BY <1>1, <1>2 DEF TypeOK, Row
<1>5. TypeOK'
  BY <1>1, <1>2, <1>3, <1>4 DEF TypeOK, bucket
<1>6. Touches(v)
  BY <1>1, <1>2, <1>3 DEF Touches, TypeOK, bucket
<1>7. ASSUME NEW q \in Requests, req'[q].video = v PROVE RequestOK(q)'
  <2>1. CASE q = r
    <3>1. \A p \in Requests : p # r => ~At(p, v, {"createUpload", "saveUploadId"})'
      BY <1>1, <1>3 DEF IInv, RequestOK, At
    <3>2. QED
      BY <1>1, <1>2, <1>3, <2>1, <3>1 DEF RequestOK, bucket, Settling
  <2>2. CASE q # r
    BY <1>1, <1>3, <1>7, <2>2 DEF IInv, RequestOK, Settling
  <2>3. QED
    BY <2>1, <2>2
<1>8. VideoOK(v)'
  BY <1>1, <1>2, <1>4 DEF VideoOK, Pending, Ready, IsMultipart, bucket, NoRow
<1>9. UploadOK(v)'
  BY <1>1, <1>2, <1>4 DEF UploadOK, Pending, IsMultipart, bucket
<1>10. QED
  BY <1>5, <1>6, <1>7, <1>8, <1>9, Focus

LEMMA CreateUploadKeeps ==
  ASSUME IInv, NEW r \in Requests, CreateUpload(r)
  PROVE  IInv'
<1>1. PICK v \in Videos : v = req[r].video
  BY Working DEF CreateUpload, Busy
<1>2. /\ TypeOK /\ RequestOK(r) /\ VideoOK(v) /\ UploadOK(v)
      /\ v \in issued /\ v \notin known /\ v \notin stored /\ v \notin objects /\ v \notin acked
      /\ Pending(v)
  BY <1>1, Working DEF CreateUpload, RequestOK, VideoOK, Busy
<1>3. /\ req' \in [Requests -> Request] /\ req'[r].pc = "saveUploadId" /\ req'[r].video = v
      /\ \A q \in Requests : q # r => req'[q] = req[q]
  BY <1>1, <1>2, GotoFacts DEF CreateUpload, Busy
<1>4. uploads'[v] = "open" /\ uploads' \in [Videos -> {"none", "open", "closed"}]
  BY <1>1, <1>2 DEF CreateUpload, TypeOK
<1>5. TypeOK'
  BY <1>2, <1>3, <1>4 DEF CreateUpload, TypeOK, history
<1>6. Touches(v)
  BY <1>1, <1>2, <1>3 DEF CreateUpload, Touches, TypeOK, history
<1>7. ASSUME NEW q \in Requests, req'[q].video = v PROVE RequestOK(q)'
  <2>1. CASE q = r
    BY <1>1, <1>2, <1>3, <1>4, <2>1 DEF CreateUpload, RequestOK, history, Settling, At
  <2>2. CASE q # r
    BY <1>1, <1>2, <1>3, <1>7, <2>2
    DEF IInv, CreateUpload, RequestOK, Settling, At, history
  <2>3. QED
    BY <2>1, <2>2
<1>8. VideoOK(v)'
  BY <1>2 DEF CreateUpload, VideoOK, Pending, Ready, history
<1>9. UploadOK(v)'
  <2>1. ~SomeAt(v, {"deleteObject", "saveUpdate", "deleteRow"} \cup Settling)'
    BY <1>2, <1>3 DEF SomeAt, At, IInv, RequestOK, Settling
  <2>2. QED
    BY <1>2, <1>4, <2>1 DEF CreateUpload, UploadOK, Pending, SomeAt, At, history, Settling
<1>10. QED
  BY <1>5, <1>6, <1>7, <1>8, <1>9, Focus

\* On PostgreSQL a row that is gone stays gone; in memory it is written again.
LEMMA UpdateRowFacts ==
  ASSUME TypeOK, NEW r \in Requests, NEW v \in Videos, v = req[r].video,
         NEW row \in Row, UpdateRow(r, row)
  PROVE  /\ rows' \in [Videos -> Row]
         /\ rows'[v] = IF Postgres /\ rows[v].status = "none" THEN rows[v] ELSE row
         /\ \A u \in Videos : u # v => rows'[u] = rows[u]
         /\ req' \in [Requests -> Request] /\ req'[r].video = v
         /\ req'[r].pc = IF Postgres /\ rows[v].status = "none" THEN "error" ELSE "ok"
         /\ \A q \in Requests : q # r => req'[q] = req[q]
<1>1. CASE Postgres /\ rows[v].status = "none"
  BY <1>1, GotoFacts DEF UpdateRow, TypeOK
<1>2. CASE ~(Postgres /\ rows[v].status = "none")
  BY <1>2, GotoFacts DEF UpdateRow, TypeOK
<1>3. QED
  BY <1>1, <1>2

LEMMA SaveUploadIdKeeps ==
  ASSUME IInv, NEW r \in Requests, SaveUploadId(r)
  PROVE  IInv'
<1>1. PICK v \in Videos : v = req[r].video
  BY Working DEF SaveUploadId, Busy
<1>2. /\ TypeOK /\ RequestOK(r) /\ VideoOK(v) /\ UploadOK(v)
      /\ v \in issued /\ v \notin known /\ Pending(v) /\ uploads[v] = "open"
      /\ v \notin stored /\ v \notin objects /\ v \notin acked
  BY <1>1, Working DEF SaveUploadId, RequestOK, VideoOK, Busy
<1>3. /\ rows' \in [Videos -> Row]
      /\ rows'[v] = [status |-> "pending", uploadId |-> TRUE]
      /\ \A u \in Videos : u # v => rows'[u] = rows[u]
      /\ req' \in [Requests -> Request] /\ req'[r].video = v /\ req'[r].pc = "ok"
      /\ \A q \in Requests : q # r => req'[q] = req[q]
  <2>1. [status |-> "pending", uploadId |-> TRUE] \in Row
    BY DEF Row
  <2>2. QED
    BY <1>1, <1>2, <2>1, UpdateRowFacts DEF SaveUploadId, Pending
<1>4. TypeOK'
  BY <1>1, <1>2, <1>3 DEF SaveUploadId, TypeOK, bucket
<1>5. Touches(v)
  BY <1>1, <1>2, <1>3 DEF SaveUploadId, Touches, TypeOK, bucket
<1>6. ASSUME NEW q \in Requests, req'[q].video = v PROVE RequestOK(q)'
  <2>1. CASE q = r
    BY <1>1, <1>2, <1>3, <2>1 DEF SaveUploadId, RequestOK, Settling
  <2>2. CASE q # r
    <3>1. req'[q] = req[q] /\ RequestOK(q) /\ req[q].pc \notin {"createUpload", "saveUploadId"}
      BY <1>1, <1>2, <1>3, <1>6, <2>2 DEF SaveUploadId, RequestOK, IInv, At
    <3>2. req[q].pc \notin {"finishUpload", "abortUpload", "deleteObject", "saveUpdate"} \cup Settling
      BY <1>2, <1>6, <3>1 DEF RequestOK
    <3>3. QED
      BY <1>2, <1>6, <3>1, <3>2 DEF SaveUploadId, RequestOK, Settling
  <2>3. QED
    BY <2>1, <2>2
<1>7. VideoOK(v)'
  <2>1. /\ v \in known' /\ v \in issued' /\ uploads'[v] = "open"
        /\ v \notin stored' /\ v \notin objects' /\ v \notin acked'
    BY <1>1, <1>2 DEF SaveUploadId, bucket
  <2>2. Pending(v)' /\ ~Ready(v)' /\ rows'[v].uploadId
    BY <1>3 DEF Pending, Ready
  <2>3. QED
    BY <2>1, <2>2 DEF VideoOK, IsMultipart
<1>8. UploadOK(v)'
  <2>1. ~SomeAt(v, {"deleteObject", "saveUpdate"} \cup Settling)'
    BY <1>2, <1>3 DEF SomeAt, At, UploadOK, Settling
  <2>2. QED
    BY <1>2, <1>3, <2>1 DEF SaveUploadId, UploadOK, VideoOK, Pending, bucket
<1>9. QED
  BY <1>4, <1>5, <1>6, <1>7, <1>8, Focus

LEMMA PutObjectKeeps ==
  ASSUME IInv, NEW v \in Videos, PutObject(v)
  PROVE  IInv'
<1>1. TypeOK /\ VideoOK(v) /\ UploadOK(v) /\ uploads[v] = "none" /\ v \in issued
  BY DEF IInv, PutObject, IsMultipart, TypeOK
<1>2. TypeOK'
  BY <1>1 DEF PutObject, TypeOK
<1>3. Touches(v)
  BY DEF PutObject, Touches
<1>4. ASSUME NEW q \in Requests, req'[q].video = v PROVE RequestOK(q)'
  <2>1. RequestOK(q) /\ req[q].video = v
    BY <1>4 DEF IInv, PutObject
  <2>2. QED
    BY <1>1, <2>1 DEF PutObject, RequestOK, Settling, At, IsMultipart, Pending
<1>5. VideoOK(v)'
  BY <1>1 DEF PutObject, VideoOK, Pending, Ready, IsMultipart
<1>6. UploadOK(v)'
  BY <1>1 DEF PutObject, UploadOK, IsMultipart, SomeAt, At
<1>7. QED
  BY <1>2, <1>3, <1>4, <1>5, <1>6, Focus

LEMMA PutPartsKeeps ==
  ASSUME IInv, NEW v \in Videos, PutParts(v)
  PROVE  IInv'
<1>1. TypeOK'
  BY DEF IInv, PutParts, TypeOK, history
<1>2. \A q \in Requests : RequestOK(q)'
  BY DEF IInv, PutParts, RequestOK, HalfRemoved, SomeAt, At, Pending, IsMultipart, history
<1>3. \A u \in Videos : VideoOK(u)' /\ UploadOK(u)'
  BY DEF IInv, PutParts, VideoOK, UploadOK, HalfRemoved, SomeAt, At, Pending, Ready,
         IsMultipart, history
<1>4. QED
  BY <1>1, <1>2, <1>3 DEF IInv

\* The first read of complete, abort, delete and update.
LEMMA FindKeeps ==
  ASSUME IInv, NEW r \in Requests, NEW v \in Videos, req[r].pc = "idle", v \in known,
         NEW l \in {"finishUpload", "abortUpload", "deleteObject", "saveUpdate", "error"},
         Begin(r, v, l), UNCHANGED <<rows, bucket, issued, known, stored, acked, cut>>,
         removing' = removing \/ removing' = removing \cup {v},
         l \in {"finishUpload", "abortUpload"} => Pending(v),
         l \in {"deleteObject", "saveUpdate"} => Ready(v),
         l = "abortUpload" /\ ~rows[v].uploadId => v \in removing',
         l = "deleteObject" => v \in removing'
  PROVE  IInv'
<1>1. TypeOK /\ VideoOK(v) /\ UploadOK(v) /\ v \in issued
  BY DEF IInv, TypeOK
<1>2. /\ req' \in [Requests -> Request] /\ req'[r].pc = l /\ req'[r].video = v
      /\ req'[r].uploadId = rows[v].uploadId
      /\ \A q \in Requests : q # r => req'[q] = req[q]
  BY <1>1, BeginFacts DEF Busy
<1>3. TypeOK'
  BY <1>1, <1>2 DEF TypeOK, bucket
<1>4. Touches(v)
  BY <1>1, <1>2 DEF Touches, bucket
<1>5. HalfRemoved(v) => HalfRemoved(v)'
  BY <1>2 DEF HalfRemoved, SomeAt, At
<1>6. ASSUME NEW q \in Requests, req'[q].video = v PROVE RequestOK(q)'
  <2>1. CASE q = r
    <3>1. l \in {"finishUpload", "abortUpload"} => req'[r].uploadId = IsMultipart(v)
      BY <1>1, <1>2 DEF VideoOK
    <3>2. l = "saveUpdate" =>
            /\ v \in stored /\ ~Pending(v)
            /\ Postgres /\ v \notin objects => HalfRemoved(v)'
      BY <1>1, <1>5 DEF VideoOK, Ready, Pending
    <3>3. l = "abortUpload" /\ ~IsMultipart(v) => v \in removing'
      BY <1>1 DEF VideoOK
    <3>4. QED
      BY <1>1, <1>2, <2>1, <3>1, <3>2, <3>3
      DEF RequestOK, Settling, IsMultipart, Pending, bucket
  <2>2. CASE q # r
    <3>1. req'[q] = req[q] /\ RequestOK(q)
      BY <1>2, <2>2 DEF IInv
    <3>2. \A p \in Requests : At(p, v, {"createUpload", "saveUploadId"})' =>
            At(p, v, {"createUpload", "saveUploadId"})
      BY <1>2 DEF At
    <3>3. QED
      BY <1>5, <1>6, <3>1, <3>2 DEF RequestOK, Settling, IsMultipart, Pending, bucket
  <2>3. QED
    BY <2>1, <2>2
<1>7. VideoOK(v)'
  BY <1>1, <1>5 DEF VideoOK, Pending, Ready, IsMultipart, bucket
<1>8. UploadOK(v)'
  <2>1. ASSUME NEW L \in SUBSET Busy, l \notin L PROVE SomeAt(v, L)' <=> SomeAt(v, L)
    BY <1>2, <2>1 DEF SomeAt, At, Busy
  <2>2. SomeAt(v, Settling)' <=> SomeAt(v, Settling)
    BY <2>1 DEF Settling, Busy
  <2>3. SomeAt(v, {"deleteRow"})' <=> SomeAt(v, {"deleteRow"})
    BY <2>1 DEF Busy
  <2>4. uploads[v] = "open" => ~SomeAt(v, {"deleteObject", "saveUpdate"} \cup Settling)'
    <3>1. CASE l \in {"deleteObject", "saveUpdate"}
      BY <1>1, <3>1 DEF UploadOK, Ready, Pending
    <3>2. CASE l \notin {"deleteObject", "saveUpdate"}
      BY <1>1, <2>1, <3>2 DEF UploadOK, Settling, Busy
    <3>3. QED
      BY <3>1, <3>2
  <2>5. QED
    BY <1>1, <2>2, <2>3, <2>4 DEF UploadOK, Pending, IsMultipart, bucket
<1>9. QED
  BY <1>3, <1>4, <1>6, <1>7, <1>8, Focus

LEMMA FindsKeep ==
  ASSUME IInv, NEW r \in Requests, NEW v \in Videos,
         CompleteFind(r, v) \/ AbortFind(r, v) \/ DeleteFind(r, v) \/ UpdateFind(r, v)
  PROVE  IInv'
<1>1. CASE CompleteFind(r, v)
  <2>1. PICK l \in {"finishUpload", "error"} :
          Begin(r, v, l) /\ (l = "finishUpload" => Pending(v))
    BY <1>1 DEF CompleteFind
  <2>2. QED
    BY <1>1, <2>1, FindKeeps DEF CompleteFind, history
<1>2. CASE AbortFind(r, v)
  <2>1. PICK l \in {"abortUpload", "error"} :
          Begin(r, v, l) /\ (l = "abortUpload" => Pending(v))
    BY <1>2 DEF AbortFind
  <2>2. l = "abortUpload" /\ ~rows[v].uploadId => v \in removing'
    BY <1>2, <2>1 DEF AbortFind
  <2>3. removing' = removing \/ removing' = removing \cup {v}
    BY <1>2 DEF AbortFind
  <2>4. QED
    BY <1>2, <2>1, <2>2, <2>3, FindKeeps DEF AbortFind
<1>3. CASE DeleteFind(r, v)
  <2>1. PICK l \in {"deleteObject", "error"} :
          Begin(r, v, l) /\ (l = "deleteObject" => Ready(v))
    BY <1>3 DEF DeleteFind
  <2>2. l = "deleteObject" => v \in removing'
    BY <1>3, <2>1 DEF DeleteFind
  <2>3. removing' = removing \/ removing' = removing \cup {v}
    BY <1>3 DEF DeleteFind
  <2>4. QED
    BY <1>3, <2>1, <2>2, <2>3, FindKeeps DEF DeleteFind
<1>4. CASE UpdateFind(r, v)
  <2>1. PICK l \in {"saveUpdate", "error"} :
          Begin(r, v, l) /\ (l = "saveUpdate" => Ready(v))
    BY <1>4 DEF UpdateFind
  <2>2. QED
    BY <1>4, <2>1, FindKeeps DEF UpdateFind, history
<1>5. QED
  BY <1>1, <1>2, <1>3, <1>4

\* A call that only reads, and sends small files on to their next call.
LEMMA MoveKeeps ==
  ASSUME IInv, NEW r \in Requests, NEW v \in Videos, v = req[r].video,
         req[r].pc \in {"finishUpload", "abortUpload"},
         NEW l \in {"saveReady", "deleteObject", "deleteRow", "error"},
         Goto(r, l), UNCHANGED <<rows, bucket, history>>,
         l # "error" => ~req[r].uploadId,
         l = "saveReady" => v \in objects,
         l \in {"deleteObject", "deleteRow"} => v \in removing
  PROVE  IInv'
<1>1. /\ TypeOK /\ RequestOK(r) /\ VideoOK(v) /\ UploadOK(v)
      /\ req[r].uploadId = IsMultipart(v) /\ v \in known /\ v \in issued
  BY Working DEF Busy, RequestOK
<1>2. /\ req' \in [Requests -> Request] /\ req'[r].pc = l /\ req'[r].video = v
      /\ \A q \in Requests : q # r => req'[q] = req[q]
  BY <1>1, GotoFacts DEF Busy
<1>3. TypeOK'
  BY <1>1, <1>2 DEF TypeOK, bucket, history
<1>4. Touches(v)
  BY <1>1, <1>2 DEF Touches, bucket, history
<1>5. HalfRemoved(v) => HalfRemoved(v)'
  BY <1>2 DEF HalfRemoved, SomeAt, At, history
<1>6. ASSUME NEW q \in Requests, req'[q].video = v PROVE RequestOK(q)'
  <2>1. CASE q = r
    BY <1>1, <1>2, <2>1 DEF RequestOK, VideoOK, Settling, IsMultipart, bucket, history
  <2>2. CASE q # r
    <3>1. req'[q] = req[q] /\ RequestOK(q)
      BY <1>2, <2>2 DEF IInv
    <3>2. \A p \in Requests : At(p, v, {"createUpload", "saveUploadId"})' =>
            At(p, v, {"createUpload", "saveUploadId"})
      BY <1>2 DEF At
    <3>3. QED
      BY <1>5, <1>6, <3>1, <3>2 DEF RequestOK, Settling, IsMultipart, Pending, bucket, history
  <2>3. QED
    BY <2>1, <2>2
<1>7. VideoOK(v)'
  BY <1>1, <1>5 DEF VideoOK, Pending, Ready, IsMultipart, bucket, history
<1>8. UploadOK(v)'
  <2>1. CASE l = "error"
    <3>1. ASSUME NEW L \in SUBSET Busy, L \cap {"finishUpload", "abortUpload"} = {}
          PROVE  SomeAt(v, L)' <=> SomeAt(v, L)
      BY <1>2, <2>1, <3>1 DEF SomeAt, At, Busy
    <3>2. /\ SomeAt(v, {"deleteRow"})' <=> SomeAt(v, {"deleteRow"})
          /\ SomeAt(v, Settling)' <=> SomeAt(v, Settling)
          /\ SomeAt(v, {"deleteObject", "saveUpdate"} \cup Settling)'
               <=> SomeAt(v, {"deleteObject", "saveUpdate"} \cup Settling)
      BY <3>1 DEF Settling, Busy
    <3>3. QED
      BY <1>1, <3>2 DEF UploadOK, Pending, IsMultipart, bucket, history
  <2>2. CASE l # "error"
    BY <1>1, <2>2 DEF UploadOK, IsMultipart, bucket, history
  <2>3. QED
    BY <2>1, <2>2
<1>9. QED
  BY <1>3, <1>4, <1>6, <1>7, <1>8, Focus

LEMMA FinishUploadKeeps ==
  ASSUME IInv, NEW r \in Requests, FinishUpload(r)
  PROVE  IInv'
<1>1. PICK v \in Videos : v = req[r].video
  BY Working DEF FinishUpload, Busy
<1>2. /\ TypeOK /\ RequestOK(r) /\ VideoOK(v) /\ UploadOK(v)
      /\ req[r].uploadId = IsMultipart(v) /\ v \in known /\ v \in issued
      /\ req[r].pc = "finishUpload"
  BY <1>1, Working DEF FinishUpload, RequestOK, Busy
<1>3. CASE ~(req[r].uploadId /\ uploads[v] = "open" /\ v \in parts)
  <2>1. PICK l \in {"saveReady", "error"} :
          /\ Goto(r, l) /\ (l = "saveReady" => v \in objects /\ ~req[r].uploadId)
    BY <1>1, <1>2, <1>3 DEF FinishUpload
  <2>2. UNCHANGED <<rows, bucket, history>>
    BY <1>1, <1>3 DEF FinishUpload, bucket, history
  <2>3. QED
    BY <1>1, <1>2, <2>1, <2>2, MoveKeeps
<1>4. CASE req[r].uploadId /\ uploads[v] = "open" /\ v \in parts
  <2>1. /\ uploads' = [uploads EXCEPT ![v] = "closed"]
        /\ objects' = objects \cup {v} /\ stored' = stored \cup {v}
        /\ Goto(r, "saveReady")
        /\ UNCHANGED <<rows, parts, issued, known, acked, removing, cut>>
    BY <1>1, <1>4 DEF FinishUpload
  <2>2. /\ req' \in [Requests -> Request] /\ req'[r].pc = "saveReady" /\ req'[r].video = v
        /\ \A q \in Requests : q # r => req'[q] = req[q]
    BY <1>1, <1>2, <2>1, GotoFacts DEF Busy, Settling
  <2>3. /\ uploads'[v] = "closed" /\ v \in objects' /\ v \in stored'
        /\ uploads' \in [Videos -> {"none", "open", "closed"}]
    BY <1>2, <2>1 DEF TypeOK
  <2>4. TypeOK'
    BY <1>2, <2>1, <2>2, <2>3 DEF TypeOK
  <2>5. Touches(v)
    BY <1>1, <1>2, <2>1, <2>2 DEF Touches, TypeOK
  <2>6. ~SomeAt(v, {"deleteObject", "saveUpdate"} \cup Settling) /\ Pending(v)
    BY <1>2, <1>4 DEF UploadOK
  <2>7. ASSUME NEW q \in Requests, req'[q].video = v PROVE RequestOK(q)'
    <3>1. CASE q = r
      BY <1>2, <2>1, <2>2, <2>3, <3>1 DEF RequestOK, Settling
    <3>2. CASE q # r
      <4>1. /\ req'[q] = req[q] /\ RequestOK(q)
            /\ req[q].pc \notin {"deleteObject", "saveUpdate"} \cup Settling
        BY <2>2, <2>6, <2>7, <3>2 DEF IInv, SomeAt, At
      <4>2. req[q].pc \notin {"createUpload", "saveUploadId"}
        BY <1>2, <2>7, <4>1 DEF RequestOK
      <4>3. QED
        BY <1>4, <2>1, <2>3, <2>7, <4>1, <4>2 DEF RequestOK, Settling, IsMultipart
    <3>3. QED
      BY <3>1, <3>2
  <2>8. VideoOK(v)'
    BY <1>2, <2>1, <2>3, <2>6, <1>4 DEF VideoOK, Pending, Ready, IsMultipart
  <2>9. UploadOK(v)'
    <3>1. ~SomeAt(v, {"deleteRow"})'
      BY <2>2, <2>6 DEF SomeAt, At, Settling
    <3>2. SomeAt(v, Settling)'
      BY <2>2 DEF SomeAt, At, Settling
    <3>3. QED
      BY <2>1, <2>3, <2>6, <3>1, <3>2 DEF UploadOK, Pending, IsMultipart
  <2>10. QED
    BY <2>4, <2>5, <2>7, <2>8, <2>9, Focus
<1>5. QED
  BY <1>3, <1>4

LEMMA AbortUploadKeeps ==
  ASSUME IInv, NEW r \in Requests, AbortUpload(r)
  PROVE  IInv'
<1>1. PICK v \in Videos : v = req[r].video
  BY Working DEF AbortUpload, Busy
<1>2. /\ TypeOK /\ RequestOK(r) /\ VideoOK(v) /\ UploadOK(v)
      /\ req[r].uploadId = IsMultipart(v) /\ v \in known /\ v \in issued
      /\ req[r].pc = "abortUpload"
  BY <1>1, Working DEF AbortUpload, RequestOK, Busy
<1>3. CASE ~(req[r].uploadId /\ uploads[v] = "open")
  <2>1. PICK l \in {"deleteObject", "deleteRow", "error"} :
          Goto(r, l) /\ (l # "error" => ~req[r].uploadId)
    BY <1>1, <1>2, <1>3 DEF AbortUpload
  <2>2. UNCHANGED <<rows, bucket, history>>
    BY <1>1, <1>3 DEF AbortUpload, bucket
  <2>3. l \in {"deleteObject", "deleteRow"} => v \in removing
    BY <1>1, <1>2, <2>1 DEF RequestOK
  <2>4. QED
    BY <1>1, <1>2, <2>1, <2>2, <2>3, MoveKeeps
<1>4. CASE req[r].uploadId /\ uploads[v] = "open"
  <2>1. /\ uploads' = [uploads EXCEPT ![v] = "closed"] /\ parts' = parts \ {v}
        /\ Goto(r, "deleteRow") /\ UNCHANGED <<rows, objects, history>>
    BY <1>1, <1>4 DEF AbortUpload
  <2>2. /\ req' \in [Requests -> Request] /\ req'[r].pc = "deleteRow" /\ req'[r].video = v
        /\ \A q \in Requests : q # r => req'[q] = req[q]
    BY <1>1, <1>2, <2>1, GotoFacts DEF Busy, Settling
  <2>3. uploads'[v] = "closed" /\ uploads' \in [Videos -> {"none", "open", "closed"}]
    BY <1>2, <2>1 DEF TypeOK
  <2>4. TypeOK'
    BY <1>2, <2>1, <2>2, <2>3 DEF TypeOK, history
  <2>5. Touches(v)
    BY <1>1, <1>2, <2>1, <2>2 DEF Touches, TypeOK, history
  <2>6. /\ ~SomeAt(v, {"deleteObject", "saveUpdate"} \cup Settling) /\ Pending(v)
        /\ v \notin stored /\ v \notin objects
    BY <1>2, <1>4 DEF UploadOK, VideoOK
  <2>7. ASSUME NEW q \in Requests, req'[q].video = v PROVE RequestOK(q)'
    <3>1. CASE q = r
      BY <1>2, <2>1, <2>2, <2>3, <2>6, <3>1 DEF RequestOK, Settling, history, IsMultipart
    <3>2. CASE q # r
      <4>1. /\ req'[q] = req[q] /\ RequestOK(q)
            /\ req[q].pc \notin {"deleteObject", "saveUpdate"} \cup Settling
        BY <2>2, <2>6, <2>7, <3>2 DEF IInv, SomeAt, At
      <4>2. req[q].pc \notin {"createUpload", "saveUploadId"}
        BY <1>2, <2>7, <4>1 DEF RequestOK
      <4>3. QED
        BY <1>4, <2>1, <2>3, <2>7, <4>1, <4>2 DEF RequestOK, Settling, IsMultipart, history
    <3>3. QED
      BY <3>1, <3>2
  <2>8. VideoOK(v)'
    BY <1>2, <2>1, <2>3, <2>6, <1>4 DEF VideoOK, Pending, Ready, IsMultipart, history
  <2>9. UploadOK(v)'
    <3>1. SomeAt(v, Settling)'
      BY <2>2 DEF SomeAt, At, Settling
    <3>2. QED
      BY <2>1, <2>3, <2>6, <3>1 DEF UploadOK, Pending, IsMultipart, history
  <2>10. QED
    BY <2>4, <2>5, <2>7, <2>8, <2>9, Focus
<1>5. QED
  BY <1>3, <1>4

\* complete and update write a row whose object is there or half removed, or, in
\* memory, one that is gone.
LEMMA SaveKeeps ==
  ASSUME IInv, NEW r \in Requests, SaveReady(r) \/ SaveUpdate(r)
  PROVE  IInv'
<1>1. PICK v \in Videos : v = req[r].video
  BY Working DEF SaveReady, SaveUpdate, Busy
<1>2. /\ TypeOK /\ RequestOK(r) /\ VideoOK(v) /\ UploadOK(v)
      /\ v \in known /\ v \in issued /\ v \in stored
      /\ req[r].pc \in {"saveReady", "saveUpdate"}
      /\ Postgres /\ rows[v].status # "none" /\ v \notin objects => HalfRemoved(v)
  BY <1>1, Working DEF SaveReady, SaveUpdate, RequestOK, Busy, Settling
<1>3. /\ rows' \in [Videos -> Row]
      /\ rows'[v] = IF Postgres /\ rows[v].status = "none" THEN rows[v]
                    ELSE [status |-> "ready", uploadId |-> FALSE]
      /\ \A u \in Videos : u # v => rows'[u] = rows[u]
      /\ req' \in [Requests -> Request] /\ req'[r].video = v
      /\ req'[r].pc = IF Postgres /\ rows[v].status = "none" THEN "error" ELSE "ok"
      /\ \A q \in Requests : q # r => req'[q] = req[q]
  <2>1. [status |-> "ready", uploadId |-> FALSE] \in Row
    BY DEF Row
  <2>2. UpdateRow(r, [status |-> "ready", uploadId |-> FALSE])
    BY DEF SaveReady, SaveUpdate
  <2>3. QED
    BY <1>1, <1>2, <2>1, <2>2, UpdateRowFacts
<1>4. /\ UNCHANGED <<bucket, issued, known, stored, removing, cut>>
      /\ acked' = acked \/ (/\ acked' = acked \cup {v} /\ req[r].pc = "saveReady"
                            /\ ~(Postgres /\ rows[v].status = "none"))
  BY <1>1, <1>2, <1>3 DEF SaveReady, SaveUpdate, history
<1>5. TypeOK'
  BY <1>2, <1>3, <1>4 DEF TypeOK, bucket
<1>6. Touches(v)
  BY <1>1, <1>2, <1>3, <1>4 DEF Touches, bucket
<1>7. HalfRemoved(v) => HalfRemoved(v)'
  BY <1>2, <1>3, <1>4 DEF HalfRemoved, SomeAt, At
<1>8. uploads[v] # "open"
  BY <1>1, <1>2 DEF UploadOK, SomeAt, At, Settling
<1>9. ASSUME NEW q \in Requests, req'[q].video = v PROVE RequestOK(q)'
  <2>1. CASE q = r
    BY <1>2, <1>3, <1>4, <2>1 DEF RequestOK, Settling
  <2>2. CASE q # r
    <3>1. req'[q] = req[q] /\ RequestOK(q)
      BY <1>3, <2>2 DEF IInv
    <3>2. req[q].pc \notin {"createUpload", "saveUploadId"}
      BY <1>2, <1>9, <3>1 DEF RequestOK
    <3>3. Pending(v)' => Pending(v)
      BY <1>3 DEF Pending
    <3>4. Postgres /\ rows'[v].status # "none" => rows[v].status # "none"
      BY <1>3
    <3>5. QED
      BY <1>4, <1>7, <1>9, <3>1, <3>2, <3>3, <3>4
      DEF RequestOK, Settling, IsMultipart, bucket
  <2>3. QED
    BY <2>1, <2>2
<1>10. VideoOK(v)'
  <2>1. req[r].pc = "saveReady" /\ v \notin removing => v \in objects
    BY <1>1, <1>2 DEF RequestOK
  <2>2. CASE Postgres /\ rows[v].status = "none"
    BY <1>2, <1>3, <1>4, <1>7, <2>2 DEF VideoOK, Pending, Ready, IsMultipart, bucket
  <2>3. CASE ~(Postgres /\ rows[v].status = "none")
    <3>1. Ready(v)' /\ ~Pending(v)' /\ ~rows'[v].uploadId
      BY <1>3, <2>3 DEF Ready, Pending
    <3>2. v \in acked' \ removing' => v \in objects'
      BY <1>2, <1>4, <2>1 DEF VideoOK, bucket
    <3>3. Postgres /\ v \notin objects' => HalfRemoved(v)'
      BY <1>2, <1>4, <1>7, <2>3 DEF bucket
    <3>4. QED
      BY <1>2, <1>4, <3>1, <3>2, <3>3 DEF VideoOK, bucket
  <2>4. QED
    BY <2>2, <2>3
<1>11. UploadOK(v)'
  <2>1. ~Pending(v)'
    <3>1. rows[v].status = "none" => ~Pending(v)
      BY DEF Pending
    <3>2. QED
      BY <1>3 DEF Pending
  <2>2. SomeAt(v, {"deleteRow"})' => SomeAt(v, {"deleteRow"})
    BY <1>3 DEF SomeAt, At
  <2>3. rows[v].status # "none" => rows'[v].status # "none"
    BY <1>3
  <2>4. QED
    BY <1>2, <1>4, <1>8, <2>1, <2>2, <2>3 DEF UploadOK, IsMultipart, bucket
<1>12. QED
  BY <1>5, <1>6, <1>9, <1>10, <1>11, Focus

LEMMA DeleteObjectKeeps ==
  ASSUME IInv, NEW r \in Requests, DeleteObject(r)
  PROVE  IInv'
<1>1. PICK v \in Videos : v = req[r].video
  BY Working DEF DeleteObject, Busy
<1>2. /\ TypeOK /\ RequestOK(r) /\ VideoOK(v) /\ UploadOK(v)
      /\ v \in known /\ v \in issued /\ v \in removing
  BY <1>1, Working DEF DeleteObject, RequestOK, Busy
<1>3. /\ req' \in [Requests -> Request] /\ req'[r].pc = "deleteRow" /\ req'[r].video = v
      /\ \A q \in Requests : q # r => req'[q] = req[q]
  BY <1>1, <1>2, GotoFacts DEF DeleteObject, Busy
<1>4. TypeOK'
  BY <1>2, <1>3 DEF DeleteObject, TypeOK, history
<1>5. Touches(v)
  BY <1>1, <1>2, <1>3 DEF DeleteObject, Touches, TypeOK, history
<1>6. HalfRemoved(v)' /\ SomeAt(v, Settling)'
  BY <1>3 DEF HalfRemoved, SomeAt, At, Settling
<1>7. uploads[v] # "open"
  BY <1>1, <1>2 DEF DeleteObject, UploadOK, SomeAt, At
<1>8. ASSUME NEW q \in Requests, req'[q].video = v PROVE RequestOK(q)'
  <2>1. CASE q = r
    BY <1>2, <1>3, <2>1 DEF DeleteObject, RequestOK, Settling, history
  <2>2. CASE q # r
    <3>1. req'[q] = req[q] /\ RequestOK(q)
      BY <1>3, <2>2 DEF IInv
    <3>2. req[q].pc \notin {"createUpload", "saveUploadId"}
      BY <1>2, <1>8, <3>1 DEF RequestOK
    <3>3. QED
      BY <1>2, <1>6, <1>8, <3>1, <3>2
      DEF DeleteObject, RequestOK, Settling, IsMultipart, Pending, history
  <2>3. QED
    BY <2>1, <2>2
<1>9. VideoOK(v)'
  BY <1>1, <1>2, <1>6 DEF DeleteObject, VideoOK, Pending, Ready, IsMultipart, history
<1>10. UploadOK(v)'
  BY <1>1, <1>6, <1>7 DEF DeleteObject, UploadOK
<1>11. QED
  BY <1>4, <1>5, <1>8, <1>9, <1>10, Focus

LEMMA DeleteRowKeeps ==
  ASSUME IInv, NEW r \in Requests, DeleteRow(r)
  PROVE  IInv'
<1>1. PICK v \in Videos : v = req[r].video
  BY Working DEF DeleteRow, Busy, Settling
<1>2. /\ TypeOK /\ RequestOK(r) /\ VideoOK(v) /\ UploadOK(v)
      /\ v \in known /\ v \in issued /\ (v \in removing \/ v \notin stored)
  BY <1>1, Working DEF DeleteRow, RequestOK, Busy, Settling
<1>3. /\ req' \in [Requests -> Request] /\ req'[r].pc \in {"ok", "error"}
      /\ req'[r].video = v /\ \A q \in Requests : q # r => req'[q] = req[q]
  <2>1. PICK l \in {"ok", "error"} : Goto(r, l)
    BY DEF DeleteRow
  <2>2. QED
    BY <1>1, <1>2, <2>1, GotoFacts
<1>4. /\ rows' \in [Videos -> Row] /\ rows'[v] = NoRow
      /\ \A u \in Videos : u # v => rows'[u] = rows[u]
      /\ UNCHANGED <<bucket, history>>
  BY <1>1, <1>2 DEF DeleteRow, TypeOK, Row, NoRow
<1>5. TypeOK'
  BY <1>2, <1>3, <1>4 DEF TypeOK, bucket, history
<1>6. Touches(v)
  BY <1>1, <1>2, <1>3, <1>4 DEF Touches, bucket, history, DeleteRow
<1>7. uploads[v] # "open" /\ ~(IsMultipart(v) /\ v \in objects)
  BY <1>1, <1>2 DEF DeleteRow, UploadOK, SomeAt, At, Settling
<1>8. ASSUME NEW q \in Requests, req'[q].video = v PROVE RequestOK(q)'
  <2>1. CASE q = r
    BY <1>2, <1>3, <1>4, <2>1 DEF RequestOK, Settling, history
  <2>2. CASE q # r
    <3>1. req'[q] = req[q] /\ RequestOK(q)
      BY <1>3, <2>2 DEF IInv
    <3>2. req[q].pc \notin {"createUpload", "saveUploadId"}
      BY <1>2, <1>8, <3>1 DEF RequestOK
    <3>3. QED
      BY <1>4, <1>8, <3>1, <3>2
      DEF RequestOK, Settling, IsMultipart, Pending, bucket, history, NoRow
  <2>3. QED
    BY <2>1, <2>2
<1>9. VideoOK(v)'
  BY <1>2, <1>4 DEF VideoOK, Pending, Ready, IsMultipart, bucket, history, NoRow
<1>10. UploadOK(v)'
  BY <1>4, <1>7 DEF UploadOK, IsMultipart, Pending, bucket, NoRow
<1>11. QED
  BY <1>5, <1>6, <1>8, <1>9, <1>10, Focus

\* A request that died has nothing left to do; if it was settling a row, its
\* video is cut.
LEMMA FailKeeps ==
  ASSUME IInv, NEW r \in Requests, Fail(r)
  PROVE  IInv'
<1>1. PICK v \in Videos : v = req[r].video
  BY Working DEF Fail, Busy, IInv, TypeOK, Request, Settling
<1>2. /\ TypeOK /\ VideoOK(v) /\ UploadOK(v) /\ v \in issued
  BY <1>1, Working DEF Fail, RequestOK, Busy, IInv
<1>3. /\ req' \in [Requests -> Request] /\ req'[r].pc = "error" /\ req'[r].video = v
      /\ \A q \in Requests : q # r => req'[q] = req[q]
  BY <1>1, <1>2, GotoFacts DEF Fail
<1>4. /\ UNCHANGED <<rows, bucket, issued, known, stored, acked, removing>>
      /\ cut' = cut \/ cut' = cut \cup {v}
      /\ req[r].pc \in Settling => v \in cut'
  BY <1>1 DEF Fail
<1>5. TypeOK'
  BY <1>2, <1>3, <1>4 DEF TypeOK, bucket
<1>6. Touches(v)
  BY <1>1, <1>2, <1>3, <1>4 DEF Touches, bucket
<1>7. /\ HalfRemoved(v) => HalfRemoved(v)'
      /\ v \in cut \/ SomeAt(v, Settling) => v \in cut' \/ SomeAt(v, Settling)'
      /\ \A L \in SUBSET Busy : SomeAt(v, L)' => SomeAt(v, L)
  BY <1>2, <1>3, <1>4 DEF HalfRemoved, SomeAt, At, Settling, Busy
<1>8. ASSUME NEW q \in Requests, req'[q].video = v PROVE RequestOK(q)'
  <2>1. CASE q = r
    BY <1>2, <1>3, <1>4, <2>1 DEF RequestOK, Settling
  <2>2. CASE q # r
    <3>1. req'[q] = req[q] /\ RequestOK(q)
      BY <1>3, <2>2 DEF IInv
    <3>2. \A p \in Requests : At(p, v, {"createUpload", "saveUploadId"})' =>
            At(p, v, {"createUpload", "saveUploadId"})
      BY <1>3 DEF At
    <3>3. QED
      BY <1>4, <1>7, <1>8, <3>1, <3>2 DEF RequestOK, Settling, IsMultipart, Pending, bucket
  <2>3. QED
    BY <2>1, <2>2
<1>9. VideoOK(v)'
  BY <1>2, <1>4, <1>7 DEF VideoOK, Pending, Ready, IsMultipart, bucket
<1>10. UploadOK(v)'
  <2>1. /\ SomeAt(v, {"deleteRow"})' => SomeAt(v, {"deleteRow"})
        /\ SomeAt(v, {"deleteObject", "saveUpdate"} \cup Settling)'
             => SomeAt(v, {"deleteObject", "saveUpdate"} \cup Settling)
    BY <1>7 DEF Busy, Settling
  <2>2. QED
    BY <1>2, <1>4, <1>7, <2>1 DEF UploadOK, Pending, IsMultipart, bucket
<1>11. QED
  BY <1>5, <1>6, <1>8, <1>9, <1>10, Focus

LEMMA CloseKeeps ==
  ASSUME IInv, NEW r \in Requests, Close(r)
  PROVE  IInv'
<1>1. /\ req' \in [Requests -> Request] /\ req'[r] = NoRequest
      /\ \A q \in Requests : q # r => req'[q] = req[q]
  BY DEF Close, IInv, TypeOK, Request, NoRequest
<1>2. TypeOK'
  BY <1>1 DEF Close, IInv, TypeOK, bucket, history
<1>3. ASSUME NEW u, NEW L \in SUBSET Busy PROVE SomeAt(u, L)' <=> SomeAt(u, L)
  BY <1>1 DEF Close, SomeAt, At, NoRequest, Busy
<1>4. \A v \in Videos :
        /\ SomeAt(v, {"deleteRow"})' <=> SomeAt(v, {"deleteRow"})
        /\ SomeAt(v, Settling)' <=> SomeAt(v, Settling)
        /\ SomeAt(v, {"deleteObject", "saveUpdate"} \cup Settling)'
             <=> SomeAt(v, {"deleteObject", "saveUpdate"} \cup Settling)
  BY <1>3 DEF Busy, Settling
<1>5. \A v \in Videos : HalfRemoved(v)' <=> HalfRemoved(v)
  BY <1>4 DEF HalfRemoved, Close, history
<1>6. ASSUME NEW q \in Requests PROVE RequestOK(q)'
  <2>1. CASE q = r
    BY <1>1, <2>1 DEF RequestOK, NoRequest, Settling
  <2>2. CASE q # r /\ req[q].pc = "idle"
    BY <1>1, <2>2 DEF RequestOK, Settling
  <2>3. CASE q # r /\ req[q].pc # "idle"
    <3>1. req'[q] = req[q] /\ RequestOK(q)
      BY <1>1, <2>3 DEF IInv
    <3>2. PICK v \in Videos : v = req[q].video /\ v = req'[q].video
      BY <2>3, <3>1 DEF RequestOK, IInv, TypeOK
    <3>3. \A p \in Requests : At(p, v, {"createUpload", "saveUploadId"})' =>
            At(p, v, {"createUpload", "saveUploadId"})
      BY <1>1 DEF At, NoRequest
    <3>4. QED
      BY <1>5, <3>1, <3>2, <3>3
      DEF Close, RequestOK, Settling, IsMultipart, Pending, bucket, history
  <2>4. QED
    BY <2>1, <2>2, <2>3
<1>7. ASSUME NEW v \in Videos PROVE VideoOK(v)' /\ UploadOK(v)'
  <2>1. VideoOK(v) /\ UploadOK(v)
    BY DEF IInv
  <2>2. QED
    BY <1>4, <1>5, <2>1
    DEF Close, VideoOK, UploadOK, Pending, Ready, IsMultipart, bucket, history
<1>8. QED
  BY <1>2, <1>6, <1>7 DEF IInv

-----------------------------------------------------------------------------
(* The theorems.                                                           *)

LEMMA StepKeeps ==
  ASSUME IInv, [Next]_vars
  PROVE  IInv'
<1>1. ASSUME NEW r \in Requests, NEW v \in Videos,
             \/ InitiateSingle(r, v) \/ InitiateMultipart(r, v)
             \/ CompleteFind(r, v) \/ AbortFind(r, v) \/ DeleteFind(r, v) \/ UpdateFind(r, v)
      PROVE  IInv'
  BY <1>1, InitiateKeeps, FindsKeep
<1>2. ASSUME NEW v \in Videos, PutObject(v) \/ PutParts(v) PROVE IInv'
  BY <1>2, PutObjectKeeps, PutPartsKeeps
<1>3. ASSUME NEW r \in Requests, HandlerStep(r) PROVE IInv'
  BY <1>3, CreateUploadKeeps, SaveUploadIdKeeps, FinishUploadKeeps, SaveKeeps,
     AbortUploadKeeps, DeleteObjectKeeps, DeleteRowKeeps DEF HandlerStep
<1>4. ASSUME NEW r \in Requests, Fail(r) \/ Close(r) PROVE IInv'
  BY <1>4, FailKeeps, CloseKeeps
<1>5. CASE UNCHANGED vars
  <2>1. TypeOK'
    BY <1>5 DEF vars, IInv, TypeOK, bucket, history
  <2>2. \A r \in Requests : RequestOK(r)'
    BY <1>5 DEF vars, IInv, RequestOK, HalfRemoved, SomeAt, At, Pending, IsMultipart, history
  <2>3. \A v \in Videos : VideoOK(v)' /\ UploadOK(v)'
    BY <1>5 DEF vars, IInv, VideoOK, UploadOK, HalfRemoved, SomeAt, At, Pending, Ready,
                IsMultipart, history
  <2>4. QED
    BY <2>1, <2>2, <2>3 DEF IInv
<1>6. QED
  BY <1>1, <1>2, <1>3, <1>4, <1>5 DEF Next

\* The strengthened invariant.
THEOREM Inductive == Spec => []IInv
<1>1. Init => IInv
  BY InitOK
<1>2. IInv /\ [Next]_vars => IInv'
  BY StepKeeps
<1>3. QED
  BY <1>1, <1>2, PTL DEF Spec

\* Every reachable state is well typed.
THEOREM TypeCorrect == Spec => []TypeOK
<1>1. IInv => TypeOK
  BY DEF IInv
<1>2. QED
  BY <1>1, Inductive, PTL

\* However many completes, aborts, deletes and updates of a video overlap, it is
\* never left listed without its content, unless a request died half way.
THEOREM ReadyIsPlayable ==
  ASSUME Postgres
  PROVE  Spec => []ReadyHasObject
<1>1. IInv => ReadyHasObject
  BY DEF IInv, VideoOK, ReadyHasObject, HalfRemoved, SomeAt, At
<1>2. QED
  BY <1>1, Inductive, PTL

\* The object of a multipart upload always has a row that leads to it.
THEOREM NoMultipartOrphans == Spec => []MultipartNeverOrphaned
<1>1. IInv => MultipartNeverOrphaned
  BY DEF IInv, UploadOK, MultipartNeverOrphaned, TypeOK
<1>2. QED
  BY <1>1, Inductive, PTL

\* What a client was told is complete stays complete.
THEOREM AcknowledgedKept == Spec => []AckedKept
<1>1. IInv => AckedKept
  BY DEF IInv, VideoOK, AckedKept, TypeOK
<1>2. QED
  BY <1>1, Inductive, PTL

\* Without a death between bucket and table, no multipart upload gets stuck.
THEOREM UploadsSettle == Spec => []PendingCanBeSettled
<1>1. ASSUME IInv PROVE PendingCanBeSettled
  <2> SUFFICES ASSUME NEW v \in known, Pending(v), rows[v].uploadId, uploads[v] # "open"
               PROVE  v \in cut \/ SomeAt(v, Settling)
    BY DEF PendingCanBeSettled, SomeAt, At
  <2>1. v \in Videos /\ VideoOK(v) /\ UploadOK(v) /\ uploads[v] \in {"none", "open", "closed"}
    BY <1>1 DEF IInv, TypeOK
  <2>2. uploads[v] = "closed"
    BY <2>1 DEF VideoOK, IsMultipart
  <2>3. QED
    BY <2>1, <2>2 DEF UploadOK
<1>2. QED
  BY <1>1, Inductive, PTL

\* Nobody is cut off where no request fails.
LEMMA NobodyCut ==
  ASSUME ~Failures
  PROVE  Spec => [](cut = {})
<1>1. Init => cut = {}
  BY DEF Init
<1>2. cut = {} /\ [Next]_vars => (cut = {})'
  BY DEF Next, vars, history, HandlerStep, InitiateSingle, InitiateMultipart, CompleteFind,
         AbortFind, DeleteFind, UpdateFind, PutObject, PutParts, CreateUpload, SaveUploadId,
         FinishUpload, SaveReady, AbortUpload, DeleteObject, DeleteRow, SaveUpdate, Fail, Close
<1>3. QED
  BY <1>1, <1>2, PTL DEF Spec

\* As long as no request dies between two of its calls, the abort endpoint is
\* there for every pending multipart upload once nothing is in flight, whatever
\* the requests did before.  A death is the one thing that breaks the promise.
THEOREM AbortWorksUncut ==
  ASSUME ~Failures
  PROVE  Spec => []AbortEndpointWorks
<1>1. PendingCanBeSettled /\ cut = {} => AbortEndpointWorks
  BY DEF PendingCanBeSettled, AbortEndpointWorks, Settling
<1>2. QED
  BY <1>1, NobodyCut, UploadsSettle, PTL

\* On PostgreSQL no request, however late, brings the row of a deleted video
\* back: update throws where there is no row.  In memory it writes one.
THEOREM DeletedIsForEver ==
  ASSUME Postgres
  PROVE  Spec => DeletedStaysDeleted
<1>1. ASSUME IInv, NEW r \in Requests, NEW row \in Row, UpdateRow(r, row),
             req[r].video \in Videos, NEW v \in Videos, rows[v].status = "none"
      PROVE  rows'[v].status = "none"
  BY <1>1, UpdateRowFacts DEF IInv
<1>2. ASSUME IInv, [Next]_vars, NEW v \in issued, rows[v].status = "none"
      PROVE  rows'[v].status = "none"
  <2>1. v \in Videos /\ TypeOK
    BY <1>2 DEF IInv, TypeOK
  <2>2. ASSUME NEW r \in Requests, SaveUploadId(r) \/ SaveReady(r) \/ SaveUpdate(r)
        PROVE  rows'[v].status = "none"
    <3>1. req[r].video \in Videos
      BY <1>2, <2>2, Working DEF SaveUploadId, SaveReady, SaveUpdate, Busy
    <3>2. \E row \in Row : UpdateRow(r, row)
      BY <2>2 DEF SaveUploadId, SaveReady, SaveUpdate, Row
    <3>3. QED
      BY <1>1, <1>2, <2>1, <3>1, <3>2
  <2>3. ASSUME NEW r \in Requests, DeleteRow(r) PROVE rows'[v].status = "none"
    BY <1>2, <2>1, <2>3 DEF DeleteRow, TypeOK, NoRow
  <2>4. ASSUME NEW r \in Requests, NEW u \in Videos,
               InitiateSingle(r, u) \/ InitiateMultipart(r, u)
        PROVE  rows'[v].status = "none"
    BY <1>2, <2>1, <2>4 DEF InitiateSingle, InitiateMultipart, TypeOK
  <2>5. ASSUME rows' = rows PROVE rows'[v].status = "none"
    BY <1>2, <2>5
  <2>6. ASSUME NEW r \in Requests, NEW u \in Videos,
               \/ CompleteFind(r, u) \/ AbortFind(r, u) \/ DeleteFind(r, u) \/ UpdateFind(r, u)
        PROVE  rows' = rows
    BY <2>6 DEF CompleteFind, AbortFind, DeleteFind, UpdateFind
  <2>7. ASSUME NEW u \in Videos, PutObject(u) \/ PutParts(u) PROVE rows' = rows
    BY <2>7 DEF PutObject, PutParts
  <2>8. ASSUME NEW r \in Requests,
               \/ CreateUpload(r) \/ FinishUpload(r) \/ AbortUpload(r) \/ DeleteObject(r)
               \/ Fail(r) \/ Close(r)
        PROVE  rows' = rows
    BY <2>8 DEF CreateUpload, FinishUpload, AbortUpload, DeleteObject, Fail, Close
  <2>9. CASE UNCHANGED vars
    BY <2>5, <2>9 DEF vars
  <2>10. QED
    BY <1>2, <2>2, <2>3, <2>4, <2>5, <2>6, <2>7, <2>8, <2>9 DEF Next, HandlerStep
<1>3. IInv /\ [Next]_vars =>
        [\A v \in issued : rows[v].status = "none" => rows'[v].status = "none"]_vars
  BY <1>2
<1>4. QED
  BY <1>3, Inductive, PTL DEF Spec, DeletedStaysDeleted

-----------------------------------------------------------------------------
(* VideoUpload implements VideoLifecycle.                                  *)

Status == [v \in Videos |-> IF v \in issued /\ rows[v].status = "none"
                            THEN "gone" ELSE rows[v].status]

LEMMA InitMaps == Init => Lifecycle!Init
BY DEF Init, Lifecycle!Init, NoRow

\* A step whose row writes leave the status alone.
LEMMA StatusSame ==
  ASSUME TypeOK, issued' = issued,
         \A v \in Videos : rows'[v].status = rows[v].status
  PROVE  Status' = Status
BY DEF Status

\* A step that changes the status of one video.
LEMMA OnlyOneChanges ==
  ASSUME NEW v \in Videos, \A u \in Videos : u # v => Status'[u] = Status[u]
  PROVE  Status' = [Status EXCEPT ![v] = Status'[v]]
BY DEF Status

LEMMA StepMaps ==
  ASSUME IInv, Postgres, [Next]_vars
  PROVE  Lifecycle!Next \/ (Status' = Status /\ stored' = stored)
<1>1. ASSUME NEW r \in Requests, NEW v \in Videos, InitiateSingle(r, v) \/ InitiateMultipart(r, v)
      PROVE  Lifecycle!Next
  <2>1. /\ v \notin issued /\ issued' = issued \cup {v} /\ stored' = stored
        /\ rows' = [rows EXCEPT ![v] = [status |-> "pending", uploadId |-> FALSE]]
        /\ rows[v] = NoRow /\ rows \in [Videos -> Row]
    BY <1>1 DEF InitiateSingle, InitiateMultipart, IInv, VideoOK, TypeOK
  <2>2. Status[v] = "none" /\ Status' = [Status EXCEPT ![v] = "pending"]
    <3>1. /\ rows'[v].status = "pending" /\ v \in issued'
          /\ \A u \in Videos : u # v => rows'[u] = rows[u] /\ (u \in issued' <=> u \in issued)
      BY <2>1
    <3>2. Status[v] = "none" /\ Status'[v] = "pending"
      BY <2>1, <3>1 DEF Status, NoRow
    <3>3. \A u \in Videos : u # v => Status'[u] = Status[u]
      BY <3>1 DEF Status
    <3>4. QED
      BY <3>2, <3>3, OnlyOneChanges
  <2>3. Lifecycle!Announce(v)
    BY <2>1, <2>2 DEF Lifecycle!Announce, Status
  <2>4. QED
    BY <2>3 DEF Lifecycle!Next
<1>2. ASSUME NEW v \in Videos, v \in known, UNCHANGED <<rows, issued>>, stored' = stored \cup {v}
      PROVE  Lifecycle!Next
  <2>1. Status' = Status
    BY <1>2 DEF Status
  <2>2. Status[v] # "none"
    BY <1>2 DEF Status, IInv, TypeOK, VideoOK
  <2>3. Lifecycle!Store(v)
    BY <1>2, <2>1, <2>2 DEF Lifecycle!Store, Status
  <2>4. QED
    BY <2>3 DEF Lifecycle!Next
<1>3. ASSUME NEW v \in Videos, PutObject(v) PROVE Lifecycle!Next
  BY <1>2, <1>3 DEF PutObject
<1>4. ASSUME NEW r \in Requests, FinishUpload(r)
      PROVE  Lifecycle!Next \/ (Status' = Status /\ stored' = stored)
  <2>1. PICK v \in Videos : v = req[r].video /\ v \in known
    BY <1>4, Working DEF FinishUpload, Busy, RequestOK
  <2>2. UNCHANGED <<rows, issued>> /\ (stored' = stored \/ stored' = stored \cup {v})
    BY <1>4, <2>1 DEF FinishUpload
  <2>3. QED
    BY <1>2, <2>1, <2>2 DEF Status
<1>5. ASSUME NEW r \in Requests, SaveReady(r) \/ SaveUpdate(r)
      PROVE  Lifecycle!Next \/ (Status' = Status /\ stored' = stored)
  <2>1. PICK v \in Videos : v = req[r].video
    BY <1>5, Working DEF SaveReady, SaveUpdate, Busy
  <2>2. /\ TypeOK /\ RequestOK(r) /\ v \in issued /\ v \in stored
        /\ UNCHANGED <<issued, stored>>
    BY <1>5, <2>1, Working
    DEF SaveReady, SaveUpdate, RequestOK, Busy, history
  <2>3. /\ rows'[v] = IF rows[v].status = "none" THEN rows[v]
                      ELSE [status |-> "ready", uploadId |-> FALSE]
        /\ \A u \in Videos : u # v => rows'[u] = rows[u]
    <3>1. [status |-> "ready", uploadId |-> FALSE] \in Row
      BY DEF Row
    <3>2. UpdateRow(r, [status |-> "ready", uploadId |-> FALSE])
      BY <1>5 DEF SaveReady, SaveUpdate
    <3>3. QED
      BY <2>1, <2>2, <3>1, <3>2, UpdateRowFacts
  <2>4. CASE rows[v].status = "pending"
    <3>1. Status[v] = "pending" /\ Status' = [Status EXCEPT ![v] = "ready"]
      <4>1. rows'[v].status = "ready"
        BY <2>3, <2>4
      <4>2. Status[v] = "pending" /\ Status'[v] = "ready"
        BY <2>2, <2>4, <4>1 DEF Status
      <4>3. \A u \in Videos : u # v => Status'[u] = Status[u]
        BY <2>2, <2>3 DEF Status
      <4>4. QED
        BY <4>2, <4>3, OnlyOneChanges
    <3>2. Lifecycle!Publish(v)
      BY <2>2, <3>1 DEF Lifecycle!Publish, Status
    <3>3. QED
      BY <3>2 DEF Lifecycle!Next
  <2>5. CASE rows[v].status # "pending"
    <3>1. rows[v].status \in {"none", "ready"}
      BY <2>2, <2>5 DEF TypeOK, Row
    <3>2. QED
      BY <2>2, <2>3, <3>1, StatusSame
  <2>6. QED
    BY <2>4, <2>5
<1>6. ASSUME NEW r \in Requests, DeleteRow(r)
      PROVE  Lifecycle!Next \/ (Status' = Status /\ stored' = stored)
  <2>1. PICK v \in Videos : v = req[r].video
    BY <1>6, Working DEF DeleteRow, Busy
  <2>2. /\ TypeOK /\ v \in issued /\ rows' = [rows EXCEPT ![v] = NoRow]
        /\ UNCHANGED <<issued, stored>>
    BY <1>6, <2>1, Working DEF DeleteRow, RequestOK, Busy, history
  <2>3. CASE rows[v].status = "none"
    BY <2>2, <2>3, StatusSame DEF TypeOK, NoRow
  <2>4. CASE rows[v].status # "none"
    <3>1. Status[v] \in {"pending", "ready"} /\ Status' = [Status EXCEPT ![v] = "gone"]
      BY <2>2, <2>4 DEF Status, TypeOK, Row, NoRow
    <3>2. Lifecycle!Remove(v)
      BY <2>2, <3>1 DEF Lifecycle!Remove, Status
    <3>3. QED
      BY <3>2 DEF Lifecycle!Next
  <2>5. QED
    BY <2>3, <2>4
<1>7. ASSUME NEW r \in Requests, SaveUploadId(r)
      PROVE  Status' = Status /\ stored' = stored
  <2>1. PICK v \in Videos : v = req[r].video
    BY <1>7, Working DEF SaveUploadId, Busy
  <2>2. TypeOK /\ v \in issued /\ v \notin known /\ Pending(v)
    BY <1>7, <2>1, Working DEF SaveUploadId, RequestOK, VideoOK, Busy
  <2>3. /\ rows'[v] = [status |-> "pending", uploadId |-> TRUE]
        /\ \A u \in Videos : u # v => rows'[u] = rows[u]
    <3>1. [status |-> "pending", uploadId |-> TRUE] \in Row
      BY DEF Row
    <3>2. QED
      BY <1>7, <2>1, <2>2, <3>1, UpdateRowFacts DEF SaveUploadId, Pending
  <2>4. issued' = issued /\ stored' = stored
    BY <1>7 DEF SaveUploadId
  <2>5. QED
    BY <2>2, <2>3, <2>4, StatusSame DEF Pending
<1>8. ASSUME UNCHANGED <<rows, issued, stored>>
      PROVE  Status' = Status /\ stored' = stored
  BY <1>8 DEF Status
<1>9. ASSUME NEW r \in Requests, NEW v \in Videos,
             \/ CompleteFind(r, v) \/ AbortFind(r, v) \/ DeleteFind(r, v) \/ UpdateFind(r, v)
             \/ PutParts(v) \/ CreateUpload(r) \/ AbortUpload(r) \/ DeleteObject(r)
             \/ Fail(r) \/ Close(r)
      PROVE  UNCHANGED <<rows, issued, stored>>
  BY <1>9 DEF CompleteFind, AbortFind, DeleteFind, UpdateFind, PutParts, CreateUpload,
              AbortUpload, DeleteObject, Fail, Close, history
<1>10. ASSUME NEW r \in Requests, CreateUpload(r) \/ AbortUpload(r) \/ DeleteObject(r)
                                  \/ Fail(r) \/ Close(r)
       PROVE  UNCHANGED <<rows, issued, stored>>
  BY <1>10 DEF CreateUpload, AbortUpload, DeleteObject, Fail, Close, history
<1>11. ASSUME NEW v \in Videos, PutParts(v) PROVE UNCHANGED <<rows, issued, stored>>
  BY <1>11 DEF PutParts, history
<1>12. CASE UNCHANGED vars
  BY <1>8, <1>12 DEF vars, history
<1>13. QED
  BY <1>1, <1>3, <1>4, <1>5, <1>6, <1>7, <1>8, <1>9, <1>10, <1>11, <1>12
  DEF Next, HandlerStep

\* A video is announced, published only with its content stored, and removed, in
\* that order and each at most once.
THEOREM Implements ==
  ASSUME Postgres
  PROVE  Spec => ImplementsLifecycle
<1>1. IInv /\ [Next]_vars => [Lifecycle!Next]_Lifecycle!lifecycleVars
  BY StepMaps DEF Lifecycle!lifecycleVars, Status
<1>2. QED
  BY <1>1, InitMaps, Inductive, PTL DEF Spec, ImplementsLifecycle, Lifecycle!Spec
=============================================================================
