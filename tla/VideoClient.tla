----------------------------- MODULE VideoClient -----------------------------
(***************************************************************************)
(* The videos on the screen of the desktop client: VideoUploader,          *)
(* VideoList and VideoService, under the sessions of ClientSession and     *)
(* against a backend that behaves like VideoLifecycle.                     *)
(*                                                                         *)
(* Every fetch is a request that may fail, or be carried out although its  *)
(* answer never comes.  The components live as long as one sign-in; calls  *)
(* they started outlive them, with the token read at their start.          *)
(*                                                                         *)
(* Simplifications:                                                        *)
(*  - Tokens are never issued twice, so the token tells which sign-in a    *)
(*    call belongs to, and by[v] which upload a video comes from.          *)
(*  - The handlers of VideosService are the atomic steps of                *)
(*    VideoLifecycle, which VideoUpload is shown to implement.  A handler  *)
(*    may fail for reasons of its own.                                     *)
(*  - The user deletes a video once at a time.                             *)
(***************************************************************************)
EXTENDS ClientSession

CONSTANTS
  Videos,  \* the video ids crypto.randomUUID can return
  Loads    \* list requests under way at a time

ASSUME VideosAssumption == None \notin Videos

VARIABLES
  status,  \* backend: where each video is in its life
  stored,  \* the videos whose content has been in the bucket
  by,      \* backend: the session that announced each video
  upload,  \* the upload of each sign-in
  loads,   \* the list requests under way
  dels,    \* the delete requests under way
  shown,   \* VideoList: the videos on the screen
  busy,    \* VideoList: the refresh button is disabled
  late,    \* requests still on their way to the backend, given up by the client
  left,    \* history: the videos the client could not learn of or abort
  blind    \* history: the videos whose complete was not answered

videoVars == <<status, stored, by>>
screenVars == <<loads, shown, busy>>
historyVars == <<left, blind>>
clientVars == <<videoVars, upload, screenVars, dels, late, historyVars>>
vars == <<sessionVars, clientVars>>

Life == INSTANCE VideoLifecycle

NoUpload == [pc |-> "idle", video |-> None]
NoCall == [pc |-> "idle", token |-> None]
NoLoad == [pc |-> "idle", token |-> None, videos |-> {}]

Running == {"initiate", "parts", "put", "complete", "abort"}

TypeOK ==
  /\ SessionTypeOK
  /\ status \in [Videos -> {"none", "pending", "ready", "gone"}]
  /\ stored \subseteq Videos
  /\ by \in [Videos -> Tokens \cup {None}]
  /\ upload \in [Tokens -> [pc: Running \cup {"idle", "done", "failed"},
                            video: Videos \cup {None}]]
  /\ \A t \in Tokens : upload[t].pc \in Running \ {"initiate"} => upload[t].video # None
  /\ loads \in [Loads -> [pc: {"idle", "sent", "answered"}, token: Tokens \cup {None},
                          videos: SUBSET Videos]]
  /\ dels \in [Videos -> [pc: {"idle", "sent", "answered"}, token: Tokens \cup {None}]]
  /\ shown \subseteq Videos /\ busy \in BOOLEAN
  /\ late \subseteq {"complete", "abort"} \X Videos
  /\ left \subseteq Videos /\ blind \subseteq Videos

Init ==
  /\ SessionInit
  /\ Life!Init
  /\ by = [v \in Videos |-> None]
  /\ upload = [t \in Tokens |-> NoUpload]
  /\ loads = [l \in Loads |-> NoLoad]
  /\ dels = [v \in Videos |-> NoCall]
  /\ shown = {} /\ busy = FALSE
  /\ late = {} /\ left = {} /\ blind = {}

Owned(v, t) == by[v] # None /\ issued[by[v]] = issued[t]

\* VideoList.load with the current token.
BeginLoad(t) ==
  /\ busy' = TRUE
  /\ \E l \in Loads :
       /\ loads[l].pc = "idle"
       /\ loads' = [loads EXCEPT ![l] = [pc |-> "sent", token |-> t, videos |-> {}]]

-----------------------------------------------------------------------------
(* Signing in mounts the components, which load the list; signing out      *)
(* unmounts them.                                                          *)

SignIn ==
  /\ ReadPage
  /\ IF page = None THEN UNCHANGED <<loads, busy>> ELSE BeginLoad(page)
  /\ UNCHANGED <<videoVars, upload, shown, dels, late, historyVars>>

SignOut(l) ==
  /\ FinishLogout(l)
  /\ shown' = {} /\ busy' = FALSE
  /\ UNCHANGED <<videoVars, upload, loads, dels, late, historyVars>>

SessionStep ==
  /\ \/ Login \/ RefuseCallback \/ FinishLoad \/ CloseWindow
     \/ \E t \in Tokens, i \in Identities : Callback(t, i)
     \/ \E l \in Logouts : Logout(l) \/ Revoke(l)
     \/ \E t \in Tokens : Expire(t)
  /\ UNCHANGED clientVars

\* The application stops in the middle of everything it was doing.
Restart ==
  /\ RestartSession
  /\ left' = left \cup {upload[t].video : t \in {u \in Tokens : upload[u].pc \in Running \ {"initiate"}}}
  /\ late' = late \cup {<<upload[t].pc, upload[t].video>> :
                          t \in {u \in Tokens : upload[u].pc \in {"complete", "abort"}}}
  /\ upload' = [t \in Tokens |-> NoUpload]
  /\ loads' = [l \in Loads |-> NoLoad]
  /\ dels' = [v \in Videos |-> NoCall]
  /\ shown' = {} /\ busy' = FALSE
  /\ UNCHANGED <<videoVars, blind>>

-----------------------------------------------------------------------------
(* Uploading.                                                              *)

Goto(t, label) == upload' = [upload EXCEPT ![t].pc = label]

\* VideoUploader offers its button while no upload is under way.
CanUpload == held # None /\ upload[held].pc \notin Running

StartUpload ==
  /\ CanUpload
  /\ upload' = [upload EXCEPT ![held] = [pc |-> "initiate", video |-> None]]
  /\ UNCHANGED <<sessionVars, videoVars, screenVars, dels, late, historyVars>>

\* Mutant of FailInitiate: initiate is inside the try block.
FailInitiateInTry(t) ==
  /\ upload[t].pc = "initiate"
  /\ Goto(t, "abort")
  /\ UNCHANGED <<sessionVars, videoVars, screenVars, dels, late, historyVars>>

\* A failed initiate leaves upload() before the try block: nothing is aborted.
FailInitiate(t) ==
  /\ upload[t].pc = "initiate"
  /\ Goto(t, "failed")
  /\ UNCHANGED <<sessionVars, videoVars, screenVars, dels, late, historyVars>>

\* The backend announces the video; its answer may be lost.
Initiate(t, v) ==
  /\ upload[t].pc = "initiate" /\ t \in alive
  /\ Life!Announce(v)
  /\ by' = [by EXCEPT ![v] = t]
  /\ \/ /\ \E next \in {"parts", "put"} :
             upload' = [upload EXCEPT ![t] = [pc |-> next, video |-> v]]
        /\ UNCHANGED left
     \/ Goto(t, "failed") /\ left' = left \cup {v}
  /\ UNCHANGED <<sessionVars, screenVars, dels, late, blind>>

\* Mutant of GetPartUrls: the error is not caught, and the upload not aborted.
GetPartUrlsOutsideTry(t) ==
  /\ upload[t].pc = "parts"
  /\ \E next \in {"put", "failed"} : Goto(t, next) /\ (next = "put" => t \in alive)
  /\ UNCHANGED <<sessionVars, videoVars, screenVars, dels, late, historyVars>>

\* A big file needs signed URLs for its parts.
GetPartUrls(t) ==
  /\ upload[t].pc = "parts"
  /\ \E next \in {"put", "abort"} : Goto(t, next) /\ (next = "put" => t \in alive)
  /\ UNCHANGED <<sessionVars, videoVars, screenVars, dels, late, historyVars>>

\* The content goes to the bucket, and the bucket's answer to the client.
Put(t) ==
  /\ upload[t].pc = "put"
  /\ \/ Life!Store(upload[t].video) /\ (Goto(t, "complete") \/ Goto(t, "abort"))
     \/ Goto(t, "abort") /\ UNCHANGED <<status, stored>>
  /\ UNCHANGED <<sessionVars, by, screenVars, dels, late, historyVars>>

\* Mutant of Complete: the answer of the backend is not awaited.
CompleteUnawaited(t) ==
  LET v == upload[t].video IN
  /\ upload[t].pc = "complete"
  /\ \/ t \in alive /\ Life!Publish(v)
     \/ UNCHANGED <<status, stored>>
  /\ Goto(t, "done")
  /\ UNCHANGED <<sessionVars, by, screenVars, dels, late, historyVars>>

\* The answered complete ends the upload and has the list loaded again, by the
\* component that is on the screen by now.
Complete(t) ==
  /\ upload[t].pc = "complete" /\ t \in alive
  /\ Life!Publish(upload[t].video)
  /\ Goto(t, "done")
  /\ IF held = None THEN UNCHANGED <<loads, busy>> ELSE BeginLoad(held)
  /\ UNCHANGED <<sessionVars, by, shown, dels, late, historyVars>>

\* The complete is refused, or remains unanswered: the video is published, or
\* will be when the request arrives.
FailComplete(t) ==
  LET v == upload[t].video IN
  /\ upload[t].pc = "complete"
  /\ \/ UNCHANGED <<status, stored, late, blind>>
     \/ blind' = blind \cup {v} /\ late' = late \cup {<<"complete", v>>}
        /\ UNCHANGED <<status, stored>>
     \/ t \in alive /\ Life!Publish(v) /\ blind' = blind \cup {v} /\ UNCHANGED late
  /\ Goto(t, "abort")
  /\ UNCHANGED <<sessionVars, by, screenVars, dels, left>>

\* Whatever becomes of the abort is ignored.
Abort(t) ==
  LET v == upload[t].video IN
  /\ upload[t].pc = "abort"
  /\ \/ t \in alive /\ status[v] = "pending" /\ Life!Remove(v) /\ UNCHANGED <<late, left>>
     \/ left' = left \cup {v} /\ UNCHANGED <<status, stored, late>>
     \/ left' = left \cup {v} /\ late' = late \cup {<<"abort", v>>} /\ UNCHANGED <<status, stored>>
  /\ Goto(t, "failed")
  /\ UNCHANGED <<sessionVars, by, screenVars, dels, blind>>

\* A request the client has given up is carried out after all.
ArriveLate(v) ==
  /\ by[v] \in alive
  /\ \/ <<"complete", v>> \in late /\ Life!Publish(v) /\ late' = late \ {<<"complete", v>>}
     \/ /\ <<"abort", v>> \in late /\ status[v] = "pending" /\ Life!Remove(v)
        /\ late' = late \ {<<"abort", v>>}
  /\ UNCHANGED <<sessionVars, by, upload, screenVars, dels, historyVars>>

-----------------------------------------------------------------------------
(* The list.                                                               *)

\* The refresh button.
Refresh ==
  /\ held # None /\ ~busy
  /\ BeginLoad(held)
  /\ UNCHANGED <<sessionVars, videoVars, upload, shown, dels, late, historyVars>>

ServeList(l) ==
  LET t == loads[l].token IN
  /\ loads[l].pc = "sent" /\ t \in alive
  /\ loads' = [loads EXCEPT ![l].pc = "answered",
                            ![l].videos = {v \in Videos : status[v] = "ready" /\ Owned(v, t)}]
  /\ UNCHANGED <<sessionVars, videoVars, upload, shown, busy, dels, late, historyVars>>

\* Mutant of EndLoad: the answer is shown whoever is signed in by now.
EndLoadAnyone(l) ==
  /\ loads[l].pc # "idle"
  /\ loads' = [loads EXCEPT ![l] = NoLoad]
  /\ shown' = IF loads[l].pc = "answered" /\ held # None THEN loads[l].videos ELSE shown
  /\ busy' = FALSE
  /\ UNCHANGED <<sessionVars, videoVars, upload, dels, late, historyVars>>

\* The answer, or the failure, of a list request reaches the component that sent
\* it, if that is still on the screen.
EndLoad(l) ==
  /\ loads[l].pc # "idle"
  /\ loads' = [loads EXCEPT ![l] = NoLoad]
  /\ IF loads[l].token = held
       THEN /\ busy' = FALSE
            /\ shown' = IF loads[l].pc = "answered" THEN loads[l].videos ELSE shown
       ELSE UNCHANGED <<shown, busy>>
  /\ UNCHANGED <<sessionVars, videoVars, upload, dels, late, historyVars>>

Delete(v) ==
  /\ v \in shown /\ dels[v].pc = "idle"
  /\ dels' = [dels EXCEPT ![v] = [pc |-> "sent", token |-> held]]
  /\ UNCHANGED <<sessionVars, videoVars, upload, screenVars, late, historyVars>>

ServeDelete(v) ==
  /\ dels[v].pc = "sent" /\ dels[v].token \in alive /\ Owned(v, dels[v].token)
  /\ status[v] = "ready" /\ Life!Remove(v)
  /\ dels' = [dels EXCEPT ![v].pc = "answered"]
  /\ UNCHANGED <<sessionVars, by, upload, screenVars, late, historyVars>>

\* Mutant of EndDelete: the row, taken off at the click, returns on an error.
EndDeleteRollback(v) ==
  /\ dels[v].pc # "idle"
  /\ dels' = [dels EXCEPT ![v] = NoCall]
  /\ IF dels[v].token = held /\ dels[v].pc # "answered"
       THEN shown' = shown \cup {v} ELSE shown' = shown \ {v}
  /\ UNCHANGED <<sessionVars, videoVars, upload, loads, busy, late, historyVars>>

\* The row goes off the screen when the deletion is confirmed.
EndDelete(v) ==
  /\ dels[v].pc # "idle"
  /\ dels' = [dels EXCEPT ![v] = NoCall]
  /\ \/ UNCHANGED shown
     \/ dels[v].pc = "answered" /\ dels[v].token = held /\ shown' = shown \ {v}
  /\ UNCHANGED <<sessionVars, videoVars, upload, loads, busy, late, historyVars>>

-----------------------------------------------------------------------------

Next ==
  \/ SignIn \/ SessionStep \/ Restart \/ StartUpload \/ Refresh
  \/ \E l \in Logouts : SignOut(l)
  \/ \E t \in Tokens : \/ FailInitiate(t) \/ GetPartUrls(t) \/ Put(t)
                       \/ Complete(t) \/ FailComplete(t) \/ Abort(t)
  \/ \E t \in Tokens, v \in Videos : Initiate(t, v)
  \/ \E l \in Loads : ServeList(l) \/ EndLoad(l)
  \/ \E v \in Videos : ArriveLate(v) \/ Delete(v) \/ ServeDelete(v) \/ EndDelete(v)

Spec == Init /\ [][Next]_vars

-----------------------------------------------------------------------------
(* Correctness.                                                            *)

\* Only videos of the user who is signed in are on the screen, however late the
\* answer to a list request of an earlier sign-in arrives.
ShowsOwnVideos == \A v \in shown : held # None /\ Owned(v, held)

\* What the uploader says of a video is true: "done" means that it was published,
\* and an error means that it was not, unless nobody answered the complete.
UploaderTellsTheTruth ==
  \A t \in Tokens : LET v == upload[t].video IN
    /\ upload[t].pc = "done" => status[v] \in {"ready", "gone"} /\ v \in stored
    /\ upload[t].pc = "failed" /\ v # None /\ status[v] = "ready" => v \in blind

\* upload() cleans up after itself: a video that is still pending is being
\* uploaded, or its announcement was not answered, its abort was not confirmed
\* or the application was closed.
LeftBehindForAReason ==
  \A v \in Videos : status[v] = "pending" =>
    v \in left \/ \E t \in Tokens : upload[t].video = v /\ upload[t].pc \in Running

\* v is gone, and neither on the screen nor in a list that is still to be shown.
OffScreen(v) == status[v] = "gone" /\ v \notin shown /\ \A l \in Loads : v \notin loads[l].videos

\* A deleted video that is off the screen stays off it, unless a list that the
\* backend read before the deletion is still to be shown.
DeletedStaysOffScreen == [][\A v \in Videos : OffScreen(v) => OffScreen(v)']_vars

-----------------------------------------------------------------------------
(* The inductive invariant.                                                *)

\* A video is announced with the session of one upload, and lists show videos of
\* the session they were asked with.
OwnerInv ==
  /\ \A v \in Videos : by[v] = None <=> status[v] = "none"
  /\ \A v \in Videos : by[v] # None => issued[by[v]] # None
  /\ \A l \in Loads : loads[l].pc # "idle" \/ loads[l].videos # {} => loads[l].token # None
  /\ \A l \in Loads : \A v \in loads[l].videos : Owned(v, loads[l].token)

\* An upload that was not told to complete is not published, and one that was is
\* aborted only if the answer did not come.
UploadInv ==
  \A t \in Tokens : LET v == upload[t].video IN
    /\ v # None => by[v] = t
    /\ upload[t].pc \in {"idle", "initiate"} => v = None
    /\ upload[t].pc = "done" => v # None
    /\ upload[t].pc \in {"parts", "put", "complete"} => status[v] # "ready"
    /\ upload[t].pc = "abort" /\ status[v] = "ready" => v \in blind

\* A complete still on its way belongs to an upload that does not know of it.
LateInv ==
  \A v \in Videos : <<"complete", v>> \in late =>
    /\ status[v] # "none"
    /\ \A t \in Tokens : upload[t].video = v => upload[t].pc \in {"abort", "failed"} /\ v \in blind

IInv ==
  /\ TypeOK /\ SessionInv /\ OwnerInv /\ UploadInv /\ LateInv
  /\ ShowsOwnVideos /\ UploaderTellsTheTruth /\ LeftBehindForAReason
=============================================================================
