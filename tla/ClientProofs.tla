----------------------------- MODULE ClientProofs -----------------------------
(***************************************************************************)
(* Proofs about VideoClient.  The session part of the invariant is shown   *)
(* by itself, for each action of ClientSession; the rest by parts, each    *)
(* for the actions that can disturb it.                                    *)
(***************************************************************************)
EXTENDS VideoClient, TLAPS

-----------------------------------------------------------------------------
(* The session.                                                            *)

LEMMA LoginKeeps ==
  ASSUME SessionInv, Login
  PROVE  SessionInv'
BY NoneAssumption DEF SessionInv, SessionTypeOK, SignInInv, IssuedInv, SignInSettles, LoggedOutIsLetGo,
  LogoutTokens, Login, CanLogin, backendVars

LEMMA CallbackKeeps ==
  ASSUME SessionInv, NEW t \in Tokens, NEW i \in Identities, Callback(t, i)
  PROVE  SessionInv'
<1> USE NoneAssumption DEF SessionInv, Callback
<1>1. SessionTypeOK'
  BY DEF SessionTypeOK
<1>2. SignInInv'
  BY DEF SessionTypeOK, SignInInv, IssuedInv, LogoutTokens
<1>3. IssuedInv'
  BY DEF SessionTypeOK, SignInInv, IssuedInv, LogoutTokens
<1>4. SignInSettles' /\ LoggedOutIsLetGo'
  BY DEF SignInSettles, LoggedOutIsLetGo
<1>5. QED
  BY <1>1, <1>2, <1>3, <1>4

LEMMA RefuseCallbackKeeps ==
  ASSUME SessionInv, RefuseCallback
  PROVE  SessionInv'
BY NoneAssumption DEF SessionInv, SessionTypeOK, SignInInv, IssuedInv, SignInSettles, LoggedOutIsLetGo,
  LogoutTokens, RefuseCallback, backendVars

LEMMA FinishLoadKeeps ==
  ASSUME SessionInv, FinishLoad
  PROVE  SessionInv'
BY NoneAssumption DEF SessionInv, SessionTypeOK, SignInInv, IssuedInv, SignInSettles, LoggedOutIsLetGo,
  LogoutTokens, FinishLoad, backendVars

LEMMA ReadPageKeeps ==
  ASSUME SessionInv, ReadPage
  PROVE  SessionInv'
BY NoneAssumption DEF SessionInv, SessionTypeOK, SignInInv, IssuedInv, SignInSettles, LoggedOutIsLetGo,
  LogoutTokens, ReadPage, backendVars

LEMMA CloseWindowKeeps ==
  ASSUME SessionInv, CloseWindow
  PROVE  SessionInv'
BY NoneAssumption DEF SessionInv, SessionTypeOK, SignInInv, IssuedInv, SignInSettles, LoggedOutIsLetGo,
  LogoutTokens, CloseWindow, backendVars

LEMMA LogoutKeeps ==
  ASSUME SessionInv, NEW l \in Logouts, Logout(l)
  PROVE  SessionInv'
<1> USE NoneAssumption DEF SessionInv, Logout, windowVars, backendVars
<1>1. SessionTypeOK'
  BY DEF SessionTypeOK
<1>2. LogoutTokens' \subseteq LogoutTokens \cup {held}
  BY DEF SessionTypeOK, LogoutTokens
<1>3. SignInInv' /\ IssuedInv'
  BY <1>2 DEF SessionTypeOK, SignInInv, IssuedInv
<1>4. SignInSettles' /\ LoggedOutIsLetGo'
  BY DEF SignInSettles, LoggedOutIsLetGo, SessionTypeOK
<1>5. QED
  BY <1>1, <1>3, <1>4

LEMMA RevokeKeeps ==
  ASSUME SessionInv, NEW l \in Logouts, Revoke(l)
  PROVE  SessionInv'
<1> USE NoneAssumption DEF SessionInv, Revoke, windowVars
<1>1. logouts[l].token \in Tokens /\ logouts[l].token \in LogoutTokens
  BY DEF SessionTypeOK, IssuedInv, LogoutTokens
<1>2. SessionTypeOK'
  BY <1>1 DEF SessionTypeOK
<1>3. LogoutTokens' = LogoutTokens
  BY DEF SessionTypeOK, LogoutTokens
<1>4. SignInInv' /\ IssuedInv'
  BY <1>1, <1>3 DEF SessionTypeOK, SignInInv, IssuedInv
<1>5. SignInSettles' /\ LoggedOutIsLetGo'
  BY DEF SignInSettles, LoggedOutIsLetGo, SessionTypeOK
<1>6. QED
  BY <1>2, <1>4, <1>5

LEMMA FinishLogoutKeeps ==
  ASSUME SessionInv, NEW l \in Logouts, FinishLogout(l)
  PROVE  SessionInv'
<1> USE NoneAssumption DEF SessionInv, FinishLogout, windowVars, backendVars
<1>1. SessionTypeOK'
  BY DEF SessionTypeOK, NoLogout
<1>2. LogoutTokens' \subseteq LogoutTokens \cup {None}
  BY DEF SessionTypeOK, LogoutTokens, NoLogout
<1>3. SignInInv' /\ IssuedInv'
  BY <1>2 DEF SessionTypeOK, SignInInv, IssuedInv, NoLogout
<1>4. SignInSettles' /\ LoggedOutIsLetGo'
  BY DEF SignInSettles, LoggedOutIsLetGo, SessionTypeOK
<1>5. QED
  BY <1>1, <1>3, <1>4

LEMMA ExpireKeeps ==
  ASSUME SessionInv, NEW t \in Tokens, Expire(t)
  PROVE  SessionInv'
BY NoneAssumption DEF SessionInv, SessionTypeOK, SignInInv, IssuedInv, SignInSettles, LoggedOutIsLetGo,
  LogoutTokens, Expire, windowVars

LEMMA RestartKeeps ==
  ASSUME SessionInv, RestartSession
  PROVE  SessionInv'
<1> USE NoneAssumption DEF SessionInv, RestartSession, backendVars
<1>1. SessionTypeOK'
  BY DEF SessionTypeOK, NoLogout
<1>2. LogoutTokens' \subseteq {None}
  BY DEF LogoutTokens, NoLogout
<1>3. SignInInv' /\ IssuedInv'
  BY <1>2 DEF SessionTypeOK, SignInInv, IssuedInv, NoLogout
<1>4. SignInSettles' /\ LoggedOutIsLetGo'
  BY DEF SignInSettles, LoggedOutIsLetGo, SessionTypeOK
<1>5. QED
  BY <1>1, <1>3, <1>4

LEMMA SessionStays ==
  ASSUME SessionInv, UNCHANGED sessionVars
  PROVE  SessionInv'
BY DEF SessionInv, SessionTypeOK, SignInInv, IssuedInv, SignInSettles, LoggedOutIsLetGo,
  LogoutTokens, sessionVars, windowVars, backendVars

\* A session is issued once, to one identity.
LEMMA SessionKept ==
  ASSUME IInv, [Next]_vars
  PROVE  /\ SessionInv'
         /\ \A t \in Tokens : issued[t] # None => issued'[t] = issued[t]
<1> USE DEF IInv
<1>1. CASE \E t \in Tokens, i \in Identities : Callback(t, i)
  BY <1>1, CallbackKeeps DEF Callback, SessionInv, SessionTypeOK
<1>2. CASE \E l \in Logouts : Logout(l) \/ Revoke(l) \/ FinishLogout(l)
  BY <1>2, LogoutKeeps, RevokeKeeps, FinishLogoutKeeps DEF Logout, Revoke, FinishLogout, backendVars
<1>3. CASE Login \/ RefuseCallback \/ FinishLoad \/ ReadPage \/ CloseWindow
  BY <1>3, LoginKeeps, RefuseCallbackKeeps, FinishLoadKeeps, ReadPageKeeps, CloseWindowKeeps
    DEF Login, RefuseCallback, FinishLoad, ReadPage, CloseWindow, backendVars
<1>4. CASE (\E t \in Tokens : Expire(t)) \/ RestartSession
  BY <1>4, ExpireKeeps, RestartKeeps DEF Expire, RestartSession, backendVars
<1>5. CASE UNCHANGED sessionVars
  BY <1>5, SessionStays DEF sessionVars, backendVars
<1>6. QED
  BY <1>1, <1>2, <1>3, <1>4, <1>5 DEF Next, vars, SignIn, SignOut, SessionStep, Restart, StartUpload, Refresh,
    FailInitiate, GetPartUrls, Put, Complete, FailComplete, Abort, Initiate, ServeList, EndLoad, ArriveLate,
    Delete, ServeDelete, EndDelete

-----------------------------------------------------------------------------
(* The videos and their owners.                                            *)

\* The life of a video goes forward only.
LEMMA StatusForward ==
  ASSUME IInv, [Next]_vars, NEW v \in Videos
  PROVE  /\ status[v] # "none" => status'[v] # "none" /\ by'[v] = by[v]
         /\ status[v] = "gone" => status'[v] = "gone"
         /\ status[v] = "ready" => status'[v] \in {"ready", "gone"}
         /\ by'[v] = None <=> status'[v] = "none"
<1> USE DEF IInv, TypeOK, OwnerInv, videoVars, clientVars, vars
<1>1. CASE \E t \in Tokens, w \in Videos : Initiate(t, w)
  BY <1>1, NoneAssumption DEF Initiate, Life!Announce
<1>2. CASE \E t \in Tokens : Put(t) \/ Complete(t) \/ FailComplete(t) \/ Abort(t)
  BY <1>2 DEF Put, Complete, FailComplete, Abort, Life!Store, Life!Publish, Life!Remove
<1>3. CASE \E w \in Videos : ArriveLate(w) \/ ServeDelete(w)
  BY <1>3 DEF ArriveLate, ServeDelete, Life!Publish, Life!Remove
<1>4. CASE UNCHANGED <<status, by>>
  BY <1>4
<1>5. QED
  BY <1>1, <1>2, <1>3, <1>4 DEF Next, SignIn, SignOut, SessionStep, Restart, StartUpload, Refresh,
    FailInitiate, GetPartUrls, ServeList, EndLoad, Delete, EndDelete

\* A video keeps its owner.
LEMMA OwnedKept ==
  ASSUME IInv, [Next]_vars, NEW v \in Videos, NEW t \in Tokens, Owned(v, t)
  PROVE  Owned(v, t)'
<1>1. by[v] \in Tokens /\ issued[by[v]] # None /\ by'[v] = by[v]
  BY StatusForward DEF IInv, TypeOK, OwnerInv, Owned
<1>2. issued'[by[v]] = issued[by[v]] /\ issued'[t] = issued[t]
  BY <1>1, SessionKept DEF Owned
<1>3. QED
  BY <1>1, <1>2 DEF Owned

\* What each step may do to the list requests.
LEMMA LoadsStep ==
  ASSUME IInv, [Next]_vars, NEW l \in Loads
  PROVE  \/ loads'[l] = loads[l]
         \/ loads'[l] = NoLoad
         \/ \E t \in Tokens : loads'[l] = [pc |-> "sent", token |-> t, videos |-> {}]
         \/ /\ loads[l].token \in Tokens
            /\ loads'[l] = [loads[l] EXCEPT !.pc = "answered", !.videos =
                 {v \in Videos : status[v] = "ready" /\ Owned(v, loads[l].token)}]
<1> USE DEF IInv, TypeOK, SessionTypeOK, clientVars, screenVars, vars
<1>1. CASE SignIn \/ Refresh
  BY <1>1, NoneAssumption DEF SignIn, Refresh, BeginLoad
<1>2. CASE \E t \in Tokens : Complete(t)
  BY <1>2, NoneAssumption DEF Complete, BeginLoad
<1>3. ASSUME NEW k \in Loads, ServeList(k)
      PROVE  \/ loads'[l] = loads[l]
             \/ /\ loads[l].token \in Tokens
                /\ loads'[l] = [loads[l] EXCEPT !.pc = "answered", !.videos =
                     {v \in Videos : status[v] = "ready" /\ Owned(v, loads[l].token)}]
  <2> DEFINE answer == {v \in Videos : status[v] = "ready" /\ Owned(v, loads[k].token)}
  <2>1. loads' = [loads EXCEPT ![k].pc = "answered", ![k].videos = answer] /\ loads[k].token \in Tokens
    BY <1>3 DEF ServeList, SessionInv
  <2>2. answer = {v \in Videos : status[v] = "ready" /\ Owned(v, loads[k].token)}
    OBVIOUS
  <2> HIDE DEF answer
  <2>3. CASE k = l
    <3>1. loads'[l] = [loads[l] EXCEPT !.pc = "answered", !.videos = answer]
      BY <2>1, <2>3
    <3>2. QED
      BY <2>1, <2>2, <2>3, <3>1
  <2>4. CASE k # l
    BY <2>1, <2>4
  <2>5. QED
    BY <2>3, <2>4
<1>4. CASE Restart \/ \E k \in Loads : EndLoad(k)
  BY <1>4 DEF Restart, EndLoad
<1>5. CASE UNCHANGED loads
  BY <1>5
<1>6. QED
  BY <1>1, <1>2, <1>3, <1>4, <1>5 DEF Next, SignOut, SessionStep, StartUpload, FailInitiate, Initiate,
    GetPartUrls, Put, FailComplete, Abort, ArriveLate, Delete, ServeDelete, EndDelete

LEMMA OwnerKept ==
  ASSUME IInv, [Next]_vars, TypeOK'
  PROVE  OwnerInv'
<1>1. ASSUME NEW v \in Videos PROVE (by[v] = None <=> status[v] = "none")'
  BY StatusForward
<1>2. ASSUME NEW v \in Videos, by'[v] # None PROVE (issued[by[v]])' # None
  <2>1. CASE by[v] # None
    <3>1. by'[v] = by[v] /\ by[v] \in Tokens /\ issued[by[v]] # None
      BY <2>1, StatusForward DEF IInv, TypeOK, OwnerInv
    <3>2. QED
      BY <3>1, SessionKept
  <2>2. CASE by[v] = None
    <3>1. PICK t \in Tokens, w \in Videos : Initiate(t, w)
      BY <2>2, <1>2 DEF Next, vars, clientVars, videoVars, SignIn, SignOut, SessionStep, Restart, StartUpload,
        Refresh, FailInitiate, GetPartUrls, Put, Complete, FailComplete, Abort, ServeList, EndLoad,
        ArriveLate, Delete, ServeDelete, EndDelete
    <3>2. by'[v] = t
      BY <2>2, <1>2, <3>1 DEF Initiate, IInv, TypeOK
    <3>3. issued[t] # None /\ issued'[t] = issued[t]
      BY <3>1 DEF Initiate, sessionVars, backendVars, IInv, SessionInv, IssuedInv, LogoutTokens
    <3>4. QED
      BY <3>2, <3>3
  <2>3. QED
    BY <2>1, <2>2
<1>3. ASSUME NEW l \in Loads, NEW t \in Tokens \cup {None}, t = loads'[l].token
      PROVE  /\ loads'[l].pc # "idle" \/ loads'[l].videos # {} => t # None
             /\ \A v \in loads'[l].videos : Owned(v, t)'
  <2>1. CASE loads'[l] = loads[l]
    <3>1. loads[l].pc # "idle" \/ loads[l].videos # {} => t # None
      BY <1>3, <2>1 DEF IInv, OwnerInv
    <3>2. ASSUME NEW v \in loads[l].videos PROVE Owned(v, t)'
      <4>1. v \in Videos /\ Owned(v, t) /\ t \in Tokens
        BY <1>3, <2>1, <3>1 DEF IInv, OwnerInv, TypeOK
      <4>2. QED
        BY <4>1, OwnedKept
    <3>3. QED
      BY <2>1, <3>1, <3>2
  <2>2. CASE loads'[l] = NoLoad
    BY <2>2 DEF NoLoad
  <2>3. CASE \E u \in Tokens : loads'[l] = [pc |-> "sent", token |-> u, videos |-> {}]
    BY <1>3, <2>3, NoneAssumption
  <2>4. CASE /\ loads[l].token \in Tokens
             /\ loads'[l] = [loads[l] EXCEPT !.pc = "answered", !.videos =
                  {v \in Videos : status[v] = "ready" /\ Owned(v, loads[l].token)}]
    <3>1. t \in Tokens /\ loads'[l].videos = {v \in Videos : status[v] = "ready" /\ Owned(v, t)}
      BY <1>3, <2>4 DEF IInv, TypeOK
    <3>2. QED
      BY <3>1, OwnedKept, NoneAssumption
  <2>5. QED
    BY <2>1, <2>2, <2>3, <2>4, LoadsStep
<1>4. ASSUME NEW l \in Loads
      PROVE  /\ loads'[l].pc # "idle" \/ loads'[l].videos # {} => loads'[l].token # None
             /\ \A v \in loads'[l].videos : Owned(v, loads[l].token)'
  <2>1. loads'[l].token \in Tokens \cup {None}
    BY DEF TypeOK
  <2>2. PICK t \in Tokens \cup {None} : t = loads'[l].token
    BY <2>1
  <2>3. QED
    BY <2>2, <1>3 DEF Owned
<1>5. QED
  BY <1>1, <1>2, <1>4 DEF OwnerInv

-----------------------------------------------------------------------------
(* Types.                                                                  *)

LEMMA BeginLoadTyped ==
  ASSUME TypeOK, NEW t \in Tokens, BeginLoad(t)
  PROVE  busy' \in BOOLEAN
         /\ loads' \in [Loads -> [pc: {"idle", "sent", "answered"}, token: Tokens \cup {None},
                                  videos: SUBSET Videos]]
BY DEF BeginLoad, TypeOK

\* The states an upload may be in.
UploadType == [pc: Running \cup {"idle", "done", "failed"}, video: Videos \cup {None}]

UploadTyped ==
  /\ upload \in [Tokens -> UploadType]
  /\ \A t \in Tokens : upload[t].pc \in Running \ {"initiate"} => upload[t].video # None

LEMMA GotoTyped ==
  ASSUME TypeOK, NEW t \in Tokens, NEW label \in Running \cup {"idle", "done", "failed"}, Goto(t, label),
         label \in Running \ {"initiate"} => upload[t].pc \in Running \ {"initiate"}
  PROVE  UploadTyped'
BY DEF UploadTyped, UploadType, TypeOK, Goto

LEMMA TypesKept ==
  ASSUME IInv, [Next]_vars
  PROVE  TypeOK'
<1>0. TypeOK /\ SessionTypeOK' /\ held \in Tokens \cup {None} /\ page \in Tokens \cup {None}
  BY SessionKept DEF IInv, TypeOK, SessionTypeOK, SessionInv
<1> USE <1>0 DEF TypeOK, clientVars, videoVars, screenVars, historyVars, vars
<1>1. CASE SessionStep \/ UNCHANGED vars
  BY <1>1 DEF SessionStep
<1>2. CASE SignIn
  BY <1>2, BeginLoadTyped DEF SignIn
<1>3. CASE \E l \in Logouts : SignOut(l)
  BY <1>3 DEF SignOut
<1>4. CASE Restart
  <2>1. upload' \in [Tokens -> [pc: Running \cup {"idle", "done", "failed"}, video: Videos \cup {None}]]
        /\ \A t \in Tokens : upload'[t].pc = "idle"
    BY <1>4 DEF Restart, NoUpload
  <2>2. left' \subseteq Videos /\ late' \subseteq {"complete", "abort"} \X Videos
    <3>1. \A t \in Tokens : upload[t].pc \in Running \ {"initiate"} => upload[t].video \in Videos
      OBVIOUS
    <3>2. {"complete", "abort"} \subseteq Running \ {"initiate"}
      BY DEF Running
    <3>3. QED
      BY <1>4, <3>1, <3>2 DEF Restart
  <2>3. QED
    BY <1>4, <2>1, <2>2 DEF Restart, NoLoad, NoCall, Running
<1>5. CASE StartUpload \/ \E t \in Tokens : FailInitiate(t) \/ GetPartUrls(t)
  <2>1. CASE StartUpload
    <3>1. UploadTyped'
      BY <2>1 DEF StartUpload, CanUpload, UploadTyped, UploadType, Running
    <3>2. QED
      BY <2>1, <3>1 DEF StartUpload, CanUpload, UploadTyped, UploadType
  <2>2. ASSUME NEW t \in Tokens, FailInitiate(t) \/ GetPartUrls(t) PROVE TypeOK'
    <3>1. UploadTyped'
      BY <2>2, GotoTyped DEF FailInitiate, GetPartUrls, Running
    <3>2. QED
      BY <2>2, <3>1 DEF FailInitiate, GetPartUrls, UploadTyped, UploadType
  <2>3. QED
    BY <1>5, <2>1, <2>2
<1>6. CASE \E t \in Tokens, v \in Videos : Initiate(t, v)
  <2>1. PICK t \in Tokens, v \in Videos : Initiate(t, v)
    BY <1>6
  <2>2. UploadTyped'
    <3>1. CASE Goto(t, "failed")
      BY <3>1, GotoTyped DEF Running
    <3>2. ASSUME NEW next \in {"parts", "put"}, upload' = [upload EXCEPT ![t] = [pc |-> next, video |-> v]]
          PROVE  UploadTyped'
      BY <3>2, VideosAssumption DEF UploadTyped, UploadType, Running
    <3>3. QED
      BY <2>1, <3>1, <3>2 DEF Initiate
  <2>3. status' \in [Videos -> {"none", "pending", "ready", "gone"}] /\ by' \in [Videos -> Tokens \cup {None}]
        /\ left' \subseteq Videos
    BY <2>1 DEF Initiate, Life!Announce
  <2>4. QED
    BY <2>1, <2>2, <2>3 DEF Initiate, Life!Announce, UploadTyped, UploadType
<1>7. ASSUME NEW t \in Tokens, Put(t) \/ FailComplete(t) \/ Abort(t) PROVE TypeOK'
  <2>1. upload[t].video \in Videos
    BY <1>7 DEF Put, FailComplete, Abort, Running
  <2>2. UploadTyped'
    BY <1>7, GotoTyped DEF Put, FailComplete, Abort, Running
  <2>3. status' \in [Videos -> {"none", "pending", "ready", "gone"}] /\ stored' \subseteq Videos
    BY <1>7, <2>1 DEF Put, FailComplete, Abort, Life!Store, Life!Publish, Life!Remove
  <2>4. late' \subseteq {"complete", "abort"} \X Videos /\ left' \subseteq Videos /\ blind' \subseteq Videos
    BY <1>7, <2>1 DEF Put, FailComplete, Abort
  <2>5. QED
    BY <1>7, <2>2, <2>3, <2>4 DEF Put, FailComplete, Abort, UploadTyped, UploadType
<1>8. CASE \E t \in Tokens : Complete(t)
  BY <1>8, BeginLoadTyped DEF Complete, Life!Publish, Goto, Running
<1>9. ASSUME NEW v \in Videos, ArriveLate(v) \/ Delete(v) \/ ServeDelete(v) \/ EndDelete(v) PROVE TypeOK'
  <2>1. status' \in [Videos -> {"none", "pending", "ready", "gone"}] /\ UNCHANGED stored
    BY <1>9 DEF ArriveLate, Delete, ServeDelete, EndDelete, Life!Publish, Life!Remove
  <2>2. dels' \in [Videos -> [pc: {"idle", "sent", "answered"}, token: Tokens \cup {None}]]
    BY <1>9 DEF ArriveLate, Delete, ServeDelete, EndDelete, NoCall
  <2>3. late' \subseteq {"complete", "abort"} \X Videos /\ shown' \subseteq Videos
    BY <1>9 DEF ArriveLate, Delete, ServeDelete, EndDelete
  <2>4. QED
    BY <1>9, <2>1, <2>2, <2>3 DEF ArriveLate, Delete, ServeDelete, EndDelete
<1>10. CASE Refresh
  BY <1>10, BeginLoadTyped DEF Refresh
<1>11. CASE \E l \in Loads : ServeList(l)
  <2>1. PICK l \in Loads : ServeList(l)
    BY <1>11
  <2> DEFINE answer == {v \in Videos : status[v] = "ready" /\ Owned(v, loads[l].token)}
         asked == [loads EXCEPT ![l].pc = "answered"]
         type == [Loads -> [pc: {"idle", "sent", "answered"}, token: Tokens \cup {None},
                            videos: SUBSET Videos]]
  <2>2. loads' = [asked EXCEPT ![l].videos = answer] /\ asked \in type
    BY <2>1 DEF ServeList
  <2>3. answer \in SUBSET Videos
    OBVIOUS
  <2> HIDE DEF answer, asked
  <2>4. loads' \in type
    BY <2>2, <2>3
  <2>5. QED
    BY <2>1, <2>4 DEF ServeList
<1>12. ASSUME NEW l \in Loads, EndLoad(l) PROVE TypeOK'
  <2>1. loads' \in [Loads -> [pc: {"idle", "sent", "answered"}, token: Tokens \cup {None},
                              videos: SUBSET Videos]]
    BY <1>12 DEF EndLoad, NoLoad
  <2>2. shown' \subseteq Videos /\ busy' \in BOOLEAN
    BY <1>12 DEF EndLoad
  <2>3. QED
    BY <1>12, <2>1, <2>2 DEF EndLoad
<1>13. QED
  BY <1>1, <1>2, <1>3, <1>4, <1>5, <1>6, <1>7, <1>8, <1>9, <1>10, <1>11, <1>12 DEF Next

-----------------------------------------------------------------------------
(* Uploads.                                                                *)

\* What the invariant says of an upload, the late requests left aside.
UploadOK(t) ==
  /\ upload[t].video # None => by[upload[t].video] = t
  /\ upload[t].pc \in {"idle", "initiate"} => upload[t].video = None
  /\ upload[t].pc = "done" => upload[t].video # None
  /\ upload[t].pc \in {"parts", "put", "complete"} => status[upload[t].video] # "ready"
  /\ upload[t].pc = "abort" /\ status[upload[t].video] = "ready" => upload[t].video \in blind
  /\ upload[t].pc = "done" => status[upload[t].video] \in {"ready", "gone"} /\ upload[t].video \in stored
  /\ upload[t].pc = "failed" /\ upload[t].video # None /\ status[upload[t].video] = "ready"
       => upload[t].video \in blind

LEMMA UploadParts ==
  (UploadInv /\ UploaderTellsTheTruth) <=> \A t \in Tokens : UploadOK(t)
BY DEF UploadInv, UploaderTellsTheTruth, UploadOK

\* A step that neither touches an upload nor publishes its video keeps it good.
LEMMA UploadUntouched ==
  ASSUME IInv, [Next]_vars, NEW t \in Tokens, upload'[t] = upload[t],
         blind \subseteq blind', stored \subseteq stored',
         upload[t].video # None /\ status[upload[t].video] # "ready" /\ status'[upload[t].video] = "ready"
           => upload[t].pc \in {"abort", "failed"} /\ upload[t].video \in blind'
  PROVE  UploadOK(t)'
<1>1. UploadOK(t)
  BY UploadParts DEF IInv
<1>2. CASE upload[t].video = None
  BY <1>1, <1>2 DEF UploadOK, IInv, TypeOK, Running
<1>3. CASE upload[t].video # None
  <2>1. upload[t].video \in Videos /\ by[upload[t].video] = t /\ t # None
    BY <1>1, <1>3, NoneAssumption DEF UploadOK, IInv, TypeOK
  <2>2. by'[upload[t].video] = t /\ status'[upload[t].video] # "none" /\ status[upload[t].video] # "none"
    BY <2>1, StatusForward DEF IInv, OwnerInv
  <2>3. upload[t].pc = "done" => status'[upload[t].video] \in {"ready", "gone"}
    BY <1>1, <2>1, StatusForward DEF UploadOK
  <2>4. QED
    BY <1>1, <1>3, <2>1, <2>2, <2>3 DEF UploadOK
<1>4. QED
  BY <1>2, <1>3

\* What a step does to the upload of one token, and to its video.
LEMMA UploadsKept ==
  ASSUME IInv, [Next]_vars, TypeOK', NEW t \in Tokens
  PROVE  UploadOK(t)'
<1> DEFINE v == upload[t].video
<1>0. UploadOK(t) /\ TypeOK
  BY UploadParts DEF IInv
<1> USE <1>0 DEF clientVars, videoVars, screenVars, historyVars, vars
<1>1. CASE UNCHANGED <<upload, status, stored, blind, by>>
  BY <1>1 DEF UploadOK
<1>2. CASE Restart
  BY <1>2 DEF Restart, NoUpload, UploadOK
<1>3. CASE StartUpload
  <2>1. CASE held = t
    BY <1>3, <2>1 DEF StartUpload, CanUpload, UploadOK, TypeOK
  <2>2. CASE held # t
    <3>1. upload'[t] = upload[t]
      BY <1>3, <2>2 DEF StartUpload, CanUpload, TypeOK
    <3>2. QED
      BY <1>3, <3>1, UploadUntouched DEF StartUpload, CanUpload
  <2>3. QED
    BY <2>1, <2>2
<1>4. ASSUME NEW u \in Tokens, u # t,
             FailInitiate(u) \/ GetPartUrls(u) \/ Put(u) \/ Complete(u) \/ FailComplete(u) \/ Abort(u)
      PROVE  UploadOK(t)'
  <2>1. upload'[t] = upload[t]
    BY <1>4 DEF FailInitiate, GetPartUrls, Put, Complete, FailComplete, Abort, Goto, TypeOK
  <2>2. blind \subseteq blind' /\ stored \subseteq stored'
    BY <1>4 DEF FailInitiate, GetPartUrls, Put, Complete, FailComplete, Abort,
      Life!Store, Life!Publish, Life!Remove
  <2>3. upload[u].video # upload[t].video \/ upload[t].video = None
    BY <1>4, UploadParts DEF UploadOK, IInv
  <2>4. upload[u].video # upload[t].video /\ upload[t].video # None => status'[upload[t].video] = status[upload[t].video]
    BY <1>4 DEF FailInitiate, GetPartUrls, Put, Complete, FailComplete, Abort, TypeOK,
      Life!Store, Life!Publish, Life!Remove
  <2>5. QED
    BY <2>1, <2>2, <2>3, <2>4, UploadUntouched
<1>5. CASE FailInitiate(t)
  BY <1>5 DEF FailInitiate, Goto, UploadOK, TypeOK
<1>6. CASE GetPartUrls(t)
  BY <1>6 DEF GetPartUrls, Goto, UploadOK, TypeOK
<1>7. CASE Put(t)
  BY <1>7 DEF Put, Goto, UploadOK, TypeOK, Life!Store
<1>8. CASE Complete(t)
  BY <1>8 DEF Complete, Goto, UploadOK, TypeOK, Life!Publish, Running
<1>9. CASE FailComplete(t)
  BY <1>9 DEF FailComplete, Goto, UploadOK, TypeOK, Life!Publish, Running
<1>10. CASE Abort(t)
  BY <1>10 DEF Abort, Goto, UploadOK, TypeOK, Life!Remove, Running
<1>11. ASSUME NEW u \in Tokens, NEW w \in Videos, Initiate(u, w) PROVE UploadOK(t)'
  <2>1. status[w] = "none" /\ by[w] = None
    BY <1>11 DEF Initiate, Life!Announce, IInv, OwnerInv
  <2>2. CASE u = t
    BY <1>11, <2>1, <2>2, VideosAssumption DEF Initiate, Life!Announce, Goto, UploadOK, TypeOK
  <2>3. CASE u # t
    <3>1. upload'[t] = upload[t] /\ UNCHANGED <<blind, stored>>
      BY <1>11, <2>3 DEF Initiate, Life!Announce, Goto, TypeOK
    <3>2. \A x \in Videos : status'[x] = "ready" => status[x] = "ready"
      BY <1>11 DEF Initiate, Life!Announce, TypeOK
    <3>3. QED
      BY <3>1, <3>2, UploadUntouched DEF TypeOK
  <2>4. QED
    BY <2>2, <2>3
<1>12. ASSUME NEW w \in Videos, ArriveLate(w) \/ ServeDelete(w) PROVE UploadOK(t)'
  <2>1. UNCHANGED <<upload, stored, blind>>
    BY <1>12 DEF ArriveLate, ServeDelete, Life!Publish, Life!Remove
  <2>2. ASSUME NEW x \in Videos, status'[x] = "ready", status[x] # "ready"
        PROVE  <<"complete", x>> \in late
    BY <1>12, <2>2 DEF ArriveLate, ServeDelete, Life!Publish, Life!Remove, TypeOK
  <2>3. QED
    BY <2>1, <2>2, UploadUntouched DEF TypeOK, IInv, LateInv
<1>13. QED
  BY <1>1, <1>2, <1>3, <1>4, <1>5, <1>6, <1>7, <1>8, <1>9, <1>10, <1>11, <1>12 DEF Next, SignIn, SignOut,
    SessionStep, Refresh, ServeList, EndLoad, Delete, EndDelete

LEMMA LateAnnounced ==
  ASSUME IInv, [Next]_vars, NEW v \in Videos, <<"complete", v>> \in late'
  PROVE  status'[v] # "none"
<1>1. CASE <<"complete", v>> \in late
  BY <1>1, StatusForward DEF IInv, LateInv
<1>2. CASE <<"complete", v>> \notin late
  <2>1. PICK u \in Tokens : upload[u].video = v
    <3>1. CASE Restart
      BY <1>2, <3>1 DEF Restart
    <3>2. CASE \E u \in Tokens : FailComplete(u)
      BY <1>2, <3>2 DEF FailComplete
    <3>3. CASE \E u \in Tokens : Abort(u)
      BY <1>2, <3>3 DEF Abort
    <3>4. QED
      BY <1>2, <3>1, <3>2, <3>3 DEF Next, vars, clientVars, SignIn, SignOut, SessionStep, StartUpload,
        Refresh, FailInitiate, GetPartUrls, Put, Complete, Initiate, ServeList, EndLoad, ArriveLate, Delete,
        ServeDelete, EndDelete
  <2>2. by[v] = u /\ u # None
    BY <2>1, UploadParts, NoneAssumption, VideosAssumption DEF UploadOK, IInv
  <2>3. QED
    BY <2>2, StatusForward DEF IInv, OwnerInv
<1>3. QED
  BY <1>1, <1>2

LEMMA LateKept ==
  ASSUME IInv, [Next]_vars, TypeOK'
  PROVE  LateInv'
<1> SUFFICES ASSUME NEW v \in Videos, <<"complete", v>> \in late', NEW t \in Tokens, upload'[t].video = v
             PROVE  upload'[t].pc \in {"abort", "failed"} /\ v \in blind'
  BY LateAnnounced DEF LateInv
<1>0. TypeOK /\ LateInv /\ UploadOK(t) /\ v # None
  BY UploadParts, VideosAssumption DEF IInv
<1> USE <1>0 DEF clientVars, videoVars, screenVars, historyVars, vars
<1>1. CASE UNCHANGED <<upload, blind, late>>
  BY <1>1 DEF LateInv
<1>2. CASE Restart
  BY <1>2 DEF Restart, NoUpload
<1>3. CASE StartUpload
  BY <1>3 DEF StartUpload, CanUpload, TypeOK, LateInv
<1>4. ASSUME NEW u \in Tokens, FailInitiate(u) \/ GetPartUrls(u) \/ Put(u) \/ Complete(u) \/ Abort(u)
      PROVE  upload'[t].pc \in {"abort", "failed"} /\ v \in blind'
  <2>1. <<"complete", v>> \in late /\ UNCHANGED blind
    BY <1>4 DEF FailInitiate, GetPartUrls, Put, Complete, Abort
  <2>2. upload[t].video = v
    <3>1. PICK label \in {"failed", "put", "abort", "complete", "done"} : Goto(u, label)
      BY <1>4 DEF FailInitiate, GetPartUrls, Put, Complete, Abort
    <3>2. upload'[t].video = upload[t].video
      BY <3>1 DEF Goto, TypeOK
    <3>3. QED
      BY <3>2
  <2>3. upload'[t].pc \in {"abort", "failed"}
    BY <1>4, <2>1, <2>2 DEF FailInitiate, GetPartUrls, Put, Complete, Abort, Goto, TypeOK, LateInv
  <2>4. QED
    BY <2>1, <2>2, <2>3 DEF LateInv
<1>5. ASSUME NEW u \in Tokens, FailComplete(u)
      PROVE  upload'[t].pc \in {"abort", "failed"} /\ v \in blind'
  <2>1. <<"complete", v>> \in late \/ (upload[u].video = v /\ v \in blind')
    BY <1>5 DEF FailComplete
  <2>2. upload[t].video = v /\ blind \subseteq blind'
    BY <1>5 DEF FailComplete, Goto, TypeOK
  <2>3. CASE u = t
    BY <1>5, <2>1, <2>2, <2>3 DEF FailComplete, Goto, TypeOK, LateInv
  <2>4. CASE u # t
    <3>1. upload'[t] = upload[t]
      BY <1>5, <2>4 DEF FailComplete, Goto, TypeOK
    <3>2. upload[u].video # v
      BY <2>2, <2>4, UploadParts DEF UploadOK, IInv
    <3>3. QED
      BY <2>1, <2>2, <3>1, <3>2 DEF LateInv
  <2>5. QED
    BY <2>3, <2>4
<1>6. ASSUME NEW u \in Tokens, NEW w \in Videos, Initiate(u, w)
      PROVE  upload'[t].pc \in {"abort", "failed"} /\ v \in blind'
  <2>1. v # w /\ <<"complete", v>> \in late /\ UNCHANGED blind
    BY <1>6 DEF Initiate, Life!Announce, LateInv
  <2>2. upload'[t] = upload[t] \/ (u = t /\ upload'[t].video = upload[t].video)
    BY <1>6, <2>1 DEF Initiate, Goto, TypeOK, UploadOK
  <2>3. upload[t].video = v
    BY <2>2
  <2>4. upload[t].pc # "initiate"
    BY <2>3 DEF UploadOK
  <2>5. QED
    BY <1>6, <2>1, <2>2, <2>3, <2>4 DEF LateInv, Initiate
<1>7. QED
  BY <1>1, <1>2, <1>3, <1>4, <1>5, <1>6 DEF Next, SignIn, SignOut, SessionStep, Refresh, ServeList,
    EndLoad, Delete, EndDelete, ArriveLate, ServeDelete, LateInv

LEMMA LeftBehindKept ==
  ASSUME IInv, [Next]_vars, TypeOK'
  PROVE  LeftBehindForAReason'
<1> SUFFICES ASSUME NEW v \in Videos, status'[v] = "pending"
             PROVE  v \in left' \/ \E t \in Tokens : upload'[t].video = v /\ upload'[t].pc \in Running
  BY DEF LeftBehindForAReason
<1>0. TypeOK /\ LeftBehindForAReason /\ v # None
  BY VideosAssumption DEF IInv
<1> USE <1>0 DEF clientVars, videoVars, screenVars, historyVars, vars
<1>1. ASSUME NEW t \in Tokens, Initiate(t, v)
      PROVE  v \in left' \/ \E u \in Tokens : upload'[u].video = v /\ upload'[u].pc \in Running
  BY <1>1 DEF Initiate, Running, TypeOK
<1>2. CASE \E t \in Tokens : Initiate(t, v)
  BY <1>1, <1>2
<1>3. CASE ~ \E t \in Tokens : Initiate(t, v)
  <2>1. left \subseteq left'
    BY DEF Next, SignIn, SignOut, SessionStep, Refresh, ServeList, EndLoad, Delete, EndDelete, Initiate,
      Restart, StartUpload, FailInitiate, GetPartUrls, Put, Complete, FailComplete, Abort, ArriveLate, ServeDelete
  <2>2. status[v] = "pending"
    <3>1. ASSUME NEW t \in Tokens, NEW w \in Videos, Initiate(t, w) PROVE status[v] = "pending"
      <4>1. w # v
        BY <1>3, <3>1
      <4>2. QED
        BY <3>1, <4>1 DEF Initiate, Life!Announce, TypeOK
    <3>2. CASE \E t \in Tokens : Put(t) \/ Complete(t) \/ FailComplete(t) \/ Abort(t)
      BY <3>2 DEF Put, Complete, FailComplete, Abort, Life!Store, Life!Publish, Life!Remove, TypeOK
    <3>3. CASE \E w \in Videos : ArriveLate(w) \/ ServeDelete(w)
      BY <3>3 DEF ArriveLate, ServeDelete, Life!Publish, Life!Remove, TypeOK
    <3>4. CASE status' = status
      BY <3>4
    <3>5. \/ \E t \in Tokens, w \in Videos : Initiate(t, w)
          \/ \E t \in Tokens : Put(t) \/ Complete(t) \/ FailComplete(t) \/ Abort(t)
          \/ \E w \in Videos : ArriveLate(w) \/ ServeDelete(w)
          \/ status' = status
      BY DEF Next, SignIn, SignOut, SessionStep, Refresh, ServeList, EndLoad, Delete, EndDelete, Restart,
        StartUpload, FailInitiate, GetPartUrls
    <3>6. QED
      BY <3>1, <3>2, <3>3, <3>4, <3>5
  <2>3. CASE v \in left
    BY <2>1, <2>3
  <2>4. ASSUME NEW t \in Tokens, upload[t].video = v, upload[t].pc \in Running
        PROVE  v \in left' \/ (upload'[t].video = v /\ upload'[t].pc \in Running)
    <3>0. UploadOK(t) /\ \A u \in Tokens : upload[u].video = v => by[v] = u
      BY UploadParts DEF IInv, UploadOK
    <3>1. upload[t].pc \in Running \ {"initiate"}
      BY <2>4, <3>0 DEF UploadOK
    <3>2. CASE Restart
      BY <2>4, <3>1, <3>2 DEF Restart
    <3>3. CASE StartUpload
      <4>1. held # t
        BY <2>4, <3>3 DEF StartUpload, CanUpload
      <4>2. QED
        BY <2>4, <3>3, <4>1 DEF StartUpload, CanUpload, TypeOK
    <3>4. ASSUME NEW u \in Tokens, u # t,
                 FailInitiate(u) \/ GetPartUrls(u) \/ Put(u) \/ Complete(u) \/ FailComplete(u) \/ Abort(u)
          PROVE  upload'[t] = upload[t]
      BY <3>4 DEF FailInitiate, GetPartUrls, Put, Complete, FailComplete, Abort, Goto, TypeOK
    <3>5. CASE FailInitiate(t) \/ GetPartUrls(t) \/ Put(t) \/ FailComplete(t)
      <4>1. \E label \in {"put", "abort", "complete"} : Goto(t, label)
        BY <3>1, <3>5 DEF FailInitiate, GetPartUrls, Put, FailComplete
      <4>2. QED
        BY <2>4, <4>1 DEF Goto, TypeOK, Running
    <3>6. ~ Complete(t)
      BY <1>0, <2>2, <2>4 DEF Complete, Life!Publish, TypeOK
    <3>7. CASE Abort(t)
      BY <1>0, <2>2, <2>4, <3>7 DEF Abort, Life!Remove, TypeOK
    <3>8. ASSUME NEW u \in Tokens, NEW w \in Videos, Initiate(u, w) PROVE upload'[t] = upload[t]
      <4>1. u # t
        BY <3>1, <3>8 DEF Initiate
      <4>2. QED
        BY <3>8, <4>1 DEF Initiate, Goto, TypeOK
    <3>9. CASE UNCHANGED upload
      BY <2>4, <3>9
    <3>10. QED
      BY <2>4, <3>2, <3>3, <3>4, <3>5, <3>6, <3>7, <3>8, <3>9 DEF Next, SignIn, SignOut, SessionStep, Refresh,
        ServeList, EndLoad, Delete, EndDelete, ArriveLate, ServeDelete
  <2>5. QED
    BY <2>2, <2>3, <2>4 DEF LeftBehindForAReason
<1>4. QED
  BY <1>2, <1>3

\* What reaches the screen is a list of the session that is signed in.
LEMMA ShownKept ==
  ASSUME IInv, [Next]_vars, TypeOK'
  PROVE  ShowsOwnVideos'
<1> SUFFICES ASSUME NEW v \in shown' PROVE held' # None /\ Owned(v, held)'
  BY DEF ShowsOwnVideos
<1>0. /\ TypeOK /\ ShowsOwnVideos /\ v \in Videos /\ held \in Tokens \cup {None} /\ None \notin Tokens
      /\ window # "none" => held = None
  BY NoneAssumption DEF IInv, TypeOK, SessionTypeOK, SessionInv, SignInInv
<1> USE <1>0 DEF clientVars, videoVars, screenVars, historyVars, vars
<1>1. CASE v \in shown /\ UNCHANGED held
  BY <1>1, OwnedKept DEF ShowsOwnVideos, Owned
<1>2. CASE v \in shown /\ held' # held
  <2>1. CASE ReadPage
    BY <1>2, <2>1 DEF ReadPage, ShowsOwnVideos
  <2>2. QED
    BY <1>2, <2>1 DEF Next, sessionVars, windowVars, backendVars, SignIn, SignOut, Restart, SessionStep, StartUpload, Refresh,
      FailInitiate, GetPartUrls, Put, Complete, FailComplete, Abort, Initiate, ServeList, EndLoad, ArriveLate,
      Delete, ServeDelete, EndDelete, Login, RefuseCallback, FinishLoad, CloseWindow, Callback, Logout,
      Revoke, Expire
<1>3. CASE v \notin shown
  <2>1. PICK l \in Loads : EndLoad(l)
    BY <1>3 DEF Next, SignIn, SignOut, Restart, SessionStep, StartUpload, Refresh,
      FailInitiate, GetPartUrls, Put, Complete, FailComplete, Abort, Initiate, ServeList, EndLoad, ArriveLate,
      Delete, ServeDelete, EndDelete
  <2>2. v \in loads[l].videos /\ loads[l].token = held /\ UNCHANGED held
    BY <1>3, <2>1 DEF EndLoad, sessionVars
  <2>3. held # None /\ Owned(v, held)
    BY <2>2 DEF IInv, OwnerInv
  <2>4. QED
    BY <2>2, <2>3, OwnedKept DEF Owned
<1>4. QED
  BY <1>1, <1>2, <1>3

-----------------------------------------------------------------------------
(* The theorems.                                                           *)

LEMMA IInvInit == Init => IInv
<1> SUFFICES ASSUME Init PROVE IInv
  OBVIOUS
<1> USE NoneAssumption, VideosAssumption DEF Init, SessionInit
<1>1. SessionInv
  BY DEF SessionInv, SessionTypeOK, SignInInv, IssuedInv, SignInSettles, LoggedOutIsLetGo, LogoutTokens, NoLogout
<1>2. TypeOK
  BY <1>1 DEF SessionInv, TypeOK, Life!Init, NoUpload, NoCall, NoLoad, Running
<1>3. OwnerInv /\ LateInv /\ ShowsOwnVideos /\ LeftBehindForAReason
  BY DEF OwnerInv, LateInv, ShowsOwnVideos, LeftBehindForAReason, Life!Init, NoLoad
<1>4. UploadInv /\ UploaderTellsTheTruth
  BY DEF UploadInv, UploaderTellsTheTruth, NoUpload
<1>5. QED
  BY <1>1, <1>2, <1>3, <1>4 DEF IInv

LEMMA IInvStep == IInv /\ [Next]_vars => IInv'
<1> SUFFICES ASSUME IInv, [Next]_vars PROVE IInv'
  OBVIOUS
<1>1. TypeOK'
  BY TypesKept
<1>2. UploadInv' /\ UploaderTellsTheTruth'
  <2>1. \A t \in Tokens : UploadOK(t)'
    BY <1>1, UploadsKept
  <2>2. QED
    BY <2>1 DEF UploadInv, UploaderTellsTheTruth, UploadOK
<1>3. QED
  BY <1>1, <1>2, SessionKept, OwnerKept, LateKept, ShownKept, LeftBehindKept DEF IInv

\* The invariant from which the properties follow holds in every behaviour of
\* the client, its window and the backend behind it.
THEOREM ClientInvariant == Spec => []IInv
<1>1. Init => IInv
  BY IInvInit
<1>2. IInv /\ [Next]_vars => IInv'
  BY IInvStep
<1>3. QED
  BY <1>1, <1>2, PTL DEF Spec

\* Every variable stays in its type: in particular an upload that goes on after
\* its announcement knows its video.
THEOREM ClientTypes == Spec => []TypeOK
<1>1. IInv => TypeOK
  BY DEF IInv
<1>2. QED
  BY <1>1, ClientInvariant, PTL

\* A sign-in that waits for ever is one whose window was closed in the moment its
\* page was being read (auth.ipc.ts).
THEOREM SignInsSettle == Spec => []SignInSettles
<1>1. IInv => SignInSettles
  BY DEF IInv, SessionInv
<1>2. QED
  BY <1>1, ClientInvariant, PTL

\* The token of a session that was logged out is about to be cleared
\* (AuthService.logout, finally).
THEOREM LogoutLetsGo == Spec => []LoggedOutIsLetGo
<1>1. IInv => LoggedOutIsLetGo
  BY DEF IInv, SessionInv
<1>2. QED
  BY <1>1, ClientInvariant, PTL

\* No answer of an earlier sign-in puts another user's videos on the screen
\* (VideoList, keyed by the component that asked).
THEOREM ScreenIsOwn == Spec => []ShowsOwnVideos
<1>1. IInv => ShowsOwnVideos
  BY DEF IInv
<1>2. QED
  BY <1>1, ClientInvariant, PTL

\* The outcome the uploader shows agrees with what the backend made of the video
\* (VideoService.upload).
THEOREM UploaderIsTrue == Spec => []UploaderTellsTheTruth
<1>1. IInv => UploaderTellsTheTruth
  BY DEF IInv
<1>2. QED
  BY <1>1, ClientInvariant, PTL

\* upload() leaves a pending video behind only when it could not abort it
\* (VideoService.upload, the catch block).
THEOREM NothingLeftBehind == Spec => []LeftBehindForAReason
<1>1. IInv => LeftBehindForAReason
  BY DEF IInv
<1>2. QED
  BY <1>1, ClientInvariant, PTL

\* Nothing reaches the screen but what a list request brings, and no list
\* request brings a video that is gone.
LEMMA OffScreenKept ==
  ASSUME IInv, [Next]_vars, NEW v \in Videos, OffScreen(v)
  PROVE  OffScreen(v)'
<1>1. status'[v] = "gone"
  BY StatusForward DEF OffScreen
<1>2. ASSUME NEW l \in Loads PROVE v \notin loads'[l].videos
  <2> DEFINE answer == {w \in Videos : status[w] = "ready" /\ Owned(w, loads[l].token)}
  <2>1. v \notin answer /\ v \notin loads[l].videos
    BY DEF OffScreen
  <2>2. loads[l] \in [pc: {"idle", "sent", "answered"}, token: Tokens \cup {None}, videos: SUBSET Videos]
    BY DEF IInv, TypeOK
  <2>3. \/ loads'[l] = loads[l]
        \/ loads'[l] = NoLoad
        \/ \E t \in Tokens : loads'[l] = [pc |-> "sent", token |-> t, videos |-> {}]
        \/ loads'[l] = [loads[l] EXCEPT !.pc = "answered", !.videos = answer]
    BY LoadsStep
  <2> HIDE DEF answer
  <2>4. CASE loads'[l] = [loads[l] EXCEPT !.pc = "answered", !.videos = answer]
    <3>1. loads'[l].videos = answer
      BY <2>2, <2>4
    <3>2. QED
      BY <2>1, <3>1
  <2>5. CASE \E t \in Tokens : loads'[l] = [pc |-> "sent", token |-> t, videos |-> {}]
    BY <2>5
  <2>6. QED
    BY <2>1, <2>3, <2>4, <2>5 DEF NoLoad
<1>3. v \notin shown'
  <2>1. CASE \E l \in Loads : EndLoad(l)
    BY <2>1 DEF EndLoad, OffScreen
  <2>2. CASE shown' \subseteq shown
    BY <2>2 DEF OffScreen
  <2>3. QED
    BY <2>1, <2>2 DEF Next, vars, clientVars, screenVars, SignIn, SignOut, Restart, SessionStep, StartUpload,
      Refresh, FailInitiate, GetPartUrls, Put, Complete, FailComplete, Abort, Initiate, ServeList,
      ArriveLate, Delete, ServeDelete, EndDelete
<1>4. QED
  BY <1>1, <1>2, <1>3 DEF OffScreen

\* A deleted video does not come back to a screen it has left, whatever list
\* requests are sent and answered afterwards (VideoList.load, handleDelete).
THEOREM DeletedIsOffScreen == Spec => DeletedStaysOffScreen
<1>1. IInv /\ [Next]_vars => [\A v \in Videos : OffScreen(v) => OffScreen(v)']_vars
  BY OffScreenKept
<1>2. QED
  BY <1>1, ClientInvariant, PTL DEF Spec, DeletedStaysOffScreen

=============================================================================
