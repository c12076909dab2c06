---------------------------- MODULE ClientSession ----------------------------
(***************************************************************************)
(* The session of the desktop client: the sign-in window of the main       *)
(* process, useAuth and AuthService in the renderer, and what logins and   *)
(* logouts leave in the backend.                                           *)
(*                                                                         *)
(* The window runs the whole OAuth redirect by itself.  The main process   *)
(* waits for a page of the callback URL, reads its text and answers the    *)
(* renderer; the user may close the window at any moment, and the backend  *)
(* has created the session before the page arrives.  VideoClient adds what *)
(* the screen does with a session, and the next-state relation.            *)
(*                                                                         *)
(* Simplifications:                                                        *)
(*  - A session is its token; AuthService and the user state of useAuth    *)
(*    are set and cleared in one turn of the event loop, and so are one    *)
(*    variable.  Error texts are left out.                                 *)
(*  - The backend's handlers are atomic here.  What the callback does is   *)
(*    the subject of OAuthLogin, the guard's of Sessions.                  *)
(***************************************************************************)
CONSTANTS
  Tokens,      \* the session ids crypto.randomUUID can return
  Identities,
  Logouts,     \* calls of logout under way at a time
  None         \* no session

ASSUME NoneAssumption == None \notin Tokens \cup Identities

VARIABLES
  window,     \* the sign-in window
  page,       \* the session in the page it shows
  loading,    \* useAuth: a sign-in waits for the main process
  held,       \* the session the client is signed in with
  logouts,    \* the calls of logout under way
  issued,     \* backend, history: the identity of each session
  alive,      \* backend: the sessions it accepts
  loggedOut,  \* history: the sessions a logout has revoked
  abandoned   \* history: the window was closed while its page was being read

windowVars == <<window, page, abandoned>>
backendVars == <<issued, alive, loggedOut>>
sessionVars == <<windowVars, loading, held, logouts, backendVars>>

NoLogout == [pc |-> "idle", token |-> None]

SessionTypeOK ==
  /\ window \in {"none", "open", "answered", "reading"}
  /\ page \in Tokens \cup {None}
  /\ loading \in BOOLEAN /\ abandoned \in BOOLEAN
  /\ held \in Tokens \cup {None}
  /\ logouts \in [Logouts -> [pc: {"idle", "sent", "answered"}, token: Tokens \cup {None}]]
  /\ issued \in [Tokens -> Identities \cup {None}]
  /\ alive \subseteq Tokens /\ loggedOut \subseteq Tokens

SessionInit ==
  /\ window = "none" /\ page = None /\ abandoned = FALSE
  /\ loading = FALSE /\ held = None
  /\ logouts = [l \in Logouts |-> NoLogout]
  /\ issued = [t \in Tokens |-> None]
  /\ alive = {} /\ loggedOut = {}

-----------------------------------------------------------------------------
(* Sign-in.                                                                *)

\* The welcome page, whose buttons are disabled while a sign-in is waiting.
CanLogin == held = None /\ ~loading

Login ==
  /\ CanLogin
  /\ window' = "open" /\ page' = None
  /\ loading' = TRUE
  /\ UNCHANGED <<abandoned, held, logouts, backendVars>>

\* The provider redirects the window to the callback, which creates a session.
\* Its answer, or the connection, may still break before the page is there.
Callback(t, i) ==
  /\ window = "open" /\ issued[t] = None
  /\ issued' = [issued EXCEPT ![t] = i]
  /\ alive' = alive \cup {t}
  /\ window' = "answered" /\ page' \in {t, None}
  /\ UNCHANGED <<abandoned, loading, held, logouts, loggedOut>>

\* The callback answers with an error (a statusCode in its JSON).
RefuseCallback ==
  /\ window = "open"
  /\ window' = "answered"
  /\ UNCHANGED <<page, abandoned, loading, held, logouts, backendVars>>

\* did-finish-load of a callback URL: from here on "handled" is set.
FinishLoad ==
  /\ window = "answered"
  /\ window' = "reading"
  /\ UNCHANGED <<page, abandoned, loading, held, logouts, backendVars>>

\* Mutant of ReadPage: the page that cannot be parsed closes the window only.
ReadPageUnanswered ==
  /\ window = "reading"
  /\ window' = "none" /\ page' = None
  /\ IF page = None THEN UNCHANGED <<loading, held>> ELSE loading' = FALSE /\ held' = page
  /\ UNCHANGED <<abandoned, logouts, backendVars>>

\* The text of the page has been read and parsed: the window closes and the
\* renderer gets the session, a refusal or a parse error.
ReadPage ==
  /\ window = "reading"
  /\ window' = "none" /\ page' = None
  /\ loading' = FALSE /\ held' = page
  /\ UNCHANGED <<abandoned, logouts, backendVars>>

\* The user closes the window.  Once the page is being read nothing rejects the
\* promise any more: "closed" finds handled set, and the catch block fails at
\* close() of a window that is gone.
CloseWindow ==
  /\ window # "none"
  /\ window' = "none" /\ page' = None
  /\ IF window = "reading"
       THEN abandoned' = TRUE /\ UNCHANGED loading
       ELSE loading' = FALSE /\ UNCHANGED abandoned
  /\ UNCHANGED <<held, logouts, backendVars>>

-----------------------------------------------------------------------------
(* Sign-out, and what ends a session otherwise.                            *)

\* The log-out button works until the first answer arrives.
Logout(l) ==
  /\ held # None /\ logouts[l].pc = "idle"
  /\ logouts' = [logouts EXCEPT ![l] = [pc |-> "sent", token |-> held]]
  /\ UNCHANGED <<windowVars, loading, held, backendVars>>

\* POST /oauth/logout in the backend.
Revoke(l) ==
  /\ logouts[l].pc = "sent"
  /\ logouts' = [logouts EXCEPT ![l].pc = "answered"]
  /\ alive' = alive \ {logouts[l].token}
  /\ loggedOut' = loggedOut \cup {logouts[l].token}
  /\ UNCHANGED <<windowVars, loading, held, issued>>

\* Mutant of FinishLogout: a logout without an answer leaves the client signed in.
FinishLogoutAnswered(l) ==
  /\ logouts[l].pc # "idle"
  /\ logouts' = [logouts EXCEPT ![l] = NoLogout]
  /\ held' \in {held, None}
  /\ UNCHANGED <<windowVars, loading, backendVars>>

\* The call was answered or has failed, which logout ignores: whatever session
\* the client holds by now is cleared.
FinishLogout(l) ==
  /\ logouts[l].pc # "idle"
  /\ logouts' = [logouts EXCEPT ![l] = NoLogout]
  /\ held' = None
  /\ UNCHANGED <<windowVars, loading, backendVars>>

\* The TTL of a session nobody refreshes runs out.
Expire(t) ==
  /\ t \in alive
  /\ alive' = alive \ {t}
  /\ UNCHANGED <<windowVars, loading, held, logouts, issued, loggedOut>>

\* The application is closed and started again; it keeps nothing on disk.
RestartSession ==
  /\ window' = "none" /\ page' = None /\ abandoned' = FALSE
  /\ loading' = FALSE /\ held' = None
  /\ logouts' = [l \in Logouts |-> NoLogout]
  /\ UNCHANGED backendVars

-----------------------------------------------------------------------------
(* Correctness.                                                            *)

\* The sign-in buttons come back: a sign-in that is still waiting has a window
\* the user can act in, unless the window was closed while its page was read
\* (auth.ipc.ts, the "handled" flag).
SignInSettles == loading /\ window = "none" => abandoned

\* A client does not go on with a session it has logged out: while it still
\* holds the token, a call of logout is under way that will clear it.
LoggedOutIsLetGo ==
  held \in loggedOut => \E l \in Logouts : logouts[l].pc # "idle" /\ logouts[l].token = held

-----------------------------------------------------------------------------
(* The inductive invariant of the session, checked and proved with that of *)
(* VideoClient.                                                            *)

\* The tokens the calls of logout under way carry, or None.
LogoutTokens == {logouts[l].token : l \in Logouts}

\* The window is open during a sign-in only, and what its page shows is new to
\* the client.
SignInInv ==
  /\ window # "none" => loading /\ held = None
  /\ page # None => /\ window \in {"answered", "reading"}
                    /\ page \notin loggedOut \cup LogoutTokens

\* Every token the client or the backend knows has been issued.
IssuedInv ==
  /\ \A t \in Tokens : t \in alive \cup loggedOut \cup {held, page} \cup LogoutTokens => issued[t] # None
  /\ \A l \in Logouts : logouts[l].pc # "idle" => logouts[l].token # None

SessionInv == SessionTypeOK /\ SignInInv /\ IssuedInv /\ SignInSettles /\ LoggedOutIsLetGo
=============================================================================
