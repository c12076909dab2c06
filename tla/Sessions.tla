------------------------------ MODULE Sessions ------------------------------
(***************************************************************************)
(* The session store: SessionService and SessionGuard over the session:*   *)
(* keys of Redis.                                                          *)
(*                                                                         *)
(* Redis executes one command at a time, so a step is one command.  The    *)
(* guard, touch and revokeAllForIdentity read a key in one command and     *)
(* write or delete it in a later one; other requests run in between.       *)
(*                                                                         *)
(* Simplifications:                                                        *)
(*  - Time passes in steps of which ttlSeconds has TTL.                    *)
(*  - A session value is its identityId.  The profile and the provider     *)
(*    travel with it, and lastActivityAt is never read by the backend.     *)
(*  - Requests are the requests the server has open at a time; each can be *)
(*    used again once it has been answered.                                *)
(***************************************************************************)
EXTENDS Naturals

CONSTANTS
  Tokens,      \* the session ids crypto.randomUUID can return
  Identities,
  Requests,    \* requests the server has open
  TTL,         \* SESSION_TTL_SECONDS
  None         \* an absent value

ASSUME TTLAssumption == TTL \in Nat \ {0}

VARIABLES
  store,    \* the session:* keys
  issued,   \* history: the identity each token was issued to
  revoked,  \* history: the tokens whose revoke has returned
  req,      \* the local variables of each open request
  back      \* history: the keys written again after a running revokeAll saw them

vars == <<store, issued, revoked, req, back>>

\* A key set without a TTL has ttl 0 and never expires.
Entry == [identityId: Identities, ttl: 0..TTL]

ASSUME AbsentAssumption == None \notin Tokens \cup Identities \cup Entry

Request == [pc: {"idle", "guardSet", "touchGet", "touchSet", "loop", "del", "done"},
            token: Tokens \cup {None}, identityId: Identities \cup {None},
            listed: SUBSET Tokens, keys: SUBSET Tokens]

NoLocals == [pc |-> "idle", token |-> None, identityId |-> None,
             listed |-> {}, keys |-> {}]

TypeOK ==
  /\ store \in [Tokens -> Entry \cup {None}]
  /\ issued \in [Tokens -> Identities \cup {None}]
  /\ revoked \subseteq Tokens
  /\ req \in [Requests -> Request]
  /\ back \in [Requests -> SUBSET Tokens]

Init ==
  /\ store = [t \in Tokens |-> None]
  /\ issued = [t \in Tokens |-> None]
  /\ revoked = {}
  /\ req = [r \in Requests |-> NoLocals]
  /\ back = [r \in Requests |-> {}]

Live(t) == store[t] # None

\* The requests that have read t's session and will write it back.
Writers(t) == {r \in Requests : req[r].pc \in {"guardSet", "touchSet"} /\ req[r].token = t}

\* The keys a running revokeAll has dealt with.
Seen(r) == req[r].listed \ req[r].keys

Answer(r) == req' = [req EXCEPT ![r] = NoLocals]

-----------------------------------------------------------------------------
(* SETEX and the three requests that end in it.                            *)

SetKey(t, i) ==
  /\ store' = [store EXCEPT ![t] = [identityId |-> i, ttl |-> TTL]]
  /\ back' = [r \in Requests |-> IF t \in Seen(r) THEN back[r] \cup {t} ELSE back[r]]

\* SessionService.create at the end of a login.
Create(t, i) ==
  /\ issued[t] = None
  /\ issued' = [issued EXCEPT ![t] = i]
  /\ SetKey(t, i)
  /\ UNCHANGED <<revoked, req>>

\* SessionGuard reads the session; without one the request is answered 401.
GuardGet(r, t) ==
  /\ req[r].pc = "idle"
  /\ Live(t)
  /\ req' = [req EXCEPT ![r] = [NoLocals EXCEPT !.pc = "guardSet", !.token = t,
                                                !.identityId = store[t].identityId]]
  /\ UNCHANGED <<store, issued, revoked, back>>

\* Mutant of GuardSet: the guard refreshes with a default shorter than TTL.
GuardSetDefault(r) ==
  /\ req[r].pc = "guardSet"
  /\ store' = [store EXCEPT ![req[r].token] =
                 [identityId |-> req[r].identityId, ttl |-> TTL - 1]]
  /\ Answer(r)
  /\ UNCHANGED <<issued, revoked, back>>

\* Mutant of GuardSet: the guard refreshes without a TTL.
GuardSetForever(r) ==
  /\ req[r].pc = "guardSet"
  /\ store' = [store EXCEPT ![req[r].token] =
                 [identityId |-> req[r].identityId, ttl |-> 0]]
  /\ Answer(r)
  /\ UNCHANGED <<issued, revoked, back>>

GuardSet(r) ==
  /\ req[r].pc = "guardSet"
  /\ SetKey(req[r].token, req[r].identityId)
  /\ Answer(r)
  /\ UNCHANGED <<issued, revoked>>

\* The read of validate, whose result is the answer whatever touch then finds.
ValidateGet(r, t) ==
  /\ req[r].pc = "idle"
  /\ Live(t)
  /\ req' = [req EXCEPT ![r] = [NoLocals EXCEPT !.pc = "touchGet", !.token = t]]
  /\ UNCHANGED <<store, issued, revoked, back>>

\* Mutant of TouchGet: touch trusts that validate has just read the session.
TouchGetUnchecked(r) ==
  /\ req[r].pc = "touchGet"
  /\ req' = [req EXCEPT ![r].pc = "touchSet", ![r].identityId = issued[req[r].token]]
  /\ UNCHANGED <<store, issued, revoked, back>>

\* Mutant of TouchGet: touch writes the session back without reading it.
TouchGetNothing(r) ==
  /\ req[r].pc = "touchGet"
  /\ Live(req[r].token)
  /\ req' = [req EXCEPT ![r].pc = "touchSet"]
  /\ UNCHANGED <<store, issued, revoked, back>>

\* touch returns false when the session has gone since.
TouchGet(r) ==
  /\ req[r].pc = "touchGet"
  /\ \/ /\ Live(req[r].token)
        /\ req' = [req EXCEPT ![r].pc = "touchSet",
                              ![r].identityId = store[req[r].token].identityId]
     \/ ~Live(req[r].token) /\ Answer(r)
  /\ UNCHANGED <<store, issued, revoked, back>>

TouchSet(r) ==
  /\ req[r].pc = "touchSet"
  /\ SetKey(req[r].token, req[r].identityId)
  /\ Answer(r)
  /\ UNCHANGED <<issued, revoked>>

-----------------------------------------------------------------------------
(* Revocation.                                                             *)

\* POST /oauth/logout.  A token nobody was issued deletes nothing.
Revoke(t) ==
  /\ issued[t] # None
  /\ store' = [store EXCEPT ![t] = None]
  /\ revoked' = revoked \cup {t}
  /\ UNCHANGED <<issued, req, back>>

RevokeAllKeys(r, i) ==
  /\ req[r].pc = "idle"
  /\ req' = [req EXCEPT ![r] = [NoLocals EXCEPT !.pc = "loop", !.identityId = i,
                                                !.listed = {t \in Tokens : Live(t)},
                                                !.keys = {t \in Tokens : Live(t)}]]
  /\ UNCHANGED <<store, issued, revoked, back>>

\* Mutant of RevokeAllGet: the owner of the session is not compared.
RevokeAllGetAnyone(r, t) ==
  /\ req[r].pc = "loop" /\ t \in req[r].keys
  /\ IF Live(t)
       THEN req' = [req EXCEPT ![r].pc = "del", ![r].token = t]
       ELSE req' = [req EXCEPT ![r].keys = @ \ {t}]
  /\ UNCHANGED <<store, issued, revoked, back>>

\* One turn of the loop up to the comparison; Redis lists keys in any order.
RevokeAllGet(r, t) ==
  /\ req[r].pc = "loop" /\ t \in req[r].keys
  /\ IF Live(t) /\ store[t].identityId = req[r].identityId
       THEN req' = [req EXCEPT ![r].pc = "del", ![r].token = t]
       ELSE req' = [req EXCEPT ![r].keys = @ \ {t}]
  /\ UNCHANGED <<store, issued, revoked, back>>

\* Mutant of RevokeAllDel: the loop stops at the first session it deletes.
RevokeAllDelFirst(r) ==
  /\ req[r].pc = "del"
  /\ store' = [store EXCEPT ![req[r].token] = None]
  /\ req' = [req EXCEPT ![r].pc = "done", ![r].token = None, ![r].keys = {}]
  /\ UNCHANGED <<issued, revoked, back>>

RevokeAllDel(r) ==
  /\ req[r].pc = "del"
  /\ store' = [store EXCEPT ![req[r].token] = None]
  /\ req' = [req EXCEPT ![r].pc = "loop", ![r].token = None,
                        ![r].keys = @ \ {req[r].token}]
  /\ UNCHANGED <<issued, revoked, back>>

RevokeAllEnd(r) ==
  /\ req[r].pc = "loop" /\ req[r].keys = {}
  /\ req' = [req EXCEPT ![r].pc = "done"]
  /\ UNCHANGED <<store, issued, revoked, back>>

-----------------------------------------------------------------------------

\* A Redis error or the death of the process, or the caller of a finished
\* revokeAll moving on.
Leave(r) ==
  /\ req[r].pc # "idle"
  /\ Answer(r)
  /\ back' = [back EXCEPT ![r] = {}]
  /\ UNCHANGED <<store, issued, revoked>>

\* Time passes, and Redis drops the keys whose TTL has run out.
Tick ==
  /\ \E t \in Tokens : Live(t) /\ store[t].ttl > 0
  /\ store' = [t \in Tokens |->
       IF ~Live(t) \/ store[t].ttl = 0 THEN store[t]
       ELSE IF store[t].ttl = 1 THEN None
       ELSE [store[t] EXCEPT !.ttl = @ - 1]]
  /\ UNCHANGED <<issued, revoked, req, back>>

Step(r) ==
  \/ GuardSet(r) \/ TouchGet(r) \/ TouchSet(r)
  \/ RevokeAllDel(r) \/ RevokeAllEnd(r) \/ Leave(r)

Next ==
  \/ \E t \in Tokens, i \in Identities : Create(t, i)
  \/ \E r \in Requests, t \in Tokens :
       GuardGet(r, t) \/ ValidateGet(r, t) \/ RevokeAllGet(r, t)
  \/ \E r \in Requests, i \in Identities : RevokeAllKeys(r, i)
  \/ \E r \in Requests : Step(r)
  \/ \E t \in Tokens : Revoke(t)
  \/ Tick

Spec == Init /\ [][Next]_vars

\* Time does not stop.
FairSpec == Spec /\ WF_vars(Tick)

-----------------------------------------------------------------------------
(* Correctness.                                                            *)

\* A token speaks for the identity it was issued to for as long as it lives,
\* however many refreshes write an old reading of it back.
TokensKeepIdentity ==
  \A t \in Tokens : Live(t) => store[t].identityId = issued[t]

\* Once a session has ended, by logout, revokeAll or expiry, and no refresh that
\* had read it is still under way, nothing brings it back: the guard and touch
\* never write a session that they did not find.
EndedStaysEnded ==
  [][\A t \in Tokens :
       issued[t] # None /\ ~Live(t) /\ Writers(t) = {} =>
         ~Live(t)' /\ Writers(t)' = {}]_vars

\* Of the sessions of an identity that revokeAllForIdentity has gone through,
\* only those are alive whose refresh was under way and wrote them back.
RevokeAllLeavesNone ==
  \A r \in Requests, t \in Tokens :
    /\ req[r].pc \in {"loop", "del", "done"}
    /\ t \in Seen(r)
    /\ issued[t] = req[r].identityId
    => ~Live(t) \/ t \in back[r]

\* A session ends when its time is up, when its own token is logged out, or when
\* all sessions of its own identity are revoked, and for no other reason.
EndsForAReason ==
  [][\A t \in Tokens :
       Live(t) /\ ~Live(t)' =>
         \/ store[t].ttl = 1
         \/ t \in revoked'
         \/ \E r \in Requests : /\ req[r].pc = "del" /\ req[r].token = t
                                /\ req[r].identityId = issued[t]]_vars

\* Nothing but time shortens the life of a session: every writer of the key uses
\* the one configured TTL, so an active user is never cut short by a late write.
OnlyTimeShortens ==
  [][\A t \in Tokens :
       Live(t) /\ Live(t)' /\ store'[t].ttl < store[t].ttl => Tick]_vars

\* A session that is no longer used expires (the sliding window has an end).
UnusedExpires ==
  \A t \in Tokens : <>[](Writers(t) = {}) => <>[](~Live(t))

\* decisions.md D-006: "Instant revocation (delete the Redis key)."  A token that
\* has been logged out is not accepted any more.
RevocationIsInstant == \A t \in revoked : ~Live(t)

-----------------------------------------------------------------------------
(* What makes the invariants inductive.                                    *)

\* What request r knows of the session it is working on.
RequestOK(r) ==
  /\ req[r].pc \in {"guardSet", "touchGet", "touchSet", "del"} =>
       req[r].token \in Tokens /\ issued[req[r].token] # None
  /\ req[r].pc \in {"guardSet", "touchSet", "del"} => req[r].identityId = issued[req[r].token]
  /\ req[r].pc \in {"idle", "guardSet", "touchGet", "touchSet"} => req[r].listed = {}
  /\ req[r].pc = "del" => req[r].token \in req[r].keys
  /\ req[r].pc \in {"loop", "del", "done"} => req[r].identityId \in Identities
  /\ \A t \in req[r].listed : issued[t] # None

IInv ==
  /\ TypeOK
  /\ \A r \in Requests : RequestOK(r)
  /\ TokensKeepIdentity
  /\ RevokeAllLeavesNone
=============================================================================
