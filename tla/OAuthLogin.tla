----------------------------- MODULE OAuthLogin -----------------------------
(***************************************************************************)
(* The OAuth login flow of the backend: the state store, the Discord and   *)
(* Riot callback handlers with their three linking rules, and the three    *)
(* PostgreSQL tables and the session table they write.                     *)
(*                                                                         *)
(* A callback is a chain of awaited calls with no transaction around it,   *)
(* so every awaited call that reads or writes shared state is an action of *)
(* its own and any number of callbacks interleave between them.  req[c].pc *)
(* names the call that callback c makes next.                              *)
(*                                                                         *)
(* Simplifications:                                                        *)
(*  - crypto.randomUUID never repeats.  A callback creates at most one     *)
(*    identity, one profile, one account and one session, so each of these *)
(*    rows is named by the callback that created it.                       *)
(*  - Rows keep the columns that decide something: keys, foreign keys,     *)
(*    e-mail, username and deletedAt.  Token contents, avatars and dates   *)
(*    are left out.                                                        *)
(*  - Of what a provider reports about a user the verified e-mail and the  *)
(*    name are kept.  Both are read afresh at every callback, and may have *)
(*    changed since the last one.                                          *)
(*  - Two reads in a row that take the same branch are one action.         *)
(*  - A local variable is cleared once nothing reads it again.             *)
(***************************************************************************)
EXTENDS Naturals, FiniteSets

CONSTANTS
  Callbacks,      \* the callback requests the server receives
  States,         \* the OAuth state nonces it can issue
  Users,          \* provider users: a (provider, providerUserId) pair each
  Emails,         \* e-mail addresses, in lower case
  Names,          \* sanitised provider usernames
  Provider,       \* the provider of each user
  Info,           \* what the provider may report of each user at a login
  None,           \* an absent value
  Replays,        \* whether a redirect may be delivered again while in progress
  Crashes,        \* whether a callback may stop between two calls
  ServiceCalls    \* the service operations in use that no controller offers

\* DiscordUser or RiotAccount: the verified address, or None, and the name.
ProviderInfo == [email: Emails \cup {None}, name: Names]

ASSUME NoneAssumption ==
  /\ None \notin Callbacks \cup States \cup Users \cup Emails \cup Names
  /\ None \notin ProviderInfo

ASSUME UsersAssumption ==
  /\ Provider \in [Users -> {"discord", "riot"}]
  /\ Info \in [Users -> SUBSET ProviderInfo \ {{}}]
  /\ \A u \in Users : Provider[u] = "riot" => \A i \in Info[u] : i.email = None

\* No provider verifies an address under the .placeholder domains.
ASSUME PlaceholderAssumption == Emails \cap Users = {}

ASSUME SwitchesAssumption ==
  /\ Replays \in BOOLEAN
  /\ Crashes \in BOOLEAN
  /\ ServiceCalls \subseteq {"softDelete", "unlink"}

VARIABLES
  stateStore,  \* oauth_state:* keys of the cache
  identities,  \* rows of table identities, soft-deleted ones included
  deleted,     \* ids of the identities whose deletedAt is set
  profiles,    \* rows of table user_profiles
  accounts,    \* rows of table oauth_accounts
  sessions,    \* live session:* keys of the cache
  bound,       \* history: every row ever inserted into oauth_accounts
  req          \* the local variables of each callback

tables == <<identities, deleted, profiles, accounts, bound>>
vars == <<stateStore, identities, deleted, profiles, accounts, sessions, bound, req>>

-----------------------------------------------------------------------------
(* Rows.                                                                   *)

\* The address that user u, of whom the provider reports info, gets an identity
\* with: the verified one, or else {providerUserId}@{provider}.placeholder, which
\* stands for the user alone.
LoginEmail(u, info) == IF info.email # None THEN info.email ELSE u

StateData == [status: {"unissued", "live", "gone"},
              linkTo: Callbacks \cup {None}, codeVerifier: BOOLEAN]
Identity == [id: Callbacks, email: Emails \cup Users]
UserProfile == [id: Callbacks, identityId: Callbacks, username: Names \X Nat]
OAuthAccount == [id: Callbacks, identityId: Callbacks, user: Users]
Session == [id: Callbacks, identityId: Callbacks, profileId: Callbacks]

\* An account row with the link target that the state of its callback carried.
Binding == [id: Callbacks, identityId: Callbacks, user: Users,
            linkTo: Callbacks \cup {None}]

InFlight == {"consume", "exchange", "findAccount", "readTokens", "writeTokens",
             "readIdentity", "writeLogin", "loadProfile", "readLinkTarget",
             "linkAccount", "checkEmail", "createIdentity", "pickUsername",
             "createProfile", "createAccount", "createSession"}

NoState(status) == [status |-> status, linkTo |-> None, codeVerifier |-> FALSE]

Request == [pc: InFlight \cup {"idle", "done", "failed"},
            state: States \cup {None}, user: Users \cup {None},
            info: ProviderInfo \cup {None},
            linkTo: Callbacks \cup {None}, codeVerifier: BOOLEAN,
            identityId: Callbacks \cup {None}, accountId: Callbacks \cup {None},
            profileId: Callbacks \cup {None}, suffix: Nat]

NoLocals == [pc |-> "idle", state |-> None, user |-> None, info |-> None,
             linkTo |-> None, codeVerifier |-> FALSE, identityId |-> None, accountId |-> None,
             profileId |-> None, suffix |-> 0]

TypeOK ==
  /\ stateStore \in [States -> StateData]
  /\ identities \subseteq Identity
  /\ deleted \subseteq Callbacks
  /\ profiles \subseteq UserProfile
  /\ accounts \subseteq OAuthAccount
  /\ bound \subseteq Binding
  /\ sessions \subseteq Session
  /\ req \in [Callbacks -> Request]

Init ==
  /\ stateStore = [s \in States |-> NoState("unissued")]
  /\ identities = {} /\ deleted = {} /\ profiles = {} /\ accounts = {}
  /\ sessions = {} /\ bound = {}
  /\ req = [c \in Callbacks |-> NoLocals]

\* findActiveById: deletedAt is null.
IsActive(i) == i \notin deleted /\ \E x \in identities : x.id = i

Goto(c, label) == req' = [req EXCEPT ![c].pc = label]

\* The handler throws; its locals die with it.
Fail(c) == req' = [req EXCEPT ![c] = [NoLocals EXCEPT !.pc = "failed"]]

-----------------------------------------------------------------------------
(* The state store and the endpoints that start a flow.                    *)

Generate(s, provider, linkTo) ==
  /\ stateStore[s].status = "unissued"
  /\ stateStore' = [stateStore EXCEPT ![s] =
       [status |-> "live", linkTo |-> linkTo, codeVerifier |-> provider = "riot"]]
  /\ UNCHANGED <<tables, sessions, req>>

\* GET /oauth/{provider}
StartLogin(s, provider) == Generate(s, provider, None)

\* GET /oauth/{provider}/link, behind SessionGuard
StartLink(s, provider) ==
  \E x \in sessions : Generate(s, provider, x.identityId)

\* The cache drops the key after STATE_TTL_SECONDS, or is flushed.
ExpireState(s) ==
  /\ stateStore[s].status = "live"
  /\ stateStore' = [stateStore EXCEPT ![s] = NoState("gone")]
  /\ UNCHANGED <<tables, sessions, req>>

\* GET /oauth/{provider}/callback up to the cache read of validateAndConsume.
\* A callback with another nonce is answered 401 and leaves no trace.
ReceiveCallback(c, s, u) ==
  /\ req[c].pc = "idle"
  /\ stateStore[s].status = "live"
  /\ Replays \/ \A d \in Callbacks : req[d].state # s
  /\ req' = [req EXCEPT ![c].pc = "consume", ![c].state = s, ![c].user = u,
                        ![c].linkTo = stateStore[s].linkTo,
                        ![c].codeVerifier = stateStore[s].codeVerifier]
  /\ UNCHANGED <<stateStore, tables, sessions>>

\* The delete of validateAndConsume, then the PKCE check of the Riot handler.
ConsumeState(c) ==
  /\ req[c].pc = "consume"
  /\ stateStore' = [stateStore EXCEPT ![req[c].state] = NoState("gone")]
  /\ IF Provider[req[c].user] = "riot" /\ ~req[c].codeVerifier
       THEN Fail(c)
       ELSE req' = [req EXCEPT ![c].pc = "exchange", ![c].state = None,
                               ![c].codeVerifier = FALSE]
  /\ UNCHANGED <<tables, sessions>>

\* exchangeCode succeeds, and getUserInfo or getAccountInfo answers with what the
\* provider says of the user today.
ExchangeCode(c) ==
  /\ req[c].pc = "exchange"
  /\ \E i \in Info[req[c].user] :
       req' = [req EXCEPT ![c].pc = "findAccount", ![c].info = i]
  /\ UNCHANGED <<stateStore, tables, sessions>>

-----------------------------------------------------------------------------
(* Rule 1: the provider account is known, log in.                          *)

\* Mutant of FindAccount: Rule 1 does not look the profile up.
FindAccountSkipsProfile(c) ==
  /\ req[c].pc = "findAccount"
  /\ \/ \E a \in accounts :
          /\ a.user = req[c].user
          /\ req' = [req EXCEPT ![c].pc = "createSession", ![c].accountId = a.id,
                                ![c].identityId = a.identityId]
     \/ (\A a \in accounts : a.user # req[c].user) /\ Goto(c, "createIdentity")
  /\ UNCHANGED <<stateStore, tables, sessions>>

\* Rule 1 ignores a link request, and only a sign-up looks at the address and the
\* name again.
FindAccount(c) ==
  /\ req[c].pc = "findAccount"
  /\ \/ \E a \in accounts :
          /\ a.user = req[c].user
          /\ req' = [req EXCEPT ![c].pc = "readTokens", ![c].accountId = a.id,
                                ![c].identityId = a.identityId, ![c].info = None,
                                ![c].linkTo = None]
     \/ /\ \A a \in accounts : a.user # req[c].user
        /\ \/ /\ req[c].linkTo # None
              /\ req' = [req EXCEPT ![c].pc = "readLinkTarget", ![c].info = None]
           \/ /\ req[c].linkTo = None
              /\ Goto(c, IF req[c].info.email # None THEN "checkEmail" ELSE "createIdentity")
  /\ UNCHANGED <<stateStore, tables, sessions>>

\* updateTokens returns in silence when the row is gone by the time it reads
\* it, and Prisma's update throws when the row goes between read and write.
ReadTokens(c) ==
  /\ req[c].pc = "readTokens"
  /\ Goto(c, IF \E a \in accounts : a.id = req[c].accountId
             THEN "writeTokens" ELSE "readIdentity")
  /\ UNCHANGED <<stateStore, tables, sessions>>

WriteTokens(c) ==
  /\ req[c].pc = "writeTokens"
  /\ IF \E a \in accounts : a.id = req[c].accountId
       THEN Goto(c, "readIdentity") ELSE Fail(c)
  /\ UNCHANGED <<stateStore, tables, sessions>>

\* findByIdOrThrow, and the read that updateLastLogin makes of the same row.
ReadIdentity(c) ==
  /\ req[c].pc = "readIdentity"
  /\ IF IsActive(req[c].identityId) THEN Goto(c, "writeLogin") ELSE Fail(c)
  /\ UNCHANGED <<stateStore, tables, sessions>>

\* updateLastLogin writes back every column of the row it read, the null
\* deletedAt included.
WriteLogin(c) ==
  /\ req[c].pc = "writeLogin"
  /\ deleted' = deleted \ {req[c].identityId}
  /\ Goto(c, "loadProfile")
  /\ UNCHANGED <<stateStore, identities, profiles, accounts, bound, sessions>>

\* findByIdentityIdOrThrow of Rule 1 and of the link flow.
LoadProfile(c) ==
  /\ req[c].pc = "loadProfile"
  /\ \/ \E p \in profiles :
          /\ p.identityId = req[c].identityId
          /\ req' = [req EXCEPT ![c].pc = "createSession", ![c].profileId = p.id]
     \/ /\ \A p \in profiles : p.identityId # req[c].identityId
        /\ Fail(c)
  /\ UNCHANGED <<stateStore, tables, sessions>>

-----------------------------------------------------------------------------
(* The explicit link flow.                                                 *)

ReadLinkTarget(c) ==
  /\ req[c].pc = "readLinkTarget"
  /\ IF IsActive(req[c].linkTo)
       THEN req' = [req EXCEPT ![c].pc = "linkAccount", ![c].identityId = req[c].linkTo]
       ELSE Fail(c)
  /\ UNCHANGED <<stateStore, tables, sessions>>

AccountRow(c) ==
  [id |-> c, identityId |-> req[c].identityId, user |-> req[c].user]

BindingRow(c) == [id |-> c, identityId |-> req[c].identityId,
                  user |-> req[c].user, linkTo |-> req[c].linkTo]

\* Mutant of InsertAccount: no unique index on the provider user.
InsertAccountAnyUser(c, next) ==
  /\ accounts' = accounts \cup {AccountRow(c)}
  /\ bound' = bound \cup {BindingRow(c)}
  /\ Goto(c, next)

\* OAuthAccountService.create.  The unique index on (provider,
\* providerUserId) turns a second row for the user into an exception.
InsertAccount(c, next) ==
  \/ /\ \A a \in accounts : a.user # req[c].user
     /\ accounts' = accounts \cup {AccountRow(c)}
     /\ bound' = bound \cup {BindingRow(c)}
     /\ Goto(c, next)
  \/ /\ \E a \in accounts : a.user = req[c].user
     /\ Fail(c)
     /\ UNCHANGED <<accounts, bound>>

LinkAccount(c) ==
  /\ req[c].pc = "linkAccount"
  /\ InsertAccount(c, "loadProfile")
  /\ UNCHANGED <<stateStore, identities, deleted, profiles, sessions>>

-----------------------------------------------------------------------------
(* Rules 3 and 2: refuse an e-mail collision, else sign the user up.       *)

\* Mutant of CheckEmail: a matching e-mail links the account by itself.
CheckEmailLinks(c) ==
  /\ req[c].pc = "checkEmail"
  /\ \/ \E x \in identities :
          /\ x.id \notin deleted /\ x.email = req[c].info.email
          /\ req' = [req EXCEPT ![c].pc = "linkAccount", ![c].identityId = x.id]
     \/ /\ \A x \in identities :
             x.id \in deleted \/ x.email # req[c].info.email
        /\ Goto(c, "createIdentity")
  /\ UNCHANGED <<stateStore, tables, sessions>>

\* Mutant of CheckEmail: a matching e-mail logs in without linking.
CheckEmailLogsIn(c) ==
  /\ req[c].pc = "checkEmail"
  /\ \/ \E x \in identities :
          /\ x.id \notin deleted /\ x.email = req[c].info.email
          /\ req' = [req EXCEPT ![c].pc = "loadProfile", ![c].identityId = x.id]
     \/ /\ \A x \in identities :
             x.id \in deleted \/ x.email # req[c].info.email
        /\ Goto(c, "createIdentity")
  /\ UNCHANGED <<stateStore, tables, sessions>>

\* Rule 3: findByEmail sees the identities that are not soft-deleted.
CheckEmail(c) ==
  /\ req[c].pc = "checkEmail"
  /\ IF \E x \in identities : x.id \notin deleted /\ x.email = req[c].info.email
       THEN Fail(c) ELSE Goto(c, "createIdentity")
  /\ UNCHANGED <<stateStore, tables, sessions>>

\* Mutant of CreateIdentity: the account is written before the profile.
CreateIdentityAccountFirst(c) ==
  /\ req[c].pc = "createIdentity"
  /\ \A x \in identities : x.email # LoginEmail(req[c].user, req[c].info)
  /\ identities' = identities \cup {[id |-> c, email |-> LoginEmail(req[c].user, req[c].info)]}
  /\ req' = [req EXCEPT ![c].pc = "createAccount", ![c].identityId = c]
  /\ UNCHANGED <<stateStore, deleted, profiles, accounts, bound, sessions>>

\* IdentityService.create.  The unique index on e-mail covers soft-deleted
\* rows too.
CreateIdentity(c) ==
  LET email == LoginEmail(req[c].user, req[c].info) IN
  /\ req[c].pc = "createIdentity"
  /\ \/ /\ \A x \in identities : x.email # email
        /\ identities' = identities \cup {[id |-> c, email |-> email]}
        /\ req' = [req EXCEPT ![c].pc = "pickUsername", ![c].identityId = c]
     \/ /\ \E x \in identities : x.email = email
        /\ Fail(c)
        /\ UNCHANGED identities
  /\ UNCHANGED <<stateStore, deleted, profiles, accounts, bound, sessions>>

\* One turn of the loop of generateUniqueUsername: name, name1, name2, ...
PickUsername(c) ==
  LET username == <<req[c].info.name, req[c].suffix>> IN
  /\ req[c].pc = "pickUsername"
  /\ \/ /\ \E p \in profiles : p.username = username
        /\ req' = [req EXCEPT ![c].suffix = @ + 1]
     \/ /\ \A p \in profiles : p.username # username
        /\ Goto(c, "createProfile")
  /\ UNCHANGED <<stateStore, tables, sessions>>

\* UserProfileService.create, under the unique indexes on identityId and
\* username.
CreateProfile(c) ==
  LET row == [id |-> c, identityId |-> req[c].identityId,
              username |-> <<req[c].info.name, req[c].suffix>>]
      taken == \E p \in profiles : \/ p.identityId = row.identityId
                                   \/ p.username = row.username
  IN /\ req[c].pc = "createProfile"
     /\ \/ /\ ~taken
           /\ profiles' = profiles \cup {row}
           /\ req' = [req EXCEPT ![c].pc = "createAccount", ![c].profileId = c,
                                 ![c].info = None, ![c].suffix = 0]
        \/ /\ taken
           /\ Fail(c)
           /\ UNCHANGED profiles
     /\ UNCHANGED <<stateStore, identities, deleted, accounts, bound, sessions>>

CreateAccount(c) ==
  /\ req[c].pc = "createAccount"
  /\ InsertAccount(c, "createSession")
  /\ UNCHANGED <<stateStore, identities, deleted, profiles, sessions>>

SessionOf(c) ==
  [id |-> c, identityId |-> req[c].identityId, profileId |-> req[c].profileId]

\* SessionService.create, in the controller once the handler has returned.
CreateSession(c) ==
  /\ req[c].pc = "createSession"
  /\ sessions' = sessions \cup {SessionOf(c)}
  /\ req' = [req EXCEPT ![c] = [NoLocals EXCEPT
               !.pc = "done", !.user = req[c].user, !.identityId = req[c].identityId,
               !.profileId = req[c].profileId]]
  /\ UNCHANGED <<stateStore, tables>>

-----------------------------------------------------------------------------
(* What else happens to the shared state.                                  *)

\* A provider or database error, or the death of the process, ends the
\* handler between two calls and leaves what it has written.
Crash(c) ==
  /\ Crashes
  /\ req[c].pc \in InFlight
  /\ Fail(c)
  /\ UNCHANGED <<stateStore, tables, sessions>>

\* POST /oauth/logout, or the session's TTL runs out.
EndSession(x) ==
  /\ sessions' = sessions \ {x}
  /\ UNCHANGED <<stateStore, tables, req>>

\* A guard or touch that had read the session before its end writes back what
\* it read.
RestoreSession(c) ==
  /\ req[c].pc = "done"
  /\ sessions' = sessions \cup {SessionOf(c)}
  /\ UNCHANGED <<stateStore, tables, req>>

SoftDelete(i) ==
  /\ "softDelete" \in ServiceCalls
  /\ IsActive(i)
  /\ deleted' = deleted \cup {i}
  /\ UNCHANGED <<stateStore, identities, profiles, accounts, bound, sessions, req>>

\* deleteMany: every account of the identity at that provider.
UnlinkAccount(i, provider) ==
  /\ "unlink" \in ServiceCalls
  /\ \E a \in accounts : a.identityId = i /\ Provider[a.user] = provider
  /\ accounts' = {a \in accounts : a.identityId # i \/ Provider[a.user] # provider}
  /\ UNCHANGED <<stateStore, identities, deleted, profiles, bound, sessions, req>>

HandlerStep(c) ==
  \/ ConsumeState(c) \/ ExchangeCode(c) \/ FindAccount(c)
  \/ ReadTokens(c) \/ WriteTokens(c) \/ ReadIdentity(c) \/ WriteLogin(c)
  \/ LoadProfile(c) \/ ReadLinkTarget(c) \/ LinkAccount(c)
  \/ CheckEmail(c) \/ CreateIdentity(c) \/ PickUsername(c) \/ CreateProfile(c)
  \/ CreateAccount(c) \/ CreateSession(c)

Next ==
  \/ \E s \in States, p \in {"discord", "riot"} : StartLogin(s, p) \/ StartLink(s, p)
  \/ \E s \in States : ExpireState(s)
  \/ \E c \in Callbacks, s \in States, u \in Users : ReceiveCallback(c, s, u)
  \/ \E c \in Callbacks : HandlerStep(c) \/ Crash(c) \/ RestoreSession(c)
  \/ \E x \in sessions : EndSession(x)
  \/ \E i \in Callbacks : SoftDelete(i)
  \/ \E i \in Callbacks, p \in {"discord", "riot"} : UnlinkAccount(i, p)

Spec == Init /\ [][Next]_vars

-----------------------------------------------------------------------------
(* Correctness.                                                            *)

\* A live session's bearer authenticated as a provider user who was linked to
\* the session's identity, and the session's profile is that identity's
\* profile: no token mixes two people, whatever ran in between the calls that
\* put it together (oauth.controller.ts, CreateSession).
SessionsAreOwned ==
  \A x \in sessions :
    /\ \E b \in bound : b.identityId = x.identityId /\ b.user = req[x.id].user
    /\ \E p \in profiles : p.id = x.profileId /\ p.identityId = x.identityId

\* An oauth_accounts row always leads to an identity that has its one profile,
\* even when the callback that wrote it died halfway: Rule 1 can never find an
\* account and then fail with "user profile not found".
AccountsAreWhole ==
  \A a \in accounts :
    /\ \E x \in identities : x.id = a.identityId
    /\ \E p \in profiles : p.identityId = a.identityId
    /\ \A p, q \in profiles : p.identityId = q.identityId => p = q

\* Rule 3: an account joins an identity that another callback created only on
\* the link request of a session of that identity, so only after its founder
\* had signed up completely.  A verified e-mail alone never merges two people.
LinksStartFromOwner ==
  \A b \in bound :
    b.identityId # b.id =>
      /\ b.linkTo = b.identityId
      /\ \E f \in bound : f.id = b.identityId /\ f.identityId = f.id

\* However many logins of one provider user run at once, fail, are replayed or are
\* tried again with another address, the sessions they end in are all for one
\* identity, unless an account of the user has been unlinked meanwhile.
\* (Identities that no session is for there can be several of: a sign-up that
\* failed leaves one behind, and a retry with a new address founds the next.)
SessionsOfOneIdentity ==
  \A c, d \in Callbacks :
    /\ req[c].pc = "done" /\ req[d].pc = "done"
    /\ req[c].user = req[d].user /\ req[c].identityId # req[d].identityId
    => \E b \in bound : /\ b.user = req[c].user
                        /\ \A a \in accounts : a.user = b.user => a.identityId # b.identityId

\* The tables as LoginContract sees them.
Owner == [u \in Users |->
            IF \E a \in accounts : a.user = u
            THEN (CHOOSE a \in accounts : a.user = u).identityId ELSE None]
Ever == {<<b.user, b.identityId>> : b \in bound}
Grants == {<<req[c].user, req[c].identityId>> : c \in {d \in Callbacks : req[d].pc = "done"}}

Contract == INSTANCE LoginContract WITH
  Ids <- Callbacks, owner <- Owner, ever <- Ever, granted <- Grants

\* Every behaviour of the tables, crashes and unlinks included, is one that
\* LoginContract allows.
ImplementsContract == Contract!Spec

\* operations.md, on a callback that failed: "Users can retry - the flow is
\* idempotent."  When nothing is in flight, a provider user without an account
\* finds each address it may come with free, or held by an identity somebody can
\* log in to.
RetryCanSucceed ==
  (\A c \in Callbacks : req[c].pc \notin InFlight) =>
    \A u \in Users :
      \/ \E a \in accounts : a.user = u
      \/ \A x \in identities, i \in Info[u] :
            x.email = LoginEmail(u, i) => \E a \in accounts : a.identityId = x.id

-----------------------------------------------------------------------------
(* What makes the invariants above, and the refinement, inductive.         *)

\* The callback that created identity i finished its oauth_accounts row.
Founded(i) == \E f \in bound : f.id = i /\ f.identityId = i
Linked(u, i) == \E b \in bound : b.identityId = i /\ b.user = u
HasIdentity(i) == \E x \in identities : x.id = i
HasProfile(i) == \E p \in profiles : p.identityId = i

\* A session has been granted for identity i.
Granted(i) == \E d \in Callbacks : req[d].pc = "done" /\ req[d].identityId = i

\* What callback c must know by the time its next call is pc.
Knows(c, pc) ==
  /\ pc \notin {"idle", "failed"} => req[c].user \in Users
  /\ pc = "consume" => req[c].state \in States
  /\ pc \in {"findAccount", "checkEmail", "createIdentity", "pickUsername",
             "createProfile"} => req[c].info # None
  /\ req[c].linkTo # None => Granted(req[c].linkTo)
  /\ pc = "readLinkTarget" => req[c].linkTo # None
  /\ pc = "linkAccount" => req[c].linkTo # None /\ req[c].identityId = req[c].linkTo
  /\ pc \in {"pickUsername", "createProfile", "createAccount"} =>
       req[c].identityId = c /\ HasIdentity(c)
  /\ pc = "createAccount" =>
       \E p \in profiles : p.id = req[c].profileId /\ p.identityId = c
  /\ pc \in {"idle", "consume", "exchange", "findAccount", "readLinkTarget",
             "linkAccount", "checkEmail", "createIdentity", "pickUsername",
             "createProfile", "createAccount"} => \A b \in bound : b.id # c
  /\ pc \in {"readTokens", "writeTokens", "readIdentity", "writeLogin", "loadProfile",
             "createSession", "done"} =>
       req[c].identityId # None /\ Linked(req[c].user, req[c].identityId)
  /\ pc \in {"createSession", "done"} =>
       \E p \in profiles : p.id = req[c].profileId /\ p.identityId = req[c].identityId

CallbackOK(c) == Knows(c, req[c].pc)

StoreOK == \A s \in States : stateStore[s].linkTo # None => Granted(stateStore[s].linkTo)

IdentitiesOK ==
  /\ \A x \in identities : req[x.id].pc # "idle"
  /\ \A x, y \in identities : x.email = y.email => x = y

ProfilesOK == \A p, q \in profiles : p.identityId = q.identityId => p = q

BoundOK ==
  \A b \in bound : /\ HasIdentity(b.identityId) /\ HasProfile(b.identityId)
                   /\ b.identityId # b.id => b.linkTo = b.identityId /\ Founded(b.identityId)

AccountsOK ==
  /\ \A a \in accounts :
       \E b \in bound : b.id = a.id /\ b.identityId = a.identityId /\ b.user = a.user
  /\ \A a, b \in accounts : a.user = b.user => a = b

SessionsOK ==
  \A x \in sessions :
    req[x.id].pc = "done" /\ x = SessionOf(x.id)

IInv ==
  /\ TypeOK
  /\ \A c \in Callbacks : CallbackOK(c)
  /\ StoreOK
  /\ IdentitiesOK
  /\ ProfilesOK
  /\ BoundOK
  /\ AccountsOK
  /\ SessionsOK
=============================================================================
