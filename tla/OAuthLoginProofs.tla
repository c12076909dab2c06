-------------------------- MODULE OAuthLoginProofs --------------------------
(***************************************************************************)
(* Proofs about OAuthLogin for any number of callbacks, nonces and users.  *)
(*                                                                         *)
(* IInv carries the argument.  A callback's locals are its own, a finished *)
(* callback does not change at all, and the identities, the profiles and   *)
(* the history of account rows only grow, so what a                        *)
(* callback knows at one call still holds at its next call whatever the    *)
(* other callbacks did in between (OthersKeep).  The calls that write no   *)
(* row are then alike (LocalStep), and each insert needs the guard of the  *)
(* unique index it runs under.                                             *)
(***************************************************************************)
EXTENDS OAuthLogin, TLAPS

\* What every step of callback c does to the callbacks' locals.
ReqStep(c) ==
  /\ req' \in [Callbacks -> Request]
  /\ \A d \in Callbacks : d # c => req'[d] = req[d]
  /\ req[c].pc # "idle" => req'[c].pc # "idle"
  /\ req[c].pc # "done"

\* What every step of callback c does to the tables that only grow.
Grows(c) ==
  /\ identities \subseteq identities'
  /\ profiles \subseteq profiles'
  /\ bound \subseteq bound'
  /\ \A b \in bound' : b \in bound \/ b.id = c

-----------------------------------------------------------------------------
(* Facts about the predicates of the invariant.                            *)

\* A granted session stays granted: nothing changes a finished callback.
LEMMA GrantedKeeps ==
  ASSUME NEW c \in Callbacks, ReqStep(c), NEW i, Granted(i)
  PROVE  Granted(i)'
BY DEF Granted, ReqStep

\* What callback d knows is not undone by a step of another callback.
LEMMA CallbackKeeps ==
  ASSUME NEW c \in Callbacks, ReqStep(c), Grows(c),
         NEW d \in Callbacks, d # c, CallbackOK(d)
  PROVE  CallbackOK(d)'
<1>1. req'[d] = req[d]
  BY DEF ReqStep
<1>2. /\ \A i : Granted(i) => Granted(i)'
      /\ \A u, i : Linked(u, i) => Linked(u, i)'
      /\ \A i : HasIdentity(i) => HasIdentity(i)'
  BY GrantedKeeps DEF Grows, Linked, HasIdentity
<1>3. QED
  BY <1>1, <1>2 DEF CallbackOK, Knows, Grows, Granted, Linked, HasIdentity

\* The identities of the callbacks and the granted sessions are not disturbed.
LEMMA OthersKeep ==
  ASSUME IInv, NEW c \in Callbacks, ReqStep(c), Grows(c), CallbackOK(c)'
  PROVE  /\ \A d \in Callbacks : CallbackOK(d)'
         /\ StoreOK /\ UNCHANGED stateStore => StoreOK'
<1>1. \A d \in Callbacks : CallbackOK(d)'
  BY CallbackKeeps DEF IInv
<1>2. StoreOK /\ UNCHANGED stateStore => StoreOK'
  BY GrantedKeeps DEF StoreOK
<1>3. QED
  BY <1>1, <1>2

\* Whoever is linked to an identity, its founder finished its account row.
LEMMA LinkedIsFounded ==
  ASSUME NEW u, NEW i, BoundOK, Linked(u, i)
  PROVE  Founded(i)
BY DEF BoundOK, Linked, Founded

\* An identity that a session was granted for was signed up completely.
LEMMA GrantedIsFounded ==
  ASSUME IInv, NEW i, Granted(i)
  PROVE  Founded(i) /\ HasIdentity(i) /\ HasProfile(i)
<1>1. PICK d \in Callbacks : req[d].pc = "done" /\ req[d].identityId = i
  BY DEF Granted
<1>2. Linked(req[d].user, i)
  BY <1>1 DEF IInv, CallbackOK, Knows
<1>3. QED
  BY <1>2, LinkedIsFounded DEF IInv, BoundOK, Linked

\* A step of one callback that writes no row.
LEMMA LocalStep ==
  ASSUME IInv, NEW c \in Callbacks, ReqStep(c), CallbackOK(c)',
         stateStore' \in [States -> StateData], StoreOK',
         deleted' \subseteq Callbacks,
         UNCHANGED <<identities, profiles, accounts, bound, sessions>>
  PROVE  IInv'
<1>1. Grows(c)
  BY DEF Grows
<1>2. TypeOK'
  BY DEF IInv, TypeOK, ReqStep
<1>3. \A d \in Callbacks : CallbackOK(d)'
  BY <1>1, OthersKeep
<1>4. IdentitiesOK'
  BY DEF IInv, TypeOK, Identity, IdentitiesOK, ReqStep
<1>5. ProfilesOK' /\ AccountsOK'
  BY DEF IInv, ProfilesOK, AccountsOK
<1>6. BoundOK'
  BY DEF IInv, BoundOK, Founded, HasIdentity, HasProfile
<1>7. SessionsOK'
  BY DEF IInv, TypeOK, Session, SessionsOK, SessionOf, ReqStep
<1>8. QED
  BY <1>2, <1>3, <1>4, <1>5, <1>6, <1>7 DEF IInv

\* The same for a step that touches neither the cache nor deletedAt.
LEMMA ReadStep ==
  ASSUME IInv, NEW c \in Callbacks, ReqStep(c), CallbackOK(c)',
         UNCHANGED <<stateStore, tables, sessions>>
  PROVE  IInv'
<1>1. StoreOK'
  BY OthersKeep DEF IInv, Grows, tables
<1>2. QED
  BY <1>1, LocalStep DEF IInv, TypeOK, tables

-----------------------------------------------------------------------------
(* The steps that write no row.                                            *)

\* A handler that throws or dies leaves nothing behind in its callback.
LEMMA FailKeeps ==
  ASSUME IInv, NEW c \in Callbacks, req[c].pc \in InFlight, Fail(c)
  PROVE  ReqStep(c) /\ CallbackOK(c)'
<1>1. req'[c] = [NoLocals EXCEPT !.pc = "failed"]
  BY DEF Fail, IInv, TypeOK
<1>2. ReqStep(c)
  BY <1>1 DEF Fail, IInv, TypeOK, ReqStep, Request, NoLocals, InFlight
<1>3. QED
  BY <1>1, <1>2 DEF CallbackOK, Knows, NoLocals

\* A callback moves on once it knows what its next call needs.
LEMMA GotoStep ==
  ASSUME IInv, NEW c \in Callbacks, req[c].pc \in InFlight,
         NEW l \in InFlight, Goto(c, l), Knows(c, l),
         UNCHANGED <<identities, profiles, bound>>
  PROVE  ReqStep(c) /\ CallbackOK(c)'
<1>1. req'[c] = [req[c] EXCEPT !.pc = l] /\ req[c] \in Request
  BY DEF Goto, IInv, TypeOK
<1>2. req'[c] \in Request
  BY <1>1 DEF Request
<1>3. ReqStep(c)
  BY <1>1, <1>2 DEF Goto, IInv, TypeOK, ReqStep, Request, InFlight
<1>4. /\ req'[c].pc = l /\ req'[c].state = req[c].state
      /\ req'[c].user = req[c].user /\ req'[c].linkTo = req[c].linkTo
      /\ req'[c].info = req[c].info /\ req'[c].identityId = req[c].identityId
      /\ req'[c].profileId = req[c].profileId
  BY <1>1 DEF Request
<1>5. \A i : Granted(i) => Granted(i)'
  BY <1>3, GrantedKeeps
<1>6. QED
  BY <1>3, <1>4, <1>5 DEF CallbackOK, Knows, Granted, Linked, HasIdentity

\* Steps that read tables, and write at most the deletedAt column.
LEMMA ReceiveCallbackKeeps ==
  ASSUME IInv, NEW c \in Callbacks, NEW s \in States, NEW u \in Users,
         ReceiveCallback(c, s, u)
  PROVE  IInv'
<1>1. req'[c] = [req[c] EXCEPT !.pc = "consume", !.state = s, !.user = u,
                               !.linkTo = stateStore[s].linkTo,
                               !.codeVerifier = stateStore[s].codeVerifier]
  BY DEF ReceiveCallback, IInv, TypeOK
<1>2. req[c] \in Request /\ stateStore[s] \in StateData
  BY DEF IInv, TypeOK
<1>3. ReqStep(c)
  <2>1. req'[c] \in Request
    BY <1>1, <1>2 DEF Request, StateData, InFlight
  <2>2. QED
    BY <1>1, <2>1 DEF ReceiveCallback, IInv, TypeOK, ReqStep
<1>4. \A i : Granted(i) => Granted(i)'
  BY <1>3, GrantedKeeps
<1>5. CallbackOK(c)'
  <2>1. \A b \in bound' : b.id # c
    BY DEF ReceiveCallback, tables, IInv, CallbackOK, Knows
  <2>2. /\ req'[c].pc = "consume" /\ req'[c].state = s /\ req'[c].user = u
        /\ req'[c].linkTo = stateStore[s].linkTo
    BY <1>1, <1>2 DEF Request
  <2>3. req'[c].linkTo # None => Granted(stateStore[s].linkTo)
    BY <2>2 DEF IInv, StoreOK
  <2>4. QED
    BY <1>4, <2>1, <2>2, <2>3 DEF CallbackOK, Knows, Granted
<1>6. QED
  BY <1>3, <1>5, ReadStep DEF ReceiveCallback

\* Deleting the nonce only takes a link target out of the store.
LEMMA ConsumeStateKeeps ==
  ASSUME IInv, NEW c \in Callbacks, ConsumeState(c)
  PROVE  IInv'
<1>1. req[c] \in Request /\ req[c].state \in States /\ req[c].pc \in InFlight
  BY DEF ConsumeState, IInv, TypeOK, CallbackOK, Knows, InFlight
<1>2. ReqStep(c) /\ CallbackOK(c)'
  <2>1. CASE Fail(c)
    BY <1>1, <2>1, FailKeeps
  <2>2. CASE req' = [req EXCEPT ![c].pc = "exchange", ![c].state = None,
                                ![c].codeVerifier = FALSE]
    <3>1. req'[c] = [req[c] EXCEPT !.pc = "exchange", !.state = None, !.codeVerifier = FALSE]
      BY <2>2 DEF IInv, TypeOK
    <3>2. req'[c] \in Request
      BY <1>1, <3>1 DEF Request, InFlight
    <3>3. ReqStep(c)
      BY <1>1, <2>2, <3>1, <3>2 DEF IInv, TypeOK, ReqStep, Request, InFlight, ConsumeState
    <3>4. /\ req'[c].pc = "exchange" /\ req'[c].user = req[c].user
          /\ req'[c].linkTo = req[c].linkTo
      BY <1>1, <3>1 DEF Request
    <3>5. Knows(c, "exchange") /\ bound' = bound
      BY DEF ConsumeState, tables, IInv, CallbackOK, Knows
    <3>6. \A i : Granted(i) => Granted(i)'
      BY <3>3, GrantedKeeps
    <3>7. QED
      BY <3>3, <3>4, <3>5, <3>6 DEF CallbackOK, Knows, Granted
  <2>3. QED
    BY <2>1, <2>2 DEF ConsumeState
<1>3. stateStore' \in [States -> StateData]
  BY <1>1 DEF ConsumeState, IInv, TypeOK, StateData, NoState
<1>4. StoreOK'
  BY <1>1, <1>2, GrantedKeeps DEF ConsumeState, IInv, TypeOK, StoreOK, NoState
<1>5. QED
  BY <1>2, <1>3, <1>4, LocalStep DEF ConsumeState, IInv, TypeOK, tables

LEMMA ExchangeCodeKeeps ==
  ASSUME IInv, NEW c \in Callbacks, ExchangeCode(c)
  PROVE  IInv'
<1>1. /\ req[c] \in Request /\ req[c].user \in Users
      /\ Knows(c, "exchange") /\ bound' = bound
  BY DEF ExchangeCode, tables, IInv, TypeOK, CallbackOK, Knows
<1>2. PICK i \in Info[req[c].user] :
        req' = [req EXCEPT ![c].pc = "findAccount", ![c].info = i]
  BY DEF ExchangeCode
<1>3. i \in ProviderInfo /\ i # None
  BY <1>1, <1>2, UsersAssumption, NoneAssumption
<1>4. req'[c] = [req[c] EXCEPT !.pc = "findAccount", !.info = i]
  BY <1>2 DEF IInv, TypeOK
<1>5. req'[c] \in Request
  BY <1>1, <1>3, <1>4 DEF Request, InFlight
<1>6. ReqStep(c)
  BY <1>2, <1>4, <1>5 DEF ExchangeCode, IInv, TypeOK, ReqStep, Request
<1>7. /\ req'[c].pc = "findAccount" /\ req'[c].user = req[c].user
      /\ req'[c].linkTo = req[c].linkTo /\ req'[c].info = i
  BY <1>1, <1>4 DEF Request
<1>8. \A j : Granted(j) => Granted(j)'
  BY <1>6, GrantedKeeps
<1>9. CallbackOK(c)'
  BY <1>1, <1>3, <1>7, <1>8 DEF CallbackOK, Knows, Granted
<1>10. QED
  BY <1>6, <1>9, ReadStep DEF ExchangeCode

LEMMA FindAccountKeeps ==
  ASSUME IInv, NEW c \in Callbacks, FindAccount(c)
  PROVE  IInv'
<1>1. ReqStep(c) /\ CallbackOK(c)'
  <2>1. ASSUME NEW a \in accounts, a.user = req[c].user,
               req' = [req EXCEPT ![c].pc = "readTokens", ![c].accountId = a.id,
                                  ![c].identityId = a.identityId, ![c].info = None,
                                  ![c].linkTo = None]
        PROVE  ReqStep(c) /\ CallbackOK(c)'
    <3>1. /\ req'[c] = [req[c] EXCEPT !.pc = "readTokens", !.accountId = a.id,
                                      !.identityId = a.identityId, !.info = None,
                                      !.linkTo = None]
          /\ req[c] \in Request /\ a \in OAuthAccount
      BY <2>1 DEF IInv, TypeOK
    <3>2. req'[c] \in Request
      BY <3>1 DEF Request, OAuthAccount, InFlight
    <3>3. ReqStep(c)
      BY <2>1, <3>1, <3>2 DEF FindAccount, IInv, TypeOK, ReqStep, Request
    <3>4. /\ req'[c].pc = "readTokens" /\ req'[c].user = req[c].user
          /\ req'[c].linkTo = None /\ req'[c].identityId = a.identityId
      BY <3>1 DEF Request
    <3>5. a.identityId # None /\ Linked(req[c].user, a.identityId)
      BY <2>1, <3>1, NoneAssumption DEF IInv, AccountsOK, Linked, OAuthAccount
    <3>6. req[c].user \in Users /\ bound' = bound
      BY DEF FindAccount, tables, IInv, CallbackOK, Knows
    <3>7. CallbackOK(c)'
      BY <3>4, <3>5, <3>6 DEF CallbackOK, Knows, Linked
    <3>8. QED
      BY <3>3, <3>7
  <2>2. ASSUME req[c].linkTo # None,
               req' = [req EXCEPT ![c].pc = "readLinkTarget", ![c].info = None]
        PROVE  ReqStep(c) /\ CallbackOK(c)'
    <3>1. /\ req'[c] = [req[c] EXCEPT !.pc = "readLinkTarget", !.info = None]
          /\ req[c] \in Request
      BY <2>2 DEF IInv, TypeOK
    <3>2. req'[c] \in Request
      BY <3>1 DEF Request, InFlight
    <3>3. ReqStep(c)
      BY <2>2, <3>1, <3>2 DEF FindAccount, IInv, TypeOK, ReqStep, Request
    <3>4. /\ req'[c].pc = "readLinkTarget" /\ req'[c].user = req[c].user
          /\ req'[c].linkTo = req[c].linkTo
      BY <3>1 DEF Request
    <3>5. /\ req[c].user \in Users /\ Granted(req[c].linkTo)
          /\ bound' = bound /\ \A b \in bound : b.id # c
      BY <2>2 DEF FindAccount, tables, IInv, CallbackOK, Knows
    <3>6. \E d \in Callbacks : req'[d].pc = "done" /\ req'[d].identityId = req[c].linkTo
      BY <3>3, <3>5 DEF ReqStep, Granted
    <3>7. CallbackOK(c)'
      BY <2>2, <3>4, <3>5, <3>6 DEF CallbackOK, Knows, Granted
    <3>8. QED
      BY <3>3, <3>7
  <2>3. ASSUME NEW l \in {"checkEmail", "createIdentity"}, Goto(c, l)
        PROVE  ReqStep(c) /\ CallbackOK(c)'
    <3>1. Knows(c, l)
      BY DEF FindAccount, IInv, CallbackOK, Knows
    <3>2. QED
      BY <2>3, <3>1, GotoStep DEF FindAccount, tables, InFlight
  <2>4. QED
    BY <2>1, <2>2, <2>3 DEF FindAccount
<1>2. QED
  BY <1>1, ReadStep DEF FindAccount

LEMMA ReadTokensKeeps ==
  ASSUME IInv, NEW c \in Callbacks, ReadTokens(c)
  PROVE  IInv'
<1>1. PICK l \in {"writeTokens", "readIdentity"} : Goto(c, l)
  BY DEF ReadTokens
<1>2. Knows(c, l)
  BY DEF ReadTokens, IInv, CallbackOK, Knows
<1>3. QED
  BY <1>1, <1>2, GotoStep, ReadStep DEF ReadTokens, tables, InFlight

LEMMA WriteTokensKeeps ==
  ASSUME IInv, NEW c \in Callbacks, WriteTokens(c)
  PROVE  IInv'
<1>1. Knows(c, "readIdentity")
  BY DEF WriteTokens, IInv, CallbackOK, Knows
<1>2. QED
  BY <1>1, GotoStep, FailKeeps, ReadStep DEF WriteTokens, tables, InFlight

LEMMA ReadIdentityKeeps ==
  ASSUME IInv, NEW c \in Callbacks, ReadIdentity(c)
  PROVE  IInv'
<1>1. Knows(c, "writeLogin")
  BY DEF ReadIdentity, IInv, CallbackOK, Knows
<1>2. QED
  BY <1>1, GotoStep, FailKeeps, ReadStep DEF ReadIdentity, tables, InFlight

\* Writing deletedAt back touches no predicate of the invariant but TypeOK.
LEMMA WriteLoginKeeps ==
  ASSUME IInv, NEW c \in Callbacks, WriteLogin(c)
  PROVE  IInv'
<1>1. Knows(c, "loadProfile")
  BY DEF WriteLogin, IInv, CallbackOK, Knows
<1>2. ReqStep(c) /\ CallbackOK(c)'
  BY <1>1, GotoStep DEF WriteLogin, InFlight
<1>3. StoreOK'
  BY <1>2, OthersKeep DEF WriteLogin, IInv, Grows
<1>4. QED
  BY <1>2, <1>3, LocalStep DEF WriteLogin, IInv, TypeOK

LEMMA LoadProfileKeeps ==
  ASSUME IInv, NEW c \in Callbacks, LoadProfile(c)
  PROVE  IInv'
<1>1. CASE Fail(c)
  BY <1>1, FailKeeps, ReadStep DEF LoadProfile, InFlight
<1>2. ASSUME NEW p \in profiles, p.identityId = req[c].identityId,
             req' = [req EXCEPT ![c].pc = "createSession", ![c].profileId = p.id]
      PROVE  IInv'
  <2>1. /\ req'[c] = [req[c] EXCEPT !.pc = "createSession", !.profileId = p.id]
        /\ req[c] \in Request /\ p \in UserProfile
    BY <1>2 DEF IInv, TypeOK
  <2>2. req'[c] \in Request
    BY <2>1 DEF Request, UserProfile, InFlight
  <2>3. ReqStep(c)
    BY <1>2, <2>1, <2>2 DEF LoadProfile, IInv, TypeOK, ReqStep, Request
  <2>4. /\ req'[c].pc = "createSession" /\ req'[c].user = req[c].user
        /\ req'[c].linkTo = req[c].linkTo /\ req'[c].identityId = req[c].identityId
        /\ req'[c].profileId = p.id
    BY <2>1 DEF Request
  <2>5. \A i : Granted(i) => Granted(i)'
    BY <2>3, GrantedKeeps
  <2>6. /\ req[c].user \in Users /\ (req[c].linkTo # None => Granted(req[c].linkTo))
        /\ req[c].identityId # None /\ Linked(req[c].user, req[c].identityId)
    BY DEF LoadProfile, IInv, CallbackOK, Knows
  <2>7. CallbackOK(c)'
    <3>1. bound' = bound /\ p \in profiles' /\ p.identityId = req[c].identityId
      BY <1>2 DEF LoadProfile, tables
    <3>2. \A u, i : Linked(u, i) => Linked(u, i)'
      BY <3>1 DEF Linked
    <3>3. QED
      BY <2>4, <2>5, <2>6, <3>1, <3>2 DEF CallbackOK, Knows, Granted, Linked
  <2>8. QED
    BY <2>3, <2>7, ReadStep DEF LoadProfile
<1>3. QED
  BY <1>1, <1>2 DEF LoadProfile

LEMMA ReadLinkTargetKeeps ==
  ASSUME IInv, NEW c \in Callbacks, ReadLinkTarget(c)
  PROVE  IInv'
<1>1. CASE Fail(c)
  BY <1>1, FailKeeps, ReadStep DEF ReadLinkTarget, InFlight
<1>2. CASE req' = [req EXCEPT ![c].pc = "linkAccount", ![c].identityId = req[c].linkTo]
  <2>1. /\ req'[c] = [req[c] EXCEPT !.pc = "linkAccount", !.identityId = req[c].linkTo]
        /\ req[c] \in Request
    BY <1>2 DEF IInv, TypeOK
  <2>2. req'[c] \in Request
    BY <2>1 DEF Request, InFlight
  <2>3. ReqStep(c)
    BY <1>2, <2>1, <2>2 DEF ReadLinkTarget, IInv, TypeOK, ReqStep, Request
  <2>4. /\ req'[c].pc = "linkAccount" /\ req'[c].user = req[c].user
        /\ req'[c].linkTo = req[c].linkTo /\ req'[c].identityId = req[c].linkTo
    BY <2>1 DEF Request
  <2>5. \A i : Granted(i) => Granted(i)'
    BY <2>3, GrantedKeeps
  <2>6. Knows(c, "readLinkTarget") /\ bound' = bound
    BY DEF ReadLinkTarget, tables, IInv, CallbackOK
  <2>7. CallbackOK(c)'
    BY <2>4, <2>5, <2>6 DEF CallbackOK, Knows, Granted
  <2>8. QED
    BY <2>3, <2>7, ReadStep DEF ReadLinkTarget
<1>3. QED
  BY <1>1, <1>2 DEF ReadLinkTarget

LEMMA CheckEmailKeeps ==
  ASSUME IInv, NEW c \in Callbacks, CheckEmail(c)
  PROVE  IInv'
<1>1. Knows(c, "createIdentity")
  BY DEF CheckEmail, IInv, CallbackOK, Knows
<1>2. QED
  BY <1>1, GotoStep, FailKeeps, ReadStep DEF CheckEmail, tables, InFlight

LEMMA PickUsernameKeeps ==
  ASSUME IInv, NEW c \in Callbacks, PickUsername(c)
  PROVE  IInv'
<1>1. CASE req' = [req EXCEPT ![c].suffix = @ + 1]
  <2>1. req'[c] = [req[c] EXCEPT !.suffix = @ + 1] /\ req[c] \in Request
    BY <1>1 DEF IInv, TypeOK
  <2>2. req'[c] \in Request
    BY <2>1 DEF Request
  <2>3. ReqStep(c)
    BY <1>1, <2>1, <2>2 DEF PickUsername, IInv, TypeOK, ReqStep, Request
  <2>4. /\ req'[c].pc = "pickUsername" /\ req'[c].user = req[c].user
        /\ req'[c].linkTo = req[c].linkTo /\ req'[c].identityId = req[c].identityId
        /\ req'[c].info = req[c].info
    BY <2>1 DEF PickUsername, Request
  <2>5. \A i : Granted(i) => Granted(i)'
    BY <2>3, GrantedKeeps
  <2>6. Knows(c, "pickUsername") /\ bound' = bound /\ identities' = identities
    BY DEF PickUsername, tables, IInv, CallbackOK
  <2>7. CallbackOK(c)'
    BY <2>4, <2>5, <2>6 DEF CallbackOK, Knows, Granted, HasIdentity
  <2>8. QED
    BY <2>3, <2>7, ReadStep DEF PickUsername
<1>2. CASE Goto(c, "createProfile")
  <2>1. Knows(c, "createProfile")
    BY DEF PickUsername, IInv, CallbackOK, Knows
  <2>2. QED
    BY <1>2, <2>1, GotoStep, ReadStep DEF PickUsername, tables, InFlight
<1>3. QED
  BY <1>1, <1>2 DEF PickUsername

LEMMA CrashKeeps ==
  ASSUME IInv, NEW c \in Callbacks, Crash(c)
  PROVE  IInv'
BY FailKeeps, ReadStep DEF Crash

-----------------------------------------------------------------------------
(* The inserts.                                                            *)

\* The unique index on e-mail gives every address one identity.
LEMMA CreateIdentityKeeps ==
  ASSUME IInv, NEW c \in Callbacks, CreateIdentity(c)
  PROVE  IInv'
<1> DEFINE row == [id |-> c, email |-> LoginEmail(req[c].user, req[c].info)]
<1>1. CASE Fail(c) /\ UNCHANGED identities
  BY <1>1, FailKeeps, ReadStep DEF CreateIdentity, tables, InFlight
<1>2. CASE /\ \A x \in identities : x.email # LoginEmail(req[c].user, req[c].info)
           /\ identities' = identities \cup {row}
           /\ req' = [req EXCEPT ![c].pc = "pickUsername", ![c].identityId = c]
  <2>1. /\ req'[c] = [req[c] EXCEPT !.pc = "pickUsername", !.identityId = c]
        /\ req[c] \in Request /\ Knows(c, "createIdentity")
    BY <1>2 DEF CreateIdentity, IInv, TypeOK, CallbackOK
  <2>2. req'[c] \in Request
    BY <2>1 DEF Request, InFlight
  <2>3. ReqStep(c)
    BY <1>2, <2>1, <2>2 DEF CreateIdentity, IInv, TypeOK, ReqStep, Request
  <2>4. /\ req'[c].pc = "pickUsername" /\ req'[c].user = req[c].user
        /\ req'[c].linkTo = req[c].linkTo /\ req'[c].identityId = c
        /\ req'[c].info = req[c].info
    BY <2>1 DEF Request
  <2>5. Grows(c) /\ bound' = bound
    BY <1>2 DEF CreateIdentity, Grows
  <2>6. \A i : Granted(i) => Granted(i)'
    BY <2>3, GrantedKeeps
  <2>7. CallbackOK(c)'
    <3>1. /\ req[c].user \in Users /\ (req[c].linkTo # None => Granted(req[c].linkTo))
          /\ req[c].info # None /\ \A b \in bound : b.id # c
      BY <1>2, <2>1 DEF CreateIdentity, Knows
    <3>2. row \in identities'
      BY <1>2
    <3>3. QED
      BY <2>4, <2>5, <2>6, <3>1, <3>2 DEF CallbackOK, Knows, Granted, HasIdentity
  <2>8. (\A d \in Callbacks : CallbackOK(d)') /\ StoreOK'
    BY <2>3, <2>5, <2>7, OthersKeep DEF CreateIdentity, IInv
  <2>9. row \in Identity
    <3>1. req[c].user \in Users /\ req[c].info \in ProviderInfo
      BY <2>1 DEF CreateIdentity, Knows, Request
    <3>2. QED
      BY <3>1 DEF Identity, LoginEmail, ProviderInfo
  <2>10. TypeOK'
    BY <1>2, <2>3, <2>9 DEF CreateIdentity, IInv, TypeOK, ReqStep
  <2>11. IdentitiesOK'
    BY <1>2, <2>3, <2>4 DEF CreateIdentity, IInv, TypeOK, Identity, IdentitiesOK, ReqStep
  <2>12. ProfilesOK' /\ AccountsOK'
    BY DEF CreateIdentity, IInv, ProfilesOK, AccountsOK
  <2>13. BoundOK'
    BY <1>2 DEF CreateIdentity, IInv, BoundOK, Founded, HasIdentity, HasProfile
  <2>14. SessionsOK'
    BY <2>3 DEF CreateIdentity, IInv, TypeOK, Session, SessionsOK, SessionOf, ReqStep
  <2>15. QED
    BY <2>8, <2>10, <2>11, <2>12, <2>13, <2>14 DEF IInv
<1>3. QED
  BY <1>1, <1>2 DEF CreateIdentity

\* The unique index on identityId gives every identity one profile.
LEMMA CreateProfileKeeps ==
  ASSUME IInv, NEW c \in Callbacks, CreateProfile(c)
  PROVE  IInv'
<1> DEFINE row == [id |-> c, identityId |-> req[c].identityId,
                   username |-> <<req[c].info.name, req[c].suffix>>]
<1>1. CASE Fail(c) /\ UNCHANGED profiles
  BY <1>1, FailKeeps, ReadStep DEF CreateProfile, tables, InFlight
<1>2. CASE /\ \A p \in profiles : p.identityId # row.identityId
           /\ profiles' = profiles \cup {row}
           /\ req' = [req EXCEPT ![c].pc = "createAccount", ![c].profileId = c,
                                 ![c].info = None, ![c].suffix = 0]
  <2>1. /\ req'[c] = [req[c] EXCEPT !.pc = "createAccount", !.profileId = c,
                                    !.info = None, !.suffix = 0]
        /\ req[c] \in Request
    BY <1>2 DEF IInv, TypeOK
  <2>2. req'[c] \in Request
    <3>1. /\ "createAccount" \in InFlight \cup {"idle", "done", "failed"} /\ 0 \in Nat
          /\ c \in Callbacks \cup {None} /\ None \in ProviderInfo \cup {None}
      BY DEF InFlight
    <3>2. /\ req[c].state \in States \cup {None} /\ req[c].user \in Users \cup {None}
          /\ req[c].linkTo \in Callbacks \cup {None} /\ req[c].codeVerifier \in BOOLEAN
          /\ req[c].identityId \in Callbacks \cup {None}
          /\ req[c].accountId \in Callbacks \cup {None}
      BY <2>1 DEF Request
    <3>3. req'[c] = [pc |-> "createAccount", state |-> req[c].state, user |-> req[c].user,
                     info |-> None, linkTo |-> req[c].linkTo,
                     codeVerifier |-> req[c].codeVerifier, identityId |-> req[c].identityId,
                     accountId |-> req[c].accountId, profileId |-> c, suffix |-> 0]
      BY <2>1 DEF Request
    <3>4. QED
      BY <3>1, <3>2, <3>3 DEF Request
  <2>3. ReqStep(c)
    BY <1>2, <2>1, <2>2 DEF CreateProfile, IInv, TypeOK, ReqStep, Request
  <2>4. /\ req'[c].pc = "createAccount" /\ req'[c].user = req[c].user
        /\ req'[c].linkTo = req[c].linkTo /\ req'[c].identityId = req[c].identityId
        /\ req'[c].profileId = c
    BY <2>1 DEF Request
  <2>5. Grows(c) /\ bound' = bound /\ identities' = identities
    BY <1>2 DEF CreateProfile, Grows
  <2>6. \A i : Granted(i) => Granted(i)'
    BY <2>3, GrantedKeeps
  <2>7. /\ req[c].user \in Users /\ (req[c].linkTo # None => Granted(req[c].linkTo))
        /\ req[c].identityId = c /\ HasIdentity(c) /\ \A b \in bound : b.id # c
    BY DEF CreateProfile, IInv, CallbackOK, Knows
  <2>8. CallbackOK(c)'
    <3>1. row \in profiles' /\ row.id = c /\ row.identityId = c
      BY <1>2, <2>7
    <3>2. QED
      BY <2>4, <2>5, <2>6, <2>7, <3>1 DEF CallbackOK, Knows, Granted, HasIdentity
  <2>9. (\A d \in Callbacks : CallbackOK(d)') /\ StoreOK'
    BY <2>3, <2>5, <2>8, OthersKeep DEF CreateProfile, IInv
  <2>10. row \in UserProfile
    <3>1. req[c].info \in ProviderInfo /\ req[c].suffix \in Nat
      BY <2>1 DEF CreateProfile, IInv, CallbackOK, Knows, Request
    <3>2. QED
      BY <2>7, <3>1 DEF UserProfile, ProviderInfo
  <2>11. TypeOK'
    BY <1>2, <2>3, <2>10 DEF CreateProfile, IInv, TypeOK, ReqStep
  <2>12. IdentitiesOK' /\ AccountsOK'
    BY <2>3 DEF CreateProfile, IInv, TypeOK, Identity, IdentitiesOK, AccountsOK, ReqStep
  <2>13. ProfilesOK'
    BY <1>2 DEF IInv, ProfilesOK
  <2>14. BoundOK'
    BY <2>5 DEF Grows, IInv, BoundOK, Founded, HasIdentity, HasProfile
  <2>15. SessionsOK'
    BY <2>3, <2>5 DEF Grows, CreateProfile, IInv, TypeOK, Session, SessionsOK, SessionOf, ReqStep
  <2>16. QED
    BY <2>9, <2>11, <2>12, <2>13, <2>14, <2>15 DEF IInv
<1>3. QED
  BY <1>1, <1>2 DEF CreateProfile

\* An account row inserted for an identity whose founder is done with it, or is
\* the inserting callback itself; the unique index gives every user one row.
LEMMA InsertAccountKeeps ==
  ASSUME IInv, NEW c \in Callbacks, req[c].pc \in InFlight,
         NEW next \in {"loadProfile", "createSession"}, InsertAccount(c, next),
         req[c].identityId # None, HasIdentity(req[c].identityId),
         HasProfile(req[c].identityId),
         req[c].identityId # c =>
           req[c].linkTo = req[c].identityId /\ Founded(req[c].identityId),
         next = "createSession" =>
           \E p \in profiles : p.id = req[c].profileId /\ p.identityId = req[c].identityId,
         UNCHANGED <<stateStore, identities, deleted, profiles, sessions>>
  PROVE  IInv'
<1>1. CASE Fail(c) /\ UNCHANGED <<accounts, bound>>
  BY <1>1, FailKeeps, ReadStep DEF tables, InFlight
<1>2. CASE /\ \A a \in accounts : a.user # req[c].user
           /\ accounts' = accounts \cup {AccountRow(c)}
           /\ bound' = bound \cup {BindingRow(c)}
           /\ Goto(c, next)
  <2>1. /\ req'[c] = [req[c] EXCEPT !.pc = next]
        /\ req[c] \in Request /\ req[c].user \in Users
        /\ req[c].linkTo # None => Granted(req[c].linkTo)
    BY <1>2 DEF Goto, IInv, TypeOK, CallbackOK, Knows, InFlight
  <2>2. req'[c] \in Request
    BY <2>1 DEF Request, InFlight
  <2>3. ReqStep(c)
    BY <1>2, <2>1, <2>2 DEF Goto, IInv, TypeOK, ReqStep, Request, InFlight
  <2>4. /\ req'[c].pc = next /\ req'[c].user = req[c].user
        /\ req'[c].linkTo = req[c].linkTo /\ req'[c].identityId = req[c].identityId
        /\ req'[c].profileId = req[c].profileId
    BY <2>1 DEF Request
  <2>5. /\ BindingRow(c) \in bound' /\ BindingRow(c).id = c
        /\ BindingRow(c).identityId = req[c].identityId
        /\ BindingRow(c).user = req[c].user /\ BindingRow(c).linkTo = req[c].linkTo
    BY <1>2 DEF BindingRow
  <2>6. Grows(c)
    BY <1>2, <2>5 DEF Grows
  <2>7. \A i : Granted(i) => Granted(i)'
    BY <2>3, GrantedKeeps
  <2>8. CallbackOK(c)'
    BY <2>1, <2>4, <2>5, <2>7 DEF CallbackOK, Knows, Granted, Linked
  <2>9. (\A d \in Callbacks : CallbackOK(d)') /\ StoreOK'
    BY <2>3, <2>6, <2>8, OthersKeep DEF IInv
  <2>10. AccountRow(c) \in OAuthAccount /\ BindingRow(c) \in Binding
    BY <2>1 DEF AccountRow, BindingRow, OAuthAccount, Binding, Request
  <2>11. TypeOK'
    BY <1>2, <2>3, <2>10 DEF IInv, TypeOK, ReqStep
  <2>12. IdentitiesOK' /\ ProfilesOK'
    BY <2>3 DEF IInv, TypeOK, Identity, IdentitiesOK, ProfilesOK, ReqStep
  <2>13. BoundOK'
    <3>1. \A b \in bound' : b \in bound \/ b = BindingRow(c)
      BY <1>2
    <3>2. \A i : Founded(i) => Founded(i)'
      BY <1>2 DEF Founded
    <3>3. QED
      BY <2>5, <3>1, <3>2 DEF IInv, BoundOK, Founded, HasIdentity, HasProfile
  <2>14. AccountsOK'
    <3>1. /\ AccountRow(c).id = c /\ AccountRow(c).user = req[c].user
          /\ AccountRow(c).identityId = req[c].identityId
      BY DEF AccountRow
    <3>2. QED
      BY <1>2, <2>5, <3>1 DEF IInv, AccountsOK
  <2>15. SessionsOK'
    BY <2>3 DEF IInv, TypeOK, Session, SessionsOK, SessionOf, ReqStep
  <2>16. QED
    BY <2>9, <2>11, <2>12, <2>13, <2>14, <2>15 DEF IInv
<1>3. QED
  BY <1>1, <1>2 DEF InsertAccount

LEMMA LinkAccountKeeps ==
  ASSUME IInv, NEW c \in Callbacks, LinkAccount(c)
  PROVE  IInv'
<1>1. /\ req[c].linkTo # None /\ req[c].identityId = req[c].linkTo
      /\ Granted(req[c].linkTo)
  BY DEF LinkAccount, IInv, CallbackOK, Knows
<1>2. \A i : Granted(i) => Founded(i) /\ HasIdentity(i) /\ HasProfile(i)
  BY GrantedIsFounded
<1>3. QED
  BY <1>1, <1>2, InsertAccountKeeps DEF LinkAccount, InFlight

LEMMA CreateAccountKeeps ==
  ASSUME IInv, NEW c \in Callbacks, CreateAccount(c)
  PROVE  IInv'
<1>1. /\ req[c].identityId = c /\ HasIdentity(c)
      /\ \E p \in profiles : p.id = req[c].profileId /\ p.identityId = c
  BY DEF CreateAccount, IInv, CallbackOK, Knows
<1>2. QED
  BY <1>1, NoneAssumption, InsertAccountKeeps DEF CreateAccount, InFlight, HasProfile

\* The session names the identity and the profile its callback ended with.
LEMMA CreateSessionKeeps ==
  ASSUME IInv, NEW c \in Callbacks, CreateSession(c)
  PROVE  IInv'
<1>1. /\ req'[c] = [NoLocals EXCEPT !.pc = "done", !.user = req[c].user,
                                    !.identityId = req[c].identityId,
                                    !.profileId = req[c].profileId]
      /\ req[c] \in Request /\ req[c].user \in Users
      /\ req[c].identityId # None /\ Linked(req[c].user, req[c].identityId)
  BY DEF CreateSession, IInv, TypeOK, CallbackOK, Knows
<1>2. PICK p \in profiles : p.id = req[c].profileId /\ p.identityId = req[c].identityId
  BY DEF CreateSession, IInv, CallbackOK, Knows
<1>3. req'[c] \in Request
  <2>1. req[c].identityId \in Callbacks \cup {None} /\ req[c].profileId \in Callbacks \cup {None}
    BY <1>1 DEF Request
  <2>2. NoLocals \in Request
    BY DEF NoLocals, Request
  <2>3. QED
    BY <1>1, <2>1, <2>2 DEF Request
<1>4. /\ req'[c].pc = "done" /\ req'[c].user = req[c].user /\ req'[c].linkTo = None
      /\ req'[c].identityId = req[c].identityId /\ req'[c].profileId = req[c].profileId
  BY <1>1 DEF NoLocals
<1>5. ReqStep(c)
  BY <1>3, <1>4 DEF CreateSession, IInv, TypeOK, ReqStep
<1>6. Grows(c) /\ bound' = bound /\ profiles' = profiles
  BY DEF CreateSession, tables, Grows
<1>7. CallbackOK(c)'
  BY <1>1, <1>2, <1>4, <1>6 DEF CallbackOK, Knows, Linked
<1>8. (\A d \in Callbacks : CallbackOK(d)') /\ StoreOK'
  BY <1>5, <1>6, <1>7, OthersKeep DEF CreateSession, IInv
<1>9. SessionOf(c) \in Session
  BY <1>1, <1>2 DEF SessionOf, IInv, TypeOK, Session, Request, UserProfile
<1>10. TypeOK'
  BY <1>5, <1>9 DEF CreateSession, tables, IInv, TypeOK, ReqStep
<1>11. IdentitiesOK' /\ ProfilesOK' /\ AccountsOK'
  BY <1>5 DEF CreateSession, tables, IInv, TypeOK, Identity, IdentitiesOK, ProfilesOK,
              AccountsOK, ReqStep
<1>12. BoundOK'
  BY DEF CreateSession, tables, IInv, BoundOK, Founded, HasIdentity, HasProfile
<1>13. SessionsOK'
  <2>1. \A x \in sessions' : x \in sessions \/ x = SessionOf(c)
    BY DEF CreateSession
  <2>2. \A x \in sessions : x.id \in Callbacks /\ req'[x.id] = req[x.id]
    BY <1>5 DEF IInv, TypeOK, Session, SessionsOK, SessionOf, ReqStep
  <2>3. SessionOf(c)' = SessionOf(c) /\ SessionOf(c).id = c
    BY <1>4 DEF SessionOf
  <2>4. QED
    BY <1>4, <2>1, <2>2, <2>3 DEF IInv, SessionsOK, SessionOf
<1>14. QED
  BY <1>8, <1>10, <1>11, <1>12, <1>13 DEF IInv

-----------------------------------------------------------------------------
(* Steps of nobody's callback.                                             *)

\* The locals, identities, profiles and history of account rows stand still.
LEMMA OutsideStep ==
  ASSUME IInv, UNCHANGED <<req, identities, profiles, bound>>, TypeOK', StoreOK',
         accounts' \subseteq accounts, SessionsOK'
  PROVE  IInv'
<1>1. \A c \in Callbacks : CallbackOK(c)'
  BY DEF IInv, CallbackOK, Knows, Granted, Linked, HasIdentity
<1>2. IdentitiesOK' /\ ProfilesOK'
  BY DEF IInv, IdentitiesOK, ProfilesOK
<1>3. BoundOK'
  BY DEF IInv, BoundOK, Founded, HasIdentity, HasProfile
<1>4. AccountsOK'
  BY DEF IInv, AccountsOK
<1>5. QED
  BY <1>1, <1>2, <1>3, <1>4 DEF IInv

\* A link flow starts from a session, so from an identity that was granted one.
LEMMA GenerateKeeps ==
  ASSUME IInv, NEW s \in States, NEW provider, NEW linkTo \in Callbacks \cup {None},
         Generate(s, provider, linkTo), linkTo # None => Granted(linkTo)
  PROVE  IInv'
<1>1. TypeOK'
  BY DEF Generate, tables, IInv, TypeOK, StateData
<1>2. StoreOK'
  BY DEF Generate, IInv, TypeOK, StoreOK, Granted
<1>3. QED
  BY <1>1, <1>2, OutsideStep DEF Generate, tables, IInv, SessionsOK, SessionOf

LEMMA StartLinkKeeps ==
  ASSUME IInv, NEW s \in States, NEW provider, StartLink(s, provider)
  PROVE  IInv'
<1>1. PICK x \in sessions : Generate(s, provider, x.identityId)
  BY DEF StartLink
<1>2. x.identityId \in Callbacks /\ Granted(x.identityId)
  BY DEF IInv, TypeOK, Session, SessionsOK, SessionOf, Granted
<1>3. QED
  BY <1>1, <1>2, GenerateKeeps

LEMMA ExpireStateKeeps ==
  ASSUME IInv, NEW s \in States, ExpireState(s)
  PROVE  IInv'
<1>1. TypeOK'
  BY DEF ExpireState, tables, IInv, TypeOK, StateData, NoState
<1>2. StoreOK'
  BY DEF ExpireState, IInv, TypeOK, StoreOK, NoState, Granted
<1>3. QED
  BY <1>1, <1>2, OutsideStep DEF ExpireState, tables, IInv, SessionsOK, SessionOf

\* A stuttering step, the end of a session, a soft delete and an unlink.
LEMMA ShrinkKeeps ==
  ASSUME IInv, UNCHANGED <<stateStore, req, identities, profiles, bound>>,
         deleted' \subseteq Callbacks,
         accounts' \subseteq accounts, sessions' \subseteq sessions
  PROVE  IInv'
<1>1. TypeOK'
  BY DEF IInv, TypeOK
<1>2. StoreOK'
  BY DEF IInv, StoreOK, Granted
<1>3. QED
  BY <1>1, <1>2, OutsideStep DEF IInv, SessionsOK, SessionOf

\* What a refresh brings back is what the callback stored.
LEMMA RestoreSessionKeeps ==
  ASSUME IInv, NEW c \in Callbacks, RestoreSession(c)
  PROVE  IInv'
<1>1. SessionOf(c) \in Session /\ req[c].pc = "done" /\ SessionOf(c).id = c
  <2>1. PICK p \in profiles : p.id = req[c].profileId
    BY DEF RestoreSession, IInv, CallbackOK, Knows
  <2>2. req[c] \in Request /\ req[c].identityId # None /\ p \in UserProfile
    BY DEF RestoreSession, IInv, TypeOK, CallbackOK, Knows
  <2>3. QED
    BY <2>1, <2>2 DEF RestoreSession, SessionOf, Session, Request, UserProfile
<1>2. TypeOK'
  BY <1>1 DEF RestoreSession, tables, IInv, TypeOK
<1>3. StoreOK'
  BY DEF RestoreSession, IInv, StoreOK, Granted
<1>4. SessionsOK'
  BY <1>1 DEF RestoreSession, IInv, SessionsOK, SessionOf
<1>5. QED
  BY <1>2, <1>3, <1>4, OutsideStep DEF RestoreSession, tables

-----------------------------------------------------------------------------
(* The invariants.                                                         *)

LEMMA InitIInv == Init => IInv
BY NoneAssumption
DEF Init, IInv, TypeOK, StateData, NoState, Request, NoLocals, CallbackOK, Knows, StoreOK,
    IdentitiesOK, ProfilesOK, BoundOK, AccountsOK, SessionsOK

LEMMA NextIInv == IInv /\ [Next]_vars => IInv'
<1> SUFFICES ASSUME IInv, [Next]_vars PROVE IInv'
  OBVIOUS
<1>1. ASSUME NEW s \in States, NEW p \in {"discord", "riot"}, StartLogin(s, p)
      PROVE  IInv'
  BY <1>1, GenerateKeeps DEF StartLogin
<1>2. ASSUME NEW s \in States, NEW p \in {"discord", "riot"}, StartLink(s, p)
      PROVE  IInv'
  BY <1>2, StartLinkKeeps
<1>3. ASSUME NEW s \in States, ExpireState(s) PROVE IInv'
  BY <1>3, ExpireStateKeeps
<1>4. ASSUME NEW c \in Callbacks, NEW s \in States, NEW u \in Users, ReceiveCallback(c, s, u)
      PROVE  IInv'
  BY <1>4, ReceiveCallbackKeeps
<1>5. ASSUME NEW c \in Callbacks, HandlerStep(c) PROVE IInv'
  BY <1>5, ConsumeStateKeeps, ExchangeCodeKeeps, FindAccountKeeps, ReadTokensKeeps,
     WriteTokensKeeps, ReadIdentityKeeps, WriteLoginKeeps, LoadProfileKeeps,
     ReadLinkTargetKeeps, LinkAccountKeeps, CheckEmailKeeps, CreateIdentityKeeps,
     PickUsernameKeeps, CreateProfileKeeps, CreateAccountKeeps, CreateSessionKeeps
  DEF HandlerStep
<1>6. ASSUME NEW c \in Callbacks, Crash(c) PROVE IInv'
  BY <1>6, CrashKeeps
<1>7. ASSUME NEW x \in sessions, EndSession(x) PROVE IInv'
  BY <1>7, ShrinkKeeps DEF EndSession, tables, IInv, TypeOK
<1>8. ASSUME NEW i \in Callbacks, SoftDelete(i) PROVE IInv'
  BY <1>8, ShrinkKeeps DEF SoftDelete, IInv, TypeOK
<1>9. ASSUME NEW i \in Callbacks, NEW p \in {"discord", "riot"}, UnlinkAccount(i, p)
      PROVE  IInv'
  BY <1>9, ShrinkKeeps DEF UnlinkAccount, IInv, TypeOK
<1>10. ASSUME NEW c \in Callbacks, RestoreSession(c) PROVE IInv'
  BY <1>10, RestoreSessionKeeps
<1>11. CASE UNCHANGED vars
  BY <1>11, ShrinkKeeps DEF vars, IInv, TypeOK
<1>12. QED
  BY <1>1, <1>2, <1>3, <1>4, <1>5, <1>6, <1>7, <1>8, <1>9, <1>10, <1>11 DEF Next

LEMMA Inductive == Spec => []IInv
BY InitIInv, NextIInv, PTL DEF Spec

\* Every variable has its type, for any number of callbacks, nonces and users.
THEOREM TypeCorrect == Spec => []TypeOK
<1>1. IInv => TypeOK
  BY DEF IInv
<1>2. QED
  BY <1>1, Inductive, PTL

\* No session mixes the identity of one person with the login or the profile
\* of another (oauth.controller.ts, the session created after the callback).
THEOREM SessionsOwned == Spec => []SessionsAreOwned
<1>1. IInv => SessionsAreOwned
  <2> SUFFICES ASSUME IInv, NEW x \in sessions
               PROVE  /\ \E b \in bound : b.identityId = x.identityId /\ b.user = req[x.id].user
                      /\ \E p \in profiles : p.id = x.profileId /\ p.identityId = x.identityId
    BY DEF SessionsAreOwned
  <2>1. x.id \in Callbacks /\ req[x.id].pc = "done" /\ req[x.id].identityId = x.identityId
    BY DEF IInv, TypeOK, Session, SessionsOK, SessionOf
  <2>2. Linked(req[x.id].user, x.identityId)
    BY <2>1 DEF IInv, CallbackOK, Knows
  <2>3. QED
    BY <2>1, <2>2 DEF IInv, SessionsOK, SessionOf, CallbackOK, Knows, Linked
<1>2. QED
  BY <1>1, Inductive, PTL

\* Rule 1 never finds an account whose identity or profile is missing, although
\* sign-up writes the three rows one after the other and may die in between.
THEOREM AccountsWhole == Spec => []AccountsAreWhole
<1>1. IInv => AccountsAreWhole
  BY DEF IInv, AccountsAreWhole, AccountsOK, BoundOK, ProfilesOK, HasIdentity, HasProfile
<1>2. QED
  BY <1>1, Inductive, PTL

\* Rule 3: only a session of an identity brings another provider user to it.
THEOREM LinksFromOwner == Spec => []LinksStartFromOwner
<1>1. IInv => LinksStartFromOwner
  BY DEF IInv, LinksStartFromOwner, BoundOK, Founded
<1>2. QED
  BY <1>1, Inductive, PTL

\* All the sessions that a provider user's logins end in are for one identity, unless
\* an account of the user was unlinked, although a retry with another address may found
\* a second one: the unique index on the provider user stops every such sign-up at its
\* account row, before it has a session (oauth.service.ts, Rules 1 and 2).
THEOREM UsersKeepIdentity == Spec => []SessionsOfOneIdentity
<1>1. IInv => SessionsOfOneIdentity
  <2> SUFFICES ASSUME IInv, NEW c \in Callbacks, NEW d \in Callbacks,
                      req[c].pc = "done", req[d].pc = "done", req[c].user = req[d].user,
                      req[c].identityId # req[d].identityId
               PROVE  \E b \in bound :
                        /\ b.user = req[c].user
                        /\ \A a \in accounts : a.user = b.user => a.identityId # b.identityId
    BY DEF SessionsOfOneIdentity
  <2>1. PICK b \in bound : b.identityId = req[c].identityId /\ b.user = req[c].user
    BY DEF IInv, CallbackOK, Knows, Linked
  <2>2. PICK e \in bound : e.identityId = req[d].identityId /\ e.user = req[c].user
    BY DEF IInv, CallbackOK, Knows, Linked
  <2>3. \A x, y \in accounts : x.user = req[c].user /\ y.user = req[c].user => x = y
    BY DEF IInv, AccountsOK
  <2>4. QED
    BY <2>1, <2>2, <2>3
<1>2. QED
  BY <1>1, Inductive, PTL

-----------------------------------------------------------------------------
(* The tables implement LoginContract.                                     *)

\* The unique index makes the mapped owner of a user well defined.
LEMMA OwnerIs ==
  ASSUME IInv, IInv'
  PROVE  /\ \A a \in accounts : Owner[a.user] = a.identityId
         /\ \A u \in Users : (\A a \in accounts : a.user # u) => Owner[u] = None
         /\ \A a \in accounts' : Owner'[a.user] = a.identityId
         /\ \A u \in Users : (\A a \in accounts' : a.user # u) => Owner'[u] = None
<1>1. /\ \A a \in accounts : a.user \in Users
      /\ \A a, b \in accounts : a.user = b.user => a = b
      /\ \A a \in accounts' : a.user \in Users
      /\ \A a, b \in accounts' : a.user = b.user => a = b
  BY DEF IInv, TypeOK, OAuthAccount, AccountsOK
<1>2. \A a \in accounts : Owner[a.user] = a.identityId
  <2> SUFFICES ASSUME NEW a \in accounts PROVE Owner[a.user] = a.identityId
    OBVIOUS
  <2>1. (CHOOSE x \in accounts : x.user = a.user) = a
    BY <1>1
  <2>2. QED
    BY <1>1, <2>1 DEF Owner
<1>3. \A a \in accounts' : Owner'[a.user] = a.identityId
  <2> SUFFICES ASSUME NEW a \in accounts' PROVE Owner'[a.user] = a.identityId
    OBVIOUS
  <2>1. (CHOOSE x \in accounts' : x.user = a.user) = a
    BY <1>1
  <2>2. QED
    BY <1>1, <2>1 DEF Owner
<1>4. QED
  BY <1>2, <1>3 DEF Owner

\* What a step does that ends no callback with a session.
NoGrant(c) ==
  /\ \A d \in Callbacks : d # c => req'[d] = req[d]
  /\ req[c].pc # "done" /\ req'[c].pc # "done"

LEMMA NoGrantKeeps ==
  ASSUME NEW c \in Callbacks, NoGrant(c)
  PROVE  Grants' = Grants
BY DEF NoGrant, Grants

\* An account row binds a user who had none: to the identity that this callback
\* created, or to one that a session was granted for.
LEMMA InsertAccountBinds ==
  ASSUME IInv, IInv', NEW c \in Callbacks, LinkAccount(c) \/ CreateAccount(c),
         \A a \in accounts : a.user # req[c].user,
         accounts' = accounts \cup {AccountRow(c)},
         bound' = bound \cup {BindingRow(c)},
         Grants' = Grants
  PROVE  Contract!Next
<1> DEFINE u == req[c].user
           i == req[c].identityId
<1>1. u \in Users /\ i \in Callbacks
  BY DEF IInv, TypeOK, CallbackOK, Knows, LinkAccount, CreateAccount, Request
<1>2. Owner[u] = None
  BY <1>1, OwnerIs
<1>3. Owner' = [Owner EXCEPT ![u] = i]
  <2>1. /\ AccountRow(c) \in accounts' /\ AccountRow(c).user = u
        /\ AccountRow(c).identityId = i
    BY DEF AccountRow
  <2>2. \A v \in Users : Owner'[v] = IF v = u THEN i ELSE Owner[v]
    <3> SUFFICES ASSUME NEW v \in Users PROVE Owner'[v] = IF v = u THEN i ELSE Owner[v]
      OBVIOUS
    <3>1. CASE v = u
      BY <2>1, <3>1, OwnerIs
    <3>2. CASE v # u /\ \E a \in accounts : a.user = v
      BY <3>2, OwnerIs
    <3>3. CASE v # u /\ \A a \in accounts : a.user # v
      BY <2>1, <3>3, OwnerIs
    <3>4. QED
      BY <3>1, <3>2, <3>3
  <2>3. QED
    BY <1>1, <2>2 DEF Owner
<1>4. Ever' = Ever \cup {<<u, i>>}
  <2>1. BindingRow(c).user = u /\ BindingRow(c).identityId = i
    BY DEF BindingRow
  <2>2. QED
    BY <2>1 DEF Ever
<1>5. Contract!Bind(u, i)
  BY <1>2, <1>3, <1>4 DEF Contract!Bind
<1>6. CASE LinkAccount(c)
  <2>1. PICK d \in Callbacks : req[d].pc = "done" /\ req[d].identityId = i
    BY <1>6 DEF LinkAccount, IInv, CallbackOK, Knows, Granted
  <2>2. req[d].user \in Users /\ <<req[d].user, i>> \in Grants
    BY <2>1 DEF IInv, CallbackOK, Knows, Grants
  <2>3. QED
    BY <1>1, <1>5, <2>2 DEF Contract!Next, Contract!Join
<1>7. CASE CreateAccount(c)
  <2>1. i = c /\ \A b \in bound : b.id # c
    BY <1>7 DEF CreateAccount, IInv, CallbackOK, Knows
  <2>2. \A b \in bound : b.identityId # c
    BY <2>1 DEF IInv, BoundOK, Founded
  <2>3. \A v \in Users : <<v, i>> \notin Ever
    BY <2>1, <2>2 DEF Ever
  <2>4. QED
    BY <1>1, <1>5, <2>3 DEF Contract!Next, Contract!Found, Contract!Owned
<1>8. QED
  BY <1>6, <1>7

LEMMA CreateSessionGrants ==
  ASSUME IInv, NEW c \in Callbacks, CreateSession(c)
  PROVE  Contract!Next
<1> DEFINE u == req[c].user
           i == req[c].identityId
<1>1. /\ u \in Users /\ i \in Callbacks /\ Linked(u, i)
  BY DEF CreateSession, IInv, TypeOK, CallbackOK, Knows, Request
<1>2. <<u, i>> \in Ever
  BY <1>1 DEF Linked, Ever
<1>3. /\ req'[c].pc = "done" /\ req'[c].user = u /\ req'[c].identityId = i
      /\ \A d \in Callbacks : d # c => req'[d] = req[d]
      /\ req[c].pc # "done"
  BY DEF CreateSession, IInv, TypeOK, NoLocals
<1>4. Grants' = Grants \cup {<<u, i>>}
  BY <1>3 DEF Grants
<1>5. Owner' = Owner /\ Ever' = Ever
  BY DEF CreateSession, tables, Owner, Ever
<1>6. QED
  BY <1>1, <1>2, <1>4, <1>5 DEF Contract!Next, Contract!Grant

\* Unlinking releases the users whose rows it deletes.
LEMMA UnlinkReleases ==
  ASSUME IInv, IInv', NEW i \in Callbacks, NEW p, UnlinkAccount(i, p)
  PROVE  Contract!Next
<1> DEFINE us == {u \in Users : \E a \in accounts : /\ a.user = u /\ a.identityId = i
                                                    /\ Provider[u] = p}
<1>1. Owner' = [u \in Users |-> IF u \in us THEN None ELSE Owner[u]]
  <2>1. \A u \in Users : Owner'[u] = IF u \in us THEN None ELSE Owner[u]
    <3> SUFFICES ASSUME NEW u \in Users PROVE Owner'[u] = IF u \in us THEN None ELSE Owner[u]
      OBVIOUS
    <3>1. CASE u \in us
      <4>1. \A a \in accounts' : a.user # u
        BY <3>1 DEF UnlinkAccount, IInv, AccountsOK
      <4>2. QED
        BY <3>1, <4>1, OwnerIs
    <3>2. CASE u \notin us /\ \E a \in accounts : a.user = u
      <4>1. PICK a \in accounts : a.user = u
        BY <3>2
      <4>2. a \in accounts'
        BY <3>2, <4>1 DEF UnlinkAccount
      <4>3. QED
        BY <3>2, <4>1, <4>2, OwnerIs
    <3>3. CASE u \notin us /\ \A a \in accounts : a.user # u
      BY <3>3, OwnerIs DEF UnlinkAccount
    <3>4. QED
      BY <3>1, <3>2, <3>3
  <2>2. QED
    BY <2>1 DEF Owner
<1>2. Ever' = Ever /\ Grants' = Grants
  BY DEF UnlinkAccount, Ever, Grants
<1>3. us \in SUBSET Users
  OBVIOUS
<1>4. QED
  BY <1>1, <1>2, <1>3 DEF Contract!Next, Contract!Release

\* The calls of a handler that do not grant a session.
LEMMA NothingGranted ==
  ASSUME IInv, NEW c \in Callbacks, HandlerStep(c) \/ Crash(c), ~CreateSession(c)
  PROVE  NoGrant(c)
<1>1. CASE Fail(c) /\ req[c].pc \in InFlight
  BY <1>1 DEF Fail, NoGrant, InFlight, IInv, TypeOK, NoLocals
<1>2. ASSUME NEW l \in InFlight, Goto(c, l), req[c].pc \in InFlight PROVE NoGrant(c)
  BY <1>2 DEF Goto, NoGrant, InFlight, IInv, TypeOK, Request
<1>3. CASE ReadTokens(c) \/ WriteTokens(c) \/ ReadIdentity(c) \/ WriteLogin(c) \/ CheckEmail(c)
  BY <1>1, <1>2, <1>3
  DEF ReadTokens, WriteTokens, ReadIdentity, WriteLogin, CheckEmail, InFlight
<1>4. CASE LinkAccount(c) \/ CreateAccount(c)
  BY <1>1, <1>2, <1>4 DEF LinkAccount, CreateAccount, InsertAccount, InFlight
<1>5. CASE FindAccount(c)
  <2>1. CASE \E l \in {"checkEmail", "createIdentity"} : Goto(c, l)
    BY <1>2, <1>5, <2>1 DEF FindAccount, InFlight
  <2>2. CASE req' = [req EXCEPT ![c].pc = "readLinkTarget", ![c].info = None]
    BY <1>5, <2>2 DEF FindAccount, NoGrant, IInv, TypeOK, Request
  <2>3. ASSUME NEW a \in accounts,
               req' = [req EXCEPT ![c].pc = "readTokens", ![c].accountId = a.id,
                                  ![c].identityId = a.identityId, ![c].info = None,
                                  ![c].linkTo = None]
        PROVE  NoGrant(c)
    BY <1>5, <2>3 DEF FindAccount, NoGrant, IInv, TypeOK, Request
  <2>4. QED
    BY <1>5, <2>1, <2>2, <2>3 DEF FindAccount
<1>6. CASE LoadProfile(c)
  BY <1>1, <1>6 DEF LoadProfile, NoGrant, InFlight, IInv, TypeOK, Request
<1>7. CASE ReadLinkTarget(c)
  BY <1>1, <1>7 DEF ReadLinkTarget, NoGrant, InFlight, IInv, TypeOK, Request
<1>8. CASE CreateIdentity(c)
  BY <1>1, <1>8 DEF CreateIdentity, NoGrant, InFlight, IInv, TypeOK, Request
<1>9. CASE PickUsername(c)
  BY <1>2, <1>9 DEF PickUsername, NoGrant, InFlight, IInv, TypeOK, Request
<1>10. CASE CreateProfile(c)
  BY <1>1, <1>10 DEF CreateProfile, NoGrant, InFlight, IInv, TypeOK, Request
<1>11. CASE Crash(c)
  BY <1>1, <1>11 DEF Crash
<1>12. CASE ConsumeState(c)
  BY <1>1, <1>12 DEF ConsumeState, NoGrant, InFlight, IInv, TypeOK, Request
<1>13. CASE ExchangeCode(c)
  BY <1>13 DEF ExchangeCode, NoGrant, IInv, TypeOK, Request
<1>14. QED
  BY <1>12, <1>13, <1>3, <1>4, <1>5, <1>6, <1>7, <1>8, <1>9, <1>10, <1>11 DEF HandlerStep

\* Those of them that insert no account either.
LEMMA HandlerStutters ==
  ASSUME IInv, NEW c \in Callbacks, HandlerStep(c) \/ Crash(c),
         ~CreateSession(c), UNCHANGED <<accounts, bound>>
  PROVE  UNCHANGED Contract!contractVars
<1>1. Grants' = Grants
  BY NothingGranted, NoGrantKeeps
<1>2. QED
  BY <1>1 DEF Contract!contractVars, Owner, Ever

LEMMA InitMaps == Init => Contract!Init
BY DEF Init, Contract!Init, Owner, Ever, Grants, NoLocals

LEMMA NextMaps == IInv /\ IInv' /\ [Next]_vars => [Contract!Next]_Contract!contractVars
<1> SUFFICES ASSUME IInv, IInv', [Next]_vars
             PROVE  Contract!Next \/ UNCHANGED Contract!contractVars
  OBVIOUS
<1>1. ASSUME NEW s \in States, NEW p, StartLogin(s, p) \/ StartLink(s, p)
      PROVE  UNCHANGED Contract!contractVars
  <2>1. UNCHANGED <<tables, req>>
    BY <1>1 DEF StartLogin, StartLink, Generate
  <2>2. QED
    BY <2>1 DEF tables, Contract!contractVars, Owner, Ever, Grants
<1>2. ASSUME NEW s \in States, ExpireState(s) PROVE UNCHANGED Contract!contractVars
  BY <1>2 DEF ExpireState, tables, Contract!contractVars, Owner, Ever, Grants
<1>3. ASSUME NEW c \in Callbacks, NEW s \in States, NEW u \in Users, ReceiveCallback(c, s, u)
      PROVE  UNCHANGED Contract!contractVars
  <2>1. NoGrant(c)
    BY <1>3 DEF ReceiveCallback, NoGrant, IInv, TypeOK, Request
  <2>2. QED
    BY <1>3, <2>1, NoGrantKeeps DEF ReceiveCallback, tables, Contract!contractVars, Owner, Ever
<1>4. ASSUME NEW c \in Callbacks, HandlerStep(c) \/ Crash(c)
      PROVE  Contract!Next \/ UNCHANGED Contract!contractVars
  <2>1. CASE CreateSession(c)
    BY <2>1, CreateSessionGrants
  <2>2. CASE ~CreateSession(c) /\ UNCHANGED <<accounts, bound>>
    BY <1>4, <2>2, HandlerStutters
  <2>3. CASE /\ LinkAccount(c) \/ CreateAccount(c)
             /\ ~UNCHANGED <<accounts, bound>>
    <3>1. PICK next \in {"loadProfile", "createSession"} :
            /\ \A a \in accounts : a.user # req[c].user
            /\ accounts' = accounts \cup {AccountRow(c)}
            /\ bound' = bound \cup {BindingRow(c)}
            /\ Goto(c, next)
      BY <2>3 DEF LinkAccount, CreateAccount, InsertAccount
    <3>2. NoGrant(c)
      BY <2>3, <3>1 DEF LinkAccount, CreateAccount, Goto, NoGrant, IInv, TypeOK, Request
    <3>3. QED
      BY <2>3, <3>1, <3>2, NoGrantKeeps, InsertAccountBinds
  <2>4. UNCHANGED <<accounts, bound>> \/ LinkAccount(c) \/ CreateAccount(c)
    BY <1>4
    DEF HandlerStep, ConsumeState, ExchangeCode, FindAccount, ReadTokens, WriteTokens,
        ReadIdentity, WriteLogin, LoadProfile, ReadLinkTarget, CheckEmail, CreateIdentity,
        PickUsername, CreateProfile, CreateSession, Crash, tables
  <2>5. QED
    BY <2>1, <2>2, <2>3, <2>4
<1>5. ASSUME NEW x \in sessions, EndSession(x) PROVE UNCHANGED Contract!contractVars
  BY <1>5 DEF EndSession, tables, Contract!contractVars, Owner, Ever, Grants
<1>6. ASSUME NEW i \in Callbacks, SoftDelete(i) PROVE UNCHANGED Contract!contractVars
  BY <1>6 DEF SoftDelete, Contract!contractVars, Owner, Ever, Grants
<1>7. ASSUME NEW i \in Callbacks, NEW p, UnlinkAccount(i, p) PROVE Contract!Next
  BY <1>7, UnlinkReleases
<1>8. ASSUME NEW c \in Callbacks, RestoreSession(c) PROVE UNCHANGED Contract!contractVars
  BY <1>8 DEF RestoreSession, tables, Contract!contractVars, Owner, Ever, Grants
<1>9. CASE UNCHANGED vars
  BY <1>9 DEF vars, Contract!contractVars, Owner, Ever, Grants
<1>10. QED
  BY <1>1, <1>2, <1>3, <1>4, <1>5, <1>6, <1>7, <1>8, <1>9 DEF Next

\* Every behaviour of the tables, crashes, replays and unlinks included, is one
\* that LoginContract allows: an identity is founded once, joined only by the
\* holder of one of its sessions, and granted only to its members.
THEOREM Implements == Spec => ImplementsContract
BY InitMaps, NextMaps, Inductive, PTL DEF Spec, ImplementsContract, Contract!Spec

\* An account is never moved: a provider user who is linked to an identity stays
\* linked to it until somebody unlinks it, so a link request that names another
\* identity (which runs Rule 1, oauth.service.ts) takes nothing from its owner.
THEOREM AccountsNeverMove ==
  Spec => [][\A u \in Users : Owner[u] # None => Owner'[u] \in {Owner[u], None}]_Owner
<1> DEFINE Stays == \A u \in Users : Owner[u] # None => Owner'[u] \in {Owner[u], None}
<1>1. Owner = [u \in Users |-> Owner[u]]
  BY DEF Owner
<1>2. ASSUME [Contract!Next]_Contract!contractVars, Owner = [u \in Users |-> Owner[u]]
      PROVE  [Stays]_Owner
  <2> HIDE DEF Owner, Ever, Grants
  <2>1. ASSUME NEW u \in Users, NEW i \in Callbacks, Contract!Bind(u, i)
        PROVE  Stays
    BY <1>2, <2>1 DEF Contract!Bind
  <2>2. ASSUME NEW us \in SUBSET Users, Contract!Release(us)
        PROVE  Stays
    BY <2>2 DEF Contract!Release
  <2>3. ASSUME NEW u \in Users, NEW i \in Callbacks, Contract!Grant(u, i)
        PROVE  UNCHANGED Owner
    BY <2>3 DEF Contract!Grant
  <2>4. QED
    BY <1>2, <2>1, <2>2, <2>3 DEF Contract!Next, Contract!Found, Contract!Join,
      Contract!contractVars
<1>3. [Contract!Next]_Contract!contractVars => [Stays]_Owner
  BY <1>1, <1>2
<1> HIDE DEF Stays
<1>4. Spec => [][Stays]_Owner
  BY <1>3, Implements, PTL DEF ImplementsContract, Contract!Spec
<1>5. QED
  BY <1>4 DEF Stays

\* Two provider users ever share an identity only if somebody was granted a session
\* for it: without a login to an identity nobody can be joined to it.
THEOREM SharingNeedsLogin ==
  Spec => [](\A u, v \in Users, i \in Callbacks :
               <<u, i>> \in Ever /\ <<v, i>> \in Ever /\ u # v =>
                 \E w \in Users : <<w, i>> \in Grants)
<1> DEFINE Consent == \A u, v \in Users, i \in Callbacks :
                        <<u, i>> \in Ever /\ <<v, i>> \in Ever /\ u # v =>
                          \E w \in Users : <<w, i>> \in Grants
<1>1. Contract!Init => Consent
  BY DEF Contract!Init
<1>2. ASSUME Consent, [Contract!Next]_Contract!contractVars
      PROVE  Consent'
  <2> HIDE DEF Owner, Ever, Grants
  <2>1. ASSUME NEW v \in Users, NEW i \in Callbacks, Contract!Found(v, i)
        PROVE  Consent'
    BY <1>2, <2>1 DEF Contract!Found, Contract!Bind, Contract!Owned
  <2>2. ASSUME NEW v \in Users, NEW i \in Callbacks, Contract!Join(v, i)
        PROVE  Consent'
    BY <1>2, <2>2 DEF Contract!Join, Contract!Bind
  <2>3. ASSUME NEW v \in Users, NEW i \in Callbacks, Contract!Grant(v, i)
        PROVE  Consent'
    BY <1>2, <2>3 DEF Contract!Grant
  <2>4. ASSUME NEW us \in SUBSET Users, Contract!Release(us)
        PROVE  Consent'
    BY <1>2, <2>4 DEF Contract!Release
  <2>5. QED
    BY <1>2, <2>1, <2>2, <2>3, <2>4 DEF Contract!Next, Contract!contractVars
<1> HIDE DEF Consent
<1>3. Spec => []Consent
  BY <1>1, <1>2, Implements, PTL DEF ImplementsContract, Contract!Spec
<1>4. QED
  BY <1>3 DEF Consent

-----------------------------------------------------------------------------
(* The sessions are used as SessionTable allows.                           *)

\* The sessions as SessionTable sees them.
Issued == [c \in Callbacks |-> IF req[c].pc = "done" THEN req[c].identityId ELSE None]
Accepted == [c \in Callbacks |->
               IF \E x \in sessions : x.id = c
               THEN (CHOOSE x \in sessions : x.id = c).identityId ELSE None]

Table == INSTANCE SessionTable WITH
  Tokens <- Callbacks, Owners <- Callbacks, issued <- Issued, table <- Accepted

\* Whatever a step leaves in the session table is granted to its owner.
LEMMA AcceptedIs ==
  IInv => Accepted = [c \in Callbacks |->
                        IF \E x \in sessions : x.id = c THEN Issued[c] ELSE None]
<1> SUFFICES ASSUME IInv
             PROVE  Accepted = [c \in Callbacks |->
                                  IF \E x \in sessions : x.id = c THEN Issued[c] ELSE None]
  OBVIOUS
<1>1. ASSUME NEW c \in Callbacks, NEW x \in sessions, x.id = c
      PROVE  (CHOOSE y \in sessions : y.id = c).identityId = Issued[c]
  <2>1. \A y \in sessions : y.id = c => y.identityId = Issued[c]
    BY DEF IInv, SessionsOK, SessionOf, Issued
  <2>2. QED
    BY <1>1, <2>1
<1>2. QED
  BY <1>1 DEF Accepted

LEMMA AcceptedIsNext ==
  (IInv => Accepted = [c \in Callbacks |->
                         IF \E x \in sessions : x.id = c THEN Issued[c] ELSE None])'
BY AcceptedIs, PTL

\* A step that grants nothing at most ends sessions and brings some back.
LEMMA UngrantedChanges ==
  ASSUME IInv', Issued' = Issued
  PROVE  Table!Next
<1> DEFINE live == {c \in Callbacks : \E x \in sessions' : x.id = c}
<1>1. Accepted' = [c \in Callbacks |-> IF c \in live THEN Issued[c] ELSE None]
  BY AcceptedIsNext
<1>2. Table!Change(live)
  BY <1>1 DEF Table!Change
<1>3. live \in SUBSET Callbacks
  OBVIOUS
<1>4. QED
  BY <1>2, <1>3 DEF Table!Next

LEMMA CreateSessionIssues ==
  ASSUME IInv, IInv', NEW c \in Callbacks, CreateSession(c)
  PROVE  Table!Next
<1> DEFINE i == req[c].identityId
<1>1. i \in Callbacks
  BY DEF CreateSession, IInv, TypeOK, CallbackOK, Knows, Request
<1>2. Issued[c] = None /\ Issued' = [Issued EXCEPT ![c] = i]
  <2>1. /\ req[c].pc = "createSession" /\ req'[c].pc = "done" /\ req'[c].identityId = i
        /\ \A d \in Callbacks : d # c => req'[d] = req[d]
    BY DEF CreateSession, IInv, TypeOK, NoLocals
  <2>2. QED
    BY <2>1 DEF Issued
<1>3. Accepted' = [Accepted EXCEPT ![c] = i]
  <2>1. SessionOf(c).id = c /\ sessions' = sessions \cup {SessionOf(c)}
    BY DEF CreateSession, SessionOf
  <2>2. \A d \in Callbacks :
          (\E x \in sessions' : x.id = d) <=> d = c \/ \E x \in sessions : x.id = d
    BY <2>1
  <2>3. Accepted' = [d \in Callbacks |-> IF \E x \in sessions' : x.id = d THEN Issued'[d] ELSE None]
    BY AcceptedIsNext
  <2>4. \A d \in Callbacks : Accepted'[d] = IF d = c THEN i ELSE Accepted[d]
    BY <1>2, <2>2, <2>3, AcceptedIs DEF Issued
  <2>5. QED
    BY <2>4 DEF Accepted
<1>4. QED
  BY <1>1, <1>2, <1>3 DEF Table!Next, Table!Issue

LEMMA StepUsesTable ==
  ASSUME IInv, IInv', [Next]_vars
  PROVE  [Table!Next]_Table!tableVars
<1>1. ASSUME NEW c \in Callbacks, HandlerStep(c) \/ Crash(c), ~CreateSession(c)
      PROVE  Table!Next
  <2>1. NoGrant(c)
    BY <1>1, NothingGranted
  <2>2. QED
    BY <2>1, UngrantedChanges DEF NoGrant, Issued
<1>2. ASSUME NEW c \in Callbacks, NEW s \in States, NEW u \in Users, ReceiveCallback(c, s, u)
      PROVE  Table!Next
  <2>1. NoGrant(c)
    BY <1>2 DEF ReceiveCallback, NoGrant, IInv, TypeOK, Request
  <2>2. QED
    BY <2>1, UngrantedChanges DEF NoGrant, Issued
<1>3. CASE UNCHANGED req
  BY <1>3, UngrantedChanges DEF Issued
<1>4. ASSUME \/ \E s \in States, p \in {"discord", "riot"} : StartLogin(s, p) \/ StartLink(s, p)
             \/ \E s \in States : ExpireState(s)
             \/ \E c \in Callbacks : RestoreSession(c)
             \/ \E x \in sessions : EndSession(x)
             \/ \E i \in Callbacks : SoftDelete(i)
             \/ \E i \in Callbacks, p \in {"discord", "riot"} : UnlinkAccount(i, p)
             \/ UNCHANGED vars
      PROVE  UNCHANGED req
  BY <1>4 DEF StartLogin, StartLink, Generate, ExpireState, RestoreSession, EndSession,
              SoftDelete, UnlinkAccount, vars
<1>5. QED
  BY <1>1, <1>2, <1>3, <1>4, CreateSessionIssues DEF Next

\* The sessions of the login live as those of the store do (SessionTable, and
\* SessionsKeepTable in SessionsProofs): each is issued once, ends at any time, and comes
\* back, for the identity it was issued to, when a refresh was under way.
THEOREM LoginUsesTable == Spec => Table!Spec
<1>1. Init => Table!Init
  BY DEF Init, Table!Init, Issued, Accepted, NoLocals
<1>2. QED
  BY <1>1, StepUsesTable, Inductive, PTL DEF Spec, Table!Spec

-----------------------------------------------------------------------------
(* Where a failed login can be tried again.                                *)

\* The calls between the identity of a sign-up and its account row.
SigningUp == {"pickUsername", "createProfile", "createAccount"}

\* Every identity has its account row or is getting it.
SignUpsLead ==
  \A x \in identities : req[x.id].pc \in SigningUp \/ Founded(x.id)

\* No account row has been taken away.
RowsKept ==
  \A b \in bound : \E a \in accounts : a.identityId = b.identityId /\ a.user = b.user

\* The other callbacks' locals are not touched.
LEMMA OneCallback ==
  ASSUME TypeOK, NEW c \in Callbacks, HandlerStep(c) \/ Crash(c),
         NEW d \in Callbacks, d # c
  PROVE  req'[d] = req[d]
<1>1. CASE (\E l \in InFlight : Goto(c, l)) \/ Fail(c)
  BY <1>1 DEF Goto, Fail, TypeOK
<1>2. CASE ReadTokens(c) \/ WriteTokens(c) \/ ReadIdentity(c) \/ WriteLogin(c) \/ CheckEmail(c) \/ LinkAccount(c)
           \/ CreateAccount(c) \/ Crash(c)
  BY <1>1, <1>2
  DEF ReadTokens, WriteTokens, ReadIdentity, WriteLogin,
      CheckEmail, LinkAccount, CreateAccount, InsertAccount, Crash, InFlight
<1>3. CASE ConsumeState(c) \/ ExchangeCode(c) \/ FindAccount(c) \/ LoadProfile(c)
           \/ ReadLinkTarget(c)
  BY <1>1, <1>3
  DEF ConsumeState, ExchangeCode, FindAccount, LoadProfile, ReadLinkTarget, InFlight, TypeOK
<1>4. CASE CreateIdentity(c) \/ PickUsername(c) \/ CreateProfile(c) \/ CreateSession(c)
  BY <1>1, <1>4 DEF CreateIdentity, PickUsername, CreateProfile, CreateSession, InFlight, TypeOK
<1>5. QED
  BY <1>2, <1>3, <1>4 DEF HandlerStep

\* A sign-up goes on, ends in its account row, or fails.
LEMMA SignUpGoesOn ==
  ASSUME IInv, NEW c \in Callbacks, HandlerStep(c) \/ Crash(c), req[c].pc \in SigningUp,
         req'[c].pc # "failed"
  PROVE  /\ identities' = identities
         /\ req'[c].pc \in SigningUp \/ Founded(c)'
<1>1. ~Fail(c) /\ req[c].identityId = c /\ TypeOK
  BY DEF Fail, NoLocals, IInv, TypeOK, CallbackOK, Knows, SigningUp
<1>2. CASE PickUsername(c)
  BY <1>1, <1>2 DEF PickUsername, Goto, SigningUp, TypeOK, Request, tables
<1>3. CASE CreateProfile(c)
  <2>1. /\ identities' = identities
        /\ req' = [req EXCEPT ![c].pc = "createAccount", ![c].profileId = c,
                              ![c].info = None, ![c].suffix = 0]
    BY <1>1, <1>3 DEF CreateProfile
  <2>2. req'[c].pc = "createAccount"
    BY <1>1, <2>1 DEF TypeOK, Request
  <2>3. QED
    BY <2>1, <2>2 DEF SigningUp
<1>4. CASE CreateAccount(c)
  <2>1. BindingRow(c) \in bound' /\ BindingRow(c).id = c /\ BindingRow(c).identityId = c
    BY <1>1, <1>4 DEF CreateAccount, InsertAccount, BindingRow
  <2>2. QED
    BY <1>4, <2>1 DEF CreateAccount, Founded
<1>5. CASE Crash(c)
  BY <1>1, <1>5 DEF Crash
<1>6. QED
  BY <1>2, <1>3, <1>4, <1>5
  DEF HandlerStep, SigningUp, ConsumeState, ExchangeCode, FindAccount, ReadTokens, WriteTokens,
      ReadIdentity, WriteLogin, LoadProfile, ReadLinkTarget, LinkAccount, CheckEmail,
      CreateIdentity, CreateSession

\* A call outside a sign-up creates no identity, or begins the sign-up with it.
LEMMA SignUpBegins ==
  ASSUME IInv, NEW c \in Callbacks, HandlerStep(c) \/ Crash(c), req[c].pc \notin SigningUp
  PROVE  \/ identities' = identities
         \/ /\ \A x \in identities' : x \in identities \/ x.id = c
            /\ req'[c].pc \in SigningUp
<1>1. CASE CreateIdentity(c)
  <2>1. CASE UNCHANGED identities
    BY <2>1
  <2>2. CASE /\ identities' = identities \cup {[id |-> c, email |-> LoginEmail(req[c].user, req[c].info)]}
             /\ req' = [req EXCEPT ![c].pc = "pickUsername", ![c].identityId = c]
    <3>1. req'[c].pc = "pickUsername"
      BY <2>2 DEF IInv, TypeOK, Request
    <3>2. \A x \in identities' : x \in identities \/ x.id = c
      BY <2>2
    <3>3. QED
      BY <3>1, <3>2 DEF SigningUp
  <2>3. QED
    BY <1>1, <2>1, <2>2 DEF CreateIdentity
<1>2. CASE ~CreateIdentity(c)
  BY <1>2
  DEF HandlerStep, SigningUp, ConsumeState, ExchangeCode, FindAccount, ReadTokens, WriteTokens,
      ReadIdentity, WriteLogin, LoadProfile, ReadLinkTarget, LinkAccount, CheckEmail,
      PickUsername, CreateProfile, CreateAccount, CreateSession, Crash, tables
<1>3. QED
  BY <1>1, <1>2

\* The history of account rows only grows, and an account row with it.
LEMMA BoundGrows ==
  ASSUME [Next]_vars
  PROVE  /\ bound \subseteq bound'
         /\ "unlink" \notin ServiceCalls /\ RowsKept => RowsKept'
<1>1. ASSUME NEW c \in Callbacks, NEW l, InsertAccount(c, l)
      PROVE  bound \subseteq bound' /\ (RowsKept => RowsKept')
  <2>1. CASE UNCHANGED <<accounts, bound>>
    BY <2>1 DEF RowsKept
  <2>2. CASE accounts' = accounts \cup {AccountRow(c)} /\ bound' = bound \cup {BindingRow(c)}
    <3>1. /\ AccountRow(c).identityId = BindingRow(c).identityId
          /\ AccountRow(c).user = BindingRow(c).user
      BY DEF AccountRow, BindingRow
    <3>2. QED
      BY <2>2, <3>1 DEF RowsKept
  <2>3. QED
    BY <1>1, <2>1, <2>2 DEF InsertAccount
<1>2. CASE UNCHANGED <<accounts, bound>>
  BY <1>2 DEF RowsKept
<1>3. ASSUME NEW i \in Callbacks, NEW p, UnlinkAccount(i, p)
      PROVE  bound' = bound /\ "unlink" \in ServiceCalls
  BY <1>3 DEF UnlinkAccount
<1>4. ASSUME NEW c \in Callbacks, HandlerStep(c) \/ Crash(c)
      PROVE  UNCHANGED <<accounts, bound>> \/ \E l \in InFlight : InsertAccount(c, l)
  BY <1>4
  DEF HandlerStep, ConsumeState, ExchangeCode, FindAccount, ReadTokens, WriteTokens,
      ReadIdentity, WriteLogin, LoadProfile, ReadLinkTarget, LinkAccount, CheckEmail,
      CreateIdentity, PickUsername, CreateProfile, CreateAccount, CreateSession, Crash,
      tables, InFlight
<1>5. ASSUME \/ \E s \in States, p \in {"discord", "riot"} : StartLogin(s, p) \/ StartLink(s, p)
             \/ \E s \in States : ExpireState(s)
             \/ \E c \in Callbacks, s \in States, u \in Users : ReceiveCallback(c, s, u)
             \/ \E x \in sessions : EndSession(x)
             \/ \E c \in Callbacks : RestoreSession(c)
             \/ \E i \in Callbacks : SoftDelete(i)
             \/ UNCHANGED vars
      PROVE  UNCHANGED <<accounts, bound>>
  BY <1>5 DEF StartLogin, StartLink, Generate, ExpireState, ReceiveCallback, EndSession, RestoreSession,
              SoftDelete, tables, vars
<1>6. QED
  BY <1>1, <1>2, <1>3, <1>4, <1>5 DEF Next

LEMMA SignUpsKeepLeading ==
  ASSUME IInv, SignUpsLead, [Next]_vars,
         UNCHANGED vars \/ \A c \in Callbacks : req[c].pc \in SigningUp => req'[c].pc # "failed"
  PROVE  SignUpsLead'
<1>1. \A i : Founded(i) => Founded(i)'
  BY BoundGrows DEF Founded
<1>2. \A x \in identities : x.id \in Callbacks
  BY DEF IInv, TypeOK, Identity
<1>3. ASSUME NEW c \in Callbacks, HandlerStep(c) \/ Crash(c), ~UNCHANGED vars PROVE SignUpsLead'
  <2> SUFFICES ASSUME NEW x \in identities' PROVE req'[x.id].pc \in SigningUp \/ Founded(x.id)'
    BY DEF SignUpsLead
  <2>1. \A d \in Callbacks : d # c => req'[d] = req[d]
    BY <1>3, OneCallback DEF IInv
  <2>2. CASE x \in identities /\ x.id # c
    BY <1>1, <1>2, <2>1, <2>2 DEF SignUpsLead
  <2>3. CASE x \in identities /\ x.id = c
    BY <1>1, <1>3, <2>3, SignUpGoesOn DEF SignUpsLead
  <2>4. CASE x \notin identities
    BY <1>3, <2>4, SignUpBegins, SignUpGoesOn
  <2>5. QED
    BY <2>2, <2>3, <2>4
<1>4. ASSUME NEW c \in Callbacks, NEW s \in States, NEW u \in Users, ReceiveCallback(c, s, u)
      PROVE  SignUpsLead'
  <2>1. /\ identities' = identities /\ req[c].pc = "idle"
        /\ \A d \in Callbacks : d # c => req'[d] = req[d]
    BY <1>4 DEF ReceiveCallback, tables, IInv, TypeOK
  <2>2. \A x \in identities : x.id # c
    BY <2>1 DEF IInv, IdentitiesOK
  <2>3. QED
    BY <1>1, <1>2, <2>1, <2>2 DEF SignUpsLead
<1>5. CASE UNCHANGED <<req, identities>>
  BY <1>1, <1>5 DEF SignUpsLead
<1>6. ASSUME \/ \E s \in States, p \in {"discord", "riot"} : StartLogin(s, p) \/ StartLink(s, p)
             \/ \E s \in States : ExpireState(s)
             \/ \E x \in sessions : EndSession(x)
             \/ \E c \in Callbacks : RestoreSession(c)
             \/ \E i \in Callbacks : SoftDelete(i)
             \/ \E i \in Callbacks, p \in {"discord", "riot"} : UnlinkAccount(i, p)
             \/ UNCHANGED vars
      PROVE  UNCHANGED <<req, identities>>
  BY <1>6 DEF StartLogin, StartLink, Generate, ExpireState, EndSession, RestoreSession, SoftDelete,
              UnlinkAccount, tables, vars
<1>7. QED
  BY <1>3, <1>4, <1>5, <1>6 DEF Next

\* operations.md's "Users can retry" holds in every behaviour in which no sign-up
\* fails between its identity and its account row, as long as nobody unlinks: whatever
\* else fails or crashes, a later login finds its address free or a way in.
THEOREM RetryAfterWholeSignUps ==
  ASSUME "unlink" \notin ServiceCalls
  PROVE  Spec /\ [][\A c \in Callbacks : req[c].pc \in SigningUp => req'[c].pc # "failed"]_vars
           => []RetryCanSucceed
<1> DEFINE Whole == \A c \in Callbacks : req[c].pc \in SigningUp => req'[c].pc # "failed"
<1>1. Init => SignUpsLead /\ RowsKept
  BY DEF Init, SignUpsLead, RowsKept
<1>2. IInv /\ SignUpsLead /\ [Next]_vars /\ [Whole]_vars => SignUpsLead'
  BY SignUpsKeepLeading
<1>3. RowsKept /\ [Next]_vars => RowsKept'
  BY BoundGrows
<1>4. IInv /\ SignUpsLead /\ RowsKept => RetryCanSucceed
  <2> SUFFICES ASSUME IInv, SignUpsLead, RowsKept, \A c \in Callbacks : req[c].pc \notin InFlight,
                      NEW x \in identities
               PROVE  \E a \in accounts : a.identityId = x.id
    BY DEF RetryCanSucceed
  <2>1. x.id \in Callbacks
    BY DEF IInv, TypeOK, Identity
  <2>2. Founded(x.id)
    BY <2>1 DEF SignUpsLead, SigningUp, InFlight
  <2>3. QED
    BY <2>2 DEF Founded, RowsKept
<1> HIDE DEF Whole
<1>5. Spec /\ [][Whole]_vars => []RetryCanSucceed
  BY <1>1, <1>2, <1>3, <1>4, Inductive, PTL DEF Spec
<1>6. QED
  BY <1>5 DEF Whole
=============================================================================
