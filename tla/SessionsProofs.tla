--------------------------- MODULE SessionsProofs ---------------------------
(***************************************************************************)
(* Proofs about Sessions for any number of tokens, identities and open     *)
(* requests and any TTL.                                                   *)
(*                                                                         *)
(* A request that is about to write a key carries the identity the token   *)
(* was issued to (RequestOK), so a write-back never changes the owner of a *)
(* token; and every write-back after a revokeAll has gone through a key is *)
(* recorded in back, so what revokeAll deleted is dead or accounted for.   *)
(***************************************************************************)
EXTENDS Sessions, TLAPS

\* A write of a session that its owner was issued, before or in this step.
LEMMA SetKeyFacts ==
  ASSUME TypeOK, NEW t \in Tokens, NEW i \in Identities, SetKey(t, i)
  PROVE  /\ store' \in [Tokens -> Entry \cup {None}]
         /\ back' \in [Requests -> SUBSET Tokens]
         /\ Live(t)' /\ store'[t].identityId = i /\ store'[t].ttl = TTL
         /\ \A u \in Tokens : u # t => store'[u] = store[u]
         /\ \A r \in Requests : back[r] \subseteq back'[r]
         /\ \A r \in Requests : t \in Seen(r) => t \in back'[r]
<1>1. [identityId |-> i, ttl |-> TTL] \in Entry
  BY TTLAssumption DEF Entry
<1>2. QED
  BY <1>1, AbsentAssumption DEF SetKey, TypeOK, Live, Entry

\* What a request knows does not depend on the other requests' steps.
LEMMA OthersOK ==
  ASSUME TypeOK, NEW r \in Requests, RequestOK(r), req'[r] = req[r],
         \A t \in Tokens : issued[t] # None => issued'[t] = issued[t]
  PROVE  RequestOK(r)'
BY AbsentAssumption DEF RequestOK, TypeOK, Request

\* A request that has been answered knows nothing.
LEMMA AnsweredOK ==
  ASSUME TypeOK, NEW r \in Requests, Answer(r)
  PROVE  /\ req' \in [Requests -> Request] /\ req'[r] = NoLocals /\ RequestOK(r)'
         /\ \A q \in Requests : q # r => req'[q] = req[q]
BY DEF Answer, TypeOK, Request, NoLocals, RequestOK

\* SETEX keeps the invariant when it writes the identity the token was issued to.
LEMMA WriteKeeps ==
  ASSUME IInv, NEW t \in Tokens, NEW i \in Identities, SetKey(t, i),
         issued' \in [Tokens -> Identities \cup {None}], issued'[t] = i,
         \A u \in Tokens : u # t \/ issued[u] # None => issued'[u] = issued[u],
         req' \in [Requests -> Request],
         \A r \in Requests : RequestOK(r)' /\ (req'[r] = req[r] \/ req'[r] = NoLocals),
         UNCHANGED revoked
  PROVE  IInv'
<1>1. TypeOK
  BY DEF IInv
<1>2. TypeOK'
  BY <1>1, SetKeyFacts DEF TypeOK
<1>3. TokensKeepIdentity'
  BY <1>1, SetKeyFacts DEF IInv, TokensKeepIdentity, Live
<1>4. RevokeAllLeavesNone'
  <2> SUFFICES ASSUME NEW r \in Requests, NEW u \in Tokens,
                      req'[r].pc \in {"loop", "del", "done"}, u \in Seen(r)',
                      issued'[u] = req'[r].identityId, Live(u)'
               PROVE  u \in back'[r]
    BY DEF RevokeAllLeavesNone
  <2>1. req'[r] = req[r]
    BY DEF NoLocals
  <2>2. u \in Seen(r)
    BY <2>1 DEF Seen
  <2>3. CASE u = t
    BY <1>1, <2>2, <2>3, SetKeyFacts
  <2>4. CASE u # t
    <3>1. Live(u) /\ issued[u] = req[r].identityId
      BY <1>1, <2>1, <2>4, SetKeyFacts DEF Live
    <3>2. u \in back[r]
      BY <2>1, <2>2, <3>1 DEF IInv, RevokeAllLeavesNone
    <3>3. QED
      BY <1>1, <3>2, SetKeyFacts
  <2>5. QED
    BY <2>3, <2>4
<1>5. QED
  BY <1>2, <1>3, <1>4 DEF IInv

\* A step of request r that writes no key.
LEMMA ReadKeeps ==
  ASSUME IInv, NEW r \in Requests, req' \in [Requests -> Request], RequestOK(r)',
         \A q \in Requests : q # r => req'[q] = req[q],
         \A t \in Tokens : /\ req'[r].pc \in {"loop", "del", "done"}
                          /\ t \in Seen(r)' /\ issued[t] = req'[r].identityId
                          => ~Live(t) \/ t \in back[r],
         UNCHANGED <<store, issued, revoked, back>>
  PROVE  IInv'
<1>1. TypeOK'
  BY DEF IInv, TypeOK
<1>2. \A q \in Requests : RequestOK(q)'
  BY OthersOK DEF IInv
<1>3. TokensKeepIdentity'
  BY DEF IInv, TokensKeepIdentity, Live
<1>4. RevokeAllLeavesNone'
  BY DEF IInv, RevokeAllLeavesNone, Live, Seen
<1>5. QED
  BY <1>1, <1>2, <1>3, <1>4 DEF IInv

\* A step that only takes sessions away and leaves the requests alone.
LEMMA EndKeeps ==
  ASSUME IInv, store' \in [Tokens -> Entry \cup {None}],
         \A t \in Tokens : Live(t)' => Live(t) /\ store'[t].identityId = store[t].identityId,
         revoked' \subseteq Tokens, UNCHANGED <<issued, req, back>>
  PROVE  IInv'
<1>1. TypeOK'
  BY DEF IInv, TypeOK
<1>2. \A q \in Requests : RequestOK(q)'
  BY OthersOK DEF IInv
<1>3. TokensKeepIdentity'
  BY DEF IInv, TokensKeepIdentity
<1>4. RevokeAllLeavesNone'
  BY DEF IInv, RevokeAllLeavesNone, Seen
<1>5. QED
  BY <1>1, <1>2, <1>3, <1>4 DEF IInv

-----------------------------------------------------------------------------
(* One lemma for each action.                                              *)

LEMMA CreateKeeps ==
  ASSUME IInv, NEW t \in Tokens, NEW i \in Identities, Create(t, i)
  PROVE  IInv'
<1>1. \A r \in Requests : RequestOK(r)'
  BY OthersOK DEF IInv, Create, TypeOK
<1>2. QED
  BY <1>1, WriteKeeps DEF IInv, Create, TypeOK

LEMMA GuardGetKeeps ==
  ASSUME IInv, NEW r \in Requests, NEW t \in Tokens, GuardGet(r, t)
  PROVE  IInv'
<1>1. store[t] \in Entry /\ store[t].identityId = issued[t] /\ issued[t] # None
  BY AbsentAssumption DEF IInv, GuardGet, TypeOK, Live, TokensKeepIdentity, Entry
<1>2. req'[r] = [NoLocals EXCEPT !.pc = "guardSet", !.token = t,
                                 !.identityId = store[t].identityId]
  BY DEF IInv, GuardGet, TypeOK
<1>3. req' \in [Requests -> Request] /\ RequestOK(r)'
  BY <1>1, <1>2 DEF IInv, GuardGet, TypeOK, NoLocals, Request, Entry, RequestOK
<1>4. QED
  BY <1>2, <1>3, ReadKeeps DEF IInv, GuardGet, TypeOK, NoLocals

LEMMA RefreshKeeps ==
  ASSUME IInv, NEW r \in Requests, req[r].pc \in {"guardSet", "touchSet"},
         SetKey(req[r].token, req[r].identityId), Answer(r), UNCHANGED <<issued, revoked>>
  PROVE  IInv'
<1>1. /\ req[r].token \in Tokens /\ req[r].identityId \in Identities
      /\ issued[req[r].token] = req[r].identityId
  BY DEF IInv, TypeOK, RequestOK
<1>2. \A q \in Requests : RequestOK(q)' /\ (req'[q] = req[q] \/ req'[q] = NoLocals)
  BY OthersOK, AnsweredOK DEF IInv
<1>3. QED
  BY <1>1, <1>2, AnsweredOK, WriteKeeps DEF IInv, TypeOK

LEMMA ValidateGetKeeps ==
  ASSUME IInv, NEW r \in Requests, NEW t \in Tokens, ValidateGet(r, t)
  PROVE  IInv'
<1>1. issued[t] # None
  BY AbsentAssumption DEF IInv, ValidateGet, TypeOK, Live, TokensKeepIdentity, Entry
<1>2. req'[r] = [NoLocals EXCEPT !.pc = "touchGet", !.token = t]
  BY DEF IInv, ValidateGet, TypeOK
<1>3. req' \in [Requests -> Request] /\ RequestOK(r)'
  BY <1>1, <1>2 DEF IInv, ValidateGet, TypeOK, NoLocals, Request, RequestOK
<1>4. QED
  BY <1>2, <1>3, ReadKeeps DEF IInv, ValidateGet, TypeOK, NoLocals

LEMMA TouchGetKeeps ==
  ASSUME IInv, NEW r \in Requests, TouchGet(r)
  PROVE  IInv'
<1>1. CASE Answer(r)
  BY <1>1, AnsweredOK, ReadKeeps DEF IInv, TouchGet, NoLocals
<1>2. CASE /\ Live(req[r].token)
           /\ req' = [req EXCEPT ![r].pc = "touchSet",
                                 ![r].identityId = store[req[r].token].identityId]
  <2> DEFINE t == req[r].token
  <2>1. t \in Tokens /\ store[t] \in Entry /\ store[t].identityId = issued[t] /\ issued[t] # None
    BY <1>2, AbsentAssumption
    DEF IInv, TouchGet, TypeOK, Live, TokensKeepIdentity, Entry, RequestOK
  <2>2. req'[r] = [req[r] EXCEPT !.pc = "touchSet", !.identityId = store[t].identityId]
    BY <1>2 DEF IInv, TypeOK
  <2>3. req' \in [Requests -> Request]
    <3>1. req[r] \in Request /\ store[t].identityId \in Identities
      BY <2>1 DEF IInv, TypeOK, Entry
    <3>2. req'[r] \in Request
      BY <2>2, <3>1 DEF Request
    <3>3. QED
      BY <1>2, <3>2 DEF IInv, TypeOK
  <2>4. RequestOK(r)'
    BY <2>1, <2>2 DEF IInv, TouchGet, TypeOK, Request, RequestOK
  <2>5. req'[r].pc = "touchSet" /\ \A q \in Requests : q # r => req'[q] = req[q]
    BY <1>2 DEF IInv, TypeOK, Request
  <2>6. QED
    BY <2>3, <2>4, <2>5, ReadKeeps DEF TouchGet
<1>3. QED
  BY <1>1, <1>2 DEF TouchGet

LEMMA RevokeKeeps ==
  ASSUME IInv, NEW t \in Tokens, Revoke(t)
  PROVE  IInv'
BY EndKeeps DEF IInv, Revoke, TypeOK, Live

LEMMA RevokeAllKeysKeeps ==
  ASSUME IInv, NEW r \in Requests, NEW i \in Identities, RevokeAllKeys(r, i)
  PROVE  IInv'
<1> DEFINE live == {t \in Tokens : Live(t)}
<1>1. \A t \in live : issued[t] # None
  BY AbsentAssumption DEF IInv, TypeOK, Live, TokensKeepIdentity, Entry
<1>2. req'[r] = [NoLocals EXCEPT !.pc = "loop", !.identityId = i, !.listed = live, !.keys = live]
  BY DEF IInv, RevokeAllKeys, TypeOK
<1>3. req' \in [Requests -> Request]
  BY <1>2 DEF IInv, RevokeAllKeys, TypeOK, NoLocals, Request
<1>4. RequestOK(r)' /\ Seen(r)' = {}
  <2>1. /\ req'[r].pc = "loop" /\ req'[r].identityId = i
        /\ req'[r].listed = live /\ req'[r].keys = live
    BY <1>2 DEF NoLocals
  <2>2. issued' = issued
    BY DEF RevokeAllKeys
  <2>3. QED
    BY <1>1, <2>1, <2>2 DEF RequestOK, Seen
<1>5. QED
  BY <1>3, <1>4, ReadKeeps DEF IInv, RevokeAllKeys, TypeOK

\* A key whose session is gone, or is another identity's, counts as seen.
LEMMA RevokeAllGetKeeps ==
  ASSUME IInv, NEW r \in Requests, NEW t \in Tokens, RevokeAllGet(r, t)
  PROVE  IInv'
<1>1. req[r] \in Request /\ req[r].pc = "loop" /\ t \in req[r].keys
  BY DEF IInv, RevokeAllGet, TypeOK
<1>2. CASE /\ Live(t) /\ store[t].identityId = req[r].identityId
           /\ req' = [req EXCEPT ![r].pc = "del", ![r].token = t]
  <2>1. req'[r] = [req[r] EXCEPT !.pc = "del", !.token = t]
    BY <1>2 DEF IInv, TypeOK
  <2>2. /\ req'[r] \in Request /\ req'[r].pc = "del" /\ req'[r].token = t
        /\ req'[r].identityId = req[r].identityId
        /\ req'[r].listed = req[r].listed /\ req'[r].keys = req[r].keys
    BY <1>1, <2>1 DEF Request
  <2>3. issued[t] = req[r].identityId /\ issued[t] # None /\ issued' = issued
    BY <1>1, <1>2, AbsentAssumption
    DEF IInv, RevokeAllGet, RequestOK, TokensKeepIdentity
  <2>4. RequestOK(r)'
    BY <1>1, <2>2, <2>3 DEF IInv, RequestOK
  <2>5. Seen(r)' = Seen(r)
    BY <2>2 DEF Seen
  <2>6. QED
    BY <1>1, <1>2, <2>2, <2>4, <2>5, ReadKeeps
    DEF IInv, RevokeAllGet, TypeOK, RevokeAllLeavesNone
<1>3. CASE /\ ~(Live(t) /\ store[t].identityId = req[r].identityId)
           /\ req' = [req EXCEPT ![r].keys = @ \ {t}]
  <2>1. req'[r] = [req[r] EXCEPT !.keys = @ \ {t}]
    BY <1>3 DEF IInv, TypeOK
  <2>2. /\ req'[r] \in Request /\ req'[r].pc = "loop"
        /\ req'[r].identityId = req[r].identityId
        /\ req'[r].listed = req[r].listed /\ req'[r].keys = req[r].keys \ {t}
    BY <1>1, <2>1 DEF Request
  <2>3. issued' = issued
    BY DEF RevokeAllGet
  <2>4. RequestOK(r)'
    BY <1>1, <2>2, <2>3 DEF IInv, RequestOK
  <2>5. \A u \in Seen(r)' : u \in Seen(r) \/ u = t
    BY <2>2 DEF Seen
  <2>6. \A u \in Tokens : u \in Seen(r) /\ issued[u] = req[r].identityId
                        => ~Live(u) \/ u \in back[r]
    BY <1>1 DEF IInv, RevokeAllLeavesNone
  <2>7. issued[t] = req[r].identityId => ~Live(t)
    BY <1>3 DEF IInv, TokensKeepIdentity
  <2>8. QED
    BY <1>3, <2>2, <2>4, <2>5, <2>6, <2>7, ReadKeeps DEF IInv, RevokeAllGet, TypeOK
<1>4. QED
  BY <1>2, <1>3 DEF RevokeAllGet

\* The deletion is what makes the key seen.
LEMMA RevokeAllDelKeeps ==
  ASSUME IInv, NEW r \in Requests, RevokeAllDel(r)
  PROVE  IInv'
<1> PICK t \in Tokens : t = req[r].token
  BY DEF IInv, RevokeAllDel, RequestOK
<1>1. /\ req[r] \in Request /\ req[r].pc = "del" /\ store' = [store EXCEPT ![t] = None]
  BY DEF IInv, RevokeAllDel, TypeOK
<1>2. req'[r] = [req[r] EXCEPT !.pc = "loop", !.token = None, !.keys = @ \ {t}]
  BY DEF IInv, RevokeAllDel, TypeOK
<1>3. /\ req'[r] \in Request /\ req'[r].pc = "loop"
      /\ req'[r].identityId = req[r].identityId
      /\ req'[r].listed = req[r].listed /\ req'[r].keys = req[r].keys \ {t}
  BY <1>1, <1>2 DEF Request
<1>4. RequestOK(r)'
  BY <1>1, <1>3 DEF IInv, RevokeAllDel, RequestOK
<1>5. \A q \in Requests : q # r => req'[q] = req[q]
  BY DEF IInv, RevokeAllDel, TypeOK
<1>6. \A q \in Requests : RequestOK(q)'
  BY <1>4, <1>5, OthersOK DEF IInv, RevokeAllDel
<1>7. TypeOK'
  BY <1>1, <1>3, <1>5 DEF IInv, RevokeAllDel, TypeOK
<1>8. TokensKeepIdentity'
  BY <1>1 DEF IInv, RevokeAllDel, TypeOK, TokensKeepIdentity, Live
<1>9. RevokeAllLeavesNone'
  <2>1. ~Live(t)' /\ \A u \in Tokens : Live(u)' => Live(u)
    BY <1>1 DEF IInv, TypeOK, Live
  <2>2. \A q \in Requests : \A u \in Seen(q)' : u \in Seen(q) \/ u = t
    BY <1>3, <1>5 DEF Seen
  <2>3. issued' = issued /\ back' = back
    BY DEF RevokeAllDel
  <2>4. \A q \in Requests : /\ req'[q].identityId = req[q].identityId
                            /\ req'[q].pc \in {"loop", "del", "done"} =>
                                 req[q].pc \in {"loop", "del", "done"}
    BY <1>1, <1>3, <1>5
  <2>5. QED
    BY <2>1, <2>2, <2>3, <2>4 DEF IInv, RevokeAllLeavesNone
<1>10. QED
  BY <1>6, <1>7, <1>8, <1>9 DEF IInv

LEMMA RevokeAllEndKeeps ==
  ASSUME IInv, NEW r \in Requests, RevokeAllEnd(r)
  PROVE  IInv'
<1>1. req[r] \in Request /\ req[r].pc = "loop" /\ req'[r] = [req[r] EXCEPT !.pc = "done"]
  BY DEF IInv, RevokeAllEnd, TypeOK
<1>2. /\ req'[r] \in Request /\ req'[r].pc = "done"
      /\ req'[r].identityId = req[r].identityId
      /\ req'[r].listed = req[r].listed /\ req'[r].keys = req[r].keys
  BY <1>1 DEF Request
<1>3. RequestOK(r)'
  BY <1>1, <1>2 DEF IInv, RevokeAllEnd, RequestOK
<1>4. Seen(r)' = Seen(r)
  BY <1>2 DEF Seen
<1>5. QED
  BY <1>1, <1>2, <1>3, <1>4, ReadKeeps DEF IInv, RevokeAllEnd, TypeOK, RevokeAllLeavesNone

LEMMA LeaveKeeps ==
  ASSUME IInv, NEW r \in Requests, Leave(r)
  PROVE  IInv'
<1>1. \A q \in Requests : RequestOK(q)'
  BY AnsweredOK, OthersOK DEF IInv, Leave
<1>2. TypeOK'
  BY AnsweredOK DEF IInv, Leave, TypeOK
<1>3. TokensKeepIdentity'
  BY DEF IInv, Leave, TokensKeepIdentity, Live
<1>4. RevokeAllLeavesNone'
  BY AnsweredOK DEF IInv, Leave, TypeOK, RevokeAllLeavesNone, NoLocals, Live, Seen
<1>5. QED
  BY <1>1, <1>2, <1>3, <1>4 DEF IInv

\* Time takes sessions away and changes no owner.
LEMMA TickFacts ==
  ASSUME TypeOK, Tick
  PROVE  /\ store' \in [Tokens -> Entry \cup {None}]
         /\ \A t \in Tokens : Live(t)' => Live(t) /\ store'[t].identityId = store[t].identityId
         /\ \A t \in Tokens : Live(t) /\ ~Live(t)' => store[t].ttl = 1
<1> SUFFICES ASSUME NEW t \in Tokens
             PROVE  /\ store'[t] \in Entry \cup {None}
                    /\ Live(t)' => Live(t) /\ store'[t].identityId = store[t].identityId
                    /\ Live(t) /\ ~Live(t)' => store[t].ttl = 1
  BY DEF Tick
<1>1. CASE ~Live(t) \/ store[t].ttl = 0
  BY <1>1 DEF Tick, TypeOK, Live
<1>2. CASE Live(t) /\ store[t].ttl = 1
  BY <1>2 DEF Tick, Live
<1>3. CASE Live(t) /\ store[t].ttl # 0 /\ store[t].ttl # 1
  <2>1. store[t] \in Entry /\ store'[t] = [store[t] EXCEPT !.ttl = @ - 1]
    BY <1>3 DEF Tick, TypeOK, Live
  <2>2. store'[t] \in Entry /\ store'[t].identityId = store[t].identityId
    BY <1>3, <2>1, TTLAssumption DEF Entry
  <2>3. QED
    BY <1>3, <2>2, AbsentAssumption DEF Live
<1>4. QED
  BY <1>1, <1>2, <1>3

LEMMA TickKeeps ==
  ASSUME IInv, Tick
  PROVE  IInv'
BY TickFacts, EndKeeps DEF IInv, Tick, TypeOK

-----------------------------------------------------------------------------
(* The invariants.                                                         *)

LEMMA InitIInv == Init => IInv
BY DEF Init, IInv, TypeOK, NoLocals, Request, RequestOK, TokensKeepIdentity,
       RevokeAllLeavesNone, Live, Seen

LEMMA NextIInv == IInv /\ [Next]_vars => IInv'
<1> SUFFICES ASSUME IInv, [Next]_vars PROVE IInv'
  OBVIOUS
<1>1. ASSUME NEW t \in Tokens, NEW i \in Identities, Create(t, i) PROVE IInv'
  BY <1>1, CreateKeeps
<1>2. ASSUME NEW r \in Requests, NEW t \in Tokens,
             GuardGet(r, t) \/ ValidateGet(r, t) \/ RevokeAllGet(r, t)
      PROVE  IInv'
  BY <1>2, GuardGetKeeps, ValidateGetKeeps, RevokeAllGetKeeps
<1>3. ASSUME NEW r \in Requests, NEW i \in Identities, RevokeAllKeys(r, i) PROVE IInv'
  BY <1>3, RevokeAllKeysKeeps
<1>4. ASSUME NEW r \in Requests, GuardSet(r) \/ TouchSet(r) PROVE IInv'
  BY <1>4, RefreshKeeps DEF GuardSet, TouchSet
<1>5. ASSUME NEW r \in Requests,
             TouchGet(r) \/ RevokeAllDel(r) \/ RevokeAllEnd(r) \/ Leave(r)
      PROVE  IInv'
  BY <1>5, TouchGetKeeps, RevokeAllDelKeeps, RevokeAllEndKeeps, LeaveKeeps
<1>6. ASSUME NEW t \in Tokens, Revoke(t) PROVE IInv'
  BY <1>6, RevokeKeeps
<1>7. CASE Tick
  BY <1>7, TickKeeps
<1>8. CASE UNCHANGED vars
  BY <1>8, EndKeeps DEF vars, IInv, TypeOK, Live
<1>9. QED
  BY <1>1, <1>2, <1>3, <1>4, <1>5, <1>6, <1>7, <1>8 DEF Next, Step

LEMMA Inductive == Spec => []IInv
BY InitIInv, NextIInv, PTL DEF Spec

\* Every variable stays in its type: the time left of an entry is within its TTL,
\* and a request knows the token it works on.
THEOREM SessionTypes == Spec => []TypeOK
<1>1. IInv => TypeOK
  BY DEF IInv
<1>2. QED
  BY <1>1, Inductive, PTL

\* A token speaks for the identity it was issued to, whatever old readings of
\* the session are written back (session.service.ts, session.guard.ts).
THEOREM IdentityKept == Spec => []TokensKeepIdentity
<1>1. IInv => TokensKeepIdentity
  BY DEF IInv
<1>2. QED
  BY <1>1, Inductive, PTL

\* revokeAllForIdentity leaves alive only what a refresh under way wrote back.
THEOREM RevokeAllComplete == Spec => []RevokeAllLeavesNone
<1>1. IInv => RevokeAllLeavesNone
  BY DEF IInv
<1>2. QED
  BY <1>1, Inductive, PTL

-----------------------------------------------------------------------------
(* What a step may never do.                                               *)

\* The steps that write or delete a key, and those that do neither.
LEMMA KeyWriters ==
  ASSUME IInv, Next
  PROVE  \/ UNCHANGED store
         \/ \E t \in Tokens, i \in Identities : Create(t, i)
         \/ \E r \in Requests : GuardSet(r) \/ TouchSet(r)
         \/ \E t \in Tokens : Revoke(t)
         \/ \E r \in Requests : RevokeAllDel(r)
         \/ Tick
BY DEF Next, Step, GuardGet, ValidateGet, RevokeAllGet, RevokeAllKeys, TouchGet,
       RevokeAllEnd, Leave

\* A refresh writes the token that its request had read, with the full TTL.
LEMMA RefreshWrites ==
  ASSUME IInv, NEW r \in Requests, GuardSet(r) \/ TouchSet(r)
  PROVE  /\ r \in Writers(req[r].token)
         /\ \A t \in Tokens : IF t = req[r].token THEN Live(t)' /\ store'[t].ttl = TTL
                                                ELSE store'[t] = store[t]
<1>1. req[r].token \in Tokens /\ req[r].identityId \in Identities
  BY DEF GuardSet, TouchSet, IInv, TypeOK, RequestOK
<1>2. SetKey(req[r].token, req[r].identityId) /\ r \in Writers(req[r].token)
  BY DEF GuardSet, TouchSet, Writers
<1>3. PICK u \in Tokens, i \in Identities :
        u = req[r].token /\ SetKey(u, i) /\ r \in Writers(u)
  BY <1>1, <1>2
<1>4. Live(u)' /\ store'[u].ttl = TTL /\ \A t \in Tokens : t # u => store'[t] = store[t]
  BY <1>3, SetKeyFacts DEF IInv
<1>5. QED
  BY <1>3, <1>4

\* No request starts to write a session that it has not found.
LEMMA NoNewWriter ==
  ASSUME IInv, Next, NEW t \in Tokens, ~Live(t), Writers(t) = {}
  PROVE  Writers(t)' = {}
<1> SUFFICES ASSUME NEW r \in Requests, req'[r].pc \in {"guardSet", "touchSet"},
                    req'[r].token = t
             PROVE  FALSE
  BY DEF Writers
<1>1. req'[r] # req[r] /\ req'[r] # NoLocals
  BY DEF Writers, NoLocals
<1>2. CASE \E u \in Tokens : GuardGet(r, u)
  <2>1. PICK u \in Tokens : GuardGet(r, u)
    BY <1>2
  <2>2. req'[r].token = u /\ Live(u)
    BY <2>1 DEF GuardGet, IInv, TypeOK, NoLocals
  <2>3. QED
    BY <2>2
<1>3. CASE \E u \in Tokens : ValidateGet(r, u) \/ RevokeAllGet(r, u)
  <2>1. ASSUME NEW u \in Tokens, ValidateGet(r, u) PROVE req'[r].pc = "touchGet"
    BY <2>1 DEF ValidateGet, IInv, TypeOK, NoLocals
  <2>2. ASSUME NEW u \in Tokens, RevokeAllGet(r, u) PROVE req'[r].pc \in {"del", "loop"}
    BY <2>2 DEF RevokeAllGet, IInv, TypeOK, Request
  <2>3. QED
    BY <1>3, <2>1, <2>2
<1>4. CASE TouchGet(r)
  <2>1. Live(req[r].token) /\ req'[r].token = req[r].token
    BY <1>1, <1>4 DEF TouchGet, Answer, IInv, TypeOK, Request
  <2>2. QED
    BY <2>1
<1>5. CASE (\E i \in Identities : RevokeAllKeys(r, i)) \/ RevokeAllDel(r) \/ RevokeAllEnd(r)
  <2>1. ASSUME NEW i \in Identities, RevokeAllKeys(r, i) PROVE req'[r].pc = "loop"
    BY <2>1 DEF RevokeAllKeys, IInv, TypeOK, NoLocals
  <2>2. RevokeAllDel(r) => req'[r].pc = "loop"
    BY DEF RevokeAllDel, IInv, TypeOK, Request
  <2>3. RevokeAllEnd(r) => req'[r].pc = "done"
    BY DEF RevokeAllEnd, IInv, TypeOK, Request
  <2>4. QED
    BY <1>5, <2>1, <2>2, <2>3
<1>6. CASE GuardSet(r) \/ TouchSet(r) \/ Leave(r)
  BY <1>1, <1>6, AnsweredOK DEF GuardSet, TouchSet, Leave, IInv
<1>7. ASSUME NEW q \in Requests, q # r,
             \/ \E u \in Tokens : GuardGet(q, u) \/ ValidateGet(q, u) \/ RevokeAllGet(q, u)
             \/ \E i \in Identities : RevokeAllKeys(q, i)
             \/ Step(q)
      PROVE  FALSE
  <2>1. CASE \/ \E u \in Tokens : GuardGet(q, u) \/ ValidateGet(q, u) \/ RevokeAllGet(q, u)
             \/ \E i \in Identities : RevokeAllKeys(q, i)
    BY <1>1, <1>7, <2>1
    DEF GuardGet, ValidateGet, RevokeAllGet, RevokeAllKeys, IInv, TypeOK
  <2>2. CASE Step(q)
    BY <1>1, <1>7, <2>2
    DEF Step, GuardSet, TouchGet, TouchSet, RevokeAllDel, RevokeAllEnd, Leave, Answer, IInv, TypeOK
  <2>3. QED
    BY <1>7, <2>1, <2>2
<1>8. CASE (\E u \in Tokens, i \in Identities : Create(u, i)) \/ (\E u \in Tokens : Revoke(u)) \/ Tick
  BY <1>1, <1>8 DEF Create, Revoke, Tick
<1>9. QED
  BY <1>2, <1>3, <1>4, <1>5, <1>6, <1>7, <1>8 DEF Next, Step

\* No step writes a session that has ended and that nobody has read before.
LEMMA NotRevived ==
  ASSUME IInv, Next, NEW t \in Tokens, issued[t] # None, ~Live(t), Writers(t) = {}
  PROVE  ~Live(t)'
<1>1. CASE UNCHANGED store
  BY <1>1 DEF Live
<1>2. ASSUME NEW u \in Tokens, NEW i \in Identities, Create(u, i) PROVE ~Live(t)'
  BY <1>2, SetKeyFacts DEF Create, Live, IInv
<1>3. ASSUME NEW r \in Requests, GuardSet(r) \/ TouchSet(r) PROVE ~Live(t)'
  BY <1>3, RefreshWrites DEF Live
<1>4. CASE \/ \E u \in Tokens : Revoke(u)
           \/ \E r \in Requests : RevokeAllDel(r)
  BY <1>4 DEF Revoke, RevokeAllDel, Live, IInv, TypeOK, RequestOK
<1>5. CASE Tick
  BY <1>5, TickFacts DEF IInv
<1>6. QED
  BY <1>1, <1>2, <1>3, <1>4, <1>5, KeyWriters

\* A session that has ended with no refresh under way is never brought back.
THEOREM EndedForGood == Spec => EndedStaysEnded
<1> DEFINE Keeps(t) == issued[t] # None /\ ~Live(t) /\ Writers(t) = {} =>
                         ~Live(t)' /\ Writers(t)' = {}
<1>1. IInv /\ [Next]_vars => [\A t \in Tokens : Keeps(t)]_vars
  BY NotRevived, NoNewWriter
<1>2. QED
  BY <1>1, Inductive, PTL DEF Spec, EndedStaysEnded

\* A session ends by expiry, by its own logout or by its own identity's revokeAll.
THEOREM EndsJustified == Spec => EndsForAReason
<1> DEFINE Reason(t) == Live(t) /\ ~Live(t)' =>
                          \/ store[t].ttl = 1
                          \/ t \in revoked'
                          \/ \E r \in Requests : /\ req[r].pc = "del" /\ req[r].token = t
                                                 /\ req[r].identityId = issued[t]
<1>1. ASSUME IInv, Next, NEW t \in Tokens, Live(t), ~Live(t)' PROVE Reason(t)
  <2>1. CASE UNCHANGED store
    BY <1>1, <2>1 DEF Live
  <2>2. ASSUME NEW u \in Tokens, NEW i \in Identities, Create(u, i) PROVE FALSE
    BY <1>1, <2>2, SetKeyFacts DEF Create, Live, IInv
  <2>3. ASSUME NEW r \in Requests, GuardSet(r) \/ TouchSet(r) PROVE FALSE
    BY <1>1, <2>3, RefreshWrites DEF Live
  <2>4. ASSUME NEW u \in Tokens, Revoke(u) PROVE t \in revoked'
    BY <1>1, <2>4 DEF Revoke, Live, IInv, TypeOK
  <2>5. ASSUME NEW r \in Requests, RevokeAllDel(r)
        PROVE  req[r].pc = "del" /\ req[r].token = t /\ req[r].identityId = issued[t]
    <3>1. req[r].pc = "del" /\ req[r].token \in Tokens /\ req[r].identityId = issued[req[r].token]
      BY <1>1, <2>5 DEF RevokeAllDel, IInv, RequestOK
    <3>2. req[r].token = t
      BY <1>1, <2>5, <3>1 DEF RevokeAllDel, Live, IInv, TypeOK
    <3>3. QED
      BY <3>1, <3>2
  <2>6. CASE Tick
    BY <1>1, <2>6, TickFacts DEF IInv
  <2>7. QED
    BY <1>1, <2>1, <2>2, <2>3, <2>4, <2>5, <2>6, KeyWriters
<1>2. IInv /\ [Next]_vars => [\A t \in Tokens : Reason(t)]_vars
  BY <1>1
<1>3. QED
  BY <1>2, Inductive, PTL DEF Spec, EndsForAReason

\* No writer of a live session leaves it less time than it had.
THEOREM WritersExtend == Spec => OnlyTimeShortens
<1>1. ASSUME IInv, Next, NEW t \in Tokens, Live(t), Live(t)', store'[t].ttl < store[t].ttl
      PROVE  Tick
  <2>1. store[t].ttl \in 0..TTL
    BY <1>1 DEF IInv, TypeOK, Live, Entry
  <2>2. CASE UNCHANGED store
    BY <1>1, <2>1, <2>2
  <2>3. ASSUME NEW u \in Tokens, NEW i \in Identities, Create(u, i) PROVE FALSE
    BY <1>1, <2>1, <2>3, SetKeyFacts, TTLAssumption DEF Create, IInv
  <2>4. ASSUME NEW r \in Requests, GuardSet(r) \/ TouchSet(r) PROVE FALSE
    <3>1. store'[t].ttl = TTL \/ store'[t] = store[t]
      BY <2>4, <1>1, RefreshWrites
    <3>2. QED
      BY <1>1, <2>1, <3>1, TTLAssumption
  <2>5. ASSUME NEW u \in Tokens, Revoke(u) PROVE FALSE
    <3>1. store'[t] = store[t]
      BY <1>1, <2>5 DEF Revoke, Live, IInv, TypeOK
    <3>2. QED
      BY <1>1, <2>1, <3>1
  <2>6. ASSUME NEW r \in Requests, RevokeAllDel(r) PROVE FALSE
    <3>1. store'[t] = store[t]
      BY <1>1, <2>6 DEF RevokeAllDel, Live, IInv, TypeOK, RequestOK
    <3>2. QED
      BY <1>1, <2>1, <3>1
  <2>7. QED
    BY <1>1, <2>2, <2>3, <2>4, <2>5, <2>6, KeyWriters
<1>2. IInv /\ [Next]_vars =>
        [\A t \in Tokens : Live(t) /\ Live(t)' /\ store'[t].ttl < store[t].ttl => Tick]_vars
  BY <1>1
<1>3. QED
  BY <1>2, Inductive, PTL DEF Spec, OnlyTimeShortens

-----------------------------------------------------------------------------
(* Where revocation is instant.                                            *)

\* t was issued and has ended, and nobody is about to write it back.
Ended(t) == issued[t] # None /\ ~Live(t) /\ Writers(t) = {}

\* A token is issued once.
LEMMA IssuedStays ==
  ASSUME TypeOK, [Next]_vars, NEW t \in Tokens, issued[t] # None
  PROVE  issued'[t] = issued[t]
BY DEF TypeOK, Next, Step, Create, GuardGet, ValidateGet, RevokeAllGet, RevokeAllKeys, GuardSet,
       TouchGet, TouchSet, RevokeAllDel, RevokeAllEnd, Leave, Revoke, Tick, vars

LEMMA StaysEnded ==
  ASSUME IInv, [Next]_vars, NEW t \in Tokens, Ended(t)
  PROVE  Ended(t)'
<1>1. issued'[t] # None
  BY IssuedStays DEF IInv, Ended
<1>2. CASE Next
  BY <1>1, <1>2, NotRevived, NoNewWriter DEF Ended
<1>3. CASE UNCHANGED vars
  BY <1>3 DEF Ended, vars, Live, Writers
<1>4. QED
  BY <1>2, <1>3

\* EndedStaysEnded over a whole behaviour: once a session has ended and no request
\* that has read it is still under way, its token is dead for ever.
THEOREM EndedForEver ==
  ASSUME NEW t \in Tokens
  PROVE  Spec => [](Ended(t) => [](~Live(t)))
<1>1. IInv /\ [Next]_vars => (Ended(t) => Ended(t)')
  BY StaysEnded
<1>2. Ended(t) => ~Live(t)
  BY DEF Ended
<1>3. QED
  BY <1>1, <1>2, Inductive, PTL DEF Spec

\* Revocation is instant, as decisions.md has it, in every behaviour in which no
\* logout of a token overlaps a refresh of it, whatever else runs at the same time.
THEOREM InstantWithoutOverlap ==
  Spec /\ [][\A t \in Tokens : Revoke(t) => Writers(t) = {}]_vars => []RevocationIsInstant
<1> DEFINE Apart == \A t \in Tokens : Revoke(t) => Writers(t) = {}
           Gone == \A t \in revoked : t \in Tokens /\ Ended(t)
<1>1. Init => Gone
  BY DEF Init
<1>2. ASSUME IInv, Gone, [Next]_vars, [Apart]_vars PROVE Gone'
  <2> SUFFICES ASSUME NEW t \in revoked' PROVE t \in Tokens /\ Ended(t)'
    OBVIOUS
  <2>1. CASE t \in revoked
    BY <1>2, <2>1, StaysEnded
  <2>2. CASE t \notin revoked
    <3>1. Revoke(t) /\ t \in Tokens
      BY <1>2, <2>2 DEF Next, Step, Create, GuardGet, ValidateGet, RevokeAllGet, RevokeAllKeys,
         GuardSet, TouchGet, TouchSet, RevokeAllDel, RevokeAllEnd, Leave, Revoke, Tick, vars
    <3>2. Writers(t) = {} /\ revoked' # revoked
      BY <1>2, <2>2, <3>1 DEF vars
    <3>3. issued'[t] # None /\ ~Live(t)' /\ Writers(t)' = {}
      BY <1>2, <3>1, <3>2 DEF Revoke, Live, Writers, IInv, TypeOK
    <3>4. QED
      BY <3>1, <3>3 DEF Ended
  <2>3. QED
    BY <2>1, <2>2
<1>3. Gone => RevocationIsInstant
  BY DEF RevocationIsInstant, Ended
<1>4. IInv /\ Gone /\ [Next]_vars /\ [Apart]_vars => Gone'
  BY <1>2
<1> HIDE DEF Apart, Gone
<1>5. Spec /\ [][Apart]_vars => []RevocationIsInstant
  BY <1>1, <1>3, <1>4, Inductive, PTL DEF Spec
<1>6. QED
  BY <1>5 DEF Apart

-----------------------------------------------------------------------------
(* The session keys as CacheStore offers them.                             *)

\* Nobody writes a session without the TTL of the configuration, so none is there
\* for ever, and none outlives TTL ticks without a refresh.
Timed == \A t \in Tokens : Live(t) => store[t].ttl \in 1..TTL

Entries == [t \in Tokens |->
  IF Live(t) THEN [value |-> store[t].identityId, ttl |-> store[t].ttl] ELSE None]

\* No call of Sessions asks what exists other than by reading the entry.
Cache == INSTANCE TtlCache WITH
  Keys <- Tokens, Values <- Identities, entries <- Entries, answer <- {}

\* The steps of Sessions on the keys, by what they do to them.
LEMMA StoreSteps ==
  ASSUME IInv, [Next]_vars
  PROVE  \/ UNCHANGED store
         \/ \E t \in Tokens, i \in Identities : SetKey(t, i)
         \/ \E t \in Tokens : store' = [store EXCEPT ![t] = None]
         \/ Tick
<1>1. ASSUME NEW r \in Requests, GuardSet(r) \/ TouchSet(r)
      PROVE  \E t \in Tokens, i \in Identities : SetKey(t, i)
  BY <1>1 DEF GuardSet, TouchSet, IInv, TypeOK, RequestOK
<1>2. ASSUME NEW r \in Requests, RevokeAllDel(r)
      PROVE  \E t \in Tokens : store' = [store EXCEPT ![t] = None]
  BY <1>2 DEF RevokeAllDel, IInv, RequestOK
<1>3. CASE UNCHANGED vars
  BY <1>3 DEF vars
<1>4. CASE Next
  BY <1>1, <1>2, <1>4, KeyWriters DEF Create, Revoke
<1>5. QED
  BY <1>3, <1>4

\* Every session expires unless it is refreshed: whichever request wrote a key last,
\* it did so with the TTL.
THEOREM SessionsTimed == Spec => []Timed
<1>1. Init => Timed
  BY DEF Init, Timed, Live
<1>2. ASSUME IInv, Timed, [Next]_vars PROVE Timed'
  <2>1. CASE UNCHANGED store
    BY <1>2, <2>1 DEF Timed, Live
  <2>2. ASSUME NEW t \in Tokens, NEW i \in Identities, SetKey(t, i) PROVE Timed'
    BY <1>2, <2>2, SetKeyFacts, TTLAssumption DEF Timed, Live, IInv
  <2>3. ASSUME NEW t \in Tokens, store' = [store EXCEPT ![t] = None] PROVE Timed'
    BY <1>2, <2>3 DEF Timed, Live, IInv, TypeOK
  <2>4. CASE Tick
    <3> SUFFICES ASSUME NEW t \in Tokens, Live(t)' PROVE store'[t].ttl \in 1..TTL
      BY DEF Timed
    <3>1. Live(t) /\ store[t] \in Entry /\ store[t].ttl \in 1..TTL
      BY <1>2, <2>4, TickFacts DEF IInv, TypeOK, Timed, Live
    <3>2. store'[t] = [store[t] EXCEPT !.ttl = @ - 1] /\ store[t].ttl # 1
      BY <2>4, <3>1 DEF Tick, Live
    <3>3. QED
      BY <3>1, <3>2, TTLAssumption DEF Entry
  <2>5. QED
    BY <1>2, <2>1, <2>2, <2>3, <2>4, StoreSteps
<1>3. IInv /\ Timed /\ [Next]_vars => Timed'
  BY <1>2
<1>4. QED
  BY <1>1, <1>3, Inductive, PTL DEF Spec

LEMMA CacheSteps ==
  ASSUME IInv, Timed, [Next]_vars, None \notin [value: Identities, ttl: 1..TTL]
  PROVE  Cache!Next \/ Entries' = Entries
<1>1. CASE UNCHANGED store
  BY <1>1 DEF Entries, Live
<1>2. ASSUME NEW t \in Tokens, NEW i \in Identities, SetKey(t, i) PROVE Cache!Next
  <2>1. Entries' = [Entries EXCEPT ![t] = [value |-> i, ttl |-> TTL]]
    <3>1. /\ Live(t)' /\ store'[t].identityId = i /\ store'[t].ttl = TTL
          /\ \A u \in Tokens : u # t => store'[u] = store[u]
      BY <1>2, SetKeyFacts DEF IInv
    <3>2. Entries'[t] = [value |-> i, ttl |-> TTL]
      BY <3>1 DEF Entries
    <3>3. \A u \in Tokens : u # t => Entries'[u] = Entries[u]
      BY <3>1 DEF Entries, Live
    <3>4. QED
      BY <3>2, <3>3 DEF Entries
  <2>2. Cache!Set(t, i, TTL) /\ TTL \in 1..TTL
    BY <2>1, TTLAssumption DEF Cache!Set, Entries
  <2>3. QED
    BY <2>2 DEF Cache!Next
<1>3. ASSUME NEW t \in Tokens, store' = [store EXCEPT ![t] = None] PROVE Cache!Next
  <2>1. Entries' = [u \in Tokens |-> IF u \in {t} THEN None ELSE Entries[u]]
    BY <1>3 DEF Entries, Live, IInv, TypeOK
  <2>2. Cache!Del({t})
    BY <2>1 DEF Cache!Del, Entries
  <2>3. QED
    BY <2>2 DEF Cache!Next
<1>4. CASE Tick
  <2>1. ASSUME NEW t \in Tokens
        PROVE  Entries'[t] = IF Entries[t] = None \/ Entries[t].ttl = 1 THEN None
                             ELSE [Entries[t] EXCEPT !.ttl = @ - 1]
    <3>1. CASE ~Live(t)
      BY <1>4, <3>1 DEF Tick, Entries, Live
    <3>2. CASE Live(t) /\ store[t].ttl = 1
      BY <1>4, <3>2 DEF Tick, Entries, Live
    <3>3. CASE Live(t) /\ store[t].ttl # 1
      <4>1. store[t] \in Entry /\ store[t].ttl \in 1..TTL /\ store[t].ttl # 0
        BY <3>3, TTLAssumption DEF IInv, TypeOK, Timed, Live
      <4>2. store'[t] = [store[t] EXCEPT !.ttl = @ - 1] /\ store'[t] \in Entry
        BY <1>4, <3>3, <4>1, TTLAssumption DEF Tick, Entry, Live
      <4>3. Live(t)'
        BY <4>2, AbsentAssumption DEF Live
      <4>4. /\ Entries[t] = [value |-> store[t].identityId, ttl |-> store[t].ttl]
            /\ Entries[t] # None
        BY <3>3, <4>1 DEF Entries, Entry
      <4>5. Entries'[t] = [value |-> store[t].identityId, ttl |-> store[t].ttl - 1]
        BY <4>1, <4>2, <4>3 DEF Entries, Entry
      <4>6. QED
        BY <3>3, <4>4, <4>5
    <3>4. QED
      BY <3>1, <3>2, <3>3
  <2>2. Entries' = [t \in Tokens |-> IF Entries[t] = None \/ Entries[t].ttl = 1 THEN None
                                     ELSE [Entries[t] EXCEPT !.ttl = @ - 1]]
    BY <2>1 DEF Entries
  <2>3. Cache!Tick
    BY <2>2 DEF Cache!Tick, Entries
  <2>4. QED
    BY <2>3 DEF Cache!Next
<1>5. QED
  BY <1>1, <1>2, <1>3, <1>4, StoreSteps

\* Sessions uses its store as TtlCache allows, which both implementations of
\* CacheStore keep to (Backend): what holds here does not rest on Redis.  None is
\* assumed to be no entry of TtlCache either.
THEOREM SessionsUseTtlCache ==
  ASSUME None \notin [value: Identities, ttl: 1..TTL]
  PROVE  Spec => Cache!Spec
<1>1. Init => Cache!Init
  BY DEF Init, Cache!Init, Entries, Live
<1>2. IInv /\ Timed /\ [Next]_vars => [Cache!Next]_Cache!cacheVars
  BY CacheSteps DEF Cache!cacheVars, Entries
<1>3. QED
  BY <1>1, <1>2, SessionsTimed, Inductive, PTL DEF Spec, Cache!Spec

-----------------------------------------------------------------------------
(* The store is what the login takes it for.                               *)

\* The sessions as SessionTable sees them.
Accepted == [t \in Tokens |-> IF Live(t) THEN store[t].identityId ELSE None]

Table == INSTANCE SessionTable WITH Owners <- Identities, table <- Accepted

LEMMA TableSteps ==
  ASSUME IInv, TokensKeepIdentity', [Next]_vars
  PROVE  Table!Next
<1>1. Accepted' = [t \in Tokens |-> IF t \in {u \in Tokens : Live(u)'} THEN issued'[t] ELSE None]
  BY DEF Accepted, TokensKeepIdentity
<1>2. CASE UNCHANGED issued
  BY <1>1, <1>2 DEF Table!Next, Table!Change
<1>3. ASSUME NEW t \in Tokens, NEW i \in Identities, Create(t, i) PROVE Table!Next
  <2>1. Accepted' = [Accepted EXCEPT ![t] = i]
    <3>1. /\ Live(t)' /\ store'[t].identityId = i
          /\ \A u \in Tokens : u # t => store'[u] = store[u]
      BY <1>3, SetKeyFacts DEF Create, IInv
    <3>2. \A u \in Tokens : Accepted'[u] = IF u = t THEN i ELSE Accepted[u]
      BY <3>1 DEF Accepted, Live
    <3>3. QED
      BY <3>2 DEF Accepted
  <2>2. Table!Issue(t, i)
    BY <1>3, <2>1 DEF Table!Issue, Create
  <2>3. QED
    BY <2>2 DEF Table!Next
<1>4. QED
  BY <1>2, <1>3 DEF Next, vars, Step, GuardGet, GuardSet, ValidateGet, TouchGet, TouchSet, Revoke,
    RevokeAllKeys, RevokeAllGet, RevokeAllDel, RevokeAllEnd, Leave, Tick

\* The session store keeps the promise the login relies on (SessionTable,
\* LoginUsesTable): whatever refreshes and revocations do to a session, a token that is
\* accepted is accepted for the identity that logged in with it.
THEOREM SessionsKeepTable == Spec => Table!Spec
<1>1. Init => Table!Init
  BY DEF Init, Table!Init, Accepted, Live
<1>2. IInv /\ IInv' /\ [Next]_vars => [Table!Next]_Table!tableVars
  BY TableSteps DEF IInv
<1>3. QED
  BY <1>1, <1>2, Inductive, PTL DEF Spec, Table!Spec
=============================================================================
