---------------------------- MODULE BackendProofs ----------------------------
(***************************************************************************)
(* Proofs about Backend: its invariant, the cache in memory as a cache     *)
(* whose entries end in time, and what was deleted staying deleted.        *)
(***************************************************************************)
EXTENDS Backend, TLAPS

-----------------------------------------------------------------------------
(* Types.                                                                  *)

LEMMA PurgedTyped ==
  ASSUME CacheTypeOK, NEW K
  PROVE  Purged(K) \in [Tokens -> StoredValue \cup {None}]
BY DEF CacheTypeOK, Purged

LEMMA CacheCallTyped ==
  ASSUME CacheTypeOK, CacheCall, redis' = redis
  PROVE  CacheTypeOK'
<1> USE TTLAssumption DEF CacheTypeOK
<1>1. ASSUME NEW k \in Tokens, NEW i \in Identities, SaveSession(k, i) PROVE CacheTypeOK'
  BY <1>1 DEF SaveSession, Put, StoredValue
<1>2. ASSUME NEW k \in Tokens, Get(k) PROVE CacheTypeOK'
  BY <1>2, PurgedTyped DEF Get
<1>3. ASSUME NEW k \in Tokens, Del(k) PROVE CacheTypeOK'
  BY <1>3 DEF Del
<1>4. ASSUME NEW k \in Tokens, Expire(k, TTL) PROVE CacheTypeOK'
  <2>1. Live(k) => cache[k] \in StoredValue
    BY DEF Live
  <2>2. cache' \in [Tokens -> StoredValue \cup {None}]
    BY <1>4, <2>1 DEF Expire, StoredValue
  <2>3. QED
    BY <1>4, <2>2 DEF Expire
<1>5. CASE KeysByPattern
  BY <1>5, PurgedTyped DEF KeysByPattern
<1>6. CASE ListForDeletion
  <2>1. answer' \subseteq Tokens
    BY <1>6 DEF ListForDeletion
  <2>2. QED
    BY <1>6, <2>1, PurgedTyped DEF ListForDeletion
<1>7. CASE DelByPattern
  BY <1>7 DEF DelByPattern, NoSweep
<1>8. CASE Cleanup
  BY <1>8, PurgedTyped DEF Cleanup
<1>9. QED
  BY <1>1, <1>2, <1>3, <1>4, <1>5, <1>6, <1>7, <1>8 DEF CacheCall

LEMMA TickTyped ==
  ASSUME CacheTypeOK, Tick, redis' = redis
  PROVE  CacheTypeOK'
<1>1. ASSUME NEW k \in Tokens PROVE cache'[k] \in StoredValue \cup {None}
  <2>1. CASE cache[k] = None \/ cache[k].ttl = 0
    BY <2>1 DEF CacheTypeOK, Tick
  <2>2. CASE cache[k] # None /\ cache[k].ttl # 0
    <3>1. cache[k] \in StoredValue
      BY <2>2 DEF CacheTypeOK
    <3>2. [cache[k] EXCEPT !.ttl = @ - 1] \in StoredValue
      BY <2>2, <3>1, TTLAssumption DEF StoredValue
    <3>3. QED
      BY <2>2, <3>2 DEF Tick
  <2>3. QED
    BY <2>1, <2>2
<1>2. cache' \in [Tokens -> StoredValue \cup {None}]
  BY <1>1 DEF Tick
<1>3. QED
  BY <1>2 DEF Tick, CacheTypeOK

LEMMA TableCallTyped ==
  ASSUME RepositoriesTypeOK, TableCall, prisma' = prisma
  PROVE  RepositoriesTypeOK'
<1> USE DEF RepositoriesTypeOK
<1>1. ASSUME NEW i \in Identities, CreateIdentity(i) PROVE RepositoriesTypeOK'
  BY <1>1 DEF CreateIdentity
<1>2. ASSUME NEW i \in Identities, DeleteAccounts(i) PROVE RepositoriesTypeOK'
  <2>1. accounts' \in [Accounts -> Identities \cup {None}]
    BY <1>2 DEF DeleteAccounts
  <2>2. QED
    BY <1>2, <2>1 DEF DeleteAccounts
<1>3. ASSUME NEW a \in Accounts, NEW i \in Identities, CreateAccount(a, i) PROVE RepositoriesTypeOK'
  BY <1>3 DEF CreateAccount
<1>4. ASSUME NEW r \in Requests, NEW i \in Identities, NEW op \in {"update", "softDelete"}, ReadIdentity(r, i, op)
      PROVE  RepositoriesTypeOK'
  BY <1>4 DEF ReadIdentity
<1>5. ASSUME NEW r \in Requests, NEW a \in Accounts, ReadTokens(r, a) PROVE RepositoriesTypeOK'
  BY <1>5 DEF ReadTokens
<1>6. ASSUME NEW r \in Requests, UpdateIdentity(r) \/ SoftDelete(r) PROVE RepositoriesTypeOK'
  BY <1>6 DEF UpdateIdentity, SoftDelete, Respond, NoRequest
<1>7. ASSUME NEW r \in Requests, UpdateTokens(r) PROVE RepositoriesTypeOK'
  BY <1>7 DEF UpdateTokens, Respond, NoRequest
<1>8. QED
  BY <1>1, <1>2, <1>3, <1>4, <1>5, <1>6, <1>7 DEF TableCall

LEMMA TypesKept ==
  ASSUME TypeOK, [Next]_vars
  PROVE  TypeOK'
<1> USE DEF TypeOK, cacheVars, tableVars, vars
<1>1. CASE Boot
  BY <1>1 DEF Boot, IsOn, CacheTypeOK, RepositoriesTypeOK
<1>2. CASE Connect \/ FailToConnect
  <2>1. attempt' \in 0..(MaxConnectAttempts - 1)
    BY <1>2 DEF Connect, FailToConnect, MaxConnectAttempts
  <2>2. CacheTypeOK' /\ RepositoriesTypeOK'
    BY <1>2 DEF Connect, FailToConnect, CacheTypeOK, RepositoriesTypeOK
  <2>3. QED
    BY <1>2, <2>1, <2>2 DEF Connect, FailToConnect
<1>3. CASE Stop
  <2>0. 0 \in 0..(MaxConnectAttempts - 1)
    BY DEF MaxConnectAttempts
  <2>1. CacheTypeOK'
    BY <1>3 DEF Stop, Keep, CacheTypeOK, NoSweep
  <2>2. RepositoriesTypeOK'
    BY <1>3 DEF Stop, Keep, RepositoriesTypeOK, NoRequest
  <2>3. QED
    BY <1>3, <2>1, <2>2, <2>0 DEF Stop
<1>4. CASE Serve
  <2>1. CacheTypeOK'
    BY <1>4, CacheCallTyped DEF Serve, TableCall, CacheTypeOK
  <2>2. RepositoriesTypeOK'
    BY <1>4, TableCallTyped DEF Serve, CacheCall, RepositoriesTypeOK
  <2>3. QED
    BY <1>4, <2>1, <2>2 DEF Serve
<1>5. CASE PassTime
  BY <1>5, TickTyped DEF PassTime, RepositoriesTypeOK
<1>6. CASE UNCHANGED vars
  BY <1>6 DEF CacheTypeOK, RepositoriesTypeOK
<1>7. QED
  BY <1>1, <1>2, <1>3, <1>4, <1>5, <1>6 DEF Next

-----------------------------------------------------------------------------
(* The stores and the toggles.                                             *)

LEMMA StoresKept ==
  ASSUME IInv, [Next]_vars
  PROVE  StoresInv'
<1> USE DEF IInv, StoresInv, cacheVars, tableVars, vars, IsOn
<1>1. CASE Boot
  BY <1>1 DEF Boot
<1>2. CASE Connect
  BY <1>2 DEF Connect
<1>3. CASE FailToConnect
  BY <1>3 DEF FailToConnect
<1>4. CASE Stop
  BY <1>4 DEF Stop, Keep
<1>5. CASE Serve
  BY <1>5 DEF Serve
<1>6. CASE PassTime
  <2>1. cache = [k \in Tokens |-> None] => cache' = cache
    BY <1>6 DEF PassTime, Tick
  <2>2. QED
    BY <1>6, <2>1 DEF PassTime
<1>7. CASE UNCHANGED vars
  BY <1>7
<1>8. QED
  BY <1>1, <1>2, <1>3, <1>4, <1>5, <1>6, <1>7 DEF Next

LEMMA ListensKept ==
  ASSUME IInv, [Next]_vars
  PROVE  ListensOnlyConnected'
BY DEF IInv, ListensOnlyConnected, Next, Boot, Connect, FailToConnect, Stop, Serve, PassTime, vars

\* Identities are soft deleted only, and sessions are created for those there are.
LEMMA SessionsKept ==
  ASSUME IInv, [Next]_vars, TypeOK'
  PROVE  SessionsHaveIdentity'
<1> SUFFICES ASSUME NEW k \in Tokens, Live(k)'
             PROVE  identities'[cache'[k].value] # "none" \/ (redis' /\ ~prisma')
  BY DEF SessionsHaveIdentity
<1>0. /\ TypeOK /\ SessionsHaveIdentity /\ StoresInv /\ cache'[k] \in StoredValue
      /\ cache'[k].value \in Identities /\ cache'[k].ttl # 0 /\ cache'[k] # None
  BY DEF IInv, TypeOK, CacheTypeOK, Live, IsExpired, StoredValue
<1> USE <1>0 DEF cacheVars, tableVars, vars
<1>1. CASE Live(k) /\ cache'[k].value = cache[k].value /\ UNCHANGED <<redis, prisma>>
           /\ \A i \in Identities : identities[i] # "none" => identities'[i] # "none"
  BY <1>1 DEF SessionsHaveIdentity
<1>2. CASE Boot
  <2>1. cache[k] # None /\ Live(k)
    BY <1>2 DEF Boot, Live, IsExpired
  <2>2. UNCHANGED <<redis, prisma>>
    BY <1>2, <2>1 DEF Boot, StoresInv
  <2>3. QED
    BY <1>2, <2>2, <1>1, <2>1 DEF Boot
<1>3. CASE Connect \/ FailToConnect \/ UNCHANGED vars
  <2>1. UNCHANGED <<cacheVars, tableVars, redis, prisma>>
    BY <1>3 DEF Connect, FailToConnect
  <2>2. QED
    BY <2>1, <1>1 DEF Live, IsExpired
<1>4. CASE Stop
  <2>1. redis /\ cache' = cache /\ UNCHANGED <<redis, prisma>>
    BY <1>4 DEF Stop, Keep
  <2>2. CASE prisma
    BY <1>4, <2>1, <2>2, <1>1 DEF Stop, Keep, Live, IsExpired
  <2>3. QED
    BY <2>1, <2>2
<1>5. CASE Serve /\ TableCall
  <2>1. UNCHANGED <<cacheVars, redis, prisma>>
    BY <1>5 DEF Serve, TableCall
  <2>2. \A i \in Identities : identities[i] # "none" => identities'[i] # "none"
    BY <1>5 DEF TableCall, CreateIdentity, DeleteAccounts, CreateAccount, ReadIdentity, ReadTokens,
      UpdateIdentity, SoftDelete, UpdateTokens, TypeOK, RepositoriesTypeOK
  <2>3. QED
    BY <2>1, <2>2, <1>1 DEF Live, IsExpired
<1>6. ASSUME NEW j \in Tokens, NEW i \in Identities, SaveSession(j, i), UNCHANGED <<identities, redis, prisma>>
      PROVE  identities'[cache'[k].value] # "none" \/ (redis' /\ ~prisma')
  <2>1. identities[i] # "none" \/ (redis /\ ~prisma)
    BY <1>6 DEF SaveSession, SessionsHaveIdentity
  <2>2. CASE j = k
    <3>1. cache'[k].value = i
      BY <1>6, <2>2 DEF SaveSession, Put, TypeOK, CacheTypeOK
    <3>2. QED
      BY <1>6, <2>1, <3>1
  <2>3. CASE j # k
    <3>1. cache'[k] = cache[k]
      BY <1>6, <2>3 DEF SaveSession, Put, TypeOK, CacheTypeOK
    <3>2. QED
      BY <1>6, <3>1, <1>1 DEF Live, IsExpired
  <2>4. QED
    BY <2>2, <2>3
<1>7. ASSUME NEW j \in Tokens, Expire(j, TTL), UNCHANGED <<identities, redis, prisma>>
      PROVE  identities'[cache'[k].value] # "none" \/ (redis' /\ ~prisma')
  <2>1. CASE cache'[k] = cache[k]
    BY <1>7, <2>1, <1>1 DEF Live, IsExpired
  <2>2. CASE j = k /\ Live(k)
    <3>1. cache[k] \in StoredValue /\ cache'[k] = [cache[k] EXCEPT !.ttl = TTL]
      BY <1>7, <2>2 DEF Expire, TypeOK, CacheTypeOK, Live
    <3>2. cache'[k].value = cache[k].value
      BY <3>1 DEF StoredValue
    <3>3. QED
      BY <1>7, <2>2, <3>2, <1>1
  <2>3. QED
    BY <1>7, <2>1, <2>2 DEF Expire, TypeOK, CacheTypeOK
<1>8. CASE Serve /\ CacheCall
  <2>1. UNCHANGED <<identities, redis, prisma>>
    BY <1>8 DEF Serve, CacheCall
  <2>2. CASE cache'[k] = cache[k]
    BY <2>1, <2>2, <1>1 DEF Live, IsExpired
  <2>3. CASE \E j \in Tokens : Get(j) \/ Del(j)
    BY <2>2, <2>3 DEF Get, Del, Purged, TypeOK, CacheTypeOK
  <2>4. CASE KeysByPattern \/ ListForDeletion \/ DelByPattern \/ Cleanup
    BY <2>2, <2>4 DEF KeysByPattern, ListForDeletion, DelByPattern, Cleanup, Purged
  <2>5. QED
    BY <1>6, <1>7, <1>8, <2>1, <2>3, <2>4 DEF CacheCall
<1>9. CASE PassTime
  <2>1. UNCHANGED <<identities, redis, prisma>>
    BY <1>9 DEF PassTime
  <2>2. cache[k] # None /\ cache[k].ttl # 0 /\ cache[k] \in StoredValue
        /\ cache'[k] = [cache[k] EXCEPT !.ttl = @ - 1]
    BY <1>9 DEF PassTime, Tick, TypeOK, CacheTypeOK
  <2>3. Live(k) /\ cache'[k].value = cache[k].value
    BY <2>2 DEF Live, IsExpired, StoredValue
  <2>4. QED
    BY <2>1, <2>3, <1>1
<1>10. QED
  BY <1>2, <1>3, <1>4, <1>5, <1>8, <1>9 DEF Next, Serve

-----------------------------------------------------------------------------
(* The cache as its callers see it.                                        *)

LEMMA EntriesPurged ==
  ASSUME CacheTypeOK, NEW K, cache' = Purged(K)
  PROVE  Entries' = Entries
<1>1. ASSUME NEW k \in Tokens PROVE Entries'[k] = Entries[k]
  BY <1>1 DEF Entries, Purged, Live, IsExpired
<1>2. QED
  BY <1>1 DEF Entries

\* What callers learn of the keys K is which of them there are.
LEMMA ExistingLive ==
  ASSUME CacheTypeOK, NEW K \in SUBSET Tokens
  PROVE  Ideal!Existing(K) = {k \in K : Live(k)}
BY DEF Ideal!Existing, Entries, Live

LEMMA PutMaps ==
  ASSUME CacheTypeOK, NEW k \in Tokens, NEW v \in Identities, Put(k, v, TTL)
  PROVE  Ideal!Next
<1> DEFINE new == [value |-> v, ttl |-> TTL]
<1>1. new \in StoredValue /\ new # None /\ new.ttl # 0
  BY TTLAssumption, AbsentAssumption DEF StoredValue
<1>2. cache' = [cache EXCEPT ![k] = new] /\ answer' = answer
  BY DEF Put
<1> HIDE DEF new
<1>3. Entries' = [Entries EXCEPT ![k] = new]
  <2>1. ASSUME NEW j \in Tokens PROVE Entries'[j] = [Entries EXCEPT ![k] = new][j]
    BY <1>1, <1>2 DEF Entries, Live, IsExpired, CacheTypeOK
  <2>2. QED
    BY <2>1 DEF Entries
<1>4. Ideal!Set(k, v, TTL)
  BY <1>2, <1>3 DEF Ideal!Set, new
<1>5. QED
  BY <1>4, TTLAssumption DEF Ideal!Next

LEMMA ReadMaps ==
  ASSUME CacheTypeOK, NEW K \in SUBSET Tokens, cache' = Purged(K), answer' = {k \in K : Live(k)}
  PROVE  Ideal!Next
BY EntriesPurged, ExistingLive DEF Ideal!Next, Ideal!Read

LEMMA DelMaps ==
  ASSUME CacheTypeOK, NEW K \in SUBSET Tokens, answer' = answer,
         cache' = [k \in Tokens |-> IF k \in K THEN None ELSE cache[k]]
  PROVE  Ideal!Next
<1>1. ASSUME NEW k \in Tokens PROVE Entries'[k] = IF k \in K THEN None ELSE Entries[k]
  BY DEF Entries, Live, IsExpired
<1>2. Entries' = [k \in Tokens |-> IF k \in K THEN None ELSE Entries[k]]
  BY <1>1 DEF Entries
<1>3. QED
  BY <1>2 DEF Ideal!Next, Ideal!Del

LEMMA ExpireMaps ==
  ASSUME CacheTypeOK, NEW k \in Tokens, Expire(k, TTL)
  PROVE  Ideal!Next
<1>1. answer' = Ideal!Existing({k})
  BY ExistingLive DEF Expire
<1>2. CASE Live(k)
  <2> DEFINE new == [cache[k] EXCEPT !.ttl = TTL]
  <2>1. cache' = [cache EXCEPT ![k] = new] /\ Entries[k] = cache[k] /\ cache[k] # None
    BY <1>2 DEF Expire, Live, Entries
  <2>2. new # None /\ new.ttl # 0
    <3>1. cache[k] \in StoredValue
      BY <2>1 DEF CacheTypeOK
    <3>2. new \in StoredValue /\ new.ttl = TTL
      BY <3>1, TTLAssumption DEF StoredValue
    <3>3. QED
      BY <3>2, TTLAssumption, AbsentAssumption
  <2>3. new = [Entries[k] EXCEPT !.ttl = TTL]
    BY <2>1
  <2> HIDE DEF new
  <2>4. Entries' = [Entries EXCEPT ![k] = new]
    <3>1. ASSUME NEW j \in Tokens PROVE Entries'[j] = [Entries EXCEPT ![k] = new][j]
      BY <2>1, <2>2 DEF Entries, Live, IsExpired, CacheTypeOK
    <3>2. QED
      BY <3>1 DEF Entries
  <2>5. Ideal!Expire(k, TTL)
    BY <1>1, <2>1, <2>3, <2>4 DEF Ideal!Expire
  <2>6. QED
    BY <2>5, TTLAssumption DEF Ideal!Next
<1>3. CASE ~Live(k)
  <2>1. Entries[k] = None /\ Entries' = Entries
    BY <1>3 DEF Expire, Entries, Live, IsExpired
  <2>2. Ideal!Expire(k, TTL)
    BY <1>1, <2>1 DEF Ideal!Expire
  <2>3. QED
    BY <2>2, TTLAssumption DEF Ideal!Next
<1>4. QED
  BY <1>2, <1>3

LEMMA TickMaps ==
  ASSUME CacheTypeOK, Tick
  PROVE  Ideal!Next
<1>1. ASSUME NEW k \in Tokens
      PROVE  Entries'[k] = IF Entries[k] = None \/ Entries[k].ttl = 1 THEN None
                           ELSE [Entries[k] EXCEPT !.ttl = @ - 1]
  <2>1. CASE ~Live(k)
    <3>1. cache'[k] = cache[k]
      BY <2>1 DEF Live, IsExpired, Tick
    <3>2. QED
      BY <2>1, <3>1 DEF Entries, Live, IsExpired
  <2>2. CASE Live(k)
    <3>1. Entries[k] = cache[k] /\ cache[k] # None /\ cache[k] \in StoredValue /\ cache[k].ttl # 0
      BY <2>2 DEF Live, IsExpired, Entries, CacheTypeOK
    <3> DEFINE next == [cache[k] EXCEPT !.ttl = @ - 1]
    <3>2. next \in StoredValue /\ next.ttl = cache[k].ttl - 1 /\ cache[k].ttl \in Nat /\ next # None
      BY <3>1, TTLAssumption, AbsentAssumption DEF StoredValue
    <3>3. cache'[k] = IF redis /\ cache[k].ttl = 1 THEN None ELSE next
      BY <3>1 DEF Tick
    <3> HIDE DEF next
    <3>4. Entries'[k] = IF cache[k].ttl = 1 THEN None ELSE next
      BY <3>1, <3>2, <3>3 DEF Entries, Live, IsExpired
    <3>5. QED
      BY <3>1, <3>4 DEF next
  <2>3. QED
    BY <2>1, <2>2
<1>2. Entries' = [k \in Tokens |-> IF Entries[k] = None \/ Entries[k].ttl = 1 THEN None
                                   ELSE [Entries[k] EXCEPT !.ttl = @ - 1]]
  BY <1>1 DEF Entries
<1>3. QED
  BY <1>2 DEF Ideal!Next, Ideal!Tick, Tick

LEMMA CacheCallMaps ==
  ASSUME CacheTypeOK, CacheCall
  PROVE  Ideal!Next \/ UNCHANGED Ideal!cacheVars
<1>1. ASSUME NEW k \in Tokens, NEW i \in Identities, SaveSession(k, i) PROVE Ideal!Next
  BY <1>1, PutMaps DEF SaveSession
<1>2. ASSUME NEW k \in Tokens, Get(k) PROVE Ideal!Next
  <2>1. answer' = {j \in {k} : Live(j)} /\ cache' = Purged({k})
    BY <1>2 DEF Get
  <2>2. QED
    BY <2>1, ReadMaps
<1>3. ASSUME NEW k \in Tokens, Del(k) PROVE Ideal!Next
  <2>1. cache' = [j \in Tokens |-> IF j \in {k} THEN None ELSE cache[j]] /\ answer' = answer
    BY <1>3 DEF Del, CacheTypeOK
  <2>2. QED
    BY <2>1, DelMaps
<1>4. ASSUME NEW k \in Tokens, Expire(k, TTL) PROVE Ideal!Next
  BY <1>4, ExpireMaps
<1>5. CASE KeysByPattern \/ ListForDeletion
  BY <1>5, ReadMaps DEF KeysByPattern, ListForDeletion
<1>6. CASE DelByPattern
  BY <1>6, DelMaps DEF DelByPattern, CacheTypeOK
<1>7. CASE Cleanup
  BY <1>7, EntriesPurged DEF Cleanup, Ideal!cacheVars
<1>8. QED
  BY <1>1, <1>2, <1>3, <1>4, <1>5, <1>6, <1>7 DEF CacheCall

LEMMA StopMaps ==
  ASSUME CacheTypeOK, Stop
  PROVE  Ideal!Next \/ UNCHANGED Ideal!cacheVars
<1>1. CASE redis
  BY <1>1 DEF Stop, Keep, Ideal!cacheVars, Entries, Live, IsExpired
<1>2. CASE ~redis
  <2>1. cache' = [k \in Tokens |-> IF k \in Tokens THEN None ELSE cache[k]] /\ answer' = answer
    BY <1>2 DEF Stop, Keep
  <2>2. QED
    BY <2>1, DelMaps
<1>3. QED
  BY <1>1, <1>2

LEMMA CacheInitMaps == Init => Ideal!Init
BY DEF Init, CacheInit, Ideal!Init, Entries, Live

LEMMA CacheNextMaps ==
  ASSUME TypeOK, [Next]_vars
  PROVE  Ideal!Next \/ UNCHANGED Ideal!cacheVars
<1>1. CASE UNCHANGED cacheVars
  BY <1>1 DEF cacheVars, Ideal!cacheVars, Entries, Live, IsExpired
<1>2. CASE Stop
  BY <1>2, StopMaps DEF TypeOK
<1>3. CASE CacheCall
  BY <1>3, CacheCallMaps DEF TypeOK
<1>4. CASE Tick
  BY <1>4, TickMaps DEF TypeOK
<1>5. QED
  BY <1>1, <1>2, <1>3, <1>4 DEF Next, vars, Boot, Connect, FailToConnect, Serve, TableCall, PassTime

-----------------------------------------------------------------------------
(* What was deleted.                                                       *)

\* Whatever a step does, an update that revives a row had read it before.
LEMMA GoneKept ==
  ASSUME IInv, [Next]_vars, NEW x \in Identities \cup Accounts, Gone(x)
  PROVE  Gone(x)'
<1>1. RepositoriesTypeOK /\ x \in used
  BY DEF IInv, TypeOK, Gone
<1> USE <1>1 DEF tableVars, vars
<1>2. CASE UNCHANGED tableVars
  BY <1>2 DEF Gone, Revivers
<1>3. CASE Stop
  BY <1>3 DEF Stop, Keep, Gone, Revivers, NoRequest, RepositoriesTypeOK
<1>4. CASE TableCall
  <2> DEFINE ops == {"update", "updateTokens"}
  <2>0. \A r \in Requests : ~(req[r].id = x /\ req[r].pc \in ops)
    BY DEF Gone, Revivers
  <2>a. \A r \in Requests : ~(req'[r].id = x /\ req'[r].pc \in ops)
    <3>1. ASSUME NEW r \in Requests, NEW i \in Identities, NEW o \in {"update", "softDelete"}, ReadIdentity(r, i, o)
          PROVE  \A q \in Requests : ~(req'[q].id = x /\ req'[q].pc \in ops)
      <4>1. i # x
        BY <3>1 DEF ReadIdentity, Gone
      <4>2. QED
        BY <3>1, <4>1, <2>0 DEF ReadIdentity, RepositoriesTypeOK
    <3>2. ASSUME NEW r \in Requests, NEW a \in Accounts, ReadTokens(r, a)
          PROVE  \A q \in Requests : ~(req'[q].id = x /\ req'[q].pc \in ops)
      <4>1. a # x
        BY <3>2 DEF ReadTokens, Gone
      <4>2. QED
        BY <3>2, <4>1, <2>0 DEF ReadTokens, RepositoriesTypeOK
    <3>3. ASSUME NEW r \in Requests, UpdateIdentity(r) \/ SoftDelete(r) \/ UpdateTokens(r)
          PROVE  \A q \in Requests : ~(req'[q].id = x /\ req'[q].pc \in ops)
      BY <3>3, <2>0 DEF UpdateIdentity, SoftDelete, UpdateTokens, Respond, NoRequest, RepositoriesTypeOK
    <3>4. CASE UNCHANGED req
      BY <3>4, <2>0
    <3>5. QED
      BY <1>4, <3>1, <3>2, <3>3, <3>4 DEF TableCall, CreateIdentity, DeleteAccounts, CreateAccount
  <2>1. Revivers(x)' = {}
    BY <2>a DEF Revivers
  <2>2. x \in used'
    BY <1>4 DEF TableCall, CreateIdentity, DeleteAccounts, CreateAccount, ReadIdentity, ReadTokens,
      UpdateIdentity, SoftDelete, UpdateTokens
  <2>3. x \in Identities => identities'[x] # "active"
    <3>1. ASSUME NEW r \in Requests, UpdateIdentity(r), x \in Identities PROVE identities'[x] # "active"
      BY <3>1, <2>0 DEF UpdateIdentity, Gone, RepositoriesTypeOK
    <3>2. ASSUME NEW r \in Requests, SoftDelete(r), x \in Identities PROVE identities'[x] # "active"
      BY <3>2 DEF SoftDelete, Gone, RepositoriesTypeOK
    <3>3. ASSUME NEW i \in Identities, CreateIdentity(i), x \in Identities PROVE identities'[x] # "active"
      BY <3>3 DEF CreateIdentity, Gone, RepositoriesTypeOK
    <3>4. QED
      BY <1>4, <3>1, <3>2, <3>3 DEF TableCall, DeleteAccounts, CreateAccount, ReadIdentity, ReadTokens,
        UpdateTokens, Gone
  <2>4. x \in Accounts => accounts'[x] = None
    <3>1. ASSUME NEW r \in Requests, UpdateTokens(r), x \in Accounts PROVE accounts'[x] = None
      BY <3>1, <2>0 DEF UpdateTokens, Gone, RepositoriesTypeOK
    <3>2. ASSUME NEW i \in Identities, DeleteAccounts(i), x \in Accounts PROVE accounts'[x] = None
      BY <3>2 DEF DeleteAccounts, Gone
    <3>3. ASSUME NEW a \in Accounts, NEW i \in Identities, CreateAccount(a, i), x \in Accounts
          PROVE accounts'[x] = None
      BY <3>3 DEF CreateAccount, Gone, RepositoriesTypeOK
    <3>4. QED
      BY <1>4, <3>1, <3>2, <3>3 DEF TableCall, CreateIdentity, ReadIdentity, ReadTokens,
        UpdateIdentity, SoftDelete, Gone
  <2>5. QED
    BY <2>1, <2>2, <2>3, <2>4 DEF Gone
<1>5. QED
  BY <1>2, <1>3, <1>4 DEF Next, Boot, Connect, FailToConnect, Serve, CacheCall, PassTime

\* With Prisma only CreateAccount writes an account, and under a new id.
LEMMA AccountsUntouched ==
  ASSUME IInv, TableCall, prisma, NEW a \in Accounts, a \in used, accounts[a] = None
  PROVE  accounts'[a] = None
<1> USE DEF IInv, TypeOK, RepositoriesTypeOK
<1>1. ASSUME NEW b \in Accounts, NEW i \in Identities, CreateAccount(b, i) PROVE accounts'[a] = None
  BY <1>1 DEF CreateAccount
<1>2. ASSUME NEW i \in Identities, DeleteAccounts(i) PROVE accounts'[a] = None
  BY <1>2 DEF DeleteAccounts
<1>3. QED
  BY <1>1, <1>2 DEF TableCall, CreateIdentity, ReadIdentity, ReadTokens, UpdateIdentity, SoftDelete,
    UpdateTokens

\* In memory only CreateIdentity makes an identity active, and under a new id.
LEMMA IdentitiesUntouched ==
  ASSUME IInv, TableCall, ~prisma, NEW i \in Identities, i \in used, identities[i] # "active"
  PROVE  identities'[i] # "active"
<1> USE DEF IInv, TypeOK, RepositoriesTypeOK
<1>1. ASSUME NEW j \in Identities, CreateIdentity(j) PROVE identities'[i] # "active"
  BY <1>1 DEF CreateIdentity
<1>2. ASSUME NEW r \in Requests, SoftDelete(r) PROVE identities'[i] # "active"
  BY <1>2 DEF SoftDelete
<1>3. QED
  BY <1>1, <1>2 DEF TableCall, CreateAccount, DeleteAccounts, ReadIdentity, ReadTokens,
    UpdateIdentity, UpdateTokens

-----------------------------------------------------------------------------
(* The theorems.                                                           *)

LEMMA IInvInit == Init => IInv
<1> SUFFICES ASSUME Init PROVE IInv
  OBVIOUS
<1> USE DEF Init, CacheInit, RepositoriesInit
<1>1. CacheTypeOK /\ RepositoriesTypeOK
  BY DEF CacheTypeOK, RepositoriesTypeOK, NoSweep, NoRequest
<1>2. 0 \in 0..(MaxConnectAttempts - 1)
  BY DEF MaxConnectAttempts
<1>3. QED
  BY <1>1, <1>2 DEF IInv, TypeOK, StoresInv, SessionsHaveIdentity, ListensOnlyConnected, Live

LEMMA IInvStep == IInv /\ [Next]_vars => IInv'
<1> SUFFICES ASSUME IInv, [Next]_vars PROVE IInv'
  OBVIOUS
<1>1. TypeOK'
  BY TypesKept DEF IInv
<1>2. QED
  BY <1>1, StoresKept, ListensKept, SessionsKept DEF IInv

\* The invariant from which the properties follow holds in every behaviour of
\* the backend, whatever its environment and however often it is started.
THEOREM BackendInvariant == Spec => []IInv
<1>1. Init => IInv
  BY IInvInit
<1>2. IInv /\ [Next]_vars => IInv'
  BY IInvStep
<1>3. QED
  BY <1>1, <1>2, PTL DEF Spec

\* Every variable stays in its type: there are never more failed attempts to
\* connect than PrismaService counts.
THEOREM BackendTypes == Spec => []TypeOK
<1>1. IInv => TypeOK
  BY DEF IInv
<1>2. QED
  BY <1>1, BackendInvariant, PTL

\* A live session leads to an identity, across restarts too, unless the toggles
\* keep sessions in Redis and identities in memory (shared.module.ts).
THEOREM SessionsLeadToIdentities == Spec => []SessionsHaveIdentity
<1>1. IInv => SessionsHaveIdentity
  BY DEF IInv
<1>2. QED
  BY <1>1, BackendInvariant, PTL

\* A backend on PostgreSQL that takes requests is connected (PrismaService,
\* onModuleInit).
THEOREM ListensConnected == Spec => []ListensOnlyConnected
<1>1. IInv => ListensOnlyConnected
  BY DEF IInv
<1>2. QED
  BY <1>1, BackendInvariant, PTL

\* If ConfigService returned the strings of the environment, as the factories
\* expect of it, a backend that is asked for PostgreSQL would listen on it only,
\* and connected.  The type of that answer is all that breaks the promise.
THEOREM TogglesWorkOnRaw ==
  ASSUME ConfigAnswers = "raw"
  PROVE  Spec => []TogglesWork
<1>1. IInv => TogglesWork
  BY DEF IInv, StoresInv, ListensOnlyConnected, TogglesWork, IsOn
<1>2. QED
  BY <1>1, BackendInvariant, PTL

\* With the values of validateEnv the toggles select nothing, whatever they say:
\* no process ever waits for a connection, and none that runs uses a store that
\* outlives it.
THEOREM TogglesIdleOnValidated ==
  ASSUME ConfigAnswers = "validated"
  PROVE  Spec => [](phase # "connecting" /\ (phase = "listening" => ~redis /\ ~prisma))
<1>1. Init => redis = FALSE /\ prisma = FALSE /\ phase = "down"
  BY DEF Init
<1> DEFINE Idle == redis = FALSE /\ prisma = FALSE /\ phase # "connecting"
<1>2. Init => Idle
  BY <1>1
<1>3. Idle /\ [Next]_vars => Idle'
  BY DEF Next, Boot, IsOn, Connect, FailToConnect, Stop, Serve, PassTime, vars
<1>4. Idle => phase # "connecting" /\ (phase = "listening" => ~redis /\ ~prisma)
  OBVIOUS
<1> HIDE DEF Idle
<1>5. QED
  BY <1>2, <1>3, <1>4, PTL DEF Spec

\* What bounds a start: each failed attempt leaves one fewer or ends the process,
\* nothing but the end of the process gives attempts back, and nothing but a
\* connection lets it listen.  With the fairness of FairSpec this is why BootSettles holds.
THEOREM AttemptsRunOut ==
  Spec => [][phase = "connecting" /\ phase' = "connecting" =>
               \/ attempt' = attempt + 1 /\ attempt' < MaxConnectAttempts
               \/ attempt' = attempt /\ ~FailToConnect /\ ~Connect]_vars
<1>1. ASSUME IInv, [Next]_vars, phase = "connecting", phase' = "connecting"
      PROVE  \/ attempt' = attempt + 1 /\ attempt' < MaxConnectAttempts
             \/ attempt' = attempt /\ ~FailToConnect /\ ~Connect
  <2>1. attempt \in Nat /\ attempt + 1 # attempt
    BY <1>1 DEF IInv, TypeOK, MaxConnectAttempts
  <2>2. CASE FailToConnect
    BY <1>1, <2>2 DEF FailToConnect
  <2>3. CASE Connect
    BY <1>1, <2>3 DEF Connect
  <2>4. CASE ~FailToConnect /\ ~Connect
    BY <1>1, <2>4 DEF Next, Boot, Stop, Serve, PassTime, vars
  <2>5. QED
    BY <2>2, <2>3, <2>4
<1>2. IInv /\ [Next]_vars =>
        [phase = "connecting" /\ phase' = "connecting" =>
           \/ attempt' = attempt + 1 /\ attempt' < MaxConnectAttempts
           \/ attempt' = attempt /\ ~FailToConnect /\ ~Connect]_vars
  BY <1>1
<1>3. QED
  BY <1>2, BackendInvariant, PTL DEF Spec

\* InMemoryCache behaves as a cache whose entries end with their time, and so
\* does Redis (in-memory-cache.service.ts, redis-cache.service.ts).
THEOREM CacheIsTtlCache == Spec => ImplementsTtlCache
<1>1. Init => Ideal!Init
  BY CacheInitMaps
<1>2. IInv /\ [Next]_vars => [Ideal!Next]_Ideal!cacheVars
  BY CacheNextMaps DEF IInv
<1>3. QED
  BY <1>1, <1>2, BackendInvariant, PTL DEF Spec, ImplementsTtlCache, Ideal!Spec

\* A deleted identity and an unlinked account come back only by an update that
\* had read the row before (IdentityService, OAuthAccountService).
THEOREM DeletedStaysGone == Spec => GoneStaysGone
<1>1. IInv /\ [Next]_vars => [\A x \in Identities \cup Accounts : Gone(x) => Gone(x)']_vars
  BY GoneKept
<1>2. QED
  BY <1>1, BackendInvariant, PTL DEF Spec, GoneStaysGone

\* Where the repositories differ, from the side of Prisma: an account that has been
\* unlinked never returns, not even by an update under way, which throws
\* (prisma-oauth-account.repository.ts).
THEOREM UnlinkedForEverWithPrisma ==
  Spec => [][prisma => \A a \in Accounts \cap used : accounts[a] = None => accounts'[a] = None]_vars
<1>1. IInv /\ [Next]_vars
        => [prisma => \A a \in Accounts \cap used : accounts[a] = None => accounts'[a] = None]_vars
  <2> SUFFICES ASSUME IInv, [Next]_vars, prisma, NEW a \in Accounts, a \in used, accounts[a] = None
               PROVE  accounts'[a] = None
    OBVIOUS
  <2>1. CASE TableCall
    BY <2>1, AccountsUntouched
  <2>2. CASE ~TableCall
    BY <2>2
    DEF Next, vars, tableVars, Boot, Connect, FailToConnect, Stop, Keep, Serve, CacheCall, PassTime
  <2>3. QED
    BY <2>1, <2>2
<1>2. QED
  BY <1>1, BackendInvariant, PTL DEF Spec

\* The same from the side of the repositories in memory: a soft-deleted identity is
\* never active again, since the update under way holds the deleted object itself
\* (base.repository.ts).
THEOREM DeletedForEverInMemory ==
  Spec => [][~prisma => \A i \in Identities \cap used :
               identities[i] # "active" => identities'[i] # "active"]_vars
<1>1. IInv /\ [Next]_vars
        => [~prisma => \A i \in Identities \cap used :
              identities[i] # "active" => identities'[i] # "active"]_vars
  <2> SUFFICES ASSUME IInv, [Next]_vars, ~prisma, NEW i \in Identities, i \in used,
                      identities[i] # "active"
               PROVE  identities'[i] # "active"
    OBVIOUS
  <2>1. CASE TableCall
    BY <2>1, IdentitiesUntouched
  <2>2. CASE ~TableCall
    BY <2>2
    DEF IInv, TypeOK, RepositoriesTypeOK,
        Next, vars, tableVars, Boot, Connect, FailToConnect, Stop, Keep, Serve, CacheCall, PassTime
  <2>3. QED
    BY <2>1, <2>2
<1>2. QED
  BY <1>1, BackendInvariant, PTL DEF Spec
=============================================================================
