------------------------------ MODULE CacheStore ------------------------------
(***************************************************************************)
(* The cache behind SESSION_STORE: InMemoryCache, or Redis when the        *)
(* toggle says so.                                                         *)
(*                                                                         *)
(* InMemoryCache removes an entry whose time is up only when a call comes  *)
(* across it, or once a minute; until then every call has to treat it as   *)
(* gone.  Redis drops it by itself.  Backend decides which of the two is   *)
(* used and adds the next-state relation.                                  *)
(*                                                                         *)
(* Simplifications:                                                        *)
(*  - Time passes in steps; a value is the identity of the session, one of *)
(*    Repositories.  Every caller of set gives a TTL.                      *)
(*  - The only pattern is that of all session keys.                        *)
(***************************************************************************)
EXTENDS Naturals, Repositories

CONSTANTS
  Tokens,  \* the keys
  TTL      \* SESSION_TTL_SECONDS

ASSUME TTLAssumption == TTL \in Nat \ {0}

VARIABLES
  redis,   \* whether RedisCache is in use
  cache,   \* the map of InMemoryCache, or the keys in Redis
  answer,  \* the keys the last call reported to exist
  sweep    \* whether a delByPattern is running, and the keys it has listed

cacheVars == <<cache, answer, sweep>>

\* ttl: the time until expiresAt, 0 when that has passed.
StoredValue == [value: Identities, ttl: 0..TTL]

NoSweep == [on |-> FALSE, keys |-> {}]

ASSUME AbsentAssumption == None \notin StoredValue

CacheTypeOK ==
  /\ redis \in BOOLEAN
  /\ cache \in [Tokens -> StoredValue \cup {None}]
  /\ answer \subseteq Tokens
  /\ sweep \in [on: BOOLEAN, keys: SUBSET Tokens]

CacheInit ==
  /\ cache = [k \in Tokens |-> None]
  /\ answer = {} /\ sweep = NoSweep

IsExpired(k) == cache[k] # None /\ cache[k].ttl = 0
Live(k) == cache[k] # None /\ ~IsExpired(k)

\* The map without those of the keys K whose time is up.
Purged(K) == [k \in Tokens |-> IF k \in K /\ IsExpired(k) THEN None ELSE cache[k]]

Put(k, v, ttl) ==
  /\ cache' = [cache EXCEPT ![k] = [value |-> v, ttl |-> ttl]]
  /\ UNCHANGED <<answer, sweep>>

\* get; ttl and exists look the key up in the same way.
Get(k) ==
  /\ cache' = Purged({k})
  /\ answer' = IF Live(k) THEN {k} ELSE {}
  /\ UNCHANGED sweep

Del(k) ==
  /\ cache' = [cache EXCEPT ![k] = None]
  /\ UNCHANGED <<answer, sweep>>

\* Mutant of Expire: an entry is in the map, so its time is set.
ExpireUnchecked(k, ttl) ==
  /\ answer' = IF cache[k] # None THEN {k} ELSE {}
  /\ cache' = IF cache[k] # None THEN [cache EXCEPT ![k].ttl = ttl] ELSE cache
  /\ UNCHANGED sweep

Expire(k, ttl) ==
  /\ answer' = IF Live(k) THEN {k} ELSE {}
  /\ cache' = IF Live(k) THEN [cache EXCEPT ![k].ttl = ttl] ELSE cache
  /\ UNCHANGED sweep

KeysByPattern ==
  /\ cache' = Purged(Tokens)
  /\ answer' = {k \in Tokens : Live(k)}
  /\ UNCHANGED sweep

\* delByPattern lists the keys in one call and deletes them in another.
ListForDeletion ==
  /\ ~sweep.on
  /\ cache' = Purged(Tokens)
  /\ answer' = {k \in Tokens : Live(k)}
  /\ sweep' = [on |-> TRUE, keys |-> answer']

DelByPattern ==
  /\ sweep.on
  /\ cache' = [k \in Tokens |-> IF k \in sweep.keys THEN None ELSE cache[k]]
  /\ sweep' = NoSweep
  /\ UNCHANGED answer

\* The interval of InMemoryCache.
Cleanup ==
  /\ ~redis
  /\ cache' = Purged(Tokens)
  /\ UNCHANGED <<answer, sweep>>

\* Time passes; Redis drops what expires, InMemoryCache does not notice.
Tick ==
  /\ cache' = [k \in Tokens |->
       IF cache[k] = None \/ cache[k].ttl = 0 THEN cache[k]
       ELSE IF redis /\ cache[k].ttl = 1 THEN None
       ELSE [cache[k] EXCEPT !.ttl = @ - 1]]
  /\ UNCHANGED <<answer, sweep>>

-----------------------------------------------------------------------------
(* Refinement.                                                             *)

\* The cache as its callers may see it.
Entries == [k \in Tokens |-> IF Live(k) THEN cache[k] ELSE None]

Ideal == INSTANCE TtlCache WITH Keys <- Tokens, Values <- Identities, entries <- Entries
=============================================================================
