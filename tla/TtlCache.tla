------------------------------- MODULE TtlCache -------------------------------
(***************************************************************************)
(* What the backend expects of its CacheStore, and what Redis does: an     *)
(* entry is there until it is deleted or its time is up, not a moment      *)
(* longer.                                                                 *)
(***************************************************************************)
EXTENDS Naturals

CONSTANTS Keys, Values, TTL, None

VARIABLES
  entries,  \* the entry of each key
  answer    \* the keys the last call reported to exist

cacheVars == <<entries, answer>>

Existing(K) == {k \in K : entries[k] # None}

Init == entries = [k \in Keys |-> None] /\ answer = {}

Set(k, v, ttl) ==
  /\ entries' = [entries EXCEPT ![k] = [value |-> v, ttl |-> ttl]]
  /\ UNCHANGED answer

\* get, exists, ttl and keys.
Read(K) == answer' = Existing(K) /\ UNCHANGED entries

\* del, and the second half of delByPattern.
Del(K) ==
  /\ entries' = [k \in Keys |-> IF k \in K THEN None ELSE entries[k]]
  /\ UNCHANGED answer

Expire(k, ttl) ==
  /\ answer' = Existing({k})
  /\ entries' = IF entries[k] = None THEN entries ELSE [entries EXCEPT ![k].ttl = ttl]

Tick ==
  /\ entries' = [k \in Keys |->
       IF entries[k] = None \/ entries[k].ttl = 1 THEN None
       ELSE [entries[k] EXCEPT !.ttl = @ - 1]]
  /\ UNCHANGED answer

Next ==
  \/ \E k \in Keys, v \in Values, ttl \in 1..TTL : Set(k, v, ttl)
  \/ \E k \in Keys, ttl \in 1..TTL : Expire(k, ttl)
  \/ \E K \in SUBSET Keys : Read(K) \/ Del(K)
  \/ Tick

Spec == Init /\ [][Next]_cacheVars
=============================================================================
