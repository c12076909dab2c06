------------------------------- MODULE Backend -------------------------------
(***************************************************************************)
(* The backend process from its start to its end, over the stores that its *)
(* toggles select.                                                         *)
(*                                                                         *)
(* At the start the environment is validated, the factories of the modules *)
(* ask ConfigService for USE_REDIS and USE_POSTGRES, and PrismaService     *)
(* tries to connect; only then does the process listen.  What is kept in   *)
(* memory ends with the process.                                           *)
(*                                                                         *)
(* Simplifications:                                                        *)
(*  - The waiting times between the attempts to connect are left out.      *)
(*  - A service call is one step, but for the updates of Repositories and  *)
(*    for delByPattern.                                                    *)
(***************************************************************************)
EXTENDS CacheStore

CONSTANT
  ConfigAnswers  \* external, ConfigService.get: "raw" for the string in the
                 \* environment, "validated" for what validateEnv has made of it

MaxConnectAttempts == 5

ASSUME ConfigAssumption == ConfigAnswers \in {"raw", "validated"}

VARIABLES
  env,        \* the environment of the process
  phase,      \* how far the start has got
  attempt,    \* attempts to connect that have failed
  connected   \* whether PrismaService is connected

vars == <<redis, prisma, cacheVars, tableVars, env, phase, attempt, connected>>

Environment == [USE_REDIS: {"true", "TRUE", "false"}, USE_POSTGRES: {"true", "TRUE", "false"},
                urls: BOOLEAN]

TypeOK ==
  /\ CacheTypeOK /\ RepositoriesTypeOK
  /\ env \in Environment
  /\ phase \in {"down", "connecting", "listening"}
  /\ attempt \in 0..(MaxConnectAttempts - 1)
  /\ connected \in BOOLEAN

Init ==
  /\ CacheInit /\ RepositoriesInit
  /\ redis = FALSE /\ prisma = FALSE
  /\ env \in Environment
  /\ phase = "down" /\ attempt = 0 /\ connected = FALSE

\* What validateEnv makes of a flag.
BoolFlag(flag) == env[flag] \in {"true", "TRUE"}

\* REDIS_URL and DATABASE_URL are there if they are needed.
ValidEnv == BoolFlag("USE_REDIS") \/ BoolFlag("USE_POSTGRES") => env.urls

\* config.get(flag) === 'true': what validateEnv has made of it is no string.
IsOn(flag) == ConfigAnswers = "raw" /\ env[flag] = "true"

-----------------------------------------------------------------------------
(* Start and stop.                                                         *)

Boot ==
  /\ phase = "down" /\ ValidEnv
  /\ redis' = IsOn("USE_REDIS") /\ prisma' = IsOn("USE_POSTGRES")
  /\ phase' = IF prisma' THEN "connecting" ELSE "listening"
  /\ UNCHANGED <<cacheVars, tableVars, env, attempt, connected>>

Connect ==
  /\ phase = "connecting"
  /\ phase' = "listening" /\ connected' = TRUE /\ attempt' = 0
  /\ UNCHANGED <<redis, prisma, cacheVars, tableVars, env>>

\* Mutant of FailToConnect: the loop ends without throwing.
FailToConnectSilently ==
  /\ phase = "connecting"
  /\ IF attempt + 1 < MaxConnectAttempts
       THEN attempt' = attempt + 1 /\ UNCHANGED phase
       ELSE attempt' = 0 /\ phase' = "listening"
  /\ UNCHANGED <<redis, prisma, cacheVars, tableVars, env, connected>>

\* Mutant of FailToConnect: after the last attempt it starts over.
FailToConnectForEver ==
  /\ phase = "connecting"
  /\ attempt' = IF attempt + 1 < MaxConnectAttempts THEN attempt + 1 ELSE 0
  /\ UNCHANGED <<redis, prisma, cacheVars, tableVars, env, phase, connected>>

\* Mutant of FailToConnect: one attempt more.
FailToConnectOnceMore ==
  /\ phase = "connecting"
  /\ IF attempt < MaxConnectAttempts
       THEN attempt' = attempt + 1 /\ UNCHANGED phase
       ELSE attempt' = 0 /\ phase' = "down"
  /\ UNCHANGED <<redis, prisma, cacheVars, tableVars, env, connected>>

\* The error of the last attempt ends the process.
FailToConnect ==
  /\ phase = "connecting"
  /\ IF attempt + 1 < MaxConnectAttempts
       THEN attempt' = attempt + 1 /\ UNCHANGED phase
       ELSE attempt' = 0 /\ phase' = "down"
  /\ UNCHANGED <<redis, prisma, cacheVars, tableVars, env, connected>>

\* Mutant of Keep: the identities are kept in memory whatever the toggle says.
KeepAccountsOnly ==
  /\ cache' = IF redis THEN cache ELSE [k \in Tokens |-> None]
  /\ identities' = [i \in Identities |-> "none"]
  /\ accounts' = IF prisma THEN accounts ELSE [a \in Accounts |-> None]

\* What outlives the process.
Keep ==
  /\ cache' = IF redis THEN cache ELSE [k \in Tokens |-> None]
  /\ identities' = IF prisma THEN identities ELSE [i \in Identities |-> "none"]
  /\ accounts' = IF prisma THEN accounts ELSE [a \in Accounts |-> None]

\* The process stops, or dies in the middle of everything.
Stop ==
  /\ phase # "down"
  /\ phase' = "down" /\ attempt' = 0 /\ connected' = FALSE
  /\ Keep
  /\ req' = [r \in Requests |-> NoRequest]
  /\ sweep' = NoSweep
  /\ UNCHANGED <<redis, prisma, answer, used, env>>

-----------------------------------------------------------------------------
(* Service calls.                                                          *)

\* A session is created at the end of a login, or refreshed by the guard.
SaveSession(k, i) ==
  /\ identities[i] = "active" \/ (Live(k) /\ cache[k].value = i)
  /\ Put(k, i, TTL)

CacheCall ==
  /\ \/ \E k \in Tokens, i \in Identities : SaveSession(k, i)
     \/ \E k \in Tokens : Get(k) \/ Del(k) \/ Expire(k, TTL)
     \/ KeysByPattern \/ ListForDeletion \/ DelByPattern \/ Cleanup
  /\ UNCHANGED tableVars

TableCall ==
  /\ \/ \E i \in Identities : CreateIdentity(i) \/ DeleteAccounts(i)
     \/ \E a \in Accounts, i \in Identities : CreateAccount(a, i)
     \/ \E r \in Requests, i \in Identities, op \in {"update", "softDelete"} : ReadIdentity(r, i, op)
     \/ \E r \in Requests, a \in Accounts : ReadTokens(r, a)
     \/ \E r \in Requests : UpdateIdentity(r) \/ SoftDelete(r) \/ UpdateTokens(r)
  /\ UNCHANGED cacheVars

Serve ==
  /\ phase = "listening"
  /\ CacheCall \/ TableCall
  /\ UNCHANGED <<redis, prisma, env, phase, attempt, connected>>

\* Time passes in Redis also while no backend runs.
PassTime == Tick /\ UNCHANGED <<redis, prisma, tableVars, env, phase, attempt, connected>>

Next == Boot \/ Connect \/ FailToConnect \/ Stop \/ Serve \/ PassTime

Spec == Init /\ [][Next]_vars

\* An attempt to connect ends, one way or the other.
FairSpec == Spec /\ WF_vars(Connect \/ FailToConnect)

-----------------------------------------------------------------------------
(* Correctness.                                                            *)

\* Callers cannot tell InMemoryCache from Redis: an entry whose time is up is gone
\* for every call, though it may still be in the map (decisions.md: "the two
\* implementations must behave identically").
ImplementsTtlCache == Ideal!Spec

\* A session leads to an identity also after restarts, unless sessions are kept in
\* Redis and identities in memory.
SessionsHaveIdentity ==
  \A k \in Tokens : Live(k) => identities[cache[k].value] # "none" \/ (redis /\ ~prisma)

\* Requests are not taken on PostgreSQL before PrismaService has connected.
ListensOnlyConnected == phase = "listening" /\ prisma => connected

\* What a caller may rely on with either repository: what was deleted stays deleted,
\* unless an update that had read the row before is still to write.  The condition is
\* the same for both because neither keeps more: with Prisma such an update takes a
\* soft deletion back, in memory it stores an unlinked account again.
GoneStaysGone == [][\A x \in Identities \cup Accounts : Gone(x) => Gone(x)']_vars

\* The start comes to an end: the process listens or gives up.
BootSettles == phase = "connecting" ~> phase # "connecting"

\* backend/README.md: "`USE_POSTGRES=true` | - | Prisma*Repository", and
\* operations.md: "Postgres connections re-establish via the retry loop in
\* `PrismaService.onModuleInit`."
TogglesWork == phase = "listening" /\ env.USE_POSTGRES = "true" => prisma /\ connected

-----------------------------------------------------------------------------
(* The inductive invariant.                                                *)

\* Before the first start nothing is used; after it the stores stay what the
\* toggles have made them, and a cache in memory is empty until the process listens.
StoresInv ==
  /\ \/ redis = IsOn("USE_REDIS") /\ prisma = IsOn("USE_POSTGRES")
     \/ phase = "down" /\ used = {} /\ cache = [k \in Tokens |-> None]
  /\ phase # "listening" /\ ~redis => cache = [k \in Tokens |-> None]

IInv == TypeOK /\ StoresInv /\ SessionsHaveIdentity /\ ListensOnlyConnected
=============================================================================
