----------------------------- MODULE Repositories -----------------------------
(***************************************************************************)
(* Identities and OAuth accounts, in the repositories over InMemoryStore   *)
(* or over PostgreSQL.                                                     *)
(*                                                                         *)
(* The services read a row, change it and write the whole of it back.      *)
(* InMemoryStore hands out the stored object itself, so a change is there  *)
(* for everybody at once and no update is lost; but its update stores the  *)
(* object whether or not the row is still there.  Prisma hands out a copy, *)
(* so the write takes back what others wrote in between; but it refuses to *)
(* write a row that is gone.                                               *)
(*                                                                         *)
(* Simplifications:                                                        *)
(*  - Of an identity only its life is kept, of an account its identity:    *)
(*    the updates of other fields differ only in what they write back.     *)
(*  - One provider.  Uniqueness is the subject of OAuthLogin.              *)
(***************************************************************************)
CONSTANTS
  Identities,  \* the ids crypto.randomUUID can return
  Accounts,    \* the ids crypto.randomUUID can return
  Requests,    \* updates the backend has under way
  None         \* an absent value

ASSUME RowsAssumption == None \notin Identities \cup Accounts

VARIABLES
  prisma,      \* whether the Prisma repositories are in use
  identities,  \* table identities: the life of each row
  accounts,    \* table oauth_accounts: the identity of each row
  used,        \* history: the ids handed out
  req          \* the local variables of each update

tableVars == <<identities, accounts, used, req>>

NoRequest == [pc |-> "idle", id |-> None, copy |-> None]

RepositoriesTypeOK ==
  /\ prisma \in BOOLEAN
  /\ identities \in [Identities -> {"none", "active", "deleted"}]
  /\ accounts \in [Accounts -> Identities \cup {None}]
  /\ used \subseteq Identities \cup Accounts
  /\ req \in [Requests -> [pc: {"idle", "update", "softDelete", "updateTokens"},
                           id: Identities \cup Accounts \cup {None},
                           copy: Identities \cup {None}]]
  /\ \A r \in Requests :
       /\ req[r].pc \in {"update", "softDelete"} => req[r].id \in Identities
       /\ req[r].pc = "updateTokens" => req[r].id \in Accounts /\ req[r].copy # None

RepositoriesInit ==
  /\ identities = [i \in Identities |-> "none"]
  /\ accounts = [a \in Accounts |-> None]
  /\ used = {}
  /\ req = [r \in Requests |-> NoRequest]

Respond(r) == req' = [req EXCEPT ![r] = NoRequest]

\* Mutant of CreateIdentity: an upsert, which takes a soft-deleted row up again.
CreateIdentityUpsert(i) ==
  /\ i \notin used \/ identities[i] = "deleted"
  /\ identities' = [identities EXCEPT ![i] = "active"]
  /\ used' = used \cup {i}
  /\ UNCHANGED <<accounts, req>>

CreateIdentity(i) ==
  /\ i \notin used
  /\ identities' = [identities EXCEPT ![i] = "active"]
  /\ used' = used \cup {i}
  /\ UNCHANGED <<accounts, req>>

\* findByIdOrThrow of updateLastLogin, setEmailVerified, setPasswordHash ("update")
\* and softDelete: it finds active identities only.
ReadIdentity(r, i, op) ==
  /\ req[r].pc = "idle" /\ identities[i] = "active"
  /\ req' = [req EXCEPT ![r] = [pc |-> op, id |-> i, copy |-> None]]
  /\ UNCHANGED <<identities, accounts, used>>

\* Prisma writes back deletedAt as it was read, that is null.
UpdateIdentity(r) ==
  /\ req[r].pc = "update"
  /\ identities' = IF prisma THEN [identities EXCEPT ![req[r].id] = "active"] ELSE identities
  /\ Respond(r)
  /\ UNCHANGED <<accounts, used>>

SoftDelete(r) ==
  /\ req[r].pc = "softDelete"
  /\ identities' = [identities EXCEPT ![req[r].id] = "deleted"]
  /\ Respond(r)
  /\ UNCHANGED <<accounts, used>>

\* i comes from a lookup or from a session; PostgreSQL has a foreign key.
CreateAccount(a, i) ==
  /\ a \notin used /\ i \in used
  /\ prisma => identities[i] # "none"
  /\ accounts' = [accounts EXCEPT ![a] = i]
  /\ used' = used \cup {a}
  /\ UNCHANGED <<identities, req>>

\* updateTokens begins; without a row it does nothing.
ReadTokens(r, a) ==
  /\ req[r].pc = "idle" /\ accounts[a] # None
  /\ req' = [req EXCEPT ![r] = [pc |-> "updateTokens", id |-> a, copy |-> accounts[a]]]
  /\ UNCHANGED <<identities, accounts, used>>

\* In memory the row is stored even if it has been deleted meanwhile; Prisma
\* throws.
UpdateTokens(r) ==
  /\ req[r].pc = "updateTokens"
  /\ accounts' = IF prisma THEN accounts ELSE [accounts EXCEPT ![req[r].id] = req[r].copy]
  /\ Respond(r)
  /\ UNCHANGED <<identities, used>>

\* Of several accounts of one identity the repository in memory deletes the first
\* it finds, Prisma all of them.
DeleteAccounts(i) ==
  LET own == {a \in Accounts : accounts[a] = i} IN
  /\ own # {}
  /\ \E gone \in IF prisma THEN {own} ELSE {{a} : a \in own} :
       accounts' = [a \in Accounts |-> IF a \in gone THEN None ELSE accounts[a]]
  /\ UNCHANGED <<identities, used, req>>

-----------------------------------------------------------------------------
(* Correctness.                                                            *)

\* The updates under way that have read row x and are still to write it.
Revivers(x) == {r \in Requests : req[r].id = x /\ req[r].pc \in {"update", "updateTokens"}}

\* x was deleted, and no update that read it before is still to write.
Gone(x) ==
  /\ Revivers(x) = {}
  /\ x \in used
  /\ x \in Identities => identities[x] # "active"
  /\ x \in Accounts => accounts[x] = None
=============================================================================
