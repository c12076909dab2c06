--------------------------- MODULE LoginContract ---------------------------
(***************************************************************************)
(* What the OAuth login promises, whatever calls it makes and in whatever  *)
(* order concurrent callbacks make them: which provider user may come to   *)
(* own which identity, and whose sessions may be granted to whom.          *)
(***************************************************************************)
CONSTANTS
  Users,  \* provider users
  Ids,    \* identities
  None    \* no identity

VARIABLES
  owner,   \* the identity each provider user is linked to now, or None
  ever,    \* every (user, identity) link there has ever been
  granted  \* every (user, identity) pair a session has been granted for

contractVars == <<owner, ever, granted>>

Init ==
  /\ owner = [u \in Users |-> None]
  /\ ever = {}
  /\ granted = {}

Owned(i) == \E u \in Users : <<u, i>> \in ever

Bind(u, i) ==
  /\ UNCHANGED granted
  /\ ever' = ever \cup {<<u, i>>}
  /\ owner[u] = None
  /\ owner' = [owner EXCEPT ![u] = i]

\* Rule 2: a user without an identity founds one that nobody ever had.
Found(u, i) == ~Owned(i) /\ Bind(u, i)

\* Linking: a user without an identity joins one that somebody was granted a
\* session for; only the holder of such a session can ask for it.
Join(u, i) == (\E v \in Users : <<v, i>> \in granted) /\ Bind(u, i)

\* Unlinking frees some users and keeps the history.
Release(us) ==
  /\ UNCHANGED <<ever, granted>>
  /\ owner' = [u \in Users |-> IF u \in us THEN None ELSE owner[u]]

\* Rules 1 and 2 end in a session for an identity the user is, or was when
\* the callback looked, linked to.
Grant(u, i) ==
  /\ UNCHANGED <<owner, ever>>
  /\ <<u, i>> \in ever
  /\ granted' = granted \cup {<<u, i>>}

Next ==
  \/ \E us \in SUBSET Users : Release(us)
  \/ \E u \in Users, i \in Ids : Found(u, i) \/ Join(u, i) \/ Grant(u, i)

Spec == Init /\ [][Next]_contractVars
=============================================================================
