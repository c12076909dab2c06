---------------------------- MODULE SessionTable ----------------------------
(***************************************************************************)
(* What the rest of the backend may assume of the session store: a session *)
(* is issued once; after that it is accepted at some times and not at      *)
(* others, and whenever it is accepted it is its first owner's.            *)
(***************************************************************************)
CONSTANTS Tokens, Owners, None

VARIABLES
  issued,  \* whom each token was issued to
  table    \* whose session each token is accepted for now

tableVars == <<issued, table>>

Init ==
  /\ issued = [t \in Tokens |-> None]
  /\ table = [t \in Tokens |-> None]

Issue(t, o) ==
  /\ issued[t] = None
  /\ issued' = [issued EXCEPT ![t] = o]
  /\ table' = [table EXCEPT ![t] = o]

\* Sessions end, and a refresh under way may bring one back.
Change(live) ==
  /\ table' = [t \in Tokens |-> IF t \in live THEN issued[t] ELSE None]
  /\ UNCHANGED issued

Next ==
  \/ \E t \in Tokens, o \in Owners : Issue(t, o)
  \/ \E live \in SUBSET Tokens : Change(live)

Spec == Init /\ [][Next]_tableVars
=============================================================================
