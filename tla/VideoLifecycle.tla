--------------------------- MODULE VideoLifecycle ---------------------------
(***************************************************************************)
(* What the owner of a video may see of it, whatever requests run at the   *)
(* same time: it is announced, becomes watchable at most once and only     *)
(* with its content stored, and once it is gone it is gone.                *)
(***************************************************************************)
CONSTANTS Videos

VARIABLES
  status,  \* where each video is in its life
  stored   \* the videos whose content has been in the bucket

lifecycleVars == <<status, stored>>

Init ==
  /\ status = [v \in Videos |-> "none"]
  /\ stored = {}

Announce(v) ==
  /\ status[v] = "none"
  /\ status' = [status EXCEPT ![v] = "pending"]
  /\ UNCHANGED stored

Store(v) ==
  /\ status[v] # "none"
  /\ stored' = stored \cup {v}
  /\ UNCHANGED status

Publish(v) ==
  /\ status[v] = "pending" /\ v \in stored
  /\ status' = [status EXCEPT ![v] = "ready"]
  /\ UNCHANGED stored

Remove(v) ==
  /\ status[v] \in {"pending", "ready"}
  /\ status' = [status EXCEPT ![v] = "gone"]
  /\ UNCHANGED stored

Next == \E v \in Videos : Announce(v) \/ Store(v) \/ Publish(v) \/ Remove(v)

Spec == Init /\ [][Next]_lifecycleVars
=============================================================================
