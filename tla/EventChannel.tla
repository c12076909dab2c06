---------------------------- MODULE EventChannel ----------------------------
(***************************************************************************)
(* What becomes of telemetry events: each is sent once, in the order in    *)
(* which the events were enqueued, and is then stored for good or lost for *)
(* good.  A lost event never turns up later.                               *)
(***************************************************************************)
EXTENDS Naturals

CONSTANTS MaxEvents  \* events 1..MaxEvents, in the order of the queue

Events == 1..MaxEvents

VARIABLES fate  \* of each event

Init == fate = [e \in Events |-> "unsent"]

\* A batch: the next few events.
Send(S) ==
  /\ S # {} /\ \A e \in S : fate[e] = "unsent"
  /\ \A e \in S, d \in Events : d < e => fate[d] # "unsent" \/ d \in S
  /\ fate' = [e \in Events |-> IF e \in S THEN "moving" ELSE fate[e]]

Store(e) == fate[e] = "moving" /\ fate' = [fate EXCEPT ![e] = "stored"]

Lose(S) ==
  /\ \A e \in S : fate[e] = "moving"
  /\ fate' = [e \in Events |-> IF e \in S THEN "lost" ELSE fate[e]]

Next ==
  \/ \E S \in SUBSET Events : Send(S) \/ Lose(S)
  \/ \E e \in Events : Store(e)

Spec == Init /\ [][Next]_fate
=============================================================================
