-------------------------- MODULE MCEventPipeline --------------------------
(***************************************************************************)
(* Instances of EventPipeline for TLC.  Each user has a match, and an      *)
(* event that is none comes between the two.                               *)
(***************************************************************************)
EXTENDS EventPipeline, TLC

CONSTANTS ann, bob

MCUsers == {ann, bob}
MCUser == [e \in Events |-> IF e <= 2 THEN ann ELSE bob]
MCMatches == Events \ {2}
=============================================================================
