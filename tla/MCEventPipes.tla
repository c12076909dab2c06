---------------------------- MODULE MCEventPipes ----------------------------
(***************************************************************************)
(* Instances of EventPipes for TLC.                                        *)
(***************************************************************************)
EXTENDS EventPipes, TLC

\* Pipes and profiles carry no data of their own.
MCSymmetry == Permutations(Pipes) \cup Permutations(Users)
=============================================================================
