---------------------------- MODULE MCVideoClient ----------------------------
(***************************************************************************)
(* Instances of VideoClient for TLC.                                       *)
(***************************************************************************)
EXTENDS VideoClient, TLC

MCSymmetry == Permutations(Tokens) \cup Permutations(Identities)
                \cup Permutations(Logouts) \cup Permutations(Loads)
=============================================================================
