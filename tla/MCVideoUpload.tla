--------------------------- MODULE MCVideoUpload ---------------------------
(***************************************************************************)
(* Instances of VideoUpload for TLC.                                       *)
(***************************************************************************)
EXTENDS VideoUpload, TLC

\* Open requests carry no data of their own.
MCSymmetry == Permutations(Requests)
=============================================================================
