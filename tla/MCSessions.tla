----------------------------- MODULE MCSessions -----------------------------
(***************************************************************************)
(* Instances of Sessions for TLC.                                          *)
(***************************************************************************)
EXTENDS Sessions, TLC

\* Tokens, identities and open requests carry no data of their own.
MCSymmetry ==
  Permutations(Tokens) \cup Permutations(Identities) \cup Permutations(Requests)
=============================================================================
