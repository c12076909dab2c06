---------------------------- MODULE MCOAuthLogin ----------------------------
(***************************************************************************)
(* Instances of OAuthLogin for TLC.  Two Discord users share an e-mail,    *)
(* which the first has verified only at some of its logins, and the Riot   *)
(* user has the name of the first.                                         *)
(***************************************************************************)
EXTENDS OAuthLogin, TLC

CONSTANTS d1, d2, v1, mail, ann, bob

MCUsers == {d1, d2, v1}
MCProvider == d1 :> "discord" @@ d2 :> "discord" @@ v1 :> "riot"

Says(email, name) == [email |-> email, name |-> name]
MCInfo == d1 :> {Says(mail, ann), Says(None, ann)}
          @@ d2 :> {Says(mail, bob)} @@ v1 :> {Says(None, ann)}

\* Nobody's address changes.
MCFixedInfo == d1 :> {Says(mail, ann)} @@ d2 :> {Says(mail, bob)} @@ v1 :> {Says(None, ann)}

\* Callbacks and nonces carry no data of their own.
MCSymmetry == Permutations(Callbacks) \cup Permutations(States)
=============================================================================
