----------------------------- MODULE MCMlsGroup -----------------------------
(***************************************************************************)
(* The two devices of an account race for the group row of MlsGroup, and   *)
(* may revoke and link one another, while the account and a second one     *)
(* leave and are invited.                                                  *)
(***************************************************************************)
EXTENDS MlsGroup, TLC

CONSTANTS u1, u2, d1, d2

TwoDevices == {d1, d2}
Siblings == d1 :> u1 @@ d2 :> u1

=============================================================================
