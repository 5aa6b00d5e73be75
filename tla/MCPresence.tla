----------------------------- MODULE MCPresence -----------------------------
(***************************************************************************)
(* A phone that connects on one instance and then on another; a phone and  *)
(* a laptop on one instance.                                               *)
(***************************************************************************)
EXTENDS Presence, TLC

CONSTANTS phone, laptop, k1, k2, i1, i2

On(device, home) == [device |-> device, home |-> home]
TwoLayouts == { k1 :> On(phone, i1) @@ k2 :> On(phone, i2),
                k1 :> On(phone, i1) @@ k2 :> On(laptop, i1) }
OneAfterTheOther == k1 :> {} @@ k2 :> {k1}
=============================================================================
