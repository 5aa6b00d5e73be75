----------------------------- MODULE MCDevices -----------------------------
(***************************************************************************)
(* A phone and a laptop of one account.  Each behaviour follows one        *)
(* scenario: revocations that meet, sockets across a revocation and a new  *)
(* link, claims of prekeys and of key packages around uploads.             *)
(***************************************************************************)
EXTENDS Devices, TLC

CONSTANTS phone, laptop, i1, i2, s1, s2

Request(id, kind, by, device, pool, keys) ==
  [id |-> id, kind |-> kind, by |-> by, device |-> device, pool |-> pool, keys |-> keys]

Revoke(by, d) == Request(1, "revoke", by, d, "otp", {})
LogOut(by) == Request(2, "logout", by, by, "otp", {})
SignIn(d) == Request(3, "signin", d, d, "otp", {})
Link(by, d) == Request(4, "link", by, d, "otp", {})
Upload(id, d, pool, keys) == Request(id, "upload", d, d, pool, keys)
Claim(d, pool) == Request(6, "claim", Nobody, d, pool, {})

Both == {phone, laptop}
FiveScenarios ==
  { [linked |-> Both, online |-> {},
     asks |-> Revoke(phone, laptop) :> 1 @@ Revoke(laptop, phone) :> 1
              @@ Revoke(phone, phone) :> 1 @@ LogOut(phone) :> 1],
    [linked |-> {laptop}, online |-> {phone},
     asks |-> SignIn(phone) :> 1 @@ Revoke(laptop, phone) :> 1 @@ Link(laptop, phone) :> 1],
    [linked |-> {phone}, online |-> {},
     asks |-> Upload(5, phone, "otp", {1, 2}) :> 2 @@ Upload(7, phone, "otp", {3}) :> 1
              @@ Claim(phone, "otp") :> 3],
    [linked |-> Both, online |-> {},
     asks |-> Upload(5, phone, "otp", {1, 2}) :> 1 @@ Claim(phone, "otp") :> 2
              @@ Revoke(laptop, phone) :> 1 @@ Link(laptop, phone) :> 1],
    [linked |-> Both, online |-> {},
     asks |-> Upload(8, phone, "mls", {1, 2}) :> 2 @@ Claim(phone, "mls") :> 2] }
AllAsks == UNION {DOMAIN sc.asks : sc \in FiveScenarios}

BothSlots == {s1, s2}
Homes == s1 :> i1 @@ s2 :> i2
=============================================================================
