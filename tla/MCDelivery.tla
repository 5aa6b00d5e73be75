----------------------------- MODULE MCDelivery -----------------------------
(***************************************************************************)
(* Two messages to an account with one device, and one message to an       *)
(* account with two devices, of which the second may be linked later.      *)
(***************************************************************************)
EXTENDS Delivery, TLC

CONSTANTS phone, tablet, h1, h2

OneDevice == [messages |-> {1, 2}, devices |-> {phone}, linked |-> {phone}]
TwoDevices == [messages |-> {1}, devices |-> {phone, tablet}, linked |-> {phone, tablet}]
LaterDevice == [TwoDevices EXCEPT !.linked = {phone}]
ThreeSetups == {OneDevice, TwoDevices, LaterDevice}

TwoHandlers == {h1, h2}
Alike == Permutations(TwoHandlers)
=============================================================================
