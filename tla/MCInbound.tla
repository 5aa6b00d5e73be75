------------------------------ MODULE MCInbound ------------------------------
(* Inbound in a few small scenes. *)
EXTENDS Inbound

Small ==
  {[kinds |-> <<"good", "broken">>, events |-> 0, faults |-> 0, changes |-> 0],
   [kinds |-> <<"relayed">>, events |-> 0, faults |-> 1, changes |-> 2],
   [kinds |-> <<"good">>, events |-> 0, faults |-> 2, changes |-> 0],
   [kinds |-> <<"bare">>, events |-> 2, faults |-> 2, changes |-> 0]}

=============================================================================
