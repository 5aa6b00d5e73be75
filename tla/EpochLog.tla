------------------------------ MODULE EpochLog ------------------------------
(***************************************************************************)
(* What the MLS part of the backend promises its clients, without tables,  *)
(* requests or locks: a group is a log of ratchet trees, one per epoch.    *)
(* The founder opens it with a single leaf at epoch 0; every commit is     *)
(* made by a device that holds a leaf at the newest epoch and appends      *)
(* exactly one tree; no tree, once published, ever changes.                *)
(***************************************************************************)
EXTENDS Naturals

CONSTANT Devices

VARIABLES
  open,   \* TRUE while the conversation has a group
  last,   \* the newest epoch
  tree    \* the devices in the ratchet tree at each epoch 0..last

vars == <<open, last, tree>>

TypeOK ==
  /\ open \in BOOLEAN
  /\ last \in Nat
  /\ tree \in [0..last -> SUBSET Devices]

Init ==
  /\ open = FALSE
  /\ last = 0
  /\ tree = [e \in 0..0 |-> {}]

Create(founder) ==
  /\ ~open
  /\ open' = TRUE
  /\ last' = 0
  /\ tree' = [e \in 0..0 |-> {founder}]

\* The committer keeps its own leaf: MLS has no commit that removes its author.
Commit(committer) ==
  /\ open
  /\ committer \in tree[last]
  /\ open' = TRUE
  /\ last' = last + 1
  /\ tree' \in [0..(last + 1) -> SUBSET Devices]
  /\ \A e \in 0..last : tree'[e] = tree[e]
  /\ committer \in tree'[last + 1]

\* The conversation, and the group with it, is deleted.
Close ==
  /\ open
  /\ open' = FALSE
  /\ last' = 0
  /\ tree' = [e \in 0..0 |-> {}]

Next ==
  \/ \E d \in Devices : Create(d) \/ Commit(d)
  \/ Close

Spec == Init /\ [][Next]_vars

=============================================================================
