---------------------------- MODULE MCGovernance ----------------------------
(* Governance with accounts that no definition tells apart. *)
EXTENDS Governance, TLC

Interchangeable == Permutations(Addresses)

=============================================================================
