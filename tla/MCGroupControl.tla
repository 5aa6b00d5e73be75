---------------------------- MODULE MCGroupControl ----------------------------
(* GroupControl with users and requests that no definition tells apart. *)
EXTENDS GroupControl, TLC

Interchangeable == Permutations(Accounts) \cup Permutations(Requests)

=============================================================================
