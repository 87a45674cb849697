-------------------------- MODULE MCDecryptedViews --------------------------
(***************************************************************************)
(* A small instance of DecryptedViews, and of the keys under it, for TLC.  *)
(***************************************************************************)
EXTENDS DecryptedViews, TLC

Symmetry == Permutations(Threads) \cup Permutations(Managers)

=============================================================================
