-------------------------- MODULE MCAnalystAccess --------------------------
(***************************************************************************)
(* Small instances of AnalystAccess for TLC.                               *)
(***************************************************************************)
EXTENDS AnalystAccess, TLC

Symmetry == Permutations(Threads) \cup Permutations(Tenants)

=============================================================================
