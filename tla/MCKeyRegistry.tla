--------------------------- MODULE MCKeyRegistry ---------------------------
(***************************************************************************)
(* Small instances of KeyRegistry for TLC.                                 *)
(***************************************************************************)
EXTENDS KeyRegistry, TLC

Symmetry == Permutations(Threads)

=============================================================================
