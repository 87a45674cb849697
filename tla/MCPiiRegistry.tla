--------------------------- MODULE MCPiiRegistry ---------------------------
(***************************************************************************)
(* Small instances of PiiRegistry for TLC.                                 *)
(***************************************************************************)
EXTENDS PiiRegistry, TLC

Symmetry == Permutations(Instances) \cup Permutations(Threads)

=============================================================================
