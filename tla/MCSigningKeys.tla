--------------------------- MODULE MCSigningKeys ---------------------------
(***************************************************************************)
(* A small instance of SigningKeys for TLC.                                *)
(***************************************************************************)
EXTENDS SigningKeys, TLC

\* The caches of the version live for five minutes, that of the JWKS for ten.
MCTtl == [k \in Caches |-> IF k = "enabled" THEN 2 ELSE 1]

Symmetry == Permutations(Threads) \cup Permutations(Instances)

=============================================================================
