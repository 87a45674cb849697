------------------------- MODULE MCDeletionRequests -------------------------
(***************************************************************************)
(* Small instances of DeletionRequests for TLC.                            *)
(***************************************************************************)
EXTENDS DeletionRequests, TLC

\* All requests belong to one user.
MCOneOwner == [r \in Requests |-> CHOOSE u \in Users : TRUE]

\* What the key documents know at the start.
MCKnowsNothing == [u \in Users |-> {}]
MCKnowsConnectors == [u \in Users |-> Connectors]

Symmetry == Permutations(Threads)

=============================================================================
