--------------------- MODULE MCDeletionRequestsHistory ---------------------
(***************************************************************************)
(* A small instance of DeletionRequestsHistory for TLC.                    *)
(***************************************************************************)
EXTENDS DeletionRequestsHistory

\* All requests belong to one user, whose key document knows no destination at
\* first; the connector is reported before, while or after the cascade plans.
MCOneOwner == [r \in Requests |-> CHOOSE u \in Users : TRUE]
MCKnowsNothing == [u \in Users |-> {}]

=============================================================================
