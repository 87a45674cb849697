------------------------- MODULE MCCertificateChain -------------------------
(***************************************************************************)
(* Small instances of CertificateChain for TLC.                            *)
(***************************************************************************)
EXTENDS CertificateChain, TLC

CONSTANTS r1, r2, r3, a, b

\* Requests r1 and r2 are tenant a's, r3 is tenant b's.
MCTenantOf == [r \in Requests |-> IF r = r3 THEN b ELSE a]

\* One attestation service configured.
MCOneService == <<"rekor">>

Symmetry == Permutations(Threads)

=============================================================================
