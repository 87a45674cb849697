------------------------------ MODULE ChainLog ------------------------------
(***************************************************************************)
(* What the certificate chain promises: one append-only log of signed      *)
(* certificates per tenant, in which no certificate appears twice.         *)
(***************************************************************************)
EXTENDS Sequences

CONSTANTS Tenants, Certificates

VARIABLE log

Logged == UNION {{log[tenant][i] : i \in DOMAIN log[tenant]} : tenant \in Tenants}

Init == log = [tenant \in Tenants |-> <<>>]

Extend(tenant, certificate) ==
    /\ certificate \notin Logged
    /\ log' = [log EXCEPT ![tenant] = Append(@, certificate)]

Next == \E tenant \in Tenants, certificate \in Certificates : Extend(tenant, certificate)

Spec == Init /\ [][Next]_log

=============================================================================
