--------------------------- MODULE AnalystAccess ---------------------------
(***************************************************************************)
(* The credentials below the shared API key: one-time claim links for      *)
(* analysts and auditors, short-lived console sessions, and the standing   *)
(* credentials of external systems with their revocation; and the decision *)
(* of the auth hook for a presented credential.                            *)
(*                                                                         *)
(* All of them are AnalystAccess documents.  A secret is a number, fresh   *)
(* whenever it is generated; its hash is the secret itself, since only     *)
(* equality matters.  The shared key is not modelled: it is accepted       *)
(* everywhere without a look at these documents.                           *)
(***************************************************************************)
EXTENDS Naturals

CONSTANTS
    Threads,        \* executions that may be in flight at once
    Tenants,
    Names,          \* analyst emails and caller names, stored in one field
    Faults,         \* "lost": a commit's answer is lost; "update": a write fails
    ClaimTtl,       \* CLAIM_EXPIRY_MS, in ticks
    SessionTtl,     \* SESSION_CREDENTIAL_TTL_MS, in ticks
    MaxSecrets,     \* bound on the secrets generated
    MaxTime         \* bound on the clock

ASSUME AccessAssumption ==
    /\ Tenants # {} /\ Names # {}
    /\ Faults \subseteq {"lost", "update"}
    /\ ClaimTtl \in Nat /\ SessionTtl \in Nat /\ MaxSecrets \in Nat /\ MaxTime \in Nat

VARIABLES
    records,        \* the AnalystAccess collection, by document id
    secrets,        \* secrets generated so far
    now,
    call,           \* the executions in flight
    handed,         \* history: the credentials callers received, and for what
    cutOff          \* history: credentials a successful revocation was to end

vars == <<records, secrets, now, call, handed, cutOff>>

-----------------------------------------------------------------------------
(* AnalystAccess documents *)

None == 0           \* an absent field
Secrets == 1..MaxSecrets

NoRecord == [source |-> "none"]

\* createClaim: neither claimed nor holding a credential.
ClaimRecord(tenant, name, role) ==
    [source |-> "claim_link", tenant |-> tenant, name |-> name, role |-> role,
     kind |-> "analyst", claimed |-> FALSE, credential |-> None,
     expires |-> now + ClaimTtl, lasts |-> None, revoked |-> FALSE]

\* Absent means durable; a session ends with the tick it names.
CredentialRecord(key, tenant, name, kind, lasts) ==
    [source |-> "console_session", tenant |-> tenant, name |-> name, role |-> "analyst",
     kind |-> kind, claimed |-> TRUE, credential |-> key,
     expires |-> None, lasts |-> lasts, revoked |-> FALSE]

\* mutant: claimed_at is written without the key's hash
ClaimedWithoutKey(record, key) == [record EXCEPT !.claimed = TRUE]

Claimed(record, key) == [record EXCEPT !.claimed = TRUE, !.credential = key]

Exists(d) == records[d] # NoRecord

-----------------------------------------------------------------------------
(* The auth hook.  A path stands for the route its pattern matches.        *)

AnalystPaths ==
    {"/encrypt", "/decrypt", "/pii-registry/resources", "/deletion-requests",
     "/pii-vault/decrypt", "/pii-registry/resources/:id"}
AuditorPaths == {"/audit/key-status/:id"}
ServicePaths ==
    {"/deletion-requests", "/deletion-requests/:id", "/deletion-requests/:id/advance",
     "/certificate/:id"}
OtherPaths ==
    {"/key/rotate", "/key/shred", "/admin/analyst-claims", "/admin/service-credentials",
     "/pii-registry/resources/:id/mark-synced"}
Paths == AnalystPaths \cup AuditorPaths \cup ServicePaths \cup OtherPaths

\* Which documents a presented secret resolves to.
resolveCredential(key) ==
    {records[d] : d \in {d \in Secrets :
        /\ Exists(d)
        /\ records[d].credential = key
        /\ ~records[d].revoked
        /\ records[d].lasts # None => records[d].lasts >= now}}

\* mutant: the role is not looked at
isAllowedForKind(identity, path) ==
    IF identity.kind = "service" THEN path \in ServicePaths ELSE path \in AnalystPaths

isAllowedForCredential(identity, path) ==
    IF identity.role = "auditor" THEN path \in AuditorPaths
    ELSE IF identity.kind = "service" THEN path \in ServicePaths
    ELSE path \in AnalystPaths

\* The verdict for a caller with this credential and x-tenant-id header.
resolveAuth(path, key, tenant) ==
    /\ path \in AnalystPaths \cup AuditorPaths \cup ServicePaths
    /\ \E identity \in resolveCredential(key) :
         identity.tenant = tenant /\ isAllowedForCredential(identity, path)

-----------------------------------------------------------------------------
(* Executions *)

NoCall == [pc |-> "idle"]

At(t, p) == call[t].pc = p
Become(t, c) == call' = [call EXCEPT ![t] = c]
Stop(t) == Become(t, NoCall)

Init ==
    /\ records = [d \in Secrets |-> NoRecord]
    /\ secrets = 0
    /\ now = 1
    /\ call = [t \in Threads |-> NoCall]
    /\ handed = {}
    /\ cutOff = {}

\* generateSecret: 32 random bytes.
GenerateSecret ==
    /\ secrets < MaxSecrets
    /\ secrets' = secrets + 1

NewSecret == secrets + 1

Handed(key, claim, began, record) ==
    [key |-> key, claim |-> claim, began |-> began, tenant |-> record.tenant,
     name |-> record.name, role |-> record.role, kind |-> record.kind, lasts |-> record.lasts]

\* POST /admin/analyst-claims and /admin/auditor-claims, one email of the batch.
CreateClaim(tenant, name, role) ==
    /\ GenerateSecret
    /\ records' = [records EXCEPT ![NewSecret] = ClaimRecord(tenant, name, role)]
    /\ UNCHANGED <<now, call, handed, cutOff>>

MintCredential(tenant, name, kind, lasts) ==
    LET record == CredentialRecord(NewSecret, tenant, name, kind, lasts) IN
    /\ GenerateSecret
    /\ records' = [records EXCEPT ![NewSecret] = record]
    /\ handed' = handed \cup {Handed(NewSecret, None, now, record)}
    /\ UNCHANGED <<now, call, cutOff>>

\* POST /admin/session-credentials
MintSessionCredential(tenant, name) == MintCredential(tenant, name, "analyst", now + SessionTtl)

\* POST /admin/service-credentials
MintServiceCredential(tenant, name) == MintCredential(tenant, name, "service", None)

-----------------------------------------------------------------------------
(* Claiming *)

\* POST /admin/analyst-claims/:token/claim reads the document and refuses an
\* unknown, claimed or expired one; only then is the API key generated.
Claim(t, token) ==
    /\ At(t, "idle")
    /\ Exists(token)
    /\ ~records[token].claimed
    /\ records[token].expires >= now
    /\ GenerateSecret
    /\ Become(t, [pc |-> "claim", token |-> token, key |-> NewSecret, began |-> now])
    /\ UNCHANGED <<records, now, handed, cutOff>>

\* mutant: the transaction trusts the earlier read
StillUnclaimedAssumed(token) == TRUE

\* The check inside the transaction.
StillUnclaimed(token) == ~records[token].claimed

\* claimAndIssueCredential, a transaction.  When its answer is lost the client
\* library runs the callback again, on the document as it now is.
ClaimAndIssueCredential(t, answered) ==
    LET c == call[t] IN
    /\ At(t, "claim")
    /\ StillUnclaimed(c.token)
    /\ answered \/ "lost" \in Faults
    /\ records' = [records EXCEPT ![c.token] = Claimed(@, c.key)]
    /\ IF answered
       THEN handed' = handed \cup {Handed(c.key, c.token, c.began, records'[c.token])} /\ Stop(t)
       ELSE UNCHANGED <<handed, call>>
    /\ UNCHANGED <<secrets, now, cutOff>>

\* A concurrent claim came first, or this one's own lost commit did: 410.
ClaimLost(t) ==
    /\ At(t, "claim")
    /\ ~StillUnclaimed(call[t].token)
    /\ Stop(t)
    /\ UNCHANGED <<records, secrets, now, handed, cutOff>>

-----------------------------------------------------------------------------
(* POST /admin/service-credentials/revoke *)

ServiceCredentials(tenant, name) ==
    {d \in Secrets : /\ Exists(d)
                     /\ records[d].tenant = tenant
                     /\ records[d].name = name
                     /\ records[d].kind = "service"}

\* mutant: the first match stands for all
ToRevokeOne(docs) ==
    LET live == {d \in docs : ~records[d].revoked} IN
    {d \in live : \A e \in live : d <= e}

ToRevoke(docs) == {d \in docs : ~records[d].revoked}

RevokeServiceCredentialsFor(t, tenant, name) ==
    LET docs == ServiceCredentials(tenant, name) IN
    /\ At(t, "idle")
    /\ docs # {}
    /\ Become(t, [pc |-> "revoke", docs |-> docs, todo |-> ToRevoke(docs), failed |-> FALSE])
    /\ UNCHANGED <<records, secrets, now, handed, cutOff>>

\* The updates run in any order; one that fails makes the answer a 500 and
\* leaves the others running.
RevokeUpdate(t, d, succeeds) ==
    /\ At(t, "revoke")
    /\ d \in call[t].todo
    /\ succeeds \/ "update" \in Faults
    /\ records' = IF succeeds THEN [records EXCEPT ![d].revoked = TRUE] ELSE records
    /\ Become(t, [call[t] EXCEPT !.todo = @ \ {d}, !.failed = @ \/ ~succeeds])
    /\ UNCHANGED <<secrets, now, handed, cutOff>>

RevokeAnswer(t) ==
    /\ At(t, "revoke")
    /\ call[t].todo = {}
    /\ cutOff' = IF call[t].failed THEN cutOff ELSE cutOff \cup call[t].docs
    /\ Stop(t)
    /\ UNCHANGED <<records, secrets, now, handed>>

\* The instance dies.
Crash(t) ==
    /\ ~At(t, "idle")
    /\ Stop(t)
    /\ UNCHANGED <<records, secrets, now, handed, cutOff>>

Tick ==
    /\ now < MaxTime
    /\ now' = now + 1
    /\ UNCHANGED <<records, secrets, call, handed, cutOff>>

-----------------------------------------------------------------------------
Next ==
    \/ \E tenant \in Tenants, name \in Names :
         \/ \E role \in {"analyst", "auditor"} : CreateClaim(tenant, name, role)
         \/ MintSessionCredential(tenant, name)
         \/ MintServiceCredential(tenant, name)
         \/ \E t \in Threads : RevokeServiceCredentialsFor(t, tenant, name)
    \/ \E t \in Threads :
         \/ \E d \in Secrets : Claim(t, d)
         \/ \E answered \in BOOLEAN : ClaimAndIssueCredential(t, answered)
         \/ ClaimLost(t)
         \/ \E d \in Secrets, succeeds \in BOOLEAN : RevokeUpdate(t, d, succeeds)
         \/ RevokeAnswer(t) \/ Crash(t)
    \/ Tick

Spec == Init /\ [][Next]_vars

-----------------------------------------------------------------------------
(* Properties *)

Record ==
    [source: {"claim_link", "console_session"}, tenant: Tenants, name: Names,
     role: {"analyst", "auditor"}, kind: {"analyst", "service"}, claimed: BOOLEAN,
     credential: 0..MaxSecrets, expires: Nat, lasts: Nat, revoked: BOOLEAN]

\* A document holds a credential exactly when it is claimed, and it is a
\* secret that was generated.
TypeOK ==
    /\ secrets \in 0..MaxSecrets
    /\ now \in Nat
    /\ records \in [Secrets -> Record \cup {NoRecord}]
    /\ \A d \in Secrets : Exists(d) =>
         /\ d <= secrets
         /\ IF records[d].claimed THEN records[d].credential \in 1..secrets
            ELSE records[d].credential = None
    /\ cutOff \subseteq Secrets

\* A claim link works once: of all the calls that follow it, by a person and a
\* mail scanner at the same moment, before or after a lost answer, one gets an
\* API key; it called before the link expired, and its key still resolves to
\* the tenant, the person and the role of the invitation, whatever service
\* credentials of the same name were revoked since.
ClaimWorksOnce ==
    \A h \in {h \in handed : h.claim # None} :
        /\ \A g \in handed : g.claim = h.claim => g = h
        /\ h.began <= records[h.claim].expires
        /\ \E identity \in resolveCredential(h.key) :
             /\ identity.tenant = records[h.claim].tenant
             /\ identity.name = records[h.claim].name
             /\ identity.role = records[h.claim].role

\* What a credential is not for, by what it was issued for.
Forbidden(h) ==
    IF h.role = "auditor" THEN Paths \ {"/audit/key-status/:id"}
    ELSE IF h.kind = "service"
    THEN OtherPaths \cup {"/encrypt", "/decrypt", "/pii-vault/decrypt", "/pii-registry/resources",
                          "/pii-registry/resources/:id", "/audit/key-status/:id"}
    ELSE OtherPaths \cup {"/deletion-requests/:id/advance", "/certificate/:id",
                          "/audit/key-status/:id"}

\* The auth hook never lets a credential act for another tenant, outside what
\* its issue was for, or after its session ended.
GrantsInScope ==
    \A h \in handed, path \in Paths, tenant \in Tenants :
        resolveAuth(path, h.key, tenant) =>
            /\ tenant = h.tenant
            /\ path \notin Forbidden(h)
            /\ h.lasts # None => now <= h.began + SessionTtl

\* "Cut off this integration": once a revocation has answered with success, no
\* credential that the name held when it was called opens any route, whatever
\* else was in flight.
CutOffForGood ==
    \A key \in cutOff, path \in Paths, tenant \in Tenants : ~resolveAuth(path, key, tenant)

=============================================================================
