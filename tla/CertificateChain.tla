-------------------------- MODULE CertificateChain --------------------------
(***************************************************************************)
(* issueAndStoreCertificate: the Firestore transaction that signs a        *)
(* certificate and appends it to its tenant's hash chain, the external     *)
(* attestations, the two objects in GCS, and the path recorded on the      *)
(* deletion request; and the lookup by hash that walks the chain back.     *)
(*                                                                         *)
(* PS256 signatures are randomised and the hash covers the signature, so   *)
(* the hash of a certificate is a number fresh for every signing.          *)
(*                                                                         *)
(* A request leaves CERTIFICATE_ISSUED by the rollback of a failed issue,  *)
(* or because advanceRequest writes CASCADE_COMPLETE without looking at    *)
(* the status: a second issue then runs, beside the first or after it.     *)
(***************************************************************************)
EXTENDS Naturals, Sequences

CONSTANTS
    Threads,        \* executions that may be in flight at once
    Tenants,
    Requests,       \* deletion requests that reached CASCADE_COMPLETE
    TenantOf,       \* the tenant of each request
    Services,       \* the external attestations configured, in order
    Faults,         \* the calls that may fail
    MaxAttempts,    \* attempts of a contended Firestore transaction
    MaxIssues,      \* bound on the calls of issueAndStoreCertificate
    MaxSigned,      \* bound on the signatures made
    MaxDay          \* bound on the dates of the GCS paths

AllFaults == {"sign", "commit", "upload", "crash", "fields"}
Hashes == 1..MaxSigned
Null == 0       \* no previous hash, no object, no path

ASSUME CertificateChainAssumption ==
    /\ Requests # {}
    /\ TenantOf \in [Requests -> Tenants]
    /\ Services \in Seq({"tsa", "rekor"})
    /\ Faults \subseteq AllFaults
    /\ MaxAttempts \in Nat \ {0}
    /\ MaxIssues \in Nat
    /\ MaxSigned \in Nat
    /\ MaxDay \in Nat \ {0}

VARIABLES
    status,         \* CASCADE_COMPLETE or CERTIFICATE_ISSUED
    gcsPath,        \* certificate_gcs_path of each request
    head,           \* chain head document of each tenant
    entries,        \* certificate_chain_entries, keyed by hash
    objects,        \* certificate-<id>.json by path: hash of the certificate
    auditHash,      \* audit-hash-<id>.txt by path
    attested,       \* hashes the external services have seen
    signed,         \* signatures made so far
    day,            \* today, which is part of a GCS path
    call,           \* the executions in flight
    issues,         \* calls of issueAndStoreCertificate so far
    reopened        \* history: requests moved back from CERTIFICATE_ISSUED by
                    \* anything but the rollback of an issue

store == <<objects, auditHash>>
vars == <<status, gcsPath, head, entries, store, attested, signed, day, call, issues, reopened>>

CC == "CASCADE_COMPLETE"
CI == "CERTIFICATE_ISSUED"

Paths == [date: 1..MaxDay, req: Requests]
NoPath == [date |-> Null, req |-> Null]

CertPathOfTenantAndDay(r, date) ==     \* mutant: a path without the request id
    [date |-> date, req |-> CHOOSE q \in Requests : TenantOf[q] = TenantOf[r]]

\* certificates/<tenant>/<date>/certificate-<deletionRequestId>.json
CertPath(r, date) == [date |-> date, req |-> r]

NoHead == [sequence |-> 0, last_hash |-> Null]

NoCall == [pc |-> "idle", req |-> CHOOSE r \in Requests : TRUE, current |-> NoHead,
           hash |-> Null, attempt |-> 0, next |-> 0, path |-> NoPath]

At(t, p) == call[t].pc = p
Become(t, c) == call' = [call EXCEPT ![t] = c]
Tenant(t) == TenantOf[call[t].req]

Init ==
    /\ status = [r \in Requests |-> CC]
    /\ gcsPath = [r \in Requests |-> NoPath]
    /\ head = [tenant \in Tenants |-> NoHead]
    /\ entries = [h \in {} |-> Null]
    /\ objects = [p \in Paths |-> Null]
    /\ auditHash = [p \in Paths |-> Null]
    /\ attested = {}
    /\ signed = 0
    /\ day = 1
    /\ call = [t \in Threads |-> NoCall]
    /\ issues = 0
    /\ reopened = {}

ClaimableTwice(r) == TRUE              \* mutant: an issued certificate may be issued again

\* The transition to CERTIFICATE_ISSUED is allowed from CASCADE_COMPLETE alone.
Claimable(r) == status[r] = CC

\* The claim of CERTIFICATE_ISSUED, won by one caller per CASCADE_COMPLETE.
Claim(t, r) ==
    /\ At(t, "idle")
    /\ issues < MaxIssues
    /\ Claimable(r)
    /\ status' = [status EXCEPT ![r] = CI]
    /\ issues' = issues + 1
    /\ Become(t, [NoCall EXCEPT !.pc = "head", !.req = r, !.attempt = 1])
    /\ UNCHANGED <<gcsPath, head, entries, store, attested, signed, day, reopened>>

\* advanceRequest to CASCADE_COMPLETE, and the shortcut of a cascade with nothing
\* to clean up: the status is written without a claim, however long ago the
\* status was read that allowed it, so also over CERTIFICATE_ISSUED and while
\* the certificate is being issued.
CompleteAgain(r) ==
    /\ status[r] = CI
    /\ status' = [status EXCEPT ![r] = CC]
    /\ reopened' = reopened \cup {r}
    /\ UNCHANGED <<gcsPath, head, entries, store, attested, signed, day, call, issues>>

-----------------------------------------------------------------------------
(* appendToChain: one transaction per attempt *)

NextSequenceUnchanged(current) == current.sequence     \* mutant: not incremented

\* One more than the head's, or 1 for a tenant without one.
NextSequence(current) == current.sequence + 1

ReadHead(t) ==
    /\ At(t, "head")
    /\ Become(t, [call[t] EXCEPT !.pc = "sign", !.current = head[Tenant(t)]])
    /\ UNCHANGED <<status, gcsPath, head, entries, store, attested, signed, day, issues, reopened>>

SignClaims(t) ==
    /\ At(t, "sign")
    /\ signed < MaxSigned
    /\ signed' = signed + 1
    /\ Become(t, [call[t] EXCEPT !.pc = "commit", !.hash = signed + 1])
    /\ UNCHANGED <<status, gcsPath, head, entries, store, attested, day, issues, reopened>>

HeadUnchangedAssumed(c) == TRUE        \* mutant: plain writes, no transaction

\* Firestore commits only if the head is still the document this attempt read.
HeadUnchanged(c) == head[TenantOf[c.req]] = c.current

AfterContentionProceeds(c) == [c EXCEPT !.pc = "attest", !.next = 1]   \* mutant: as if won

\* Firestore runs the whole callback again, signing included, and gives up
\* after MaxAttempts.
AfterContention(c) ==
    IF c.attempt < MaxAttempts
    THEN [c EXCEPT !.pc = "head", !.attempt = @ + 1]
    ELSE [c EXCEPT !.pc = "rollback"]

\* The new head and the entry are written together.  An answer that is lost
\* looks to Firestore's client like contention.
Commit(t, answered) ==
    LET c == call[t] IN
    /\ At(t, "commit")
    /\ HeadUnchanged(c)
    /\ answered \/ "commit" \in Faults
    /\ head' = [head EXCEPT ![Tenant(t)] = [sequence |-> NextSequence(c.current),
                                             last_hash |-> c.hash]]
    /\ entries' = [h \in DOMAIN entries \cup {c.hash} |->
                     IF h = c.hash
                     THEN [tenant |-> Tenant(t), sequence |-> NextSequence(c.current),
                           previous |-> c.current.last_hash, req |-> c.req]
                     ELSE entries[h]]
    /\ Become(t, IF answered THEN [c EXCEPT !.pc = "attest", !.next = 1] ELSE AfterContention(c))
    /\ UNCHANGED <<status, gcsPath, store, attested, signed, day, issues, reopened>>

Contention(t) ==
    /\ At(t, "commit")
    /\ ~HeadUnchanged(call[t])
    /\ Become(t, AfterContention(call[t]))
    /\ UNCHANGED <<status, gcsPath, head, entries, store, attested, signed, day, issues, reopened>>

-----------------------------------------------------------------------------
(* After the commit *)

\* requestTimestamp and publishCertificateHash never throw; a request that
\* failed for the vault may still have reached the service.  Their results are
\* copied to the entry best-effort, which no reader relies on.
Attest(t, reached) ==
    LET c == call[t] IN
    /\ At(t, "attest")
    /\ c.next \in DOMAIN Services
    /\ attested' = IF reached
                   THEN attested \cup {[service |-> Services[c.next], hash |-> c.hash]}
                   ELSE attested
    /\ Become(t, [c EXCEPT !.next = @ + 1])
    /\ UNCHANGED <<status, gcsPath, head, entries, store, signed, day, issues, reopened>>

\* uploadCertificate: the wrapper first, under the date of now ...
SaveCertificate(t) ==
    LET c == call[t]
        path == CertPath(c.req, day)
    IN
    /\ At(t, "attest")
    /\ c.next \notin DOMAIN Services
    /\ objects' = [objects EXCEPT ![path] = c.hash]
    /\ Become(t, [c EXCEPT !.pc = "savehash", !.path = path])
    /\ UNCHANGED <<status, gcsPath, head, entries, auditHash, attested, signed, day, issues, reopened>>

\* ... then the audit hash beside it.
SaveHash(t) ==
    LET c == call[t] IN
    /\ At(t, "savehash")
    /\ auditHash' = [auditHash EXCEPT ![c.path] = c.hash]
    /\ Become(t, [c EXCEPT !.pc = "fields"])
    /\ UNCHANGED <<status, gcsPath, head, entries, objects, attested, signed, day, issues, reopened>>

\* certificate_gcs_path on the request; the call is over.
UpdateFields(t) ==
    /\ At(t, "fields")
    /\ gcsPath' = [gcsPath EXCEPT ![call[t].req] = call[t].path]
    /\ Become(t, NoCall)
    /\ UNCHANGED <<status, head, entries, store, attested, signed, day, issues, reopened>>

\* Signing or an upload throws: issueAndStoreCertificate rejects.
IssueFails(t) ==
    /\ \/ "sign" \in Faults /\ call[t].pc \in {"head", "sign", "commit"}
       \/ "upload" \in Faults /\ \/ At(t, "savehash")
                                 \/ At(t, "attest") /\ call[t].next \notin DOMAIN Services
    /\ Become(t, [call[t] EXCEPT !.pc = "rollback"])
    /\ UNCHANGED <<status, gcsPath, head, entries, store, attested, signed, day, issues, reopened>>

\* The catch clause rolls the status back, so a later call may claim again.
Rollback(t) ==
    /\ At(t, "rollback")
    /\ status' = [status EXCEPT ![call[t].req] = CC]
    /\ Become(t, NoCall)
    /\ UNCHANGED <<gcsPath, head, entries, store, attested, signed, day, issues, reopened>>

\* The instance dies, or the last write of the request throws: nothing is
\* rolled back, and CERTIFICATE_ISSUED stays.
Abandoned(t) ==
    /\ \/ "crash" \in Faults /\ ~At(t, "idle")
       \/ "fields" \in Faults /\ At(t, "fields")
    /\ Become(t, NoCall)
    /\ UNCHANGED <<status, gcsPath, head, entries, store, attested, signed, day, issues, reopened>>

\* Midnight.
NextDay ==
    /\ day < MaxDay
    /\ day' = day + 1
    /\ UNCHANGED <<status, gcsPath, head, entries, store, attested, signed, call, issues, reopened>>

Next ==
    \/ \E t \in Threads :
         \/ \E r \in Requests : Claim(t, r)
         \/ ReadHead(t) \/ SignClaims(t) \/ Contention(t)
         \/ \E answered \in BOOLEAN : Commit(t, answered)
         \/ \E reached \in BOOLEAN : Attest(t, reached)
         \/ SaveCertificate(t) \/ SaveHash(t) \/ UpdateFields(t)
         \/ IssueFails(t) \/ Rollback(t) \/ Abandoned(t)
    \/ \E r \in Requests : CompleteAgain(r)
    \/ NextDay

Spec == Init /\ [][Next]_vars

-----------------------------------------------------------------------------
(* Reading back *)

\* getCertificateByHash: the entry leads to the request, the request to the
\* object; Null is a 404.
getCertificateByHash(h) ==
    LET path == gcsPath[entries[h].req] IN
    IF h \notin DOMAIN entries \/ path = NoPath THEN Null ELSE objects[path]

\* getCertificateForUser, for a user whose key is gone and whose latest completed
\* request is r: the certificate that was issued and stored.  Null stands for
\* one signed for this answer alone, outside the chain and never kept.
getCertificateForUser(r) ==
    IF status[r] = CI /\ gcsPath[r] # NoPath THEN objects[gcsPath[r]] ELSE Null

-----------------------------------------------------------------------------
(* Properties *)

Entry == [tenant: Tenants, sequence: Hashes, previous: Hashes \cup {Null}, req: Requests]

\* Every document, object and execution has its shape.
TypeOK ==
    /\ status \in [Requests -> {CC, CI}]
    /\ gcsPath \in [Requests -> Paths \cup {NoPath}]
    /\ head \in [Tenants -> [sequence: Hashes \cup {0}, last_hash: Hashes \cup {Null}]]
    /\ DOMAIN entries \subseteq Hashes /\ entries \in [DOMAIN entries -> Entry]
    /\ objects \in [Paths -> Hashes \cup {Null}]
    /\ auditHash \in [Paths -> Hashes \cup {Null}]
    /\ attested \subseteq [service: {"tsa", "rekor"}, hash: Hashes]
    /\ signed \in Hashes \cup {0}
    /\ day \in 1..MaxDay
    /\ issues \in 0..MaxIssues
    /\ reopened \subseteq Requests

\* The hash chain of a tenant is a chain: sequence numbers 1 .. n, each taken
\* once; each entry names the certificate before it; the head is the last.
\* Two deletions that complete at once can never share a slot.
ChainLinked ==
    \A tenant \in Tenants :
        LET own == {h \in DOMAIN entries : entries[h].tenant = tenant} IN
        /\ \A n \in 1..head[tenant].sequence : \E h \in own : entries[h].sequence = n
        /\ \A h \in own :
             /\ entries[h].sequence <= head[tenant].sequence
             /\ entries[h].sequence = head[tenant].sequence => h = head[tenant].last_hash
             /\ \A g \in own : entries[g].sequence = entries[h].sequence => g = h
             /\ IF entries[h].sequence = 1 THEN entries[h].previous = Null
                ELSE /\ entries[h].previous \in own
                     /\ entries[entries[h].previous].sequence = entries[h].sequence - 1

\* Only the winning attempt of a contended append leaves the vault: what is
\* uploaded, and what the timestamping authority and the transparency log have
\* seen, is always a certificate of the chain.
OnlyChainedLeaves ==
    /\ \A p \in Paths : {objects[p], auditHash[p]} \subseteq DOMAIN entries \cup {Null}
    /\ \A a \in attested : a.hash \in DOMAIN entries

ChainedFor(h, r) == h \in DOMAIN entries /\ entries[h].req = r

\* The path recorded on a request leads to a chained certificate of that very
\* request, and the audit hash beside it is that of a chained certificate of the
\* request too, whatever failed, was retried or was issued twice on the way and
\* whether or not midnight passed.  The two are one certificate unless the
\* request was moved back and issued again: the second issue writes the same two
\* objects one after the other, and may fail between them.
RecordedCertificateIsOwn ==
    \A r \in Requests : gcsPath[r] # NoPath =>
        /\ ChainedFor(objects[gcsPath[r]], r)
        /\ ChainedFor(auditHash[gcsPath[r]], r)
        /\ r \notin reopened => auditHash[gcsPath[r]] = objects[gcsPath[r]]

\* "The exact one actually issued and chained": from the first time
\* GET /certificate/:userId serves the stored certificate of a request it serves
\* that one ever after, whatever is issued, rolled back or lost around it, for
\* every request that no CASCADE_COMPLETE write has moved back.
ServedCertificateStable ==
    [][\A r \in Requests : getCertificateForUser(r) # Null /\ r \notin reopened' =>
          getCertificateForUser(r)' = getCertificateForUser(r)]_vars

\* "Returns the certificate whose own hash matches": a lookup by the hash of a
\* chained certificate yields that certificate, or nothing (yet), even for a
\* request that nothing but a failed issue ever moved back.
LookupReturnsThatCertificate ==
    \A h \in DOMAIN entries :
        entries[h].req \notin reopened => getCertificateByHash(h) \in {Null, h}

\* The head documents and the hash index together are an append-only log.
chainOf(tenant) ==
    [n \in 1..head[tenant].sequence |->
       CHOOSE h \in DOMAIN entries : entries[h].tenant = tenant /\ entries[h].sequence = n]

Log == INSTANCE ChainLog WITH Certificates <- Hashes,
                              log <- [tenant \in Tenants |-> chainOf(tenant)]

\* Every step of the implementation appends one fresh certificate to one
\* tenant's log or leaves all logs alone; no entry is ever rewritten.
ImplementsLog == Log!Spec

=============================================================================
