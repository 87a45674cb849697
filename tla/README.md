# Formal model of the Chameleon key vault

The vault keeps one data-encryption key (DEK) document per user, destroys it on
request, drives a cascade of wipes through every system known to hold the user's
data, and issues a signed, hash-chained Certificate of Destruction. This directory
holds TLA+ modules for that core, TLC configurations that check them on small
instances, and TLAPS proofs of the properties that matter most.

## 1. Inventory

The vault is a stateless Fastify service on Cloud Run. Several instances run at
once; all state is in Firestore, KMS, BigQuery and GCS. An HTTP handler (or a
promise it leaves behind after the response) is a sequence of awaits, anything may
happen between two of them, and an instance may be reaped at any point.

| Component | State | Operations | Interacts with | What makes it correct |
|---|---|---|---|---|
| Deletion requests (`deletion-request-service`, `-repository`, `routes/deletion-requests`) | request document: status, status_history, janitor_wipes, timestamps | createRequest, advanceRequest (7 targets), background cascade | key registry, janitor, redaction, certificate service | certificate only after destruction and over real wipes; one per completion; terminal status final; no silent stall |
| Janitor, source redaction | none (plans are recomputed) | plan, wipe with retries, DLQ | key document's destinations, PII registry, SaaS connectors, BigQuery | every failure is visible in its result |
| Key registry and key routes (`firestore-registry`, `routes/crypto`) | key document: deks, activeDekId, status, destinations | generate, rotate, shred, encrypt, decrypt, contexts | KMS, deletion requests, ingestion workers | data readable until the shred, never after; the auditor's answer is true |
| Certificate service, signer, chain (`certificate-service`, `certificate-signer`, `certificate-chain-repository`, `gcs-client`) | chain head per tenant, entries by hash, GCS objects | issueAndStoreCertificate, lookup by user and by hash | deletion requests, KMS, TSA, Rekor, GCS | the chain is linked and append-only; only chained certificates leave; a path leads to its own certificate |
| Signing keys (`certificate-service`, `certificate-signer/sign`, `cloud-kms`) | key versions in KMS; three caches per instance | sign, fingerprint, /public-key, JWKS, rotate | KMS, GitHub Actions | a rotation reaches every signer in bounded time; every certificate verifies against the published keys |
| PII registry | declarations, per-instance memory, watermarks, shadow views | declare, remove, mark synced, mark sync attempted | cascade, sync, BigQuery | what is served was stored; watermarks only advance; a declared source is wiped |
| Sync runs | counters of chunks | create, finalizeTotal, recordChunkOutcome | ingestion workers | a run completes when all chunks did |
| Analyst access, service credentials | claims, credential hashes | create claim, claim, resolve, revoke | auth middleware | a claim link works once; a revoked credential does not |
| Decrypted views (`decrypted-view-service`, `decrypted-views-repository`, the batch-decrypt and ad-hoc decrypt routes) | the BigQuery view, its grant, the declaration | declare, revoke, query | BigQuery, keys | nothing is read through a view after a shred; no live view without a declaration that says what it exposes |
| Lineage, audit, logging | BigQuery rows | append | all | output only |
| Plumbing, verification libraries, Snowflake adapter | none | | | |

Hard behaviours: handlers of several instances interleave at every await; a status
is read, work is done, and a claim or an unconditional write follows; side effects
(shred, certificate) run after a committed claim and are rolled back when they
throw; the cascade outlives its response; a Firestore transaction may run its
callback several times; uploads fail after a commit; the key document is read and
written back without transactions. `PROJECT.json` lists each hazard at its line.

## 2. Plan

1. `DeletionRequests` (done): the state machine with its cascade and certificate
   gate, on instances that each have their own copy of the declarations; safety for
   arbitrary clients. `DeletionRequestsHistory` (done): what one execution can do to the
   cascade of another, the properties of the requests nothing was done to, liveness;
   proofs of the safety properties.
2. `KeyRegistry` (done): the key document under concurrent routes.
3. `CertificateChain` and `ChainLog` (done): the append transaction, storage and
   lookup, refining an append-only log.
4. `AnalystAccess` (done): claim links, sessions, service credentials and the auth
   hook. `SyncRuns` (done): progress of a sync under unreliable delivery.
   `PiiRegistry` (done): declarations and watermarks in store and memory.
5. `SigningKeys` (done): key versions and the caches of an instance against rotation.
   `DecryptedViews` (done): declare and revoke of views, composed with `KeyRegistry`.
6. Proofs of `CertificateChain`, `SigningKeys` and `DecryptedViews` (done).
7. Left: the janitor's retry loop and its dead-letter queue, the parts of the PII
   registry that `PiiRegistry` leaves out (policy evaluation, composition of the
   slices), and a composition of `DeletionRequests` with the rotation of `KeyRegistry`.
8. The refinement of `ChainLog`, the properties under the histories of disturbances and
   races, and the type invariants, for all constants (done): every safety property a
   passing run checks is proved. Left for proofs: whatever item 7 adds.

## 3. Modules

### DeletionRequests

One tenant. `status`, `completions` (the CASCADE_COMPLETE entries of
status_history), `wipes` (janitor_wipes) and `fields` (the `*_at` timestamps) are
the request document; `keyStatus` and `destinations` the key document; `declared`
the declarations in the PII registry's store, as resource labels, and `memory[i]` what
instance `i` knows of them; `chain` the certificates appended. Each execution is a record
`call[t]` whose `pc` names the await it is at and whose `instance` serves it; the other
fields are the handler's local variables (`seen` is `request.status`, `target` is
`newStatus`, `outcome` the results of the wipes, `sites` and `failed` what the
claims were built from, `completion` which completion the claim consumed). `left` are
the redactions and deletions that go on although the cascade which started them has
failed. `shredded` and `wiped` are history variables.

* `PostAdvance`, `DeleteKeyShred`, `PostDeletionRequest`, `PostKeyGenerate` start
  an execution; `AddDestinationToUser`, `UpsertEntry`, `RemoveEntry` change what a
  cascade will find, the last two in the store and in the memory of one instance;
  `Restart` replaces an instance by one that loaded the store, or, with the "load" fault,
  nothing (`main.ts:262-267`). `Ops` says which of them a run allows and `MaxCalls` how many.
* `AdvanceRead` is the read and the transition table; `PrepareCascadeTrigger` the
  plan; `ClaimTransition` the compare-and-swap; `ShredKeyForUser`, `UpdateFields`,
  `Rollback`, `WriteComplete` the cases of the switch; `CascadeReplan`, `WipeSite`,
  `RecordWipe`, `CascadeConclude` the promise behind the response;
  `ClaimsReadKey`, `ClaimsReadRequest`, `AppendToChain`, `UploadCertificate` the
  certificate. `Returned` and `Thrown` say what the caller of advanceRequest does
  with its result.
* The plan, the shortcut and the redactions read the memory of the execution's own
  instance, so two instances, or one before and after a restart, may plan differently with
  no declaration changed. The janitor, the redactions and the deletions start together:
  `WipeSite` is possible from the dispatch on, and when the janitor's plan read rejects
  (`ReplanFails`) what is still to be wiped moves to `left`, where each wipe ends in its own
  time (`LeftoverEnds`) beside the recovery, a retry and its certificate.
* `PlanFails`, `ShredFails`, `ReplanFails`, `CertificateFails`, `StorageFails`,
  `Crash` are the failures, enabled by `Faults`.

A connector's retries are folded into the one final outcome of `WipeSite`: they
change nothing but that outcome. Lineage events are left out: they are caught and
logged, and nothing reads them back.

`Disciplined` restricts `POST /advance` to the documented workflow (advance to
KEY_DESTROYED and CASCADE_PENDING, retry after a partial failure, ask for the
certificate after a completion). It keeps requests_workflow small; no theorem assumes it.

### DeletionRequestsHistory

Extends `DeletionRequests` with the fairness and two history variables that no guard
reads. `excused` collects the requests with an execution that was killed, or that rolled
its claim back and answered its own client with the failure. `disturbed[r]` collects what
has happened to `r` that its own cascades did not do, or did badly:

| Mark | Set when | What then goes wrong |
|---|---|---|
| restarted | CASCADE_IN_PROGRESS is claimed over CASCADE_PENDING, a client's advance past a running cascade | two cascades of one request |
| reported | an execution that is not the cascade claims a partial failure over a pending, running or complete cascade: a client, or the failed plan of a concurrent advance (`deletion-request-service.ts:165`) | the retry this invites runs beside the cascade |
| rolled_back | the rollback of a failed shred writes SHRED_REQUESTED over a request that has moved on (`deletion-request-service.ts:127`) | a second cascade; an issued request goes back |
| completed | a completion that is no cascade's: a client's, or the shortcut's (`deletion-request-service.ts:503`) | an issued request goes back; a running cascade is certified over |
| unplanned | a cascade's plan leaves out a site whose failure is recorded: the instance does not know the declaration, it was removed, or the key document is a new one | the retry completes, and the certificate is issued over the recorded failure |
| unrecorded | the write of an outcome is lost (`deletion-request-service.ts:396`) | the document keeps a failure that was mended, and the certificate is issued over it |

The properties speak of the requests without the marks that concern them:
`OneCascadeRecords` without the first three, `CertificateStaysIssued` without the first
four, `FailedWipeNeverCertified` without any. No mark can be dropped from the list: TLC
then finds OneCascadeRecords violated (restarted, reported), CertificateStaysIssued
(rolled_back, completed) or FailedWipeNeverCertified (unplanned, unrecorded), and each time
the trace is one of the code. The marks are not assumptions on the environment: all of
it happens in the run and under the theorems, and what is said is that nothing else does
harm. Leftover redactions of a failed plan are not among them: they record and decide
nothing.

### KeyRegistry

`doc` is the KeyMetadata of each user. A DEK is a number, a ciphertext the version
tag and the DEK under it; GCM makes decryption under another DEK fail. Generate is
check, mint, set; rotate is mint, read, update; the encryption context is two reads;
`/encrypt` and `/decrypt` read and then use a DEK. The batch routes run the same steps
for each user concurrently, which is several executions here. `destroyed`, `leaked` and
`raced` are history: `raced` collects, when a generate or a rotation replaces another
document than the one it was decided on, all DEKs of both. Such overlaps are explored like
any other: two generates of a new user, two rotations, or a rotation and a generate lose a
DEK in use, and a rotation around a shred brings a destroyed one back. The properties bound
the harm to those DEKs.

### CertificateChain and ChainLog

`head` and `entries` are the two Firestore collections written by the chain
transaction, `objects` and `auditHash` the two GCS objects of a path, `gcsPath` the
field on the request. An attempt of the transaction reads the head, signs and
commits if the head is unchanged; otherwise the callback runs again, up to
`MaxAttempts`; `MaxSigned` bounds the signatures, reruns included. A commit may also take
effect with its answer lost. Then come the attestations, the two uploads and the write of
the path; a failure rolls the request back to CASCADE_COMPLETE, a crash or a failed last
write leaves it. `CompleteAgain` is the unconditional write of CASCADE_COMPLETE
(`deletion-request-service.ts:503` and `:260`) landing on an issued request at any moment,
also while its certificate is in the making: a second issue may then run beside the first
or overwrite its objects of the same day, in two writes. `reopened` is history: the
requests this happened to. The library's locking makes some of these interleavings rarer than the model allows; none is
excluded by the code. `ChainLog` is the abstract append-only log per tenant.
`getCertificateByHash` and `getCertificateForUser` are the two lookups, evaluated in the
properties; the second is taken for one request, the user's latest completed one, and
answers with nothing kept when the path was never recorded.

### SigningKeys

`state` is the state of each key version in KMS, `cache[i][k]` the three caches of
instance `i`: "current" and "enabled" of the CertificateService, "signer" of the
CertificateSigner. A value is the set of versions it names. Every operation begins with
a lookup in its cache (`CacheOf`); a miss asks KMS (`KmsAnswers` is the moment the answer
is fixed) and stores what comes back (`StoreAnswer`), whatever happened to the cache
since. `AsymmetricSign`, `ServeJwks`, `CreateKeyVersion` are what follows. `Rotated` is
the end of a rotation with its invalidations, `WaitFails` the two-minute timeout or a
failed generation, `GenerationEnds` what KMS does in its own time, `Reap` the loss of an
instance. `now` is a clock; `Latency` is the longest a KMS call stays open (the client
library's deadline), `Ttl` the times to live of the caches. The JWK and the fingerprint
of a version never change, so their caches are left out; the dispatch of the JWKS
snapshot is best-effort output.

The model shows what the comment "takes effect right away" leaves out: a lookup that
asked KMS before the rotation and is answered after the invalidation puts the old version
back for a full time to live, and other instances are not told. `effective` is history:
the newest version an instance rotated to while no such answer was on its way.

### DecryptedViews

Extends `KeyRegistry` with `view` (the BigQuery view: whether it is there, what it
exposes, whether the consumer was granted) and `record` (the declaration in Firestore);
no transaction spans the two. `mcall[m]` is a declaration or a revocation and the await
it is at, in the order `Steps` gives. `CreateTable` fails when the name is taken,
`CreateLookup` when an active declaration is found (the view just created stays),
`RevokeRead` ends a revocation of what is not active, `MarkRevoked` marks whatever is
there by then, and `Dies` ends a call at any await. A query of a granted view
(`BatchDecrypt`) and the console's `PostPiiVaultDecrypt` run `DecryptPiiVaultValue`, whose
awaits are those of `/decrypt` in `KeyRegistry`: every step of the composition is a step
of the keys or leaves them alone. `disturbed` is history: what has happened to a view since it was
last revoked undisturbed.

What remains possible, and is why the properties speak of `disturbed`: a declaration that
dies after createTable leaves a live view that no revocation finds and no second
declaration can replace; a revocation that dies between the drop and the mark lets a
later declaration create a view with other fields than the active declaration says; and a
revocation overlapping a declaration marks the new view revoked.

### AnalystAccess

`records` is the AnalystAccess collection. A secret is a number that was never used
before and its hash is the secret itself: only equality matters. `Claim` is the read
and the checks of the service, `ClaimAndIssueCredential` the transaction (its answer
may be lost, and the library then runs the callback again), `ClaimLost` the 410;
`RevokeServiceCredentialsFor`, `RevokeUpdate` and `RevokeAnswer` are the query, the
parallel updates and the answer of the revocation. `resolveAuth` is the decision of
the auth hook, evaluated in the properties for every credential ever handed out, every
tenant header and every route of the three allowlists and a few outside. `handed` and
`cutOff` are history. A link whose commit took effect with its answer lost is used up
with no key handed out; expiry is checked before the transaction only; and no route
revokes an analyst's credential. None of this is contradicted by a property.

### SyncRuns

`run` is the document of one run; the other variables are the pipeline, which is
another repository and modelled from the routes it calls: it publishes chunks while it
enumerates, posts the total at the end, and reports each delivery on a best-effort
basis. Chunks may be delivered again after they were done, reports may be lost, and
`create` and `finalize-total` may be posted again. `recorded` and `twice` are history:
the counter cannot tell a redelivered chunk from a new one, so a run may be complete
before its last chunk if some completion was counted twice, and only then.

### PiiRegistry

One resource of one tenant. `store` is the Firestore declaration, `memory[i]` the copy
in the entries Map of instance `i`, `view` the SHADOW_COPY view. An entry is the number
of the write that made it, whether it has an updatedAtColumn, whether it wants the view,
and the two watermarks. A request is a record with the await it is at and what it
carries: `StoreUpsert`, `MemoryUpsert`, `DropView`, `CreateView` for a declaration,
`StoreDelete`, `MemoryDelete`, `DropView` for a removal, `Advance`, `Reconcile` for a
mark. `Abort` ends a request at its store write (a refused schema check, a failing
store, a declaration that is gone), `AnswerLost` does so after the write took effect,
`Restart` replaces an instance, with or without a successful loadAll. `persisted` and
`reached` are history.

The memory is never ahead of the store, but it may be behind, and the model shows how:
another instance wrote; a mark put back the entry it had read before an overlapping
declaration or removal; and every update replaces the entry in memory by one without
lastSyncedAt although the store keeps it, so that a sync reading the registry from this
instance scans everything until the next mark or restart. A mark that arrives after
updatedAtColumn was cleared stores a watermark that a later re-declaration resumes from.

## 4. Runs

All runs but pii_registry, where an instance can always restart, set
`CHECK_DEADLOCK FALSE`: clients make finitely many calls (`MaxCalls`, `MaxIssues`,
`MaxSigned`, `MaxSecrets`, `MaxDeliveries`), after which the system rests. Symmetry over
threads is used for invariants and action properties, none of which names a thread, and
never for liveness.

| Run | Bounds | Result |
|---|---|---|
| requests_open | 2 executions, 2 requests of 1 user, a connector and a redaction, 1 instance with restarts, 3 calls, all operations and faults, arbitrary advances | TypeOK, CertificateFollowsShred, OneCertificatePerCompletion, CertificateListsOnlyRealWipes hold (2.2 million states) |
| requests_workflow | 2 executions, 1 request, a connector that is reported on the way and a redaction; 1 instance that restarts with or without the declarations; 3 calls, disciplined, fair; all faults but storage | OneCascadeRecords, FailedWipeNeverCertified, CertificateStaysIssued, NoSilentStall hold (223,408) |
| requests_two_shortcuts | 2 instances, nothing to clean up, 2 calls, no fault | CertificateIsFinal violated |
| requests_failed_wipe | 2 instances, arbitrary advances, 2 calls, wipe fault | NoCertificateOverFailedWipe violated |
| keys_and_views | 2 executions of keys and 2 of views, 1 user, 1 view, 2 fields, 6 calls in all, writers overlapping | TypeOK, MaterialAgrees, CiphertextsReadable, DestroyedStaysClosed, NoUnrecordedView, RecordMatchesView hold (446,623) |
| keys_rotate_shred | rotate and shred may overlap | NoDecryptAfterShred violated |
| chain_append | 2 executions, 3 requests of 2 tenants, 2 issues, 2 attempts, 2 days, all faults, one attestation, unconditional completions at any time | TypeOK, ChainLinked, OnlyChainedLeaves, RecordedCertificateIsOwn, ImplementsLog, ServedCertificateStable hold (707,776) |
| chain_lookup_retry | 3 issues, failing uploads | LookupReturnsThatCertificate violated |
| signing_keys | 1 instance, 2 executions, 2 versions, times to live 1 and 2, latency 1, 5 ticks | TypeOK, SigningLagBounded, JwksComplete, RotationTakesEffect hold (3.8 million) |
| analyst_access | 2 executions, 2 tenants, 1 name, 3 secrets, 4 ticks, lost commits and failing updates | TypeOK, ClaimWorksOnce, GrantsInScope, CutOffForGood hold (475,220) |
| sync_runs | 3 chunks, 5 deliveries | TypeOK, CompleteMeansDone, NoRunLeftBehind, CompleteIsFinal hold (14,572) |
| pii_registry | 2 instances, 2 requests, 2 declarations, timestamps 1 and 2, marks of lastSyncedAt | TypeOK, HotPathNotAhead, WatermarksAdvance hold (1.4 million) |

Why the bounds are enough: the races in question are between two executions (one may
start again while the other sleeps), 3 calls cover a shred, its cascade and a
retry or a racing client, and every action and fault fires. Two secrets make a claim
and its key, a third is the rival's; five deliveries of three chunks include
redeliveries and failures; two declarations and two timestamps are what a regression
needs, and the second watermark, left out of the run for its size, goes through the
same operators. In the runs of the deletion requests an
instance differs from another only by its memory, and one that restarts with another
memory between two calls plans as another instance would; what two memories do within one
call's lifetime is covered by the theorems, which hold for any set of instances. Instances
of SigningKeys share nothing but KMS, and a rotation by another one is to this
one a version that appears in KMS; five ticks let the longest-lived answer be asked
for, stored, cached and used up. Six calls of keys and views cover a key, a ciphertext, a
declaration, a revocation and a second declaration of the same name, and one call
more. Two issues of two attempts each sign at
most four hashes and three issues six, which is `MaxSigned` in the two runs of the chain. The proofs remove the bounds, for every safety
property of the passing runs, and cover both watermarks of PiiRegistry.
Each violation run is a
disagreement between the code and one of its own comments, tests or documents,
quoted in the findings of `PROJECT.json`.

What the passing runs leave out or excuse, and why:

* requests_workflow restricts the clients to the documented workflow (the theorems do not)
  and leaves out the failure of the request document's own reads and writes: one after a
  claim strands the request, and nobody is told.
* requests_workflow, keys_and_views and chain_append excuse by history, never by leaving
  a step out. A request is disturbed, a DEK raced for or a request reopened because of a
  step that the run explores, and each is a real consequence of the code, listed in section
  3; `requests_two_shortcuts`, `requests_failed_wipe` and `keys_rotate_shred` show
  three of them as violations of what the code says of itself. In particular, a certificate
  is issued over a recorded failure in the documented workflow when an instance without
  declarations serves the retry, with no declaration changed.
* The cascade decides by the wipes of its own plan (`deletion-request-service.ts:426`), not
  by what the document records; this is why unplanned and unrecorded are needed.
* NoSilentStall excuses two kinds of requests by name (`excused`): those with an
  execution that was killed, which nothing in the code resumes, and those whose client's
  own call was answered with a failed shred or certificate. After the shortcut the
  certificate is issued by the route's own call, outside the promise whose catch reports a
  partial failure (`deletion-request-service.ts:311`, against the comments at 305 and 449);
  the client is answered the failure and has to ask again. A certificate that fails in the
  background cascade, where nobody is waiting, is not excused.

Each property has a mutant of a mapped definition (defined just before it, marked
"mutant") under which TLC finds it violated.

## 5. Fairness

`FairSpec` adds weak fairness of `Progress(t)`, together with what the histories note of
it, for each execution: every promise of the Google client libraries and of the connectors settles (they have timeouts), so
an execution that is not killed takes its next step. Clients are never assumed to
call again, and no fault is assumed to stop. Crashes happen in the run, but nothing in
the code resumes a request whose instance died after a claim (only a later call of a
client can), so such a request is excused. Storage failures are off: one after a
claim strands its request in the same way. SigningKeys has no liveness; its `Tick` waits for
open KMS calls, which is the deadline of the client library and not fairness.

## 6. Proofs

Every theorem holds for every value of the constants that satisfies its module's ASSUME;
none has a hypothesis of its own. Each module proves one or
more inductive invariants, layered so that a later one may use the earlier ones.

### DeletionRequestsProofs

For arbitrary clients, any set of instances and all faults:

* `TypeCorrect`: the lemmas state how each kind of update keeps an execution record in
  `Call`; then one step per action.
* `CertificateFollowsShredHolds`: `ShredInv` adds that a document reads SHREDDED only
  after a shred and that an execution past assertKeyShredded is about such a user (the
  key may have been generated again since).
* `OneCertificatePerCompletionHolds`: `ClaimInv` adds that every claim carries the number
  of the completion it consumed, that claims and entries of a request carry different
  numbers, and that none carries the number of a completion still to be claimed
  (`Spent`). The unconditional writes of CASCADE_COMPLETE are harmless for this property
  exactly because each one starts a new completion.
* `CertificateListsOnlyRealWipesHolds`: `WipeInv` follows a success from the connector
  through outcome, record, summary and chain.

Most actions change none of the variables an invariant depends on; `QuietStep` and
`EnvironmentFrame` deal with those once, and each remaining action has its lemma.

`HistoryImplementsSpec` shows that the specification with its histories implements
`Spec`. Over it, with every step and fault allowed, three layered invariants say what
holds of a request as long as it lacks certain marks. What they have in common is the
control of a step, stated once (`ControlEnds`, `StatusStep`, `FollowsStep`): which await and
target follow which, and how a step may change the status of its request.

* `CascadeInv`, without restarted, reported and rolled_back: what kind, target and `seen`
  say at each await, where the request of a cascade or of a retry can be, and that at most
  one execution owns a request from the dispatch of its cascade to the end of its
  certificate. A request that is retried is PARTIAL_FAILURE, which only the owner then
  writes, and as the last thing it does. Leftover redactions are no execution and own
  nothing. Gives `OneCascadeRecordsHolds`.
* `FinalInv`, without completed as well: a running cascade keeps its request pending or in
  progress, a certificate in the making or recorded keeps it issued, and the two exclude each
  other. Gives `CertificateStaysIssuedHolds`.
* `CleanInv`, without any mark: a cascade that concludes has tried every site recorded as
  failed and recorded its own outcome over it, so nothing failed is left when it goes on to
  CASCADE_COMPLETE, nor after. Gives `FailedWipeNeverCertifiedHolds`.

Each of the three says what it says only of the requests that lack its marks, so a step
that sets one has nothing more to show of its request. TLC has checked the invariants as well, on the instance of requests_workflow
and on an undisciplined one with all operations and faults. `FairSafety` draws the three
properties for the behaviours requests_workflow explores.

### CertificateChainProofs

`ChainLinkedHolds`, `OnlyChainedLeavesHolds`, `RecordedCertificateIsOwnHolds`, the action
property `ServedCertificateStableHolds`, `ChainTypeCorrect`, and `ChainImplementsLog`: the
transaction with its reruns and lost answers implements `ChainLog`. `Fresh` (a hash about
to be committed is in no entry and held by no other attempt) and `HeadIsEntry` make
ChainLinked inductive, by the one lemma `AppendLinks`; `Past` follows a hash from its
commit to the objects; `Stored` says that an object at a path is a chained certificate of
the path's request, reopened or not; `Owned` says that one execution at a time works for a
request that was not reopened, and none once it has its path, which is why no writer
touches what it is served. `CompleteAgain` ends that for the request it reopens and for no
other. For the type invariant `Bounds` says that sequence numbers and hashes stay
within what was signed. For the refinement only a commit, its answer lost or not, is an
append, of the entry whose predecessor the compared head names; every other step maps to
a stutter.

### KeyRegistryProofs

`MaterialAgreesHolds`, `KeysTypeCorrect`, `CiphertextsReadableHolds` and
`DestroyedStaysClosedHolds`, with any overlap of writers and readers.

* `DocumentInv` adds what a rotation carries between its read and its update: a document
  that was itself in agreement, so that even the update that undoes a shred writes status
  and DEKs that belong together.
* `KeysInv`: versions are numbered 1 to n without gaps, with distinct DEKs that were
  generated (`Numbered`), also in the stale document of a rotation (`Knows`); a DEK about
  to be written is in no document, was never destroyed and is held by one execution
  (`Unshared`); there are no more DEKs, generated or under way, than calls (`Counting`).
* `ShredInv`: no two users have a DEK in common, in their documents or in what an
  execution read of them, and a document holds a destroyed DEK only if a rotation raced for
  it (`Apart`); the DEK of every ciphertext, stored or about to be, is found under its
  version unless it was destroyed or raced for (`Opens`), and a plaintext about to be
  returned was not closed by a shred before, unless a rotation raced for its DEK (`Holds`).

`WriteKinds` is what makes it inductive: a write drops what was in the document, or puts
back what was not, only if it raced, and `RacedStep` says which DEKs a race puts at stake.
keys_rotate_shred is the counterexample to leaving the race out of the second property.

### DecryptedViewsProofs

`ViewsImplementKeys` (the composition implements `KeyRegistry`), from which
`MaterialAgreesUnderViews` and `ShredHoldsUnderViews` carry the theorems above to the
composition; `NoUnrecordedViewHolds` and `RecordMatchesViewHolds`. `ViewInv` adds what a
call that is alone on its view knows of it between two awaits (`Midway`), and that
overlapping calls are marked as such (`Overlaps`).

### AnalystAccessProofs

`AccessTypeCorrect`, `ClaimWorksOnceHolds`, `GrantsInScopeHolds`, `CutOffForGoodHolds`. One
invariant for the four: two documents never carry one credential (`KeysApart`); an attempt
to claim holds a key no document but its own has and no other attempt holds (`Claiming`);
what a revocation has not got to it has revoked or failed to (`Revoking`); whatever a
caller received is what a document says, and a link is behind one key (`Issued`,
`IssuedOnce`). resolveAuth finds by credential, so `KeysApart` is what makes its answer
that document's.

### SyncRunsProofs, PiiRegistryProofs, SigningKeysProofs

* `CompleteMeansDoneHolds`, `NoRunLeftBehindHolds`, the action property
  `CompleteIsFinalHolds`, `SyncRunsTypeCorrect`. `RunInv` ties the counter to the history:
  without a double count it is the number of recorded chunks, and it is never less; the
  total, once posted, is the number of published chunks; and the status is complete
  exactly when the total is posted and reached. `Budget` bounds the counters by the
  deliveries: what is counted, failed or still being reported was delivered.
* `HotPathNotAheadHolds`, the action property `WatermarksAdvanceHolds`,
  `PiiRegistryTypeCorrect`. HotPathNotAhead is not inductive: `BackedInv` follows an entry
  from the store through the request that carries it (`RequestInv`), so that the entry a
  request puts in memory awaits later is known to have been stored.
* `SigningKeysTypeOK`, `RotationReachesEverySigner`, `JwksListsEveryVersion`,
  `RotationIsImmediate`, for every time to live and latency. `Aged` says how long ago a
  version that an answer or a cache lacks can have become ENABLED, at each place an answer
  passes through; `Floored` what a signer can still learn after an invalidation.

### What is assumed, and what is only model-checked

Assumptions: the constants' types; `Requests`, `Users`, `Instances`, `Views`, `Fields`,
`Tenants`, `Names` not empty where a module declares them; finitely many chunks; `None`
not an entry. Nothing about the number of executions, instances or clients, and nothing
about failures, clients or the order of calls.

Only model-checked: `NoSilentStall`, the liveness property, which is out of the prover's
reach (fairness, ENABLED); and the four runs that end in a violation.

## 7. Not modelled

Request validation, the shared API key, logging, BigQuery SQL, cryptographic encodings,
TSA and Rekor verification, the Snowflake adapter, health and version routes: no
state a property is about. The janitor's retries change nothing but the final outcome
of a wipe, which is modelled, and what they leave in the dead-letter queue has no
consumer in this repository. GET /certificate/latest delegates to the lookup by user; that it fails once the
user has a new key is listed among the hazards and not modelled, since the chain's model
has no keys. The audit event of an ad-hoc decrypt, the check of BigQuery's token in
batch-decrypt and the view's SQL are left out. Several tenants matter for the certificate chain and for
credentials and are modelled there. Key rotation is modelled in
KeyRegistry and is not an operation of DeletionRequests: what it does to an ongoing
deletion is what `keys_rotate_shred` shows.
