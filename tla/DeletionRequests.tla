-------------------------- MODULE DeletionRequests --------------------------
(***************************************************************************)
(* The deletion-request state machine of the vault: the Firestore document *)
(* of each request, the advanceRequest handler with its compare-and-swap   *)
(* claims, the background cascade of wipes it dispatches, and the issuing  *)
(* of the certificate, run by any number of concurrent executions.         *)
(*                                                                         *)
(* An execution (an HTTP handler, or the background promise it leaves      *)
(* behind) is a call record call[t], served by one instance, and every     *)
(* await on Firestore, KMS, GCS or a connector is one step: anything may   *)
(* happen between two awaits.  What an instance keeps between calls is its *)
(* copy of the declarations, loaded when it boots and changed by the       *)
(* declarations it serves itself.  One tenant is modelled.                 *)
(***************************************************************************)
EXTENDS Naturals, Sequences

CONSTANTS
    Threads,        \* executions that may be in flight at once
    Instances,      \* instances of the service
    Requests,       \* operation ids, which are the document ids
    Users,
    Owner,          \* the user each operation id is used for
    Destinations,   \* names a lineage event may report
    Connectors,     \* the destinations with a registered SaaS connector
    RedactSites,    \* "<resourceId>::REDACT_IN_PLACE" labels
    CopySites,      \* "<resourceId>::ENCRYPTED_COPY" labels
    HasKey,         \* users whose key exists at the start
    Known,          \* destinations of each user at the start
    Declared,       \* resource labels declared at the start
    Ops,            \* the operations the environment performs
    Faults,         \* the calls that may fail
    Disciplined,    \* clients advance along the documented workflow only
    MaxCalls        \* bound on the calls the environment makes

Resources == RedactSites \cup CopySites
Sites == Connectors \cup Resources

AllOps == {"advance", "shred", "create", "generate", "lineage", "declare", "remove",
           "restart"}
AllFaults == {"plan", "replan", "shred", "wipe", "record", "cert", "storage", "load", "crash"}

ASSUME ConstantsAssumption ==
    /\ Instances # {}
    /\ Requests # {}
    /\ Owner \in [Requests -> Users]
    /\ Connectors \subseteq Destinations
    /\ HasKey \subseteq Users
    /\ Known \in [Users -> SUBSET Destinations]
    /\ Declared \subseteq Resources
    /\ Ops \subseteq AllOps
    /\ Faults \subseteq AllFaults
    /\ Disciplined \in BOOLEAN
    /\ MaxCalls \in Nat

SR  == "SHRED_REQUESTED"
KD  == "KEY_DESTROYED"
CP  == "CASCADE_PENDING"
CIP == "CASCADE_IN_PROGRESS"
CC  == "CASCADE_COMPLETE"
PF  == "CASCADE_PARTIAL_FAILURE"
CI  == "CERTIFICATE_ISSUED"

DeletionRequestStatus == {SR, KD, CP, CIP, CC, PF, CI}
Absent == "ABSENT"      \* no document

VARIABLES
    status,         \* status field of each request's document
    completions,    \* number of CASCADE_COMPLETE entries of its status_history
    wipes,          \* janitor_wipes: the recorded outcome per site
    fields,         \* the *_at timestamps attached to it
    keyStatus,      \* status field of the user's key document, or NONE
    destinations,   \* destinations array of the key document
    declared,       \* resource labels in the PII registry's store
    memory,         \* resource labels in the registry of each instance
    chain,          \* the tenant's certificate chain
    call,           \* the executions in flight
    calls,          \* calls made so far
    left,           \* wipes that go on although their cascade gave up on them
    shredded,       \* history: users whose DEKs were removed at least once
    wiped           \* history: sites really wiped on behalf of each request

docVars == <<status, completions, wipes, fields>>
keyVars == <<keyStatus, destinations, shredded>>
registryVars == <<declared, memory>>
wipeVars == <<left, wiped>>
world == <<docVars, keyVars, registryVars, chain, calls, wipeVars>>
vars == <<world, call>>

-----------------------------------------------------------------------------
(* Executions *)

Outcomes == {"NONE", "SUCCEEDED", "FAILED"}
FieldNames == {"key_destroyed_at", "cascade_initiated_at", "certificate_issued_at"}
Kinds == {"none", "advance", "shred", "create", "generate", "cascade", "recovery"}
Points == {"idle", "lookup", "keystatus", "query", "create", "gencheck", "genset",
           "read", "plan", "claim", "shred", "fields", "replan", "wipe", "record",
           "complete", "keyread", "docread", "append", "upload", "rollback"}

NoOutcome == [s \in Sites |-> "NONE"]

Call == [pc: Points, kind: Kinds, instance: Instances, req: Requests,
         target: DeletionRequestStatus, seen: DeletionRequestStatus,
         resources: SUBSET Resources, todo: SUBSET Sites,
         outcome: [Sites -> Outcomes],
         sites: SUBSET Sites, failed: SUBSET Sites, completion: Nat]

\* An execution of a new call, about to take its first step.
Fresh(i, pc, kind, r, newStatus) ==
    [pc |-> pc, kind |-> kind, instance |-> i, req |-> r, target |-> newStatus, seen |-> SR,
     resources |-> {}, todo |-> {}, outcome |-> NoOutcome,
     sites |-> {}, failed |-> {}, completion |-> 0]

NoCall == Fresh(CHOOSE i \in Instances : TRUE, "idle", "none", CHOOSE r \in Requests : TRUE, SR)

\* advanceRequest returned normally.  DELETE /key/shred goes on from
\* KEY_DESTROYED to CASCADE_PENDING; for every other caller the call is over.
Returned(c) ==
    IF c.kind = "shred" /\ c.target = KD
    THEN [c EXCEPT !.pc = "read", !.target = CP]
    ELSE NoCall

ThrownUncaught(c) == NoCall   \* mutant: the cascade without its catch clause

\* advanceRequest threw.  A route answers 500; the cascade's catch clause tries
\* once to force CASCADE_PARTIAL_FAILURE, and only logs if that throws too.
Thrown(c) ==
    IF c.kind = "cascade"
    THEN [c EXCEPT !.pc = "read", !.kind = "recovery", !.target = PF, !.todo = {}]
    ELSE NoCall

At(t, p) == call[t].pc = p
Become(t, c) == call' = [call EXCEPT ![t] = c]
Move(t, p) == Become(t, [call[t] EXCEPT !.pc = p])
Return(t) == Become(t, Returned(call[t]))
Throw(t) == Become(t, Thrown(call[t]))
Stop(t) == Become(t, NoCall)
User(t) == Owner[call[t].req]

\* A write of the status field; status_history gets one entry per write.
SetStatus(r, s) ==
    /\ status' = [status EXCEPT ![r] = s]
    /\ completions' = [completions EXCEPT ![r] = IF s = CC THEN @ + 1 ELSE @]

-----------------------------------------------------------------------------
\* What an instance knows once it has booted: the declarations of the store, or
\* none when they could not be loaded.
Loads(D) == {D} \cup (IF "load" \in Faults THEN {{}} ELSE {})

Init ==
    /\ status = [r \in Requests |-> Absent]
    /\ completions = [r \in Requests |-> 0]
    /\ wipes = [r \in Requests |-> NoOutcome]
    /\ fields = [r \in Requests |-> {}]
    /\ keyStatus = [u \in Users |-> IF u \in HasKey THEN "ACTIVE" ELSE "NONE"]
    /\ destinations = [u \in Users |-> IF u \in HasKey THEN Known[u] ELSE {}]
    /\ declared = Declared
    /\ memory \in [Instances -> Loads(Declared)]
    /\ chain = <<>>
    /\ call = [t \in Threads |-> NoCall]
    /\ calls = 0
    /\ left = {}
    /\ shredded = {}
    /\ wiped = [r \in Requests |-> {}]

-----------------------------------------------------------------------------
(* Calls the environment makes *)

\* The documented workflow of a client: KEY_DESTROYED, CASCADE_PENDING, a retry
\* once it sees a partial failure, the certificate once it sees completion.
FollowsWorkflow(r, newStatus) ==
    \/ newStatus \in {KD, CP}
    \/ newStatus = CIP /\ status[r] = PF
    \/ newStatus = CI /\ status[r] = CC

Begin(t, op, c) ==
    /\ op \in Ops
    /\ calls < MaxCalls
    /\ At(t, "idle")
    /\ calls' = calls + 1
    /\ Become(t, c)
    /\ UNCHANGED <<docVars, keyVars, registryVars, chain, wipeVars>>

\* POST /deletion-requests/:id/advance.  Its tenant check reads the document
\* that advanceRequest reads again; documents are never deleted.
PostAdvance(t, i, r, newStatus) ==
    /\ status[r] # Absent
    /\ Disciplined => FollowsWorkflow(r, newStatus)
    /\ Begin(t, "advance", Fresh(i, "read", "advance", r, newStatus))

\* DELETE /key/shred
DeleteKeyShred(t, i, r) == Begin(t, "shred", Fresh(i, "lookup", "shred", r, KD))

\* POST /deletion-requests
PostDeletionRequest(t, i, r) == Begin(t, "create", Fresh(i, "query", "create", r, SR))

\* POST /key/generate for the user of r
PostKeyGenerate(t, i, r) == Begin(t, "generate", Fresh(i, "gencheck", "generate", r, SR))

EnvironmentStep(op) ==
    /\ op \in Ops
    /\ calls < MaxCalls
    /\ calls' = calls + 1
    /\ UNCHANGED <<docVars, keyStatus, shredded, chain, call, wipeVars>>

\* POST /lineage/events.  The update of the key document fails, and the failure
\* is swallowed, when the user has no key document.
AddDestinationToUser(u, d) ==
    /\ destinations' = IF keyStatus[u] = "NONE" THEN destinations
                       ELSE [destinations EXCEPT ![u] = @ \cup {d}]
    /\ UNCHANGED registryVars
    /\ EnvironmentStep("lineage")

\* upsertEntry and removeEntry of the PII registry, on the instance that serves the
\* call: the store, then the memory of this instance and of no other.
UpsertEntry(i, s) ==
    /\ declared' = declared \cup {s}
    /\ memory' = [memory EXCEPT ![i] = @ \cup {s}]
    /\ UNCHANGED destinations
    /\ EnvironmentStep("declare")

RemoveEntry(i, s) ==
    /\ s \in memory[i]
    /\ declared' = declared \ {s}
    /\ memory' = [memory EXCEPT ![i] = @ \ {s}]
    /\ UNCHANGED destinations
    /\ EnvironmentStep("remove")

\* A new instance takes the place of one that is not serving anybody, and of the
\* wipes it still ran.
Restart(i) ==
    /\ "restart" \in Ops
    /\ \A t \in Threads : At(t, "idle") \/ call[t].instance # i
    /\ \E D \in Loads(declared) : memory' = [memory EXCEPT ![i] = D]
    /\ left' = {w \in left : w.instance # i}
    /\ UNCHANGED <<docVars, keyVars, declared, chain, calls, wiped, call>>

-----------------------------------------------------------------------------
(* DELETE /key/shred and createRequest *)

\* getRequest(operationId): an existing request is answered as it is.
ShredLookup(t) ==
    /\ At(t, "lookup")
    /\ IF status[call[t].req] # Absent THEN Stop(t) ELSE Move(t, "keystatus")
    /\ UNCHANGED world

\* 404 without a key document; a shredded key is answered with status
\* CERTIFICATE_ISSUED and no request is created.
ShredKeyStatus(t) ==
    /\ At(t, "keystatus")
    /\ IF keyStatus[User(t)] = "ACTIVE" THEN Move(t, "query") ELSE Stop(t)
    /\ UNCHANGED world

ActiveStatuses == {SR, KD, CP, CIP, PF}

\* getActiveDeletionRequestForUser: an active request of the user is handed back.
CreateQuery(t) ==
    /\ At(t, "query")
    /\ IF \E r \in Requests : Owner[r] = User(t) /\ status[r] \in ActiveStatuses
       THEN Stop(t) ELSE Move(t, "create")
    /\ UNCHANGED world

\* createDeletionRequest: transactional on the document id alone, so an id that
\* exists by now is returned as if it were new.
CreateDocument(t) ==
    LET r == call[t].req IN
    /\ At(t, "create")
    /\ status' = [status EXCEPT ![r] = IF @ = Absent THEN SR ELSE @]
    /\ IF call[t].kind = "shred" THEN Move(t, "read") ELSE Stop(t)
    /\ UNCHANGED <<completions, wipes, fields, keyVars, registryVars, chain, calls,
                   wipeVars>>

-----------------------------------------------------------------------------
(* POST /key/generate: check, then overwrite the whole key document *)

GenerateCheck(t) ==
    /\ At(t, "gencheck")
    /\ IF keyStatus[User(t)] = "ACTIVE" THEN Stop(t) ELSE Move(t, "genset")
    /\ UNCHANGED world

SetKeyForUser(t) ==
    /\ At(t, "genset")
    /\ keyStatus' = [keyStatus EXCEPT ![User(t)] = "ACTIVE"]
    /\ destinations' = [destinations EXCEPT ![User(t)] = {}]
    /\ Stop(t)
    /\ UNCHANGED <<docVars, shredded, registryVars, chain, calls, wipeVars>>

-----------------------------------------------------------------------------
(* advanceRequest *)

transitions == [s \in DeletionRequestStatus |->
    CASE s = SR  -> {KD, PF}
      [] s = KD  -> {CP, PF}
      [] s = CP  -> {CIP, CC, PF}
      [] s = CIP -> {CC, PF}
      [] s = PF  -> {CIP}
      [] s = CC  -> {CI, PF}
      [] s = CI  -> {}]

\* mutant: no terminal status
isValidTransitionFromIssued(current, newStatus) ==
    \/ current = CI /\ newStatus = KD
    \/ current # Absent /\ newStatus \in transitions[current]

isValidTransition(current, newStatus) ==
    current # Absent /\ newStatus \in transitions[current]

\* Read the document, validate, enter the case of the switch.
AdvanceRead(t) ==
    LET c == call[t] IN
    /\ At(t, "read")
    /\ IF isValidTransition(status[c.req], c.target)
       THEN Become(t, [c EXCEPT !.seen = status[c.req],
                                !.pc = CASE c.target \in {CP, CIP} -> "plan"
                                         [] c.target = CC -> "complete"
                                         [] OTHER -> "claim"])
       ELSE Throw(t)
    /\ UNCHANGED world

Tasks(u) == destinations[u] \cap Connectors

\* The kinds of resource of which this instance knows at least one.
PlannedResources(i) ==
    UNION {S \in {RedactSites, CopySites} : S \cap memory[i] # {}}

\* prepareCascadeTrigger: nothing to clean up, as far as the key document and
\* this instance know, is the shortcut to CASCADE_COMPLETE; otherwise remember
\* which kinds of resource were planned.
PrepareCascadeTrigger(t) ==
    LET i == call[t].instance IN
    /\ At(t, "plan")
    /\ IF Tasks(User(t)) \cup memory[i] = {}
       THEN Move(t, "complete")
       ELSE Become(t, [call[t] EXCEPT !.pc = "claim",
                                      !.resources = PlannedResources(i)])
    /\ UNCHANGED world

\* The plan could not be built: a first attempt advances to
\* CASCADE_PARTIAL_FAILURE, a retry leaves the request as it is.
PlanFails(t) ==
    /\ "plan" \in Faults
    /\ At(t, "plan")
    /\ IF call[t].target = CP
       THEN Become(t, [call[t] EXCEPT !.pc = "read", !.target = PF])
       ELSE Return(t)
    /\ UNCHANGED world

ClaimHoldsAlways(c) == TRUE   \* mutant: a plain update in place of the transaction

\* The status in the document is still the one this call read.
ClaimHolds(c) == status[c.req] = c.seen

\* claimTransition: compare-and-swap on the status this call read.  The loser
\* returns the winner's state without running the handler.
ClaimTransition(t) ==
    LET c == call[t] IN
    /\ At(t, "claim")
    /\ IF ClaimHolds(c)
       THEN /\ SetStatus(c.req, c.target)
            /\ CASE c.target = KD -> Move(t, "shred")
                 [] c.target \in {CP, CIP} -> Move(t, "fields")
                 [] c.target = CI ->
                      Become(t, [c EXCEPT !.pc = "keyread",
                                          !.completion = completions[c.req]])
                 [] OTHER -> Return(t)
       ELSE Return(t) /\ UNCHANGED <<status, completions>>
    /\ UNCHANGED <<wipes, fields, keyVars, registryVars, chain, calls, wipeVars>>

\* shredKeyForUser
ShredKeyForUser(t) ==
    /\ At(t, "shred")
    /\ keyStatus' = [keyStatus EXCEPT ![User(t)] = "SHREDDED"]
    /\ shredded' = shredded \cup {User(t)}
    /\ Move(t, "fields")
    /\ UNCHANGED <<docVars, destinations, registryVars, chain, calls, wipeVars>>

\* The write of the key document is reported as failed, whether it was lost or
\* took effect before the answer was.
ShredFails(t) ==
    /\ "shred" \in Faults
    /\ At(t, "shred")
    /\ \/ UNCHANGED <<keyStatus, shredded>>
       \/ /\ keyStatus' = [keyStatus EXCEPT ![User(t)] = "SHREDDED"]
          /\ shredded' = shredded \cup {User(t)}
    /\ Move(t, "rollback")
    /\ UNCHANGED <<docVars, destinations, registryVars, chain, calls, wipeVars>>

\* The unconditional write of the status the claim moved from, then the rethrow.
Rollback(t) ==
    /\ At(t, "rollback")
    /\ SetStatus(call[t].req, call[t].seen)
    /\ Throw(t)
    /\ UNCHANGED <<wipes, fields, keyVars, registryVars, chain, calls, wipeVars>>

\* mutant: the camelCase alias of the API written to the document
FieldOfAlias(s) ==
    CASE s = KD -> "keyDestroyedAt"
      [] s = CI -> "certificate_issued_at"
      [] OTHER  -> "cascade_initiated_at"

FieldOf(s) ==
    CASE s = KD -> "key_destroyed_at"
      [] s = CI -> "certificate_issued_at"
      [] OTHER  -> "cascade_initiated_at"

\* updateDeletionRequestFields, then for a cascade afterStatusPersisted: the
\* response goes out and the same execution lives on as the background cascade.
\* processCleanup, redactUserInDeclaredSources and deleteUserFromEncryptedCopies
\* start together; the latter two plan again here, from this instance's registry,
\* each only if its first plan was not empty.
UpdateFields(t) ==
    LET c == call[t] IN
    /\ At(t, "fields")
    /\ fields' = [fields EXCEPT ![c.req] = @ \cup {FieldOf(c.target)}]
    /\ IF c.target \in {CP, CIP}
       THEN Become(t, [c EXCEPT !.pc = "replan", !.kind = "cascade",
                                !.todo = c.resources \cap memory[c.instance]])
       ELSE Return(t)
    /\ UNCHANGED <<status, completions, wipes, keyVars, registryVars, chain, calls,
                   wipeVars>>

-----------------------------------------------------------------------------
(* The background cascade *)

\* processCleanup builds its own plan from the key document, while redactions and
\* deletions already run.
CascadeReplan(t) ==
    /\ At(t, "replan")
    /\ Become(t, [call[t] EXCEPT !.pc = "wipe", !.todo = @ \cup Tasks(User(t))])
    /\ UNCHANGED world

\* That read is not guarded inside processCleanup: the Promise.all rejects, and
\* nobody waits any more for the redactions and deletions, which go on.
ReplanFails(t) ==
    LET c == call[t] IN
    /\ "replan" \in Faults
    /\ At(t, "replan")
    /\ left' = left \cup [instance: {c.instance}, req: {c.req}, site: c.todo]
    /\ Throw(t)
    /\ UNCHANGED <<docVars, keyVars, registryVars, chain, calls, wiped>>

\* One connector, redaction or encrypted-copy deletion ran to its final result
\* (the janitor's retries included).
WipeSite(t, s, result) ==
    /\ call[t].pc \in {"replan", "wipe"}
    /\ s \in call[t].todo
    /\ result = "FAILED" => "wipe" \in Faults
    /\ Become(t, [call[t] EXCEPT !.todo = @ \ {s}, !.outcome[s] = result])
    /\ wiped' = IF result = "SUCCEEDED"
                THEN [wiped EXCEPT ![call[t].req] = @ \cup {s}] ELSE wiped
    /\ UNCHANGED <<docVars, keyVars, registryVars, chain, calls, left>>

\* A wipe nobody waits for ends, or dies with its instance; its result is
\* recorded nowhere.
LeftoverEnds(w, result) ==
    /\ w \in left
    /\ result = "FAILED" => {"wipe", "crash"} \cap Faults # {}
    /\ left' = left \ {w}
    /\ wiped' = IF result = "SUCCEEDED"
                THEN [wiped EXCEPT ![w.req] = @ \cup {w.site}] ELSE wiped
    /\ UNCHANGED <<docVars, keyVars, registryVars, chain, calls, call>>

\* Promise.all resolves.
WipesDone(t) ==
    /\ At(t, "wipe")
    /\ call[t].todo = {}
    /\ Become(t, [call[t] EXCEPT !.pc = "record",
                                  !.todo = {s \in Sites : call[t].outcome[s] # "NONE"}])
    /\ UNCHANGED world

\* updateJanitorWipeStatus, one transaction per site; a failed write is swallowed.
RecordWipe(t, s) ==
    LET c == call[t] IN
    /\ At(t, "record")
    /\ s \in c.todo
    /\ \/ wipes' = [wipes EXCEPT ![c.req][s] = c.outcome[s]]
       \/ "record" \in Faults /\ UNCHANGED wipes
    /\ Become(t, [c EXCEPT !.todo = @ \ {s}])
    /\ UNCHANGED <<status, completions, fields, keyVars, registryVars, chain, calls,
                   wipeVars>>

CascadeOutcomeIgnored(c) == CC   \* mutant: completion whatever the results

\* The status the cascade advances to depends on the results, not the records.
CascadeOutcome(c) ==
    IF \E s \in Sites : c.outcome[s] = "FAILED" THEN PF ELSE CC

CascadeConclude(t) ==
    /\ At(t, "record")
    /\ call[t].todo = {}
    /\ Become(t, [call[t] EXCEPT !.pc = "read", !.target = CascadeOutcome(call[t])])
    /\ UNCHANGED world

-----------------------------------------------------------------------------
(* Completion and the certificate *)

\* CASCADE_COMPLETE, from the cascade or by shortcutToCascadeComplete: an
\* unconditional write, then advanceRequest(CERTIFICATE_ISSUED).
WriteComplete(t) ==
    /\ At(t, "complete")
    /\ SetStatus(call[t].req, CC)
    /\ Become(t, [call[t] EXCEPT !.pc = "read", !.target = CI])
    /\ UNCHANGED <<wipes, fields, keyVars, registryVars, chain, calls, wipeVars>>

KeyShreddedUnchecked(u) == TRUE   \* mutant: generateClaims without its assertion

\* assertKeyShredded
KeyShredded(u) == keyStatus[u] = "SHREDDED"

\* generateClaims reads the key document and insists that it is shredded ...
ClaimsReadKey(t) ==
    /\ At(t, "keyread")
    /\ Move(t, IF KeyShredded(User(t)) THEN "docread" ELSE "rollback")
    /\ UNCHANGED world

\* mutant: the summary without its filter on SUCCEEDED
LineageSummaryUnfiltered(r) == {s \in Sites : wipes[r][s] # "NONE"}

\* lineageSummary: the sites recorded as SUCCEEDED
LineageSummary(r) == {s \in Sites : wipes[r][s] = "SUCCEEDED"}

\* ... then the request, which must be complete, and summarises its wipes.
ClaimsReadRequest(t) ==
    LET r == call[t].req IN
    /\ At(t, "docread")
    /\ IF status[r] \in {CC, CI}
       THEN Become(t, [call[t] EXCEPT !.pc = "append",
                                      !.sites = LineageSummary(r),
                                      !.failed = {s \in Sites : wipes[r][s] = "FAILED"}])
       ELSE Move(t, "rollback")
    /\ UNCHANGED world

\* appendToChain
AppendToChain(t) ==
    LET c == call[t] IN
    /\ At(t, "append")
    /\ chain' = Append(chain, [req |-> c.req, completion |-> c.completion,
                               sites |-> c.sites, failed |-> c.failed])
    /\ Move(t, "upload")
    /\ UNCHANGED <<docVars, keyVars, registryVars, calls, wipeVars>>

\* uploadCertificate to GCS
UploadCertificate(t) ==
    /\ At(t, "upload")
    /\ Move(t, "fields")
    /\ UNCHANGED world

\* Any call of issueAndStoreCertificate throws; the chain entry, if already
\* appended, stays.
CertificateFails(t) ==
    /\ "cert" \in Faults
    /\ call[t].pc \in {"keyread", "docread", "append", "upload"}
    /\ Move(t, "rollback")
    /\ UNCHANGED world

-----------------------------------------------------------------------------
(* Failures of the request's own document, and of the process *)

\* A Firestore call outside a try block throws without taking effect.
StorageFails(t) ==
    /\ "storage" \in Faults
    /\ call[t].pc \in {"lookup", "keystatus", "query", "create", "gencheck", "genset",
                       "read", "claim", "fields", "complete", "rollback"}
    /\ Throw(t)
    /\ UNCHANGED world

\* Cloud Run reaps the instance: the execution is gone, and nothing resumes it.
Crash(t) ==
    /\ "crash" \in Faults
    /\ ~At(t, "idle")
    /\ Stop(t)
    /\ UNCHANGED world

-----------------------------------------------------------------------------
\* The next await of an execution completes normally.
Progress(t) ==
    \/ ShredLookup(t) \/ ShredKeyStatus(t) \/ CreateQuery(t) \/ CreateDocument(t)
    \/ GenerateCheck(t) \/ SetKeyForUser(t)
    \/ AdvanceRead(t) \/ PrepareCascadeTrigger(t) \/ ClaimTransition(t)
    \/ ShredKeyForUser(t) \/ Rollback(t) \/ UpdateFields(t)
    \/ CascadeReplan(t) \/ WipesDone(t) \/ CascadeConclude(t)
    \/ \E s \in Sites, result \in {"SUCCEEDED", "FAILED"} : WipeSite(t, s, result)
    \/ \E s \in Sites : RecordWipe(t, s)
    \/ WriteComplete(t) \/ ClaimsReadKey(t) \/ ClaimsReadRequest(t)
    \/ AppendToChain(t) \/ UploadCertificate(t)

Failure(t) ==
    \/ PlanFails(t) \/ ShredFails(t) \/ ReplanFails(t) \/ CertificateFails(t)
    \/ StorageFails(t) \/ Crash(t)

Start(t) ==
    \E i \in Instances, r \in Requests :
        \/ \E s \in DeletionRequestStatus : PostAdvance(t, i, r, s)
        \/ DeleteKeyShred(t, i, r)
        \/ PostDeletionRequest(t, i, r)
        \/ PostKeyGenerate(t, i, r)

Environment ==
    \/ \E u \in Users, d \in Destinations : AddDestinationToUser(u, d)
    \/ \E i \in Instances, s \in Resources : UpsertEntry(i, s) \/ RemoveEntry(i, s)
    \/ \E i \in Instances : Restart(i)
    \/ \E w \in left, result \in {"SUCCEEDED", "FAILED"} : LeftoverEnds(w, result)

Next ==
    \/ \E t \in Threads : Progress(t) \/ Failure(t) \/ Start(t)
    \/ Environment

Spec == Init /\ [][Next]_vars

-----------------------------------------------------------------------------
(* Properties *)

Entry == [req: Requests, completion: Nat, sites: SUBSET Sites, failed: SUBSET Sites]

\* Every variable has the shape the repositories and handlers give it.
TypeOK ==
    /\ status \in [Requests -> DeletionRequestStatus \cup {Absent}]
    /\ completions \in [Requests -> Nat]
    /\ wipes \in [Requests -> [Sites -> Outcomes]]
    /\ fields \in [Requests -> SUBSET FieldNames]
    /\ keyStatus \in [Users -> {"NONE", "ACTIVE", "SHREDDED"}]
    /\ destinations \in [Users -> SUBSET Destinations]
    /\ declared \subseteq Resources
    /\ memory \in [Instances -> SUBSET Resources]
    /\ left \subseteq [instance: Instances, req: Requests, site: Sites]
    /\ chain \in Seq(Entry)
    /\ call \in [Threads -> Call]
    /\ calls \in 0..MaxCalls
    /\ shredded \subseteq Users
    /\ wiped \in [Requests -> SUBSET Sites]

\* No certificate without destruction: whatever clients advance to, whatever
\* fails and however executions interleave, a chained certificate is about a
\* user whose DEKs had been removed (assertKeyShredded in generateClaims).
CertificateFollowsShred ==
    \A i \in DOMAIN chain : Owner[chain[i].req] \in shredded

\* The claim in the CERTIFICATE_ISSUED case is an exclusive gate: one entry
\* of CASCADE_COMPLETE in status_history yields at most one chained
\* certificate, even when several executions raced off the same stale read.
OneCertificatePerCompletion ==
    \A i, j \in DOMAIN chain :
        /\ chain[i].req = chain[j].req
        /\ chain[i].completion = chain[j].completion
        => i = j

\* A certificate claims an erasure only where a connector or a redaction of a
\* cascade of that very request reported success: nothing stale, and nothing
\* of another request or user, reaches lineageSummary.
CertificateListsOnlyRealWipes ==
    \A i \in DOMAIN chain : chain[i].sites \subseteq wiped[chain[i].req]

\* The inductive strengthenings behind the three properties above.

\* A key document is SHREDDED only after a shred, and an execution is past
\* assertKeyShredded only for such a user.
ShredInv ==
    /\ \A u \in Users : keyStatus[u] = "SHREDDED" => u \in shredded
    /\ \A t \in Threads : call[t].pc \in {"docread", "append"} => User(t) \in shredded
    /\ CertificateFollowsShred

\* Claimed CERTIFICATE_ISSUED, certificate not yet chained.
Issuing(t) == call[t].pc \in {"keyread", "docread", "append"}

\* A completion already claimed: the current one only if the status moved on.
Spent(r, n) == n <= completions[r] /\ (status[r] = CC => n < completions[r])

\* A claim carries the number of the completion it consumed.  Claims and chain
\* entries of a request carry different numbers, and none carries the number of
\* a completion that can still be claimed.
ClaimInv ==
    /\ \A t \in Threads : call[t].pc = "plan" => call[t].target \in {CP, CIP}
    /\ \A t \in Threads : call[t].pc = "claim" /\ call[t].target = CI => call[t].seen = CC
    /\ \A t \in Threads : Issuing(t) => Spent(call[t].req, call[t].completion)
    /\ \A i \in DOMAIN chain : Spent(chain[i].req, chain[i].completion)
    /\ \A t1, t2 \in Threads :
         Issuing(t1) /\ Issuing(t2) /\ call[t1].req = call[t2].req
         /\ call[t1].completion = call[t2].completion => t1 = t2
    /\ \A t \in Threads, i \in DOMAIN chain :
         Issuing(t) /\ chain[i].req = call[t].req => chain[i].completion # call[t].completion
    /\ OneCertificatePerCompletion

\* A success was real when it was reported, and stays so as it is recorded,
\* summarised and chained.
WipeInv ==
    /\ \A r \in Requests, s \in Sites : wipes[r][s] = "SUCCEEDED" => s \in wiped[r]
    /\ \A t \in Threads, s \in Sites :
         call[t].outcome[s] = "SUCCEEDED" => s \in wiped[call[t].req]
    /\ \A t \in Threads : call[t].sites \subseteq wiped[call[t].req]
    /\ CertificateListsOnlyRealWipes

\* "A signed Certificate of Destruction must never be issued while a
\* destination is known to still hold the user's data": the document the
\* claims were built from records no failed wipe.
NoCertificateOverFailedWipe ==
    \A i \in DOMAIN chain : chain[i].failed = {}

CascadePoints == {"replan", "wipe", "record"}

\* CERTIFICATE_ISSUED is terminal: once the certificate is recorded on the
\* request, no step moves the request to another status.
CertificateIsFinal ==
    [][\A r \in Requests :
         status[r] = CI /\ "certificate_issued_at" \in fields[r] => status'[r] = CI]_vars

=============================================================================
