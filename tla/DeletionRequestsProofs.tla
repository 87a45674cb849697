----------------------- MODULE DeletionRequestsProofs -----------------------
(***************************************************************************)
(* Theorems about DeletionRequests for every number of executions,         *)
(* instances, requests, users and sites, and for every choice of operations*)
(* and faults: the type invariant and three properties of the handlers, and*)
(* three of the specification with its histories, which say for each       *)
(* request what has disturbed its cascades.                                *)
(***************************************************************************)
EXTENDS DeletionRequestsHistory, TLAPS

(***************************************************************************)
(* Type correctness                                                        *)
(***************************************************************************)

\* The names the handlers use are names of the types.
LEMMA Members ==
    /\ {SR, KD, CP, CIP, CC, PF, CI} \subseteq DeletionRequestStatus
    /\ {"none", "advance", "shred", "create", "generate", "cascade", "recovery"} \subseteq Kinds
    /\ {"idle", "lookup", "keystatus", "query", "create", "gencheck", "genset",
        "read", "plan", "claim", "shred", "fields", "replan", "wipe", "record",
        "complete", "keyread", "docread", "append", "upload", "rollback"} \subseteq Points
    /\ {"NONE", "SUCCEEDED", "FAILED"} \subseteq Outcomes
BY DEF DeletionRequestStatus, Kinds, Points, Outcomes

\* The components of an execution.
LEMMA CallFields ==
    ASSUME NEW c \in Call
    PROVE  /\ c.pc \in Points /\ c.kind \in Kinds
           /\ c.instance \in Instances /\ c.req \in Requests
           /\ c.target \in DeletionRequestStatus /\ c.seen \in DeletionRequestStatus
           /\ c.resources \in SUBSET Resources /\ c.todo \in SUBSET Sites
           /\ c.outcome \in [Sites -> Outcomes]
           /\ c.sites \in SUBSET Sites /\ c.failed \in SUBSET Sites
           /\ c.completion \in Nat
BY DEF Call

\* Executions that carry the same results as c, or none: the outcomes of wipes
\* and the summary of the request's document.
Kept(c) ==
    {d \in Call : \/ d.req = c.req /\ d.outcome = c.outcome /\ d.sites = c.sites
                  \/ d.outcome = NoOutcome /\ d.sites = {}}

\* The updates most steps of an execution make to it keep its type and results.
LEMMA CallUpdates ==
    ASSUME NEW c \in Call
    PROVE  /\ \A p \in Points : [c EXCEPT !.pc = p] \in Kept(c)
           /\ \A p \in Points, s \in DeletionRequestStatus :
                /\ [c EXCEPT !.seen = s, !.pc = p] \in Kept(c)
                /\ [c EXCEPT !.pc = p, !.target = s] \in Kept(c)
           /\ \A p \in Points, k \in Kinds, s \in DeletionRequestStatus :
                [c EXCEPT !.pc = p, !.kind = k, !.target = s, !.todo = {}] \in Kept(c)
           /\ \A p \in Points, R \in SUBSET Resources :
                [c EXCEPT !.pc = p, !.resources = R] \in Kept(c)
           /\ \A p \in Points, n \in Nat : [c EXCEPT !.pc = p, !.completion = n] \in Kept(c)
           /\ \A p \in Points, k \in Kinds, S \in SUBSET Sites :
                [c EXCEPT !.pc = p, !.kind = k, !.todo = S] \in Kept(c)
           /\ \A p \in Points, S \in SUBSET Sites : [c EXCEPT !.pc = p, !.todo = S] \in Kept(c)
           /\ \A S \in SUBSET Sites : [c EXCEPT !.todo = S] \in Kept(c)
<1>1. \A p \in Points : [c EXCEPT !.pc = p] \in Kept(c)
  BY DEF Call, Kept
<1>2. \A p \in Points, s \in DeletionRequestStatus :
        /\ [c EXCEPT !.seen = s, !.pc = p] \in Kept(c)
        /\ [c EXCEPT !.pc = p, !.target = s] \in Kept(c)
  BY DEF Call, Kept
<1>3. \A p \in Points, k \in Kinds, s \in DeletionRequestStatus :
        [c EXCEPT !.pc = p, !.kind = k, !.target = s, !.todo = {}] \in Kept(c)
  BY DEF Call, Kept
<1>4. \A p \in Points, R \in SUBSET Resources :
        [c EXCEPT !.pc = p, !.resources = R] \in Kept(c)
  BY DEF Call, Kept
<1>5. \A p \in Points, n \in Nat : [c EXCEPT !.pc = p, !.completion = n] \in Kept(c)
  BY DEF Call, Kept
<1>6. \A p \in Points, k \in Kinds, S \in SUBSET Sites :
        [c EXCEPT !.pc = p, !.kind = k, !.todo = S] \in Kept(c)
  BY DEF Call, Kept
<1>7. \A p \in Points, S \in SUBSET Sites : [c EXCEPT !.pc = p, !.todo = S] \in Kept(c)
  BY DEF Call, Kept
<1>8. \A S \in SUBSET Sites : [c EXCEPT !.todo = S] \in Kept(c)
  BY DEF Call, Kept
<1> QED
  BY <1>1, <1>2, <1>3, <1>4, <1>5, <1>6, <1>7, <1>8

\* A fresh execution carries no results, and Returned and Thrown only ever move
\* or end a call.
LEMMA CallTypes ==
    ASSUME NEW c \in Call
    PROVE  /\ NoCall \in Kept(c)
           /\ \A i \in Instances, p \in Points, k \in Kinds, r \in Requests,
                 s \in DeletionRequestStatus : Fresh(i, p, k, r, s) \in Kept(c)
           /\ Returned(c) \in Kept(c)
           /\ Thrown(c) \in Kept(c)
<1>1. \A i \in Instances, p \in Points, k \in Kinds, r \in Requests,
         s \in DeletionRequestStatus : Fresh(i, p, k, r, s) \in Kept(c)
  BY Members DEF Fresh, Call, Kept, NoOutcome
<1>2. NoCall \in Kept(c)
  <2>1. (CHOOSE r \in Requests : TRUE) \in Requests /\ (CHOOSE i \in Instances : TRUE) \in Instances
    BY ConstantsAssumption
  <2> QED
    BY <1>1, <2>1, Members DEF NoCall
<1>3. Returned(c) \in Kept(c) /\ Thrown(c) \in Kept(c)
  BY <1>2, CallUpdates, Members DEF Returned, Thrown
<1> QED
  BY <1>1, <1>2, <1>3

\* The variables other than call, typed; TypeOK is this and the type of call.
WorldOK ==
    /\ status \in [Requests -> DeletionRequestStatus \cup {Absent}]
    /\ completions \in [Requests -> Nat]
    /\ wipes \in [Requests -> [Sites -> Outcomes]]
    /\ fields \in [Requests -> SUBSET FieldNames]
    /\ keyStatus \in [Users -> {"NONE", "ACTIVE", "SHREDDED"}]
    /\ destinations \in [Users -> SUBSET Destinations]
    /\ declared \subseteq Resources
    /\ memory \in [Instances -> SUBSET Resources]
    /\ left \subseteq [instance: Instances, req: Requests, site: Sites]
    /\ chain \in Seq(Entry)
    /\ calls \in 0..MaxCalls
    /\ shredded \subseteq Users
    /\ wiped \in [Requests -> SUBSET Sites]

\* TypeOK in these two parts.
LEMMA TypeSplit == TypeOK <=> WorldOK /\ call \in [Threads -> Call]
BY DEF TypeOK, WorldOK

\* Only a finished wipe and the reading of the request's document change the
\* results an execution carries.
LEMMA KeepingStep ==
    ASSUME TypeOK, NEW t \in Threads, Progress(t) \/ Failure(t) \/ Start(t),
           ~ClaimsReadRequest(t),
           \A s \in Sites, result \in {"SUCCEEDED", "FAILED"} : ~WipeSite(t, s, result)
    PROVE  \E d \in Kept(call[t]) : Become(t, d)
<1> DEFINE c == call[t]
<1>1. c \in Call
  BY DEF TypeOK
<1>2. /\ c.req \in Requests /\ c.seen \in DeletionRequestStatus
      /\ c.target \in DeletionRequestStatus /\ c.resources \in SUBSET Resources
      /\ c.todo \in SUBSET Sites
  BY <1>1, CallFields
<1>3. SUFFICES \E d \in Kept(c) : Become(t, d)
  OBVIOUS
<1> HIDE DEF c
<1> USE <1>1, <1>2, Members, CallTypes
<1>4. CASE AdvanceRead(t)
  <2> DEFINE p == CASE c.target \in {CP, CIP} -> "plan"
                    [] c.target = CC -> "complete"
                    [] OTHER -> "claim"
  <2>1. p \in Points
    OBVIOUS
  <2>2. CASE isValidTransition(status[c.req], c.target)
    <3>1. status[c.req] \in DeletionRequestStatus
      BY <2>2 DEF isValidTransition, TypeOK
    <3>2. [c EXCEPT !.seen = status[c.req], !.pc = p] \in Kept(c)
      BY <2>1, <3>1, CallUpdates
    <3> QED
      BY <1>4, <2>2, <3>2 DEF AdvanceRead, c
  <2>3. CASE ~isValidTransition(status[c.req], c.target)
    BY <1>4, <2>3 DEF AdvanceRead, Throw, c
  <2> QED
    BY <2>2, <2>3
<1>5. CASE PrepareCascadeTrigger(t)
  <2>1. PlannedResources(c.instance) \in SUBSET Resources
    BY DEF PlannedResources, Resources
  <2> QED
    BY <1>5, <2>1, CallUpdates DEF c, PrepareCascadeTrigger, Move
<1>6. CASE PlanFails(t)
  BY <1>6, CallUpdates DEF c, PlanFails, Return
<1>7. CASE ClaimTransition(t)
  BY <1>7, CallUpdates DEF c, TypeOK, ClaimTransition, Move, Return
<1>8. CASE UpdateFields(t)
  BY <1>8, CallUpdates DEF c, TypeOK, UpdateFields, Return, Sites
<1>9. CASE CascadeReplan(t)
  BY <1>9, CallUpdates DEF c, TypeOK, CascadeReplan, Tasks, Sites
<1>10. CASE WipesDone(t)
  BY <1>10, CallUpdates DEF c, WipesDone
<1>11. CASE CascadeConclude(t)
  BY <1>11, CallUpdates DEF c, CascadeConclude, CascadeOutcome
<1>12. CASE WriteComplete(t)
  BY <1>12, CallUpdates DEF c, WriteComplete
<1>13. ASSUME NEW s \in Sites, RecordWipe(t, s)
       PROVE  \E d \in Kept(c) : Become(t, d)
  BY <1>13, CallUpdates DEF c, RecordWipe
<1>14. CASE Start(t)
  BY <1>14 DEF Start, PostAdvance, DeleteKeyShred, PostDeletionRequest, PostKeyGenerate, Begin
<1>15. CASE \/ ShredLookup(t) \/ ShredKeyStatus(t) \/ CreateQuery(t)
            \/ CreateDocument(t) \/ GenerateCheck(t) \/ SetKeyForUser(t)
            \/ ShredKeyForUser(t) \/ Rollback(t) \/ ClaimsReadKey(t)
            \/ AppendToChain(t) \/ UploadCertificate(t) \/ ShredFails(t)
            \/ ReplanFails(t) \/ CertificateFails(t) \/ StorageFails(t)
            \/ Crash(t)
  BY <1>15, CallUpdates
     DEF c, ShredLookup, ShredKeyStatus, CreateQuery, CreateDocument, GenerateCheck,
         SetKeyForUser, ShredKeyForUser, Rollback, ClaimsReadKey, AppendToChain,
         UploadCertificate, ShredFails, ReplanFails, CertificateFails, StorageFails,
         Crash, Move, Return, Throw, Stop
<1> QED
  BY <1>4, <1>5, <1>6, <1>7, <1>8, <1>9, <1>10, <1>11, <1>12, <1>13, <1>14, <1>15
     DEF Progress, Failure

\* Every step of an execution replaces its record by a well-typed one.
LEMMA CallStep ==
    ASSUME TypeOK, NEW t \in Threads, Progress(t) \/ Failure(t) \/ Start(t)
    PROVE  \E d \in Call : Become(t, d)
<1> DEFINE c == call[t]
<1>1. c \in Call
  BY DEF TypeOK
<1>2. c.req \in Requests /\ c.todo \in SUBSET Sites
  BY <1>1, CallFields
<1> HIDE DEF c
<1>3. ASSUME NEW s \in Sites, NEW result \in {"SUCCEEDED", "FAILED"}, WipeSite(t, s, result)
      PROVE  \E d \in Call : Become(t, d)
  <2>1. [c EXCEPT !.todo = c.todo \ {s}, !.outcome[s] = result] \in Call
    BY <1>1, Members DEF Call
  <2> QED
    BY <1>3, <2>1 DEF c, WipeSite
<1>4. CASE ClaimsReadRequest(t)
  <2>1. \A S \in SUBSET Sites, F \in SUBSET Sites :
          [c EXCEPT !.pc = "append", !.sites = S, !.failed = F] \in Call
    BY <1>1, Members DEF Call
  <2>2. [c EXCEPT !.pc = "rollback"] \in Call
    BY <1>1, Members DEF Call
  <2> QED
    BY <1>4, <2>1, <2>2 DEF c, ClaimsReadRequest, Move, LineageSummary
<1> QED
  BY <1>3, <1>4, KeepingStep DEF Kept

\* What the steps of an execution do to the documents, the chain and the
\* histories keeps their types.
LEMMA WorldStep ==
    ASSUME TypeOK, NEW t \in Threads, Progress(t) \/ Failure(t) \/ Start(t)
    PROVE  WorldOK'
<1> DEFINE c == call[t]
<1>1. c \in Call
  BY DEF TypeOK
<1>2. /\ c.req \in Requests /\ c.seen \in DeletionRequestStatus
      /\ c.target \in DeletionRequestStatus
      /\ c.outcome \in [Sites -> Outcomes] /\ c.completion \in Nat
      /\ c.sites \in SUBSET Sites /\ c.failed \in SUBSET Sites
  BY <1>1, CallFields
<1>3. User(t) \in Users
  BY <1>2, ConstantsAssumption DEF User
<1>4. WorldOK
  BY TypeSplit
<1> HIDE DEF c
<1>5. CASE UNCHANGED world
  BY <1>4, <1>5 DEF WorldOK, world, docVars, keyVars, registryVars, wipeVars
<1>6. CASE CreateDocument(t)
  BY <1>2, <1>4, <1>6, Members DEF c, WorldOK, CreateDocument, keyVars, registryVars, wipeVars
<1>7. CASE SetKeyForUser(t)
  BY <1>3, <1>4, <1>7 DEF WorldOK, SetKeyForUser, docVars, registryVars, wipeVars
<1>8. ASSUME NEW r \in Requests, NEW s \in DeletionRequestStatus, SetStatus(r, s)
      PROVE  /\ status' \in [Requests -> DeletionRequestStatus \cup {Absent}]
             /\ completions' \in [Requests -> Nat]
  BY <1>4, <1>8 DEF SetStatus, WorldOK
<1>9. CASE ClaimTransition(t)
  <2>1. CASE ClaimHolds(c)
    BY <1>2, <1>4, <1>8, <1>9, <2>1 DEF c, WorldOK, ClaimTransition, keyVars, registryVars, wipeVars
  <2>2. CASE ~ClaimHolds(c)
    BY <1>4, <1>9, <2>2 DEF c, WorldOK, ClaimTransition, keyVars, registryVars, wipeVars
  <2> QED
    BY <2>1, <2>2
<1>10. CASE ShredKeyForUser(t) \/ ShredFails(t)
  BY <1>3, <1>4, <1>10 DEF WorldOK, ShredKeyForUser, ShredFails, docVars, registryVars, wipeVars
<1>11. CASE Rollback(t)
  BY <1>2, <1>4, <1>8, <1>11 DEF c, WorldOK, Rollback, keyVars, registryVars, wipeVars
<1>12. CASE UpdateFields(t)
  <2>1. FieldOf(c.target) \in FieldNames
    BY DEF FieldOf, FieldNames
  <2> QED
    BY <1>2, <1>4, <1>12, <2>1 DEF c, WorldOK, UpdateFields, keyVars, registryVars, wipeVars
<1>13. CASE WriteComplete(t)
  BY <1>2, <1>4, <1>8, <1>13, Members DEF c, WorldOK, WriteComplete, keyVars, registryVars, wipeVars
<1>14. CASE AppendToChain(t)
  <2>1. [req |-> c.req, completion |-> c.completion,
         sites |-> c.sites, failed |-> c.failed] \in Entry
    BY <1>2 DEF Entry
  <2> QED
    BY <1>4, <1>14, <2>1 DEF c, WorldOK, AppendToChain, docVars, keyVars, registryVars, wipeVars
<1>15. ASSUME NEW s \in Sites, NEW result \in {"SUCCEEDED", "FAILED"}, WipeSite(t, s, result)
       PROVE  WorldOK'
  BY <1>2, <1>4, <1>15 DEF c, WorldOK, WipeSite, docVars, keyVars, registryVars, wipeVars
<1>16. ASSUME NEW s \in Sites, RecordWipe(t, s)
       PROVE  WorldOK'
  <2>1. c.outcome[s] \in Outcomes
    BY <1>2
  <2>2. [wipes EXCEPT ![c.req][s] = c.outcome[s]] \in [Requests -> [Sites -> Outcomes]]
    BY <1>2, <1>4, <2>1 DEF WorldOK
  <2>3. wipes' \in [Requests -> [Sites -> Outcomes]]
    BY <1>4, <1>16, <2>2 DEF c, RecordWipe, WorldOK
  <2> QED
    BY <1>4, <1>16, <2>3 DEF WorldOK, RecordWipe, keyVars, registryVars, wipeVars
<1>17. CASE Start(t)
  BY <1>4, <1>17, ConstantsAssumption
     DEF WorldOK, Start, PostAdvance, DeleteKeyShred, PostDeletionRequest,
         PostKeyGenerate, Begin, docVars, keyVars, registryVars, wipeVars
<1>18. CASE ReplanFails(t)
  <2>1. c.instance \in Instances /\ c.todo \subseteq Sites
    BY <1>1, CallFields
  <2>2. [instance: {c.instance}, req: {c.req}, site: c.todo]
          \subseteq [instance: Instances, req: Requests, site: Sites]
    BY <1>2, <2>1
  <2> QED
    BY <1>4, <1>18, <2>2 DEF c, WorldOK, ReplanFails, docVars, keyVars, registryVars
<1> QED
  BY <1>5, <1>6, <1>7, <1>9, <1>10, <1>11, <1>12, <1>13, <1>14, <1>15, <1>16, <1>17, <1>18
     DEF Progress, Failure, ShredLookup, ShredKeyStatus, CreateQuery, GenerateCheck, AdvanceRead,
         PrepareCascadeTrigger, CascadeReplan, WipesDone, CascadeConclude, ClaimsReadKey,
         ClaimsReadRequest, UploadCertificate, PlanFails, CertificateFails,
         StorageFails, Crash

\* TypeOK is inductive.
LEMMA TypeStep == TypeOK /\ [Next]_vars => TypeOK'
<1> SUFFICES ASSUME TypeOK, [Next]_vars
             PROVE  TypeOK'
  OBVIOUS
<1>1. ASSUME NEW t \in Threads, Progress(t) \/ Failure(t) \/ Start(t)
      PROVE  TypeOK'
  <2>1. PICK c \in Call : Become(t, c)
    BY <1>1, CallStep
  <2>2. call' \in [Threads -> Call]
    BY <2>1 DEF Become, TypeOK
  <2>3. WorldOK'
    BY <1>1, WorldStep
  <2> QED
    BY <2>2, <2>3 DEF TypeOK, WorldOK
<1>2. CASE Environment
  <2>1. ASSUME NEW u \in Users, NEW d \in Destinations, AddDestinationToUser(u, d)
        PROVE  TypeOK'
    BY <2>1, ConstantsAssumption
       DEF TypeOK, AddDestinationToUser, EnvironmentStep, docVars, registryVars, wipeVars
  <2>2. ASSUME NEW i \in Instances, NEW s \in Resources, UpsertEntry(i, s) \/ RemoveEntry(i, s)
        PROVE  TypeOK'
    <3>1. memory' \in [Instances -> SUBSET Resources] /\ declared' \subseteq Resources
      BY <2>2 DEF TypeOK, UpsertEntry, RemoveEntry
    <3> QED
      BY <2>2, <3>1, ConstantsAssumption
         DEF TypeOK, UpsertEntry, RemoveEntry, EnvironmentStep, docVars, wipeVars
  <2>3. ASSUME NEW i \in Instances, Restart(i)
        PROVE  TypeOK'
    <3>1. memory' \in [Instances -> SUBSET Resources]
      BY <2>3 DEF TypeOK, Restart, Loads
    <3>2. left' \subseteq left
      BY <2>3 DEF Restart
    <3> QED
      BY <2>3, <3>1, <3>2 DEF TypeOK, Restart, docVars, keyVars
  <2>4. ASSUME NEW w \in left, NEW result, LeftoverEnds(w, result)
        PROVE  TypeOK'
    <3>1. w.req \in Requests /\ w.site \in Sites
      BY DEF TypeOK, Sites
    <3> QED
      BY <2>4, <3>1 DEF TypeOK, LeftoverEnds, docVars, keyVars, registryVars
  <2> QED
    BY <1>2, <2>1, <2>2, <2>3, <2>4 DEF Environment
<1>3. CASE UNCHANGED vars
  BY <1>3 DEF TypeOK, vars, world, docVars, keyVars, registryVars, wipeVars
<1> QED
  BY <1>1, <1>2, <1>3 DEF Next

\* The initial documents and histories are well typed.
LEMMA TypeInit == Init => TypeOK
<1>1. (CHOOSE r \in Requests : TRUE) \in Requests /\ (CHOOSE i \in Instances : TRUE) \in Instances
  BY ConstantsAssumption
<1>2. NoCall \in Call
  BY <1>1, Members DEF NoCall, Fresh, Call, NoOutcome
<1> QED
  BY <1>2, ConstantsAssumption, Members
     DEF Init, TypeOK, NoOutcome, FieldNames, Entry, Loads

\* Type correctness: status, janitor_wipes, the attached fields, the chain and
\* every execution keep their shape under every interleaving and failure.
THEOREM TypeCorrect == Spec => []TypeOK
BY TypeInit, TypeStep, PTL DEF Spec

(***************************************************************************)
(* Frames: what a step leaves alone                                        *)
(***************************************************************************)

\* The points a proof looks at: between a plan and the chained certificate.
Gate == {"plan", "claim", "keyread", "docread", "append"}

Quiet == {d \in Call : d.pc \notin Gate}

\* The other points.
LEMMA QuietPoints ==
    {"idle", "lookup", "keystatus", "query", "create", "gencheck", "genset", "read",
     "shred", "fields", "replan", "wipe", "record", "complete", "upload", "rollback"}
    \subseteq Points \ Gate
BY DEF Points, Gate

\* An execution that moves to one of the other points is quiet.
LEMMA QuietUpdates ==
    ASSUME NEW c \in Call
    PROVE  /\ \A p \in Points \ Gate : [c EXCEPT !.pc = p] \in Quiet
           /\ \A p \in Points \ Gate, s \in DeletionRequestStatus :
                [c EXCEPT !.pc = p, !.target = s] \in Quiet
           /\ \A p \in Points \ Gate, k \in Kinds, S \in SUBSET Sites :
                [c EXCEPT !.pc = p, !.kind = k, !.todo = S] \in Quiet
           /\ \A p \in Points \ Gate, S \in SUBSET Sites :
                [c EXCEPT !.pc = p, !.todo = S] \in Quiet
           /\ \A i \in Instances, p \in Points \ Gate, k \in Kinds, r \in Requests,
                 s \in DeletionRequestStatus : Fresh(i, p, k, r, s) \in Quiet
           /\ NoCall \in Quiet
           /\ Returned(c) \in Quiet
           /\ Thrown(c) \in Quiet
<1>1. \A p \in Points \ Gate : [c EXCEPT !.pc = p] \in Quiet
  BY DEF Call, Quiet
<1>2. \A p \in Points \ Gate, s \in DeletionRequestStatus :
        [c EXCEPT !.pc = p, !.target = s] \in Quiet
  BY DEF Call, Quiet
<1>3. \A p \in Points \ Gate, k \in Kinds, S \in SUBSET Sites :
        [c EXCEPT !.pc = p, !.kind = k, !.todo = S] \in Quiet
  BY DEF Call, Quiet
<1>4. \A p \in Points \ Gate, S \in SUBSET Sites :
        [c EXCEPT !.pc = p, !.todo = S] \in Quiet
  BY DEF Call, Quiet
<1>5. \A i \in Instances, p \in Points \ Gate, k \in Kinds, r \in Requests,
         s \in DeletionRequestStatus : Fresh(i, p, k, r, s) \in Quiet
  BY Members DEF Fresh, Call, Quiet, NoOutcome
<1>6. \A p \in Points \ Gate, k \in Kinds, s \in DeletionRequestStatus :
        [c EXCEPT !.pc = p, !.kind = k, !.target = s, !.todo = {}] \in Quiet
  BY DEF Call, Quiet
<1>7. NoCall \in Quiet
  <2>1. (CHOOSE r \in Requests : TRUE) \in Requests /\ (CHOOSE i \in Instances : TRUE) \in Instances
    BY ConstantsAssumption
  <2> QED
    BY <1>5, <2>1, Members, QuietPoints DEF NoCall
<1>8. Returned(c) \in Quiet /\ Thrown(c) \in Quiet
  BY <1>2, <1>6, <1>7, Members, QuietPoints DEF Returned, Thrown
<1> QED
  BY <1>1, <1>2, <1>3, <1>4, <1>5, <1>7, <1>8

\* Only five steps lead to a point of Gate.
LEMMA QuietStep ==
    ASSUME TypeOK, NEW t \in Threads, Progress(t) \/ Failure(t) \/ Start(t),
           ~AdvanceRead(t), ~PrepareCascadeTrigger(t), ~ClaimTransition(t),
           ~ClaimsReadKey(t), ~ClaimsReadRequest(t)
    PROVE  \E d \in Quiet : Become(t, d)
<1> DEFINE c == call[t]
<1>1. c \in Call
  BY DEF TypeOK
<1>2. /\ c.req \in Requests /\ c.seen \in DeletionRequestStatus
      /\ c.target \in DeletionRequestStatus /\ c.resources \in SUBSET Resources
      /\ c.todo \in SUBSET Sites
  BY <1>1, CallFields
<1>3. SUFFICES \E d \in Quiet : Become(t, d)
  OBVIOUS
<1> HIDE DEF c
<1>record. ASSUME NEW s \in Sites, c.pc = "record"
       PROVE  [c EXCEPT !.todo = c.todo \ {s}] \in Quiet
  BY <1>1, <1>record DEF Call, Quiet, Gate
<1>wipe. ASSUME NEW s \in Sites, NEW result \in {"SUCCEEDED", "FAILED"},
              c.pc \in {"replan", "wipe"}
       PROVE  [c EXCEPT !.todo = c.todo \ {s}, !.outcome[s] = result] \in Quiet
  <2>1. [c EXCEPT !.todo = c.todo \ {s}, !.outcome[s] = result] \in Call
    BY <1>1, Members DEF Call
  <2>2. [c EXCEPT !.todo = c.todo \ {s}, !.outcome[s] = result].pc \in {"replan", "wipe"}
    BY <1>1, <1>wipe DEF Call
  <2> QED
    BY <2>1, <2>2 DEF Quiet, Gate
<1> USE <1>1, <1>2, Members, QuietPoints, QuietUpdates
<1>4. CASE PlanFails(t)
  BY <1>4 DEF c, PlanFails, Return
<1>5. CASE UpdateFields(t)
  BY <1>5 DEF c, TypeOK, UpdateFields, Return, Sites
<1>6. CASE CascadeReplan(t)
  BY <1>6 DEF c, TypeOK, CascadeReplan, Tasks, Sites
<1>7. CASE WipesDone(t)
  BY <1>7 DEF c, WipesDone
<1>8. CASE CascadeConclude(t)
  BY <1>8 DEF c, CascadeConclude, CascadeOutcome
<1>9. CASE WriteComplete(t)
  BY <1>9 DEF c, WriteComplete
<1>10. ASSUME NEW s \in Sites, RecordWipe(t, s)
       PROVE  \E d \in Quiet : Become(t, d)
  BY <1>10, <1>record DEF c, RecordWipe, At
<1>11. ASSUME NEW s \in Sites, NEW result \in {"SUCCEEDED", "FAILED"}, WipeSite(t, s, result)
       PROVE  \E d \in Quiet : Become(t, d)
  BY <1>11, <1>wipe DEF c, WipeSite, At
<1>12. CASE Start(t)
  BY <1>12 DEF Start, PostAdvance, DeleteKeyShred, PostDeletionRequest, PostKeyGenerate, Begin
<1>13. CASE \/ ShredLookup(t) \/ ShredKeyStatus(t) \/ CreateQuery(t)
            \/ CreateDocument(t) \/ GenerateCheck(t) \/ SetKeyForUser(t)
            \/ ShredKeyForUser(t) \/ Rollback(t)
            \/ AppendToChain(t) \/ UploadCertificate(t) \/ ShredFails(t)
            \/ ReplanFails(t) \/ CertificateFails(t) \/ StorageFails(t)
            \/ Crash(t)
  BY <1>13
     DEF c, ShredLookup, ShredKeyStatus, CreateQuery, CreateDocument, GenerateCheck,
         SetKeyForUser, ShredKeyForUser, Rollback, AppendToChain,
         UploadCertificate, ShredFails, ReplanFails, CertificateFails, StorageFails,
         Crash, Move, Return, Throw, Stop
<1> QED
  BY <1>4, <1>5, <1>6, <1>7, <1>8, <1>9, <1>10, <1>11, <1>12, <1>13
     DEF Progress, Failure

\* A step of an execution leaves the other executions alone.
LEMMA OthersKept ==
    ASSUME TypeOK, NEW t \in Threads, NEW c, Become(t, c)
    PROVE  /\ call'[t] = c
           /\ \A u \in Threads : u # t => call'[u] = call[u]
BY DEF TypeOK, Become

\* The components the updates of the five steps into Gate leave or set.
LEMMA GateUpdates ==
    ASSUME NEW c \in Call
    PROVE  /\ \A p \in Points :
                LET d == [c EXCEPT !.pc = p] IN
                d.pc = p /\ d.req = c.req /\ d.completion = c.completion /\ d.target = c.target
           /\ \A p \in Points, R \in SUBSET Resources :
                LET d == [c EXCEPT !.pc = p, !.resources = R] IN
                d.pc = p /\ d.target = c.target
           /\ \A p \in Points, s \in DeletionRequestStatus :
                LET d == [c EXCEPT !.seen = s, !.pc = p] IN
                d.pc = p /\ d.target = c.target /\ d.seen = s
           /\ \A p \in Points, n \in Nat :
                LET d == [c EXCEPT !.pc = p, !.completion = n] IN
                d.pc = p /\ d.req = c.req /\ d.completion = n
           /\ \A p \in Points, S \in SUBSET Sites, F \in SUBSET Sites :
                LET d == [c EXCEPT !.pc = p, !.sites = S, !.failed = F] IN
                d.pc = p /\ d.req = c.req /\ d.completion = c.completion
                /\ d.outcome = c.outcome /\ d.sites = S
BY DEF Call

\* How an execution can have come to each point of Gate.
LEMMA GateStep ==
    ASSUME TypeOK, NEW t \in Threads, Progress(t) \/ Failure(t) \/ Start(t)
    PROVE  LET c == call[t]
               d == call'[t]
           IN  /\ d.pc = "plan" => d.target \in {CP, CIP}
               /\ d.pc = "claim" => \/ d.target \in transitions[d.seen]
                                    \/ c.pc = "plan" /\ d.target = c.target
               /\ d.pc = "keyread" =>
                    /\ c.pc = "claim" /\ c.target = CI /\ status[c.req] = c.seen
                    /\ status' = [status EXCEPT ![c.req] = CI] /\ UNCHANGED <<completions, chain>>
                    /\ d.req = c.req /\ d.completion = completions[c.req]
               /\ d.pc = "docread" =>
                    /\ c.pc = "keyread" /\ keyStatus[Owner[c.req]] = "SHREDDED"
                    /\ d.req = c.req /\ d.completion = c.completion
                    /\ UNCHANGED world
               /\ d.pc = "append" =>
                    /\ c.pc = "docread" /\ d.req = c.req /\ d.completion = c.completion
                    /\ UNCHANGED world
<1> DEFINE c == call[t]
           d == call'[t]
<1>1. c \in Call
  BY DEF TypeOK
<1>2. /\ c.req \in Requests /\ c.target \in DeletionRequestStatus
  BY <1>1, CallFields
<1>3. \A e : Become(t, e) => d = e
  BY OthersKept
<1>4. Quiet = {e \in Call : e.pc \notin {"plan", "claim", "keyread", "docread", "append"}}
  BY DEF Quiet, Gate
<1> HIDE DEF c, d
<1>5. CASE AdvanceRead(t)
  <2> DEFINE p == CASE c.target \in {CP, CIP} -> "plan"
                    [] c.target = CC -> "complete"
                    [] OTHER -> "claim"
  <2>1. p \in Points
    BY Members
  <2>2. CASE isValidTransition(status[c.req], c.target)
    <3>1. status[c.req] \in DeletionRequestStatus /\ c.target \in transitions[status[c.req]]
      BY <1>2, <2>2 DEF isValidTransition, TypeOK
    <3>2. d = [c EXCEPT !.seen = status[c.req], !.pc = p]
      BY <1>3, <1>5, <2>2 DEF AdvanceRead, c
    <3>3. d.pc = p /\ d.target = c.target /\ d.seen = status[c.req]
      BY <1>1, <2>1, <3>1, <3>2, GateUpdates
    <3> QED
      BY <3>1, <3>3 DEF c, d
  <2>3. CASE ~isValidTransition(status[c.req], c.target)
    <3>1. d \in Quiet
      BY <1>1, <1>3, <1>5, <2>3, QuietUpdates DEF AdvanceRead, Throw, c
    <3> QED
      BY <1>4, <3>1 DEF c, d
  <2> QED
    BY <2>2, <2>3
<1>6. CASE PrepareCascadeTrigger(t)
  <2>1. PlannedResources(c.instance) \in SUBSET Resources
    BY DEF PlannedResources, Resources
  <2>2. c.pc = "plan"
    BY <1>6 DEF PrepareCascadeTrigger, At, c
  <2>3. d = [c EXCEPT !.pc = "complete"]
        \/ d = [c EXCEPT !.pc = "claim", !.resources = PlannedResources(c.instance)]
    BY <1>3, <1>6 DEF PrepareCascadeTrigger, Move, c
  <2>4. d.pc = "complete" \/ (d.pc = "claim" /\ d.target = c.target)
    <3>1. CASE d = [c EXCEPT !.pc = "complete"]
      BY <1>1, <3>1, GateUpdates, Members
    <3>2. CASE d = [c EXCEPT !.pc = "claim", !.resources = PlannedResources(c.instance)]
      BY <1>1, <2>1, <3>2, GateUpdates, Members
    <3> QED
      BY <2>3, <3>1, <3>2
  <2> QED
    BY <2>2, <2>4 DEF c, d
<1>7. CASE ClaimTransition(t)
  <2>1. CASE ClaimHolds(c) /\ c.target = CI
    <3>1. d = [c EXCEPT !.pc = "keyread", !.completion = completions[c.req]]
      BY <1>3, <1>7, <2>1 DEF ClaimTransition, c, CI, KD, CP, CIP
    <3>2. completions[c.req] \in Nat
      BY <1>2 DEF TypeOK
    <3>3. d.pc = "keyread" /\ d.req = c.req /\ d.completion = completions[c.req]
      BY <1>1, <3>1, <3>2, GateUpdates, Members
    <3>4. /\ c.pc = "claim" /\ status[c.req] = c.seen /\ UNCHANGED chain
          /\ SetStatus(c.req, CI)
      BY <1>7, <2>1 DEF ClaimTransition, ClaimHolds, At, c
    <3>5. status' = [status EXCEPT ![c.req] = CI] /\ UNCHANGED completions
      BY <3>4 DEF SetStatus, CI, CC, TypeOK
    <3> QED
      BY <2>1, <3>3, <3>4, <3>5 DEF c, d
  <2>2. CASE ~(ClaimHolds(c) /\ c.target = CI)
    <3>1. \/ d = Returned(c)
          \/ d = [c EXCEPT !.pc = "shred"]
          \/ d = [c EXCEPT !.pc = "fields"]
      BY <1>3, <1>7, <2>2 DEF ClaimTransition, Move, Return, c
    <3>2. d \in Quiet
      BY <1>1, <3>1, QuietUpdates, QuietPoints
    <3> QED
      BY <1>4, <3>2 DEF c, d
  <2> QED
    BY <2>1, <2>2
<1>8. CASE ClaimsReadKey(t)
  <2>1. CASE KeyShredded(User(t))
    <3>1. d = [c EXCEPT !.pc = "docread"]
      BY <1>3, <1>8, <2>1 DEF ClaimsReadKey, Move, c
    <3>2. d.pc = "docread" /\ d.req = c.req /\ d.completion = c.completion
      BY <1>1, <3>1, GateUpdates, Members
    <3>3. c.pc = "keyread" /\ keyStatus[Owner[c.req]] = "SHREDDED" /\ UNCHANGED world
      BY <1>8, <2>1 DEF ClaimsReadKey, At, KeyShredded, User, c
    <3> QED
      BY <3>2, <3>3 DEF c, d
  <2>2. CASE ~KeyShredded(User(t))
    <3>1. d = [c EXCEPT !.pc = "rollback"]
      BY <1>3, <1>8, <2>2 DEF ClaimsReadKey, Move, c
    <3>2. d.pc = "rollback"
      BY <1>1, <3>1, GateUpdates, Members
    <3> QED
      BY <3>2 DEF c, d
  <2> QED
    BY <2>1, <2>2
<1>9. CASE ClaimsReadRequest(t)
  <2> DEFINE S == LineageSummary(c.req)
             F == {s \in Sites : wipes[c.req][s] = "FAILED"}
  <2>1. S \in SUBSET Sites /\ F \in SUBSET Sites
    BY DEF LineageSummary
  <2>2. \/ d = [c EXCEPT !.pc = "append", !.sites = S, !.failed = F]
        \/ d = [c EXCEPT !.pc = "rollback"]
    BY <1>3, <1>9 DEF ClaimsReadRequest, Move, c
  <2> HIDE DEF S, F
  <2>3. \/ d.pc = "append" /\ d.req = c.req /\ d.completion = c.completion
        \/ d.pc = "rollback"
    <3>1. CASE d = [c EXCEPT !.pc = "append", !.sites = S, !.failed = F]
      BY <1>1, <2>1, <3>1, GateUpdates, Members
    <3>2. CASE d = [c EXCEPT !.pc = "rollback"]
      BY <1>1, <3>2, GateUpdates, Members
    <3> QED
      BY <2>2, <3>1, <3>2
  <2>4. c.pc = "docread" /\ UNCHANGED world
    BY <1>9 DEF ClaimsReadRequest, At, c
  <2> QED
    BY <2>3, <2>4 DEF c, d
<1>10. CASE /\ ~AdvanceRead(t) /\ ~PrepareCascadeTrigger(t) /\ ~ClaimTransition(t)
            /\ ~ClaimsReadKey(t) /\ ~ClaimsReadRequest(t)
  <2>1. d \in Quiet
    BY <1>3, <1>10, QuietStep
  <2> QED
    BY <1>4, <2>1 DEF c, d
<1> QED
  BY <1>5, <1>6, <1>7, <1>8, <1>9, <1>10

\* What the environment does on its own, and stuttering, touch neither the
\* executions nor the documents and histories the certificates rest on.
LEMMA EnvironmentFrame ==
    ASSUME TypeOK, Environment \/ UNCHANGED vars
    PROVE  /\ UNCHANGED <<call, chain, status, completions, wipes, fields, keyStatus, shredded>>
           /\ \A r \in Requests : wiped[r] \subseteq wiped'[r]
<1>1. CASE Environment
  <2>1. ASSUME NEW u \in Users, NEW d \in Destinations, AddDestinationToUser(u, d)
        PROVE  UNCHANGED <<call, chain, status, completions, wipes, fields, keyStatus, shredded,
                           wiped>>
    BY <2>1 DEF AddDestinationToUser, EnvironmentStep, docVars, wipeVars
  <2>2. ASSUME NEW i \in Instances, NEW s \in Resources, UpsertEntry(i, s) \/ RemoveEntry(i, s)
        PROVE  UNCHANGED <<call, chain, status, completions, wipes, fields, keyStatus, shredded,
                           wiped>>
    BY <2>2 DEF UpsertEntry, RemoveEntry, EnvironmentStep, docVars, wipeVars
  <2>3. ASSUME NEW i \in Instances, Restart(i)
        PROVE  UNCHANGED <<call, chain, status, completions, wipes, fields, keyStatus, shredded,
                           wiped>>
    BY <2>3 DEF Restart, docVars, keyVars
  <2>4. ASSUME NEW w \in left, NEW result, LeftoverEnds(w, result)
        PROVE  /\ UNCHANGED <<call, chain, status, completions, wipes, fields, keyStatus, shredded>>
               /\ \A r \in Requests : wiped[r] \subseteq wiped'[r]
    <3>1. wiped \in [Requests -> SUBSET Sites]
      BY DEF TypeOK
    <3> QED
      BY <2>4, <3>1 DEF LeftoverEnds, docVars, keyVars
  <2> QED
    BY <1>1, <2>1, <2>2, <2>3, <2>4 DEF Environment
<1>2. CASE UNCHANGED vars
  BY <1>2 DEF vars, world, docVars, keyVars, wipeVars
<1> QED
  BY <1>1, <1>2

\* Only appendToChain touches the chain, and it adds one entry at the end.
LEMMA ChainStep ==
    ASSUME TypeOK, NEW t \in Threads, Progress(t) \/ Failure(t) \/ Start(t)
    PROVE  \/ UNCHANGED chain
           \/ /\ AppendToChain(t)
              /\ \A i \in DOMAIN chain' :
                   \/ i \in DOMAIN chain /\ chain'[i] = chain[i]
                   \/ /\ i = Len(chain) + 1
                      /\ chain'[i].req = call[t].req
                      /\ chain'[i].completion = call[t].completion
                      /\ chain'[i].sites = call[t].sites
                      /\ chain'[i].failed = call[t].failed
<1>1. CASE AppendToChain(t)
  <2> DEFINE e == [req |-> call[t].req, completion |-> call[t].completion,
                   sites |-> call[t].sites, failed |-> call[t].failed]
  <2>1. chain' = Append(chain, e)
    BY <1>1 DEF AppendToChain
  <2>2. /\ e.req = call[t].req
        /\ e.completion = call[t].completion
        /\ e.sites = call[t].sites
        /\ e.failed = call[t].failed
    OBVIOUS
  <2>3. chain \in Seq(Entry)
    BY DEF TypeOK
  <2> HIDE DEF e
  <2>4. \A i \in DOMAIN chain' :
          \/ i \in DOMAIN chain /\ chain'[i] = chain[i]
          \/ i = Len(chain) + 1 /\ chain'[i] = e
    BY <2>1, <2>3
  <2> QED
    BY <1>1, <2>2, <2>4
<1>2. CASE ~AppendToChain(t)
  BY <1>2 DEF Progress, Failure, Start, PostAdvance, DeleteKeyShred, PostDeletionRequest,
      PostKeyGenerate, Begin, ShredLookup, ShredKeyStatus, CreateQuery, CreateDocument,
      GenerateCheck, SetKeyForUser, AdvanceRead, PrepareCascadeTrigger, ClaimTransition,
      ShredKeyForUser, Rollback, UpdateFields, CascadeReplan, WipesDone, CascadeConclude,
      WipeSite, RecordWipe, WriteComplete, ClaimsReadKey, ClaimsReadRequest,
      UploadCertificate, PlanFails, ShredFails, ReplanFails, CertificateFails,
      StorageFails, Crash, world
<1> QED
  BY <1>1, <1>2

\* Key documents become SHREDDED only as DEKs are removed, which is forever.
LEMMA KeyStep ==
    ASSUME TypeOK, NEW t \in Threads, Progress(t) \/ Failure(t) \/ Start(t)
    PROVE  /\ shredded \subseteq shredded'
           /\ \A u \in Users : keyStatus'[u] = "SHREDDED" =>
                 keyStatus[u] = "SHREDDED" \/ u \in shredded'
<1>1. User(t) \in Users
  BY CallFields, ConstantsAssumption DEF User, TypeOK
<1>2. CASE ShredKeyForUser(t) \/ ShredFails(t)
  BY <1>1, <1>2 DEF ShredKeyForUser, ShredFails, TypeOK
<1>3. CASE SetKeyForUser(t)
  BY <1>1, <1>3 DEF SetKeyForUser, TypeOK
<1>4. CASE ~ShredKeyForUser(t) /\ ~ShredFails(t) /\ ~SetKeyForUser(t)
  <2>1. UNCHANGED <<keyStatus, shredded>>
    BY <1>4 DEF Progress, Failure, Start, PostAdvance, DeleteKeyShred, PostDeletionRequest,
        PostKeyGenerate, Begin, ShredLookup, ShredKeyStatus, CreateQuery, CreateDocument,
        GenerateCheck, AdvanceRead, PrepareCascadeTrigger, ClaimTransition,
        Rollback, UpdateFields, CascadeReplan, WipesDone, CascadeConclude,
        WipeSite, RecordWipe, WriteComplete, ClaimsReadKey, ClaimsReadRequest, AppendToChain,
        UploadCertificate, PlanFails, ReplanFails, CertificateFails,
        StorageFails, Crash, world, keyVars
  <2> QED
    BY <2>1
<1> QED
  BY <1>2, <1>3, <1>4

(***************************************************************************)
(* No certificate without destruction                                      *)
(***************************************************************************)

\* ShredInv is inductive.  The two actions that lead past assertKeyShredded
\* keep the request; every other one leaves the execution outside.
LEMMA ShredStep == TypeOK /\ ShredInv /\ [Next]_vars => ShredInv'
<1> SUFFICES ASSUME TypeOK, ShredInv, [Next]_vars
             PROVE  ShredInv'
  OBVIOUS
<1>1. ASSUME NEW t \in Threads, Progress(t) \/ Failure(t) \/ Start(t)
      PROVE  ShredInv'
  <2>1. shredded \subseteq shredded'
    BY <1>1, KeyStep
  <2>2. (\A u \in Users : keyStatus[u] = "SHREDDED" => u \in shredded)'
    BY <1>1, KeyStep DEF ShredInv
  <2>3. CertificateFollowsShred'
    <3>1. CASE UNCHANGED chain
      BY <2>1, <3>1 DEF ShredInv, CertificateFollowsShred
    <3>2. CASE ~UNCHANGED chain
      <4>1. AppendToChain(t)
        BY <1>1, <3>2, ChainStep
      <4>2. Owner[call[t].req] \in shredded
        BY <4>1 DEF AppendToChain, At, ShredInv, User
      <4>3. \A i \in DOMAIN chain' : \/ i \in DOMAIN chain /\ chain'[i] = chain[i]
                                     \/ chain'[i].req = call[t].req
        BY <1>1, <3>2, ChainStep
      <4> QED
        BY <2>1, <4>2, <4>3 DEF ShredInv, CertificateFollowsShred
    <3> QED
      BY <3>1, <3>2
  <2>4. call'[t].pc \in {"docread", "append"} => Owner[call'[t].req] \in shredded
    <3>1. call[t].req \in Requests
      BY CallFields DEF TypeOK
    <3>2. Owner[call[t].req] \in Users
      BY <3>1, ConstantsAssumption
    <3> QED
      BY <1>1, <3>2, GateStep DEF ShredInv, User
  <2>5. \A u \in Threads \ {t} : call'[u] = call[u]
    BY <1>1, CallStep, OthersKept
  <2>6. \A u \in Threads : call'[u].pc \in {"docread", "append"} =>
            Owner[call'[u].req] \in shredded'
    BY <2>1, <2>4, <2>5 DEF ShredInv, User
  <2> QED
    BY <2>2, <2>3, <2>6 DEF ShredInv, User
<1>2. CASE Environment \/ UNCHANGED vars
  BY <1>2, EnvironmentFrame DEF ShredInv, CertificateFollowsShred, User
<1> QED
  BY <1>1, <1>2 DEF Next

\* CertificateFollowsShred, of every behaviour: a chained certificate is about
\* a user whose DEKs had been removed by a shred, whatever clients and faults do.
THEOREM CertificateFollowsShredHolds == Spec => []CertificateFollowsShred
<1>1. Init => ShredInv
  BY Members DEF Init, ShredInv, CertificateFollowsShred, NoCall, Fresh
<1>2. ShredInv => CertificateFollowsShred
  BY DEF ShredInv
<1> QED
  BY <1>1, <1>2, ShredStep, TypeCorrect, PTL DEF Spec

(***************************************************************************)
(* The claim of CERTIFICATE_ISSUED is an exclusive gate                    *)
(***************************************************************************)

\* A claimed completion stays claimed: a later write of CASCADE_COMPLETE is a
\* new completion, and no other write offers the old one again.
LEMMA SpentStep ==
    ASSUME TypeOK, NEW t \in Threads, Progress(t) \/ Failure(t) \/ Start(t),
           NEW r \in Requests, NEW n \in Nat, Spent(r, n)
    PROVE  Spent(r, n)'
<1>1. call[t].req \in Requests
  BY CallFields DEF TypeOK
<1>2. status \in [Requests -> DeletionRequestStatus \cup {Absent}] /\ completions \in [Requests -> Nat]
  BY DEF TypeOK
<1>3. ASSUME NEW q \in Requests, NEW s, SetStatus(q, s)
      PROVE  Spent(r, n)'
  BY <1>2, <1>3 DEF SetStatus, Spent
<1>4. CASE UNCHANGED <<status, completions>>
  BY <1>4 DEF Spent
<1>5. CASE CreateDocument(t)
  BY <1>1, <1>2, <1>5 DEF CreateDocument, Spent, SR, CC
<1>6. CASE ClaimTransition(t) \/ Rollback(t) \/ WriteComplete(t)
  BY <1>1, <1>3, <1>4, <1>6 DEF ClaimTransition, Rollback, WriteComplete
<1>7. CASE ~CreateDocument(t) /\ ~ClaimTransition(t) /\ ~Rollback(t) /\ ~WriteComplete(t)
  <2>1. UNCHANGED <<status, completions>>
    BY <1>7 DEF Progress, Failure, Start, PostAdvance, DeleteKeyShred, PostDeletionRequest,
        PostKeyGenerate, Begin, ShredLookup, ShredKeyStatus, CreateQuery,
        GenerateCheck, SetKeyForUser, AdvanceRead, PrepareCascadeTrigger,
        ShredKeyForUser, UpdateFields, CascadeReplan, WipesDone, CascadeConclude,
        WipeSite, RecordWipe, ClaimsReadKey, ClaimsReadRequest, AppendToChain,
        UploadCertificate, PlanFails, ShredFails, ReplanFails, CertificateFails,
        StorageFails, Crash, world, docVars
  <2> QED
    BY <1>4, <2>1
<1> QED
  BY <1>5, <1>6, <1>7

\* ClaimInv is inductive.
LEMMA ClaimStep == TypeOK /\ ClaimInv /\ [Next]_vars => ClaimInv'
<1> SUFFICES ASSUME TypeOK, ClaimInv, [Next]_vars
             PROVE  ClaimInv'
  OBVIOUS
<1>1. ASSUME NEW t \in Threads, Progress(t) \/ Failure(t) \/ Start(t)
      PROVE  ClaimInv'
  <2> DEFINE c == call[t]
             d == call'[t]
  <2>1. c \in Call /\ TypeOK'
    BY <1>1, TypeStep DEF TypeOK, Next
  <2>2. c.req \in Requests /\ c.completion \in Nat /\ c.target \in DeletionRequestStatus
    BY <2>1, CallFields
  <2>3. \A u \in Threads \ {t} : call'[u] = call[u]
    BY <1>1, CallStep, OthersKept
  <2>4. \A u \in Threads : call[u].req \in Requests /\ call[u].completion \in Nat
    BY CallFields DEF TypeOK
  <2>5. \A i \in DOMAIN chain : chain[i].req \in Requests /\ chain[i].completion \in Nat
    <3>1. \A i \in DOMAIN chain : chain[i] \in Entry
      BY DEF TypeOK
    <3> QED
      BY <3>1 DEF Entry
  <2>6. \A r \in Requests, n \in Nat : Spent(r, n) => Spent(r, n)'
    BY <1>1, SpentStep
  <2>7. (\A u \in Threads : call[u].pc = "plan" => call[u].target \in {CP, CIP})'
    BY <1>1, <2>3, GateStep DEF ClaimInv
  <2>8. (\A u \in Threads : call[u].pc = "claim" /\ call[u].target = CI => call[u].seen = CC)'
    <3>1. d \in Call
      BY <2>1 DEF TypeOK
    <3>2. d.seen \in DeletionRequestStatus
      BY <3>1, CallFields
    <3>3. d.target = CI /\ d.target \in transitions[d.seen] => d.seen = CC
      BY <3>2 DEF transitions, DeletionRequestStatus, SR, KD, CP, CIP, CC, PF, CI
    <3>4. c.pc = "plan" => c.target # CI
      BY DEF ClaimInv, CP, CIP, CI
    <3>5. d.pc = "claim" /\ d.target = CI => d.seen = CC
      BY <1>1, <3>3, <3>4, GateStep
    <3> QED
      BY <2>3, <3>5 DEF ClaimInv
  <2>9. d.pc \in {"keyread", "docread", "append"} =>
          /\ d.req = c.req /\ UNCHANGED chain
          /\ \/ Issuing(t) /\ d.completion = c.completion
             \/ /\ status[c.req] = CC /\ d.completion = completions[c.req]
                /\ status'[c.req] = CI /\ UNCHANGED completions
    <3>1. CASE d.pc = "keyread"
      <4>1. /\ c.pc = "claim" /\ c.target = CI /\ status[c.req] = c.seen
            /\ status' = [status EXCEPT ![c.req] = CI] /\ UNCHANGED <<completions, chain>>
            /\ d.req = c.req /\ d.completion = completions[c.req]
        BY <1>1, <3>1, GateStep
      <4>2. status'[c.req] = CI
        BY <2>2, <4>1 DEF TypeOK
      <4> QED
        BY <4>1, <4>2 DEF ClaimInv
    <3>2. CASE d.pc \in {"docread", "append"}
      <4>1. /\ c.pc \in {"keyread", "docread"} /\ d.req = c.req
            /\ d.completion = c.completion /\ UNCHANGED world
        BY <1>1, <3>2, GateStep
      <4> QED
        BY <4>1 DEF Issuing, world
    <3> QED
      BY <3>1, <3>2
  <2> HIDE DEF c, d
  <2>10. c = call[t] /\ d = call'[t]
    BY DEF c, d
  <2>11. Issuing(t) => Spent(c.req, c.completion)
    BY <2>10 DEF ClaimInv
  <2>12. \A u \in Threads : Issuing(u)' => \/ u # t /\ Issuing(u)
                                           \/ u = t /\ d.pc \in {"keyread", "docread", "append"}
    BY <2>3, <2>10 DEF Issuing
  <2>13. CASE UNCHANGED chain
    <3>1. (\A u \in Threads : Issuing(u) => Spent(call[u].req, call[u].completion))'
      <4>1. ASSUME Issuing(t)'
            PROVE  Spent(call[t].req, call[t].completion)'
        <5>1. CASE Issuing(t) /\ d.completion = c.completion
          BY <2>2, <2>6, <2>9, <2>10, <2>11, <2>12, <4>1, <5>1 DEF Spent
        <5>2. CASE /\ status[c.req] = CC /\ d.completion = completions[c.req]
                   /\ status'[c.req] = CI /\ UNCHANGED completions
          BY <2>2, <2>9, <2>10, <2>12, <4>1, <5>2 DEF Spent, CI, CC, TypeOK
        <5> QED
          BY <2>9, <2>12, <4>1, <5>1, <5>2
      <4>2. ASSUME NEW u \in Threads, u # t, Issuing(u)'
            PROVE  Spent(call[u].req, call[u].completion)'
        <5>1. Spent(call[u].req, call[u].completion)
          BY <2>12, <4>2 DEF ClaimInv
        <5> QED
          BY <2>3, <2>4, <2>6, <4>2, <5>1 DEF Spent
      <4> QED
        BY <4>1, <4>2
    <3>2. (\A i \in DOMAIN chain : Spent(chain[i].req, chain[i].completion))'
      BY <2>5, <2>6, <2>13 DEF ClaimInv, Spent
    <3>3. ASSUME NEW u \in Threads, u # t, Issuing(u), Issuing(t)', call[u].req = d.req
          PROVE  call[u].completion # d.completion
      <4>1. Spent(call[u].req, call[u].completion)
        BY <3>3 DEF ClaimInv
      <4> QED
        BY <2>2, <2>4, <2>9, <2>10, <2>12, <3>3, <4>1 DEF ClaimInv, Spent, TypeOK
    <3>4. (\A t1, t2 \in Threads :
             Issuing(t1) /\ Issuing(t2) /\ call[t1].req = call[t2].req
             /\ call[t1].completion = call[t2].completion => t1 = t2)'
      BY <2>3, <2>10, <2>12, <3>3 DEF ClaimInv
    <3>5. ASSUME NEW i \in DOMAIN chain, Issuing(t)', chain[i].req = d.req
          PROVE  chain[i].completion # d.completion
      <4>1. Spent(chain[i].req, chain[i].completion)
        BY DEF ClaimInv
      <4> QED
        BY <2>2, <2>5, <2>9, <2>10, <2>12, <3>5, <4>1 DEF ClaimInv, Spent, TypeOK
    <3>6. (\A u \in Threads, i \in DOMAIN chain :
             Issuing(u) /\ chain[i].req = call[u].req => chain[i].completion # call[u].completion)'
      BY <2>3, <2>10, <2>12, <2>13, <3>5 DEF ClaimInv
    <3>7. OneCertificatePerCompletion'
      BY <2>13 DEF ClaimInv, OneCertificatePerCompletion
    <3> QED
      BY <2>7, <2>8, <3>1, <3>2, <3>4, <3>6, <3>7 DEF ClaimInv
  <2>14. CASE ~UNCHANGED chain
    <3>1. \A i \in DOMAIN chain' : \/ i \in DOMAIN chain /\ chain'[i] = chain[i]
                                   \/ /\ i = Len(chain) + 1
                                      /\ chain'[i].req = c.req
                                      /\ chain'[i].completion = c.completion
      BY <1>1, <2>10, <2>14, ChainStep
    <3>2. Issuing(t)
      BY <1>1, <2>14, ChainStep DEF AppendToChain, At, Issuing
    <3>3. \A u \in Threads : Issuing(u)' => u # t /\ Issuing(u) /\ call'[u] = call[u]
      BY <2>3, <2>9, <2>12, <2>14
    <3>4. \A i \in DOMAIN chain' :
            /\ chain'[i].req \in Requests /\ chain'[i].completion \in Nat
            /\ Spent(chain'[i].req, chain'[i].completion)
      BY <2>2, <2>5, <2>11, <3>1, <3>2 DEF ClaimInv
    <3>5. (\A i \in DOMAIN chain : Spent(chain[i].req, chain[i].completion))'
      BY <2>6, <3>4 DEF Spent
    <3>6. (\A u \in Threads : Issuing(u) => Spent(call[u].req, call[u].completion))'
      BY <2>4, <2>6, <3>3 DEF ClaimInv, Spent
    <3>7. (\A t1, t2 \in Threads :
             Issuing(t1) /\ Issuing(t2) /\ call[t1].req = call[t2].req
             /\ call[t1].completion = call[t2].completion => t1 = t2)'
      BY <3>3 DEF ClaimInv
    <3>8. (\A u \in Threads, i \in DOMAIN chain :
             Issuing(u) /\ chain[i].req = call[u].req => chain[i].completion # call[u].completion)'
      BY <2>10, <3>1, <3>2, <3>3 DEF ClaimInv
    <3>9. OneCertificatePerCompletion'
      BY <2>10, <3>1, <3>2 DEF ClaimInv, OneCertificatePerCompletion
    <3> QED
      BY <2>7, <2>8, <3>5, <3>6, <3>7, <3>8, <3>9 DEF ClaimInv
  <2> QED
    BY <2>13, <2>14
<1>2. CASE Environment \/ UNCHANGED vars
  BY <1>2, EnvironmentFrame
     DEF ClaimInv, OneCertificatePerCompletion, Issuing, Spent
<1> QED
  BY <1>1, <1>2 DEF Next

\* OneCertificatePerCompletion, of every behaviour: of the executions that raced
\* off one CASCADE_COMPLETE, at most one chains a certificate for it.
THEOREM OneCertificatePerCompletionHolds == Spec => []OneCertificatePerCompletion
<1>1. Init => ClaimInv
  BY Members DEF Init, ClaimInv, OneCertificatePerCompletion, Issuing, NoCall, Fresh
<1>2. ClaimInv => OneCertificatePerCompletion
  BY DEF ClaimInv
<1> QED
  BY <1>1, <1>2, ClaimStep, TypeCorrect, PTL DEF Spec

(***************************************************************************)
(* A certificate lists only real wipes                                     *)
(***************************************************************************)

\* A wipe that happened stays, and only updateJanitorWipeStatus touches the
\* records, with an outcome its execution carries.
LEMMA RecordStep ==
    ASSUME TypeOK, NEW t \in Threads, Progress(t) \/ Failure(t) \/ Start(t)
    PROVE  /\ \A r \in Requests : wiped[r] \subseteq wiped'[r]
           /\ \A r \in Requests, s \in Sites :
                \/ wipes'[r][s] = wipes[r][s]
                \/ r = call[t].req /\ wipes'[r][s] = call[t].outcome[s]
<1>1. call[t].req \in Requests
  BY CallFields DEF TypeOK
<1>2. ASSUME NEW s \in Sites, RecordWipe(t, s)
      PROVE  /\ UNCHANGED wiped
             /\ \A r \in Requests, x \in Sites :
                  \/ wipes'[r][x] = wipes[r][x]
                  \/ r = call[t].req /\ wipes'[r][x] = call[t].outcome[x]
  <2> DEFINE q == call[t].req
             v == call[t].outcome[s]
  <2>1. UNCHANGED wiped
    BY <1>2 DEF RecordWipe, wipeVars
  <2>2. wipes' = [wipes EXCEPT ![q][s] = v] \/ UNCHANGED wipes
    BY <1>2 DEF RecordWipe
  <2>3. q \in Requests /\ wipes \in [Requests -> [Sites -> Outcomes]]
    BY <1>1 DEF TypeOK
  <2>4. v = call[t].outcome[s]
    OBVIOUS
  <2> HIDE DEF q, v
  <2>5. \A r \in Requests, x \in Sites :
          wipes'[r][x] = wipes[r][x] \/ (r = q /\ x = s /\ wipes'[r][x] = v)
    BY <2>2, <2>3
  <2> QED
    BY <2>1, <2>4, <2>5 DEF q
<1>3. ASSUME NEW s \in Sites, NEW result \in {"SUCCEEDED", "FAILED"}, WipeSite(t, s, result)
      PROVE  UNCHANGED wipes /\ \A r \in Requests : wiped[r] \subseteq wiped'[r]
  BY <1>1, <1>3 DEF WipeSite, TypeOK, docVars
<1>4. CASE /\ \A s \in Sites : ~RecordWipe(t, s)
           /\ \A s \in Sites, result \in {"SUCCEEDED", "FAILED"} : ~WipeSite(t, s, result)
  BY <1>4 DEF Progress, Failure, Start, PostAdvance, DeleteKeyShred, PostDeletionRequest,
      PostKeyGenerate, Begin, ShredLookup, ShredKeyStatus, CreateQuery, CreateDocument,
      GenerateCheck, SetKeyForUser, AdvanceRead, PrepareCascadeTrigger, ClaimTransition,
      ShredKeyForUser, Rollback, UpdateFields, CascadeReplan, WipesDone, CascadeConclude,
      WriteComplete, ClaimsReadKey, ClaimsReadRequest, AppendToChain,
      UploadCertificate, PlanFails, ShredFails, ReplanFails, CertificateFails,
      StorageFails, Crash, world, docVars, wipeVars
<1> QED
  BY <1>2, <1>3, <1>4

\* WipeInv is inductive.
LEMMA WipeStep == TypeOK /\ WipeInv /\ [Next]_vars => WipeInv'
<1> SUFFICES ASSUME TypeOK, WipeInv, [Next]_vars
             PROVE  WipeInv'
  OBVIOUS
<1>1. ASSUME NEW t \in Threads, Progress(t) \/ Failure(t) \/ Start(t)
      PROVE  WipeInv'
  <2> DEFINE c == call[t]
             d == call'[t]
  <2>1. c \in Call
    BY DEF TypeOK
  <2>2. c.req \in Requests /\ c.todo \in SUBSET Sites /\ c.outcome \in [Sites -> Outcomes]
    BY <2>1, CallFields
  <2>3. /\ \A s \in Sites : c.outcome[s] = "SUCCEEDED" => s \in wiped[c.req]
        /\ c.sites \subseteq wiped[c.req]
    BY DEF WipeInv
  <2>4. \A r \in Requests : wiped[r] \subseteq wiped'[r]
    BY <1>1, RecordStep
  <2>5. \A u \in Threads \ {t} : call'[u] = call[u]
    BY <1>1, CallStep, OthersKept
  <2>6. (\A r \in Requests, s \in Sites : wipes[r][s] = "SUCCEEDED" => s \in wiped[r])'
    BY <1>1, <2>3, <2>4, RecordStep DEF WipeInv
  <2>7. \A e : Become(t, e) => d = e
    BY OthersKept
  <2>8. /\ \A s \in Sites : d.outcome[s] = "SUCCEEDED" => s \in wiped'[d.req]
        /\ d.sites \subseteq wiped'[d.req]
    <3> HIDE DEF c, d
    <3>1. CASE ClaimsReadRequest(t)
      <4> DEFINE S == LineageSummary(c.req)
                 F == {s \in Sites : wipes[c.req][s] = "FAILED"}
      <4>1. S \in SUBSET Sites /\ F \in SUBSET Sites /\ S \subseteq wiped[c.req]
        BY <2>2 DEF LineageSummary, WipeInv
      <4>2. \/ d = [c EXCEPT !.pc = "append", !.sites = S, !.failed = F]
            \/ d = [c EXCEPT !.pc = "rollback"]
        BY <2>7, <3>1 DEF ClaimsReadRequest, Move, c
      <4> HIDE DEF S, F
      <4>3. d.req = c.req /\ d.outcome = c.outcome /\ d.sites \in {S, c.sites}
        <5>1. CASE d = [c EXCEPT !.pc = "append", !.sites = S, !.failed = F]
          BY <2>1, <4>1, <5>1, GateUpdates, Members
        <5>2. CASE d = [c EXCEPT !.pc = "rollback"]
          BY <2>1, <5>2 DEF Call
        <5> QED
          BY <4>2, <5>1, <5>2
      <4> QED
        BY <2>2, <2>3, <2>4, <4>1, <4>3
    <3>2. ASSUME NEW s \in Sites, NEW result \in {"SUCCEEDED", "FAILED"}, WipeSite(t, s, result)
          PROVE  /\ \A x \in Sites : d.outcome[x] = "SUCCEEDED" => x \in wiped'[d.req]
                 /\ d.sites \subseteq wiped'[d.req]
      <4>1. d = [c EXCEPT !.todo = c.todo \ {s}, !.outcome[s] = result]
        BY <2>7, <3>2 DEF WipeSite, c
      <4>2. /\ d.req = c.req /\ d.sites = c.sites
            /\ d.outcome = [c.outcome EXCEPT ![s] = result]
        BY <2>1, <4>1 DEF Call
      <4>3. result = "SUCCEEDED" => s \in wiped'[c.req]
        BY <2>2, <3>2 DEF WipeSite, TypeOK, c
      <4>4. \A x \in Sites : x # s => d.outcome[x] = c.outcome[x]
        BY <2>2, <4>2
      <4>5. d.outcome[s] = result
        BY <2>2, <4>2
      <4> QED
        BY <2>2, <2>3, <2>4, <4>2, <4>3, <4>4, <4>5
    <3>3. CASE /\ ~ClaimsReadRequest(t)
               /\ \A s \in Sites, result \in {"SUCCEEDED", "FAILED"} : ~WipeSite(t, s, result)
      <4>1. d \in Kept(c)
        BY <1>1, <2>7, <3>3, KeepingStep DEF c
      <4>2. CASE d.req = c.req /\ d.outcome = c.outcome /\ d.sites = c.sites
        BY <2>2, <2>3, <2>4, <4>2
      <4>3. CASE d.outcome = NoOutcome /\ d.sites = {}
        BY <4>3 DEF NoOutcome
      <4> QED
        BY <4>1, <4>2, <4>3 DEF Kept
    <3> QED
      BY <3>1, <3>2, <3>3
  <2>9. \A u \in Threads : call[u].req \in Requests
    BY CallFields DEF TypeOK
  <2>10. (\A u \in Threads, s \in Sites :
            call[u].outcome[s] = "SUCCEEDED" => s \in wiped[call[u].req])'
    BY <2>4, <2>5, <2>8, <2>9 DEF WipeInv
  <2>11. (\A u \in Threads : call[u].sites \subseteq wiped[call[u].req])'
    BY <2>4, <2>5, <2>8, <2>9 DEF WipeInv
  <2>12. CertificateListsOnlyRealWipes'
    <3>1. \A i \in DOMAIN chain : chain[i].req \in Requests
      <4>1. \A i \in DOMAIN chain : chain[i] \in Entry
        BY DEF TypeOK
      <4> QED
        BY <4>1 DEF Entry
    <3>2. CASE UNCHANGED chain
      BY <2>4, <3>1, <3>2 DEF WipeInv, CertificateListsOnlyRealWipes
    <3>3. CASE ~UNCHANGED chain
      <4>1. \A i \in DOMAIN chain' :
              \/ i \in DOMAIN chain /\ chain'[i] = chain[i]
              \/ chain'[i].req = c.req /\ chain'[i].sites = c.sites
        BY <1>1, <3>3, ChainStep
      <4> QED
        BY <2>2, <2>3, <2>4, <3>1, <4>1 DEF WipeInv, CertificateListsOnlyRealWipes
    <3> QED
      BY <3>2, <3>3
  <2> QED
    BY <2>6, <2>10, <2>11, <2>12 DEF WipeInv
<1>2. CASE Environment \/ UNCHANGED vars
  <2>1. \A u \in Threads : call[u].req \in Requests
    BY CallFields DEF TypeOK
  <2>2. \A i \in DOMAIN chain : chain[i].req \in Requests
    <3>1. \A i \in DOMAIN chain : chain[i] \in Entry
      BY DEF TypeOK
    <3> QED
      BY <3>1 DEF Entry
  <2> QED
    BY <1>2, <2>1, <2>2, EnvironmentFrame DEF WipeInv, CertificateListsOnlyRealWipes
<1> QED
  BY <1>1, <1>2 DEF Next

\* CertificateListsOnlyRealWipes, of every behaviour: what lineageSummary signs
\* as erased was erased by a cascade of the same request.
THEOREM CertificateListsOnlyRealWipesHolds == Spec => []CertificateListsOnlyRealWipes
<1>1. Init => WipeInv
  BY DEF Init, WipeInv, CertificateListsOnlyRealWipes, NoCall, Fresh, NoOutcome
<1>2. WipeInv => CertificateListsOnlyRealWipes
  BY DEF WipeInv
<1> QED
  BY <1>1, <1>2, WipeStep, TypeCorrect, PTL DEF Spec

(***************************************************************************)
(* The control of a step                                                   *)
(***************************************************************************)

CertPoints == {"keyread", "docread", "append", "upload", "rollback"}

\* The status writes of one step: createDeletionRequest, the claim, the rollback
\* and the unconditional write of CASCADE_COMPLETE.
Claims(c) ==
    /\ c.pc = "claim" /\ status[c.req] = c.seen
    /\ status' = [status EXCEPT ![c.req] = c.target]

StatusWrites(c) ==
    \/ UNCHANGED status
    \/ c.pc = "create" /\ status[c.req] = Absent /\ status' = [status EXCEPT ![c.req] = SR]
    \/ Claims(c)
    \/ c.pc = "rollback" /\ status' = [status EXCEPT ![c.req] = c.seen]
    \/ c.pc = "complete" /\ status' = [status EXCEPT ![c.req] = CC]

\* The control of an execution that only moves on.
Same(c, d) == d.req = c.req /\ d.kind = c.kind /\ d.target = c.target /\ d.seen = c.seen

\* A new call: the clients' three routes, or an advance.
Begun(c, d) ==
    /\ UNCHANGED status /\ d.outcome = NoOutcome
    /\ \/ <<d.pc, d.kind, d.target>> \in {<<"lookup", "shred", KD>>, <<"query", "create", SR>>,
                                          <<"gencheck", "generate", SR>>}
       \/ d.pc = "read" /\ d.kind = "advance"

\* The moves that change nothing but the await.
Moves(c, d) ==
    /\ Same(c, d)
    /\ \/ <<c.pc, d.pc>> \in {<<"lookup", "keystatus">>, <<"keystatus", "query">>,
                              <<"query", "create">>, <<"create", "read">>, <<"gencheck", "genset">>}
       \/ c.pc = "plan" /\ d.pc \in {"complete", "claim"}
       \/ Claims(c) /\ c.target = KD /\ d.pc = "shred"
       \/ Claims(c) /\ c.target \in {CP, CIP} /\ d.pc = "fields"
       \/ Claims(c) /\ c.target = CI /\ d.pc = "keyread"
       \/ c.pc = "shred" /\ d.pc \in {"fields", "rollback"}
       \/ c.pc \in CascadePoints /\ d.pc \in CascadePoints /\ (d.pc = "replan" => c.pc = "replan")
       \/ c.pc \in CertPoints \ {"rollback"} /\ d.pc \in CertPoints
       \/ c.pc = "upload" /\ d.pc = "fields"

\* advanceRequest read the document and the transition is valid.
Reads(c, d) ==
    /\ c.pc = "read" /\ UNCHANGED status
    /\ d.req = c.req /\ d.kind = c.kind /\ d.target = c.target
    /\ d.seen = status[c.req] /\ d.target \in transitions[d.seen]
    /\ \/ d.pc = "plan" /\ c.target \in {CP, CIP}
       \/ d.pc = "complete" /\ c.target = CC
       \/ d.pc = "claim" /\ c.target \notin {CP, CIP, CC}

\* A first plan failed, and a partial failure is reported.
PlanAborts(c, d) ==
    /\ c.pc = "plan"
    /\ d.pc = "read" /\ d.target = PF /\ d.req = c.req /\ d.kind = c.kind

\* DELETE /key/shred goes on to the cascade.
ShredGoesOn(c, d) ==
    /\ c.kind = "shred" /\ c.target = KD
    /\ d.pc = "read" /\ d.kind = "shred" /\ d.req = c.req /\ d.target = CP

\* The cascade is dispatched, concludes, completes, or throws into its catch clause.
Dispatches(c, d) ==
    /\ c.pc = "fields" /\ c.target \in {CP, CIP} /\ UNCHANGED status
    /\ d.pc = "replan" /\ d.kind = "cascade" /\ d.req = c.req /\ d.target = c.target

Concludes(c, d) ==
    /\ c.pc = "record" /\ UNCHANGED status
    /\ d.pc = "read" /\ d.kind = c.kind /\ d.req = c.req /\ d.target \in {PF, CC}

Completes(c, d) ==
    /\ c.pc = "complete" /\ status' = [status EXCEPT ![c.req] = CC]
    /\ d.pc = "read" /\ d.kind = c.kind /\ d.req = c.req /\ d.target = CI

Recovers(c, d) ==
    /\ c.kind = "cascade" /\ (c.pc = "claim" => UNCHANGED status)
    /\ d.pc = "read" /\ d.kind = "recovery" /\ d.req = c.req /\ d.target = PF

\* The call is over.
Ends(d) == d.pc = "idle" /\ d.kind = "none" /\ d.outcome = NoOutcome

\* What a step makes of the control part of the record c: the await it is at,
\* the kind of the execution, its request, target and the status it read.
Follows(c, d) ==
    \/ Ends(d) \/ Begun(c, d) \/ Moves(c, d) \/ Reads(c, d) \/ PlanAborts(c, d)
    \/ ShredGoesOn(c, d) \/ Dispatches(c, d) \/ Concludes(c, d) \/ Completes(c, d)
    \/ Recovers(c, d)

\* How a call ends, and how a returned or a failed one goes on.
LEMMA ControlEnds ==
    ASSUME NEW c \in Call
    PROVE  /\ Follows(c, NoCall)
           /\ Follows(c, Returned(c))
           /\ (c.pc = "claim" => UNCHANGED status) => Follows(c, Thrown(c))
<1>1. NoCall.pc = "idle" /\ NoCall.kind = "none" /\ NoCall.outcome = NoOutcome
  BY DEF NoCall, Fresh
<1>2. Follows(c, NoCall)
  BY <1>1 DEF Follows, Ends
<1>3. ASSUME c.kind = "shred", c.target = KD
      PROVE  LET d == [c EXCEPT !.pc = "read", !.target = CP] IN
             d.pc = "read" /\ d.kind = "shred" /\ d.req = c.req /\ d.target = CP
  BY <1>3 DEF Call
<1>4. ASSUME c.kind = "cascade"
      PROVE  LET d == [c EXCEPT !.pc = "read", !.kind = "recovery", !.target = PF, !.todo = {}] IN
             d.pc = "read" /\ d.kind = "recovery" /\ d.req = c.req /\ d.target = PF
  BY DEF Call
<1>5. Follows(c, Returned(c))
  BY <1>2, <1>3 DEF Returned, Follows, ShredGoesOn
<1>6. (c.pc = "claim" => UNCHANGED status) => Follows(c, Thrown(c))
  BY <1>2, <1>4 DEF Thrown, Follows, Recovers
<1> QED
  BY <1>2, <1>5, <1>6

\* Only four awaits write the status of a request, each that of its own.
LEMMA StatusStep ==
    ASSUME TypeOK, NEW t \in Threads, Progress(t) \/ Failure(t) \/ Start(t)
    PROVE  StatusWrites(call[t])
<1> DEFINE c == call[t]
<1>1. CASE CreateDocument(t)
  <2>1. c.req \in Requests /\ status \in [Requests -> DeletionRequestStatus \cup {Absent}]
    BY CallFields DEF TypeOK
  <2>2. CASE status[c.req] = Absent
    BY <1>1, <2>1, <2>2 DEF CreateDocument, At, StatusWrites
  <2>3. CASE status[c.req] # Absent
    BY <1>1, <2>1, <2>3 DEF CreateDocument, At, StatusWrites
  <2> QED
    BY <2>2, <2>3
<1>2. CASE ClaimTransition(t)
  BY <1>2 DEF ClaimTransition, ClaimHolds, At, SetStatus, StatusWrites, Claims
<1>3. CASE Rollback(t) \/ WriteComplete(t)
  BY <1>3 DEF Rollback, WriteComplete, At, SetStatus, StatusWrites
<1>4. CASE ~CreateDocument(t) /\ ~ClaimTransition(t) /\ ~Rollback(t) /\ ~WriteComplete(t)
  <2>1. UNCHANGED status
    BY <1>4 DEF Progress, Failure, Start, PostAdvance, DeleteKeyShred, PostDeletionRequest,
        PostKeyGenerate, Begin, ShredLookup, ShredKeyStatus, CreateQuery,
        GenerateCheck, SetKeyForUser, AdvanceRead, PrepareCascadeTrigger,
        ShredKeyForUser, UpdateFields, CascadeReplan, WipesDone, CascadeConclude,
        WipeSite, RecordWipe, ClaimsReadKey, ClaimsReadRequest, AppendToChain,
        UploadCertificate, PlanFails, ShredFails, ReplanFails, CertificateFails,
        StorageFails, Crash, world, docVars
  <2> QED
    BY <2>1 DEF StatusWrites
<1> QED
  BY <1>1, <1>2, <1>3, <1>4

\* Every step of an execution is one of Follows.
LEMMA FollowsStep ==
    ASSUME TypeOK, NEW t \in Threads, Progress(t) \/ Failure(t) \/ Start(t)
    PROVE  Follows(call[t], call'[t])
<1> DEFINE c == call[t]
           d == call'[t]
<1>1. c \in Call
  BY DEF TypeOK
<1>2. /\ c.req \in Requests /\ c.seen \in DeletionRequestStatus
      /\ c.target \in DeletionRequestStatus /\ c.resources \in SUBSET Resources
      /\ c.todo \in SUBSET Sites
  BY <1>1, CallFields
<1>3. \A e : Become(t, e) => d = e
  BY OthersKept
<1>4. /\ Follows(c, NoCall) /\ Follows(c, Returned(c))
      /\ (c.pc = "claim" => UNCHANGED status) => Follows(c, Thrown(c))
  BY <1>1, ControlEnds
<1>5. SUFFICES Follows(c, d)
  OBVIOUS
<1>6. status \in [Requests -> DeletionRequestStatus \cup {Absent}]
  BY DEF TypeOK
<1>7. UNCHANGED world => UNCHANGED status
  BY DEF world, docVars
<1> HIDE DEF c, d
<1>read. CASE AdvanceRead(t)
  <2>1. CASE isValidTransition(status[c.req], c.target)
    <3> DEFINE s == status[c.req]
               p == CASE c.target \in {CP, CIP} -> "plan"
                      [] c.target = CC -> "complete"
                      [] OTHER -> "claim"
    <3>1. s \in DeletionRequestStatus /\ c.target \in transitions[s]
      BY <1>2, <1>6, <2>1 DEF isValidTransition
    <3>2. d = [c EXCEPT !.seen = s, !.pc = p] /\ c.pc = "read" /\ UNCHANGED status
      BY <1>3, <1>7, <1>read, <2>1 DEF AdvanceRead, At, c
    <3>3. /\ p \in Points
          /\ \/ p = "plan" /\ c.target \in {CP, CIP}
             \/ p = "complete" /\ c.target = CC
             \/ p = "claim" /\ c.target \notin {CP, CIP, CC}
      BY Members
    <3> HIDE DEF p
    <3>4. d.pc = p /\ d.seen = s /\ d.req = c.req /\ d.kind = c.kind /\ d.target = c.target
      BY <1>1, <3>1, <3>2, <3>3 DEF Call, Same
    <3> QED
      BY <3>1, <3>2, <3>3, <3>4 DEF Follows, Reads
  <2>2. CASE ~isValidTransition(status[c.req], c.target)
    BY <1>3, <1>4, <1>read, <2>2 DEF AdvanceRead, Throw, At, c
  <2> QED
    BY <2>1, <2>2
<1>plan. CASE PrepareCascadeTrigger(t)
  <2>1. PlannedResources(c.instance) \in SUBSET Resources
    BY DEF PlannedResources, Resources
  <2>2. c.pc = "plan" /\ d.pc \in {"complete", "claim"} /\ Same(c, d)
    BY <1>1, <1>3, <1>plan, <2>1, Members
       DEF Call, Same, PrepareCascadeTrigger, Move, At, c
  <2> QED
    BY <2>2 DEF Follows, Moves
<1>planfails. CASE PlanFails(t)
  <2>1. CASE c.target = CP
    <3>1. c.pc = "plan" /\ d = [c EXCEPT !.pc = "read", !.target = PF]
      BY <1>3, <1>planfails, <2>1 DEF PlanFails, At, c
    <3>2. d.pc = "read" /\ d.target = PF /\ d.req = c.req /\ d.kind = c.kind
      BY <1>1, <3>1, Members DEF Call, Same
    <3> QED
      BY <3>1, <3>2 DEF Follows, PlanAborts
  <2>2. CASE c.target # CP
    BY <1>3, <1>4, <1>planfails, <2>2 DEF PlanFails, Return, c
  <2> QED
    BY <2>1, <2>2
<1>claim. CASE ClaimTransition(t)
  <2>1. CASE ClaimHolds(c)
    <3>1. Claims(c)
      BY <1>claim, <2>1 DEF ClaimTransition, ClaimHolds, SetStatus, At, Claims, c
    <3>2. CASE c.target = KD
      <4>1. d = [c EXCEPT !.pc = "shred"]
        BY <1>3, <1>claim, <2>1, <3>2 DEF ClaimTransition, Move, c, KD, CP, CIP, CI
      <4> QED
        BY <1>1, <3>1, <3>2, <4>1, Members DEF Call, Same, Follows, Moves
    <3>3. CASE c.target \in {CP, CIP}
      <4>1. d = [c EXCEPT !.pc = "fields"]
        BY <1>3, <1>claim, <2>1, <3>3 DEF ClaimTransition, Move, c, KD, CP, CIP, CI
      <4> QED
        BY <1>1, <3>1, <3>3, <4>1, Members DEF Call, Same, Follows, Moves
    <3>4. CASE c.target = CI
      <4>1. d = [c EXCEPT !.pc = "keyread", !.completion = completions[c.req]]
        BY <1>3, <1>claim, <2>1, <3>4 DEF ClaimTransition, c, KD, CP, CIP, CI
      <4>2. completions[c.req] \in Nat
        BY <1>2 DEF TypeOK
      <4> QED
        BY <1>1, <3>1, <3>4, <4>1, <4>2, Members DEF Call, Same, Follows, Moves
    <3>5. CASE c.target \notin {KD, CP, CIP, CI}
      BY <1>3, <1>4, <1>claim, <2>1, <3>5 DEF ClaimTransition, Return, c
    <3> QED
      BY <3>2, <3>3, <3>4, <3>5
  <2>2. CASE ~ClaimHolds(c)
    BY <1>3, <1>4, <1>claim, <2>2 DEF ClaimTransition, Return, c
  <2> QED
    BY <2>1, <2>2
<1>fields. CASE UpdateFields(t)
  <2>1. CASE c.target \in {CP, CIP}
    <3>1. c.pc = "fields" /\ UNCHANGED status
          /\ d = [c EXCEPT !.pc = "replan", !.kind = "cascade", !.todo = c.resources \cap memory[c.instance]]
      BY <1>3, <1>fields, <2>1 DEF UpdateFields, At, c
    <3>2. c.resources \cap memory[c.instance] \in SUBSET Sites
      BY <1>2 DEF Sites
    <3>3. d.pc = "replan" /\ d.kind = "cascade" /\ d.req = c.req /\ d.target = c.target
      BY <1>1, <3>1, <3>2, Members DEF Call, Same
    <3> QED
      BY <2>1, <3>1, <3>3 DEF Follows, Dispatches
  <2>2. CASE c.target \notin {CP, CIP}
    BY <1>3, <1>4, <1>fields, <2>2 DEF UpdateFields, Return, c
  <2> QED
    BY <2>1, <2>2
<1>conclude. CASE CascadeConclude(t)
  <2>1. c.pc = "record" /\ UNCHANGED status
        /\ d = [c EXCEPT !.pc = "read", !.target = CascadeOutcome(c)]
    BY <1>3, <1>7, <1>conclude DEF CascadeConclude, At, c
  <2>2. CascadeOutcome(c) \in {PF, CC}
    BY DEF CascadeOutcome
  <2>3. d.pc = "read" /\ d.target \in {PF, CC} /\ d.req = c.req /\ d.kind = c.kind
    BY <1>1, <2>1, <2>2, Members DEF Call, Same
  <2> QED
    BY <2>1, <2>3 DEF Follows, Concludes
<1>complete. CASE WriteComplete(t)
  <2>1. c.pc = "complete" /\ status' = [status EXCEPT ![c.req] = CC]
        /\ d = [c EXCEPT !.pc = "read", !.target = CI]
    BY <1>3, <1>complete DEF WriteComplete, SetStatus, At, c
  <2>2. d.pc = "read" /\ d.target = CI /\ d.req = c.req /\ d.kind = c.kind
    BY <1>1, <2>1, Members DEF Call, Same
  <2> QED
    BY <2>1, <2>2 DEF Follows, Completes
<1>replan. CASE CascadeReplan(t) \/ WipesDone(t)
  <2> DEFINE T == c.todo \cup Tasks(User(t))
             S == {s \in Sites : c.outcome[s] # "NONE"}
  <2>1. T \in SUBSET Sites /\ S \in SUBSET Sites
    BY <1>2 DEF Tasks, Sites
  <2>2. \/ c.pc = "replan" /\ d = [c EXCEPT !.pc = "wipe", !.todo = T]
        \/ c.pc = "wipe" /\ d = [c EXCEPT !.pc = "record", !.todo = S]
    BY <1>3, <1>replan DEF CascadeReplan, WipesDone, At, c
  <2> HIDE DEF T, S
  <2>3. c.pc \in CascadePoints /\ d.pc \in CascadePoints \ {"replan"} /\ Same(c, d)
    BY <1>1, <2>1, <2>2, Members DEF Call, Same, CascadePoints
  <2> QED
    BY <2>3 DEF Follows, Moves
<1>wipe. ASSUME NEW s \in Sites, NEW result \in {"SUCCEEDED", "FAILED"}, WipeSite(t, s, result)
         PROVE  Follows(c, d)
  <2>1. c.pc \in {"replan", "wipe"} /\ d = [c EXCEPT !.todo = c.todo \ {s}, !.outcome[s] = result]
    BY <1>3, <1>wipe DEF WipeSite, c
  <2>2. d.pc = c.pc /\ Same(c, d)
    BY <1>1, <1>2, <2>1, Members DEF Call, Same
  <2> QED
    BY <2>1, <2>2 DEF Follows, Moves, CascadePoints
<1>record. ASSUME NEW s \in Sites, RecordWipe(t, s)
           PROVE  Follows(c, d)
  <2>1. c.pc = "record" /\ d = [c EXCEPT !.todo = c.todo \ {s}]
    BY <1>3, <1>record DEF RecordWipe, At, c
  <2>2. d.pc = "record" /\ Same(c, d)
    BY <1>1, <1>2, <2>1 DEF Call, Same
  <2> QED
    BY <2>1, <2>2 DEF Follows, Moves, CascadePoints
<1>claims. CASE ClaimsReadRequest(t)
  <2> DEFINE S == LineageSummary(c.req)
             F == {s \in Sites : wipes[c.req][s] = "FAILED"}
  <2>1. S \in SUBSET Sites /\ F \in SUBSET Sites
    BY DEF LineageSummary
  <2>2. c.pc = "docread" /\ \/ d = [c EXCEPT !.pc = "append", !.sites = S, !.failed = F]
                            \/ d = [c EXCEPT !.pc = "rollback"]
    BY <1>3, <1>claims DEF ClaimsReadRequest, Move, At, c
  <2> HIDE DEF S, F
  <2>3. d.pc \in {"append", "rollback"} /\ Same(c, d)
    BY <1>1, <2>1, <2>2, Members DEF Call, Same
  <2> QED
    BY <2>2, <2>3 DEF Follows, Moves, CertPoints
<1>start. CASE Start(t)
  <2>1. ASSUME NEW i \in Instances, NEW r \in Requests, NEW s \in DeletionRequestStatus,
               PostAdvance(t, i, r, s)
        PROVE  Begun(c, d)
    <3>1. d = Fresh(i, "read", "advance", r, s) /\ UNCHANGED status
      BY <1>3, <2>1 DEF PostAdvance, Begin, docVars
    <3> QED
      BY <3>1 DEF Begun, Fresh
  <2>2. ASSUME NEW i \in Instances, NEW r \in Requests,
               DeleteKeyShred(t, i, r) \/ PostDeletionRequest(t, i, r) \/ PostKeyGenerate(t, i, r)
        PROVE  Begun(c, d)
    <3>1. /\ d \in {Fresh(i, "lookup", "shred", r, KD), Fresh(i, "query", "create", r, SR),
                    Fresh(i, "gencheck", "generate", r, SR)}
          /\ UNCHANGED status
      BY <1>3, <2>2 DEF DeleteKeyShred, PostDeletionRequest, PostKeyGenerate, Begin, docVars
    <3> QED
      BY <3>1 DEF Begun, Fresh
  <2> QED
    BY <1>start, <2>1, <2>2 DEF Start, Follows
<1>ends. CASE ReplanFails(t) \/ StorageFails(t) \/ Crash(t) \/ Rollback(t) \/ SetKeyForUser(t)
  <2>1. d \in {NoCall, Thrown(c)} /\ (c.pc = "claim" /\ d = Thrown(c) => UNCHANGED status \/ d = NoCall)
    BY <1>3, <1>7, <1>ends
       DEF c, ReplanFails, StorageFails, Crash, Rollback, SetKeyForUser, Throw, Stop, At
  <2> QED
    BY <1>4, <2>1
<1>moves. CASE \/ ShredLookup(t) \/ ShredKeyStatus(t) \/ CreateQuery(t) \/ CreateDocument(t)
               \/ GenerateCheck(t)
  <2>1. \/ d = NoCall
        \/ /\ <<c.pc, d.pc>> \in {<<"lookup", "keystatus">>, <<"keystatus", "query">>,
                                  <<"query", "create">>, <<"create", "read">>, <<"gencheck", "genset">>}
           /\ Same(c, d)
    BY <1>1, <1>3, <1>moves, Members
       DEF Call, Same, c, ShredLookup, ShredKeyStatus, CreateQuery, CreateDocument,
           GenerateCheck, Move, Stop, At
  <2> QED
    BY <1>4, <2>1 DEF Follows, Moves
<1>shred. CASE ShredKeyForUser(t) \/ ShredFails(t)
  <2>1. /\ c.pc = "shred" /\ Same(c, d)
        /\ d.pc \in {"fields", "rollback"}
    BY <1>1, <1>3, <1>shred, Members DEF Call, Same, c, ShredKeyForUser, ShredFails, Move, At
  <2> QED
    BY <2>1 DEF Follows, Moves
<1>cert. CASE ClaimsReadKey(t) \/ AppendToChain(t) \/ UploadCertificate(t) \/ CertificateFails(t)
  <2>1. /\ Same(c, d)
        /\ \/ c.pc \in CertPoints \ {"rollback"} /\ d.pc \in CertPoints
           \/ c.pc = "upload" /\ d.pc = "fields"
    BY <1>1, <1>3, <1>cert, Members
       DEF Call, Same, c, ClaimsReadKey, AppendToChain, UploadCertificate, CertificateFails,
           Move, At, CertPoints
  <2> QED
    BY <2>1 DEF Follows, Moves
<1> QED
  BY <1>read, <1>plan, <1>planfails, <1>claim, <1>fields, <1>conclude, <1>complete, <1>replan,
     <1>wipe, <1>record, <1>claims, <1>start, <1>ends, <1>moves, <1>shred, <1>cert
     DEF Progress, Failure

(***************************************************************************)
(* The histories                                                           *)
(***************************************************************************)

\* A step is one of an execution, whose disturbances are noted, or one that
\* disturbs nothing.
LEMMA HistoryStep ==
    ASSUME [HNext]_hvars
    PROVE  \/ \E t \in Threads : (Progress(t) \/ Failure(t) \/ Start(t)) /\ Notes(t)
           \/ (Environment \/ UNCHANGED vars) /\ UNCHANGED disturbed
<1>1. ASSUME NEW t \in Threads, Killed(t) \/ Ordinary(t)
      PROVE  (Progress(t) \/ Failure(t) \/ Start(t)) /\ Notes(t)
  BY <1>1 DEF Killed, Ordinary, Histories, Failure
<1>2. CASE UNCHANGED hvars
  BY <1>2 DEF hvars
<1> QED
  BY <1>1, <1>2 DEF HNext

\* The marks of the other requests are left alone, and those of the execution's
\* request grow by what the step disturbs.
LEMMA NotesStep ==
    ASSUME TypeOK, HistoryOK, NEW t \in Threads, Notes(t)
    PROVE  /\ disturbed' \in [Requests -> SUBSET Marks]
           /\ \A r \in Requests : disturbed[r] \subseteq disturbed'[r]
           /\ \A m \in Marks : Disturbs(t, m) => m \in disturbed'[call[t].req]
<1> DEFINE N == {m \in Marks : Disturbs(t, m)}
<1>1. call[t].req \in Requests
  BY CallFields DEF TypeOK
<1>2. disturbed' = [disturbed EXCEPT ![call[t].req] = @ \cup N]
  BY DEF Notes
<1>3. N \subseteq Marks /\ \A m \in Marks : Disturbs(t, m) => m \in N
  OBVIOUS
<1> HIDE DEF N
<1> QED
  BY <1>1, <1>2, <1>3 DEF HistoryOK

\* HistoryOK is inductive.
LEMMA HistoryTypes == TypeOK /\ HistoryOK /\ [HNext]_hvars => HistoryOK'
<1> SUFFICES ASSUME TypeOK, HistoryOK, [HNext]_hvars
             PROVE  HistoryOK'
  OBVIOUS
<1>1. disturbed' \in [Requests -> SUBSET Marks]
  BY HistoryStep, NotesStep DEF HistoryOK
<1>2. ASSUME NEW t \in Threads, Killed(t) \/ Ordinary(t)
      PROVE  excused' \subseteq Requests
  <2>1. call[t].req \in Requests
    BY CallFields DEF TypeOK
  <2> QED
    BY <1>2, <2>1 DEF HistoryOK, Killed, Ordinary, Histories
<1>3. excused' \subseteq Requests
  BY <1>2 DEF HNext, hvars, HistoryOK
<1> QED
  BY <1>1, <1>3 DEF HistoryOK

\* The histories only watch: without them a behaviour is one of the handlers.
THEOREM HistoryImplementsSpec == HSpec => Spec
<1>1. HInit => Init
  BY DEF HInit
<1>2. [HNext]_hvars => [Next]_vars
  BY HistoryStep DEF Next
<1> QED
  BY <1>1, <1>2, PTL DEF Spec, HSpec

\* The types, in every behaviour with its histories.
LEMMA HistoryTypeCorrect == HSpec => [](TypeOK /\ HistoryOK)
<1>1. HInit => HistoryOK
  BY DEF HInit, HistoryOK
<1> QED
  BY <1>1, HistoryTypes, HistoryImplementsSpec, TypeCorrect, PTL DEF HSpec

(***************************************************************************)
(* One cascade records the outcomes                                        *)
(***************************************************************************)

\* The execution of a cascade, from its claim to the end of its certificate and
\* of its catch clause.
Owns(c) == c.kind \in {"cascade", "recovery"} \/ (c.pc = "fields" /\ c.target \in {CP, CIP})

\* The statuses an owned request can have: its partial failure is for the owner
\* to write, and that ends it.
Owned == {CP, CIP, CC, CI}

\* What the kind, target and seen of an execution say at each await.
Orderly(c) ==
    /\ c.pc = "plan" => c.target \in {CP, CIP}
    /\ c.pc \in {"plan", "claim"} => c.target \in transitions[c.seen] /\ c.target # CC
    /\ c.pc \in CertPoints => \/ c.target = CI /\ c.seen = CC
                              \/ c.pc = "rollback" /\ c.target = KD /\ c.seen = SR
    /\ c.pc = "shred" => c.target = KD /\ c.seen = SR
    /\ c.pc \in {"lookup", "keystatus", "query", "create", "gencheck", "genset"} =>
         c.target \in {KD, SR}
    /\ c.pc \in CascadePoints => c.kind = "cascade"
    /\ c.pc = "complete" => c.target \in {CP, CIP, CC}
    /\ c.kind = "recovery" => c.pc \in {"read", "claim"} /\ c.target = PF
    /\ c.kind = "cascade" => c.pc \in CascadePoints \/ c.target \in {CC, PF, CI}

\* Unmoved, of the history m.
Calm(m, r) == m[r] \cap {"restarted", "reported", "rolled_back"} = {}

\* A request whose status nothing but its cascades moved has one owner at most, and
\* stays where its owner put it.
CascadeInv ==
    /\ \A t \in Threads : Orderly(call[t])
    /\ \A t \in Threads :
         Owns(call[t]) /\ Calm(disturbed, call[t].req) => status[call[t].req] \in Owned
    /\ \A t1, t2 \in Threads :
         /\ Owns(call[t1]) /\ Owns(call[t2])
         /\ call[t1].req = call[t2].req /\ Calm(disturbed, call[t1].req)
         => t1 = t2

\* The rows of the transition table.
LEMMA TransitionTable ==
    ASSUME NEW s \in DeletionRequestStatus, NEW n \in transitions[s]
    PROVE  /\ n \in DeletionRequestStatus /\ s # CI /\ n # SR
           /\ n = KD => s = SR
           /\ n = CP => s = KD
           /\ n = CIP => s \in {CP, PF}
           /\ n = CI => s = CC
           /\ s \in Owned => n \in Owned \cup {PF}
           /\ s \in {CP, CIP} => n \in {CIP, CC, PF}
BY DEF transitions, DeletionRequestStatus, SR, KD, CP, CIP, CC, PF, CI, Owned

\* The facts of Orderly survive every step of the execution.
LEMMA OrderlyStep ==
    ASSUME NEW c \in Call, NEW d \in Call, Follows(c, d), Orderly(c)
    PROVE  Orderly(d)
<1>1. /\ c.req \in Requests /\ c.target \in DeletionRequestStatus
      /\ c.seen \in DeletionRequestStatus /\ d.seen \in DeletionRequestStatus
  BY CallFields
<1>begun. CASE Begun(c, d)
  BY <1>begun DEF Begun, Orderly, CertPoints, CascadePoints, SR, KD, CP, CIP, CC, PF, CI
<1>reads. CASE Reads(c, d)
  <2>1. d.target \in transitions[d.seen]
    BY <1>reads DEF Reads
  <2> QED
    BY <1>reads, <2>1 DEF Reads, Orderly, CertPoints, CascadePoints, SR, KD, CP, CIP, CC, PF, CI
<1>moves. CASE Moves(c, d)
  <2>1. Same(c, d)
    BY <1>moves DEF Moves
  <2>2. CASE Claims(c) /\ c.target \in {KD, CI} /\ d.pc \in {"shred", "keyread"}
    <3>1. (c.target = KD => c.seen = SR) /\ (c.target = CI => c.seen = CC)
      <4>1. c.target \in transitions[c.seen]
        BY <2>2 DEF Claims, Orderly
      <4> QED
        BY <1>1, <4>1, TransitionTable
    <3> QED
      BY <1>moves, <2>1, <2>2, <3>1
         DEF Moves, Same, Claims, Orderly, CertPoints, CascadePoints, SR, KD, CP, CIP, CC, PF, CI
  <2>3. CASE d.pc \in CascadePoints
    BY <1>moves, <2>1, <2>3 DEF Moves, Same, Orderly, CertPoints, CascadePoints
  <2>4. CASE d.pc \in CertPoints /\ ~Claims(c)
    BY <1>moves, <2>1, <2>4
       DEF Moves, Same, Orderly, CertPoints, CascadePoints, SR, KD, CP, CIP, CC, PF, CI
  <2>5. CASE /\ d.pc \notin CascadePoints \cup CertPoints
             /\ ~(Claims(c) /\ c.target = KD /\ d.pc = "shred")
    BY <1>moves, <2>1, <2>5 DEF Moves, Same, Orderly, Claims, CertPoints, CascadePoints, SR, KD,
                                CP, CIP, CC, PF, CI
  <2> QED
    BY <1>moves, <2>2, <2>3, <2>4, <2>5 DEF Moves, Claims, CertPoints, CascadePoints
<1>concludes. CASE Concludes(c, d)
  BY <1>concludes DEF Concludes, Orderly, CertPoints, CascadePoints, SR, KD, CP, CIP, CC, PF, CI
<1>others. CASE \/ Ends(d) \/ PlanAborts(c, d) \/ ShredGoesOn(c, d) \/ Dispatches(c, d)
                \/ Completes(c, d) \/ Recovers(c, d)
  BY <1>others DEF Ends, PlanAborts, ShredGoesOn, Dispatches, Completes, Recovers, Orderly,
                   CertPoints, CascadePoints, SR, KD, CP, CIP, CC, PF, CI
<1> QED
  BY <1>begun, <1>reads, <1>moves, <1>concludes, <1>others DEF Follows

\* How a step changes where a request is: out of Owned only by a claim of a partial
\* failure of its own cascade, or the request is marked.
LEMMA StatusMoves ==
    ASSUME TypeOK, HistoryOK, NEW t \in Threads, Progress(t) \/ Failure(t) \/ Start(t),
           Notes(t), Orderly(call[t]), NEW r \in Requests
    PROVE  /\ status[r] \in Owned /\ Calm(disturbed', r) =>
                \/ status'[r] \in Owned
                \/ /\ r = call[t].req /\ call[t].kind \in {"cascade", "recovery"}
                   /\ Claims(call[t]) /\ call[t].target = PF
           /\ status'[r] = status[r] \/ r = call[t].req
<1> DEFINE c == call[t]
<1>1. /\ c.req \in Requests /\ c.target \in DeletionRequestStatus
      /\ c.seen \in DeletionRequestStatus
      /\ status \in [Requests -> DeletionRequestStatus \cup {Absent}]
  BY CallFields DEF TypeOK
<1>2. StatusWrites(c)
  BY StatusStep
<1>3. Calm(disturbed', c.req) => ~Disturbs(t, "reported") /\ ~Disturbs(t, "rolled_back")
  BY NotesStep DEF Calm, Marks
<1>4. CASE Claims(c)
  <2>1. c.target \in transitions[c.seen] /\ status[c.req] = c.seen
    BY <1>4 DEF Claims, Orderly
  <2>2. c.seen # CI /\ (c.seen \in Owned => c.target \in Owned \cup {PF})
    BY <1>1, <2>1, TransitionTable
  <2>3. status'[c.req] = c.target /\ \A q \in Requests : q # c.req => status'[q] = status[q]
    BY <1>1, <1>4 DEF Claims
  <2>4. c.target = PF /\ c.kind \notin {"cascade", "recovery"} /\ c.seen \in Owned
          => Disturbs(t, "reported")
    BY <2>1, <2>2, <2>3 DEF Disturbs, Owned
  <2> QED
    BY <1>3, <1>4, <2>1, <2>2, <2>3, <2>4
<1>5. CASE c.pc = "rollback" /\ status' = [status EXCEPT ![c.req] = c.seen]
  <2>1. status'[c.req] = c.seen /\ \A q \in Requests : q # c.req => status'[q] = status[q]
    BY <1>1, <1>5
  <2>2. c.seen \in {CC, SR}
    BY <1>5 DEF Orderly, CertPoints
  <2>3. c.seen = SR /\ status[c.req] \in Owned => Disturbs(t, "rolled_back")
    BY <2>1 DEF Disturbs, Owned, Absent, SR, KD, CP, CIP, CC, CI
  <2> QED
    BY <1>3, <2>1, <2>2, <2>3 DEF Owned
<1>6. CASE c.pc = "complete" /\ status' = [status EXCEPT ![c.req] = CC]
  BY <1>1, <1>6 DEF Owned
<1>7. CASE c.pc = "create" /\ status[c.req] = Absent /\ status' = [status EXCEPT ![c.req] = SR]
  BY <1>1, <1>7 DEF Owned, Absent, CP, CIP, CC, CI
<1>8. CASE UNCHANGED status
  BY <1>8
<1> QED
  BY <1>2, <1>4, <1>5, <1>6, <1>7, <1>8 DEF StatusWrites

\* CascadeInv is inductive: the claim that dispatches a cascade finds its request
\* without an owner, and only the owner takes it out of Owned.
LEMMA CascadeStep == TypeOK /\ HistoryOK /\ CascadeInv /\ [HNext]_hvars => CascadeInv'
<1> SUFFICES ASSUME TypeOK, HistoryOK, CascadeInv, [HNext]_hvars
             PROVE  CascadeInv'
  OBVIOUS
<1>1. ASSUME NEW t \in Threads, Progress(t) \/ Failure(t) \/ Start(t), Notes(t)
      PROVE  CascadeInv'
  <2> DEFINE c == call[t]
             d == call'[t]
  <2>1. c \in Call /\ d \in Call /\ status \in [Requests -> DeletionRequestStatus \cup {Absent}]
    BY <1>1, CallStep, OthersKept DEF TypeOK
  <2>2. /\ c.req \in Requests /\ c.target \in DeletionRequestStatus
        /\ c.seen \in DeletionRequestStatus /\ d.req \in Requests
    BY <2>1, CallFields
  <2>3. \A x \in Threads \ {t} : call'[x] = call[x]
    BY <1>1, CallStep, OthersKept
  <2>4. Orderly(c) /\ (Owns(c) /\ Calm(disturbed, c.req) => status[c.req] \in Owned)
    BY DEF CascadeInv
  <2>5. Follows(c, d)
    BY <1>1, FollowsStep
  <2>6. Orderly(d)
    BY <2>1, <2>4, <2>5, OrderlyStep
  <2>7. \A r \in Requests :
          /\ status[r] \in Owned /\ Calm(disturbed', r) =>
               \/ status'[r] \in Owned
               \/ /\ r = c.req /\ c.kind \in {"cascade", "recovery"}
                  /\ Claims(c) /\ c.target = PF
          /\ status'[r] = status[r] \/ r = c.req
    BY <1>1, <2>4, StatusMoves
  <2>8. \A r \in Requests : Calm(disturbed', r) => Calm(disturbed, r)
    BY <1>1, NotesStep DEF Calm
  <2>9. Calm(disturbed', c.req) => ~Disturbs(t, "restarted")
    BY <1>1, NotesStep DEF Calm, Marks
  <2>10. Disturbs(t, "restarted") <=> status[c.req] = CP /\ status'[c.req] = CIP
    BY DEF Disturbs
  <2> HIDE DEF c, d
  \* Ownership is taken by the dispatching claim only.
  <2>11. Owns(d) => d.req = c.req /\ (Owns(c) \/ (Claims(c) /\ c.target \in {CP, CIP}))
    <3>1. CASE Moves(c, d)
      BY <2>4, <3>1 DEF Moves, Same, Owns, Orderly, Claims, CertPoints, CascadePoints, CP, CIP,
                        CI, KD
    <3> QED
      BY <2>5, <3>1 DEF Follows, Ends, Begun, Reads, PlanAborts, ShredGoesOn, Dispatches,
                        Concludes, Completes, Recovers, Owns
  <2>12. Claims(c) /\ c.target \in {CP, CIP} /\ Calm(disturbed', c.req) => status[c.req] \notin Owned
    <3>1. Claims(c) => c.target \in transitions[c.seen]
      BY <2>4 DEF Claims, Orderly
    <3>2. Claims(c) /\ c.target = CP => c.seen = KD
      BY <2>2, <3>1, TransitionTable DEF CP
    <3>3. Claims(c) /\ c.target = CIP => c.seen \in {CP, PF}
      BY <2>2, <3>1, TransitionTable DEF CIP
    <3>4. Claims(c) => status[c.req] = c.seen /\ status'[c.req] = c.target
      BY <2>1, <2>2 DEF Claims
    <3> QED
      BY <2>9, <2>10, <3>2, <3>3, <3>4 DEF Owned, KD, CP, CIP, CC, PF, CI
  \* The owner that claims a partial failure is over.
  <2>13. Claims(c) /\ c.target = PF /\ c.kind \in {"cascade", "recovery"} => ~Owns(d)
    <3>1. ~Moves(c, d) \/ ~(Claims(c) /\ c.target = PF)
      BY DEF Moves, Claims, CertPoints, CascadePoints, KD, CP, CIP, PF, CI
    <3>2. Claims(c) /\ c.target = PF /\ c.seen = PF => FALSE
      <4>1. Claims(c) => c.target \in transitions[c.seen]
        BY <2>4 DEF Claims, Orderly
      <4> QED
        BY <4>1 DEF transitions, DeletionRequestStatus, SR, KD, CP, CIP, CC, PF, CI
    <3>3. Claims(c) /\ c.target = PF => ~UNCHANGED status
      BY <2>1, <2>2, <3>2 DEF Claims
    <3> QED
      BY <2>5, <3>1, <3>3 DEF Follows, Ends, Begun, Reads, PlanAborts, ShredGoesOn, Dispatches,
                        Concludes, Completes, Recovers, Owns, Claims
  <2>14. ASSUME Owns(d), Calm(disturbed', d.req)
         PROVE  status'[d.req] \in Owned
    <3>1. Claims(c) /\ c.target \in {CP, CIP} => status'[c.req] \in Owned
      BY <2>1, <2>2 DEF Claims, Owned
    <3> QED
      BY <2>2, <2>4, <2>7, <2>8, <2>11, <2>13, <2>14, <3>1
  <2>15. ASSUME NEW x \in Threads, x # t, Owns(call[x]), Calm(disturbed', call[x].req)
         PROVE  status'[call[x].req] \in Owned
    <3>1. call[x].req \in Requests
      BY CallFields DEF TypeOK
    <3>2. Calm(disturbed, call[x].req) /\ status[call[x].req] \in Owned
      BY <2>8, <2>15, <3>1 DEF CascadeInv
    <3>3. Owns(c) => call[x].req # c.req
      BY <2>15, <3>2 DEF CascadeInv, c
    <3> QED
      BY <2>7, <2>15, <3>1, <3>2, <3>3 DEF Owns
  <2>16. ASSUME NEW x \in Threads, x # t, Owns(call[x]), Owns(d), call[x].req = d.req,
                Calm(disturbed', d.req)
         PROVE  FALSE
    <3>1. Calm(disturbed, d.req) /\ status[call[x].req] \in Owned
      BY <2>2, <2>8, <2>16 DEF CascadeInv
    <3>2. Owns(c) => call[x].req # c.req
      BY <2>11, <2>16, <3>1 DEF CascadeInv, c
    <3> QED
      BY <2>11, <2>12, <2>16, <3>1, <3>2
  <2>17. \A x \in Threads :
           /\ Orderly(call'[x])
           /\ Owns(call'[x]) /\ Calm(disturbed', call'[x].req) => status'[call'[x].req] \in Owned
    BY <2>3, <2>6, <2>14, <2>15 DEF CascadeInv, d
  <2>18. \A x, y \in Threads :
           /\ Owns(call'[x]) /\ Owns(call'[y])
           /\ call'[x].req = call'[y].req /\ Calm(disturbed', call'[x].req)
           => x = y
    <3> SUFFICES ASSUME NEW x \in Threads, NEW y \in Threads, Owns(call'[x]), Owns(call'[y]),
                        call'[x].req = call'[y].req, Calm(disturbed', call'[x].req), x # y
                 PROVE  FALSE
      OBVIOUS
    <3>1. CASE x = t \/ y = t
      BY <2>3, <2>16, <3>1 DEF d
    <3>2. CASE x # t /\ y # t
      <4>1. call'[x] = call[x] /\ call'[y] = call[y] /\ call[x].req \in Requests
        BY <2>3, <3>2, CallFields DEF TypeOK
      <4>2. Calm(disturbed, call[x].req)
        BY <2>8, <4>1
      <4> QED
        BY <4>1, <4>2 DEF CascadeInv
    <3> QED
      BY <3>1, <3>2
  <2> QED
    BY <2>17, <2>18 DEF CascadeInv, Orderly, Owns, Calm
<1>2. CASE (Environment \/ UNCHANGED vars) /\ UNCHANGED disturbed
  BY <1>2, EnvironmentFrame DEF CascadeInv, Orderly, Owns, Calm
<1> QED
  BY <1>1, <1>2, HistoryStep

\* OneCascadeRecords, of every behaviour of every client: the claims of
\* CASCADE_PENDING and CASCADE_IN_PROGRESS admit one cascade of a request whose
\* status nothing but its cascades moved, whatever fails.
THEOREM OneCascadeRecordsHolds == HSpec => []OneCascadeRecords
<1>1. HInit => CascadeInv
  BY DEF HInit, Init, CascadeInv, Orderly, Owns, NoCall, Fresh, CertPoints, CascadePoints
<1>2. CascadeInv => OneCascadeRecords
  BY DEF CascadeInv, Orderly, Owns, OneCascadeRecords, Unmoved, Calm
<1>3. CascadeInv /\ TypeOK /\ HistoryOK /\ [HNext]_hvars => CascadeInv'
  BY CascadeStep
<1> QED
  BY <1>1, <1>2, <1>3, HistoryTypeCorrect, PTL DEF HSpec

(***************************************************************************)
(* A certificate stays issued                                              *)
(***************************************************************************)

\* Undisturbed, of the history m.
OwnCascadesOnly(m, r) == Calm(m, r) /\ "completed" \notin m[r]

\* A cascade that has not completed yet.
Runs(c) ==
    \/ c.pc \in CascadePoints
    \/ c.pc = "fields" /\ c.target \in {CP, CIP}
    \/ c.pc \in {"read", "claim", "complete"} /\ c.kind = "cascade" /\ c.target \in {CC, PF}

\* A claimed certificate that is not recorded on its request yet.
Certifies(c) == c.target = CI /\ c.pc \in CertPoints \cup {"fields"}

\* Of a request that its own cascades alone complete: a running cascade keeps it
\* pending or in progress; a certificate in the making, and a recorded one, keep it
\* issued, and exclude each other.
Settled(c, st) ==
    /\ c.pc = "complete" => c.kind = "cascade"
    /\ Runs(c) => st[c.req] \in {CP, CIP}
    /\ Certifies(c) => st[c.req] = CI

FinalInv ==
    /\ \A t \in Threads : OwnCascadesOnly(disturbed, call[t].req) => Settled(call[t], status)
    /\ \A t1, t2 \in Threads :
         /\ Certifies(call[t1]) /\ Certifies(call[t2])
         /\ call[t1].req = call[t2].req /\ OwnCascadesOnly(disturbed, call[t1].req)
         => t1 = t2
    /\ \A r \in Requests :
         "certificate_issued_at" \in fields[r] /\ OwnCascadesOnly(disturbed, r) =>
           /\ status[r] = CI
           /\ \A t \in Threads : Certifies(call[t]) => call[t].req # r

\* Only updateDeletionRequestFields attaches a field, that of its target.
LEMMA FieldsStep ==
    ASSUME TypeOK, NEW t \in Threads, Progress(t) \/ Failure(t) \/ Start(t)
    PROVE  \/ UNCHANGED fields
           \/ /\ call[t].pc = "fields"
              /\ fields' = [fields EXCEPT ![call[t].req] = @ \cup {FieldOf(call[t].target)}]
<1>1. CASE UpdateFields(t)
  BY <1>1 DEF UpdateFields, At
<1>2. CASE ~UpdateFields(t)
  BY <1>2 DEF Progress, Failure, Start, PostAdvance, DeleteKeyShred, PostDeletionRequest,
      PostKeyGenerate, Begin, ShredLookup, ShredKeyStatus, CreateQuery, CreateDocument,
      GenerateCheck, SetKeyForUser, AdvanceRead, PrepareCascadeTrigger, ClaimTransition,
      ShredKeyForUser, Rollback, CascadeReplan, WipesDone, CascadeConclude,
      WipeSite, RecordWipe, WriteComplete, ClaimsReadKey, ClaimsReadRequest, AppendToChain,
      UploadCertificate, PlanFails, ShredFails, ReplanFails, CertificateFails,
      StorageFails, Crash, world, docVars
<1> QED
  BY <1>1, <1>2

\* FinalInv is inductive.
LEMMA FinalStep ==
    TypeOK /\ HistoryOK /\ CascadeInv /\ FinalInv /\ [HNext]_hvars => FinalInv'
<1> SUFFICES ASSUME TypeOK, HistoryOK, CascadeInv, FinalInv, [HNext]_hvars
             PROVE  FinalInv'
  OBVIOUS
<1>1. ASSUME NEW t \in Threads, Progress(t) \/ Failure(t) \/ Start(t), Notes(t)
      PROVE  FinalInv'
  <2> DEFINE c == call[t]
             d == call'[t]
  <2>1. /\ c \in Call /\ d \in Call
        /\ status \in [Requests -> DeletionRequestStatus \cup {Absent}]
        /\ fields \in [Requests -> SUBSET FieldNames]
    BY <1>1, CallStep, OthersKept DEF TypeOK
  <2>2. /\ c.req \in Requests /\ c.target \in DeletionRequestStatus
        /\ c.seen \in DeletionRequestStatus /\ d.req \in Requests
    BY <2>1, CallFields
  <2>3. \A x \in Threads \ {t} : call'[x] = call[x]
    BY <1>1, CallStep, OthersKept
  <2>4. Orderly(c) /\ Follows(c, d) /\ StatusWrites(c)
    BY <1>1, FollowsStep, StatusStep DEF CascadeInv
  <2>5. \/ UNCHANGED fields
        \/ c.pc = "fields" /\ fields' = [fields EXCEPT ![c.req] = @ \cup {FieldOf(c.target)}]
    BY <1>1, FieldsStep
  <2>6. OwnCascadesOnly(disturbed, c.req) => Settled(c, status)
    BY DEF FinalInv
  <2>7. \A r \in Requests : OwnCascadesOnly(disturbed', r) =>
          OwnCascadesOnly(disturbed, r) /\ Calm(disturbed, r) /\ Calm(disturbed', r)
    BY <1>1, NotesStep DEF OwnCascadesOnly, Calm
  <2>8. OwnCascadesOnly(disturbed', c.req) =>
          /\ ~Disturbs(t, "rolled_back") /\ ~Disturbs(t, "reported")
          /\ ~Disturbs(t, "completed")
    BY <1>1, NotesStep DEF OwnCascadesOnly, Calm, Marks
  <2>9. /\ Disturbs(t, "rolled_back") <=> status[c.req] \notin {Absent, SR, KD} /\ status'[c.req] = SR
        /\ Disturbs(t, "reported") <=>
             /\ c.kind \notin {"cascade", "recovery"}
             /\ status[c.req] \in {CP, CIP, CC} /\ status'[c.req] = PF
        /\ Disturbs(t, "completed") <=>
             c.kind # "cascade" /\ c.pc # "complete" /\ d.pc = "complete"
    BY DEF Disturbs
  <2>10. \A x \in Threads : Owns(c) /\ Owns(call[x]) /\ call[x].req = c.req
                            /\ Calm(disturbed, c.req) => x = t
    BY DEF CascadeInv
  <2> HIDE DEF c, d
  <2>11. Claims(c) =>
           /\ status[c.req] = c.seen /\ c.seen # CI
           /\ status'[c.req] = c.target
           /\ c.seen \in {CP, CIP} => c.target \in {CIP, PF}
           /\ c.target = CI => c.seen = CC
    <3>1. Claims(c) => c.target \in transitions[c.seen] /\ c.target # CC
      BY <2>4 DEF Claims, Orderly
    <3>2. c.target \in transitions[c.seen] =>
            /\ c.seen # CI
            /\ c.target = CI => c.seen = CC
            /\ c.seen \in {CP, CIP} => c.target \in {CIP, CC, PF}
      BY <2>2, TransitionTable
    <3>3. Claims(c) => status[c.req] = c.seen /\ status'[c.req] = c.target
      BY <2>1, <2>2 DEF Claims
    <3> QED
      BY <3>1, <3>2, <3>3
  <2>12. d.pc = "complete" /\ OwnCascadesOnly(disturbed', c.req) => d.kind = "cascade" /\ d.req = c.req
    <3>1. d.pc = "complete" => c.pc # "complete" /\ d.kind = c.kind /\ d.req = c.req
      BY <2>4 DEF Follows, Ends, Begun, Moves, Same, Claims, Reads, PlanAborts, ShredGoesOn,
                  Dispatches, Concludes, Completes, Recovers, CertPoints, CascadePoints
    <3> QED
      BY <2>8, <2>9, <3>1
  <2>13. d.pc = "complete" => d.req = c.req
    BY <2>4 DEF Follows, Ends, Begun, Moves, Same, Reads, PlanAborts, ShredGoesOn,
                Dispatches, Concludes, Completes, Recovers
  <2>14. Runs(d) => d.req = c.req /\ ((Runs(c) /\ UNCHANGED status) \/ (Claims(c) /\ c.target \in {CP, CIP}))
    <3>1. CASE Moves(c, d) /\ c.pc \in CascadePoints
      <4>1. d.req = c.req
        BY <3>1 DEF Moves, Same
      <4> QED
        BY <2>4, <3>1, <4>1 DEF Runs, StatusWrites, Claims, CascadePoints
    <3>2. CASE Moves(c, d) /\ c.pc \notin CascadePoints
      <4>1. Same(c, d)
        BY <3>2 DEF Moves
      <4>2. ~(d.pc = "fields" /\ c.pc \in {"shred", "upload"} /\ d.target \in {CP, CIP})
        BY <2>4, <4>1 DEF Same, Orderly, CertPoints, KD, CP, CIP, CI
      <4>3. ~(d.pc \in {"read", "claim", "complete"} /\ d.kind = "cascade" /\ d.target \in {CC, PF})
        BY <2>4, <3>2, <4>1 DEF Moves, Same, Orderly, Claims, CertPoints, CascadePoints,
                                SR, KD, CP, CIP, CC, PF, CI
      <4> QED
        BY <3>2, <4>1, <4>2, <4>3 DEF Moves, Same, Runs, CertPoints, CascadePoints
    <3>3. CASE Reads(c, d)
      BY <3>3 DEF Reads, Runs, CascadePoints
    <3>4. CASE Dispatches(c, d)
      BY <3>4 DEF Dispatches, Runs
    <3>5. CASE Concludes(c, d)
      BY <3>5 DEF Concludes, Runs, CascadePoints
    <3>6. CASE PlanAborts(c, d)
      BY <2>4, <3>6 DEF PlanAborts, Orderly, Runs, CascadePoints, CP, CIP, CC, PF, CI
    <3> QED
      BY <2>4, <3>1, <3>2, <3>3, <3>4, <3>5, <3>6
         DEF Follows, Ends, Begun, ShredGoesOn, Completes, Recovers,
             Runs, CascadePoints, CP, CC, PF, CI
  <2>15. Certifies(d) => d.req = c.req /\ ((Certifies(c) /\ UNCHANGED status) \/ (Claims(c) /\ c.target = CI))
    <3>1. CASE Moves(c, d)
      BY <2>4, <3>1
         DEF Moves, Same, Certifies, Orderly, Claims, StatusWrites, CertPoints, CascadePoints,
             SR, KD, CP, CIP, CC, PF, CI
    <3> QED
      BY <2>4, <3>1 DEF Follows, Ends, Begun, Reads, PlanAborts, ShredGoesOn, Dispatches,
                        Concludes, Completes, Recovers, Certifies, CertPoints, CascadePoints,
                        CP, CIP, CI
  \* Only its cascade takes a request out of a running cascade.
  <2>16. ASSUME NEW r \in Requests, OwnCascadesOnly(disturbed', r),
                status[r] \in {CP, CIP}, status'[r] \notin {CP, CIP}
         PROVE  r = c.req /\ Owns(c)
    <3>1. r = c.req
      BY <2>1, <2>2, <2>4, <2>16 DEF StatusWrites, Claims
    <3>2. Settled(c, status) /\ ~Disturbs(t, "rolled_back") /\ ~Disturbs(t, "reported")
      BY <2>6, <2>7, <2>8, <2>16, <3>1
    <3>3. CASE Claims(c)
      <4>1. status'[c.req] = PF
        BY <2>11, <2>16, <3>1, <3>3
      <4> QED
        BY <2>9, <2>16, <3>1, <3>2, <4>1 DEF Owns
    <3>4. CASE c.pc = "complete"
      BY <3>1, <3>2, <3>4 DEF Settled, Owns
    <3>5. CASE c.pc = "rollback" /\ status' = [status EXCEPT ![c.req] = c.seen]
      <4>1. Certifies(c) \/ c.seen = SR
        BY <2>4, <3>5 DEF Orderly, Certifies, CertPoints
      <4>2. status[c.req] # CI /\ status'[c.req] = c.seen
        BY <2>1, <2>2, <2>16, <3>1, <3>5 DEF CP, CIP, CI
      <4> QED
        BY <2>9, <2>16, <3>1, <3>2, <4>1, <4>2 DEF Settled, Absent, SR, KD, CP, CIP
    <3> QED
      BY <2>1, <2>2, <2>4, <2>16, <3>1, <3>3, <3>4, <3>5
         DEF StatusWrites, Absent, CP, CIP
  \* Only its own rollback takes a request out of CERTIFICATE_ISSUED.
  <2>17. ASSUME NEW r \in Requests, OwnCascadesOnly(disturbed', r), status[r] = CI, status'[r] # CI
         PROVE  r = c.req /\ Certifies(c) /\ c.pc = "rollback"
    <3>1. r = c.req
      BY <2>1, <2>2, <2>4, <2>17 DEF StatusWrites, Claims
    <3>2. Settled(c, status) /\ ~Disturbs(t, "rolled_back")
      BY <2>6, <2>7, <2>8, <2>17, <3>1
    <3>3. ~Claims(c)
      BY <2>11, <2>17, <3>1
    <3>4. c.pc # "complete"
      <4>1. c.pc = "complete" => Runs(c)
        BY <2>4, <3>2 DEF Settled, Runs, Orderly, CascadePoints, CP, CIP, CC, PF, CI
      <4> QED
        BY <2>17, <3>1, <3>2, <4>1 DEF Settled, CP, CIP, CI
    <3>5. c.pc = "rollback" /\ status' = [status EXCEPT ![c.req] = c.seen]
      BY <2>4, <2>17, <3>1, <3>3, <3>4 DEF StatusWrites, Absent, CI
    <3>6. c.seen # SR
      <4>1. status'[c.req] = c.seen
        BY <2>1, <2>2, <3>5
      <4> QED
        BY <2>9, <2>17, <3>1, <3>2, <4>1 DEF Absent, SR, KD, CI
    <3> QED
      BY <2>4, <3>1, <3>5, <3>6 DEF Orderly, Certifies, CertPoints
  <2>18. ASSUME OwnCascadesOnly(disturbed', d.req)
         PROVE  Settled(d, status')
    <3>1. Runs(d) => status'[d.req] \in {CP, CIP}
      BY <2>2, <2>6, <2>7, <2>11, <2>14, <2>18 DEF Settled
    <3>2. Certifies(d) => status'[d.req] = CI
      BY <2>2, <2>6, <2>7, <2>11, <2>15, <2>18 DEF Settled
    <3> QED
      BY <2>12, <2>13, <2>18, <3>1, <3>2 DEF Settled
  <2>19. ASSUME NEW x \in Threads, x # t, OwnCascadesOnly(disturbed', call[x].req)
         PROVE  Settled(call[x], status')
    <3>1. call[x].req \in Requests
      BY CallFields DEF TypeOK
    <3>2. OwnCascadesOnly(disturbed, call[x].req) /\ Calm(disturbed, call[x].req)
      BY <2>7, <2>19, <3>1
    <3>3. Settled(call[x], status) /\ Orderly(call[x])
      BY <3>2 DEF FinalInv, CascadeInv
    <3>4. Runs(call[x]) => Owns(call[x])
      BY <3>3 DEF Orderly, Owns, Runs
    <3>5. Runs(call[x]) => status'[call[x].req] \in {CP, CIP}
      BY <2>10, <2>16, <2>19, <3>1, <3>2, <3>3, <3>4 DEF Settled
    <3>6. Certifies(call[x]) /\ Certifies(c) => call[x].req # c.req
      BY <2>19, <3>2 DEF FinalInv, c
    <3>7. Certifies(call[x]) => status'[call[x].req] = CI
      BY <2>17, <2>19, <3>1, <3>3, <3>6 DEF Settled
    <3> QED
      BY <3>3, <3>5, <3>7 DEF Settled
  <2>20. ASSUME NEW x \in Threads, x # t, Certifies(call[x]), Certifies(d), call[x].req = d.req,
                OwnCascadesOnly(disturbed', d.req)
         PROVE  FALSE
    <3>1. OwnCascadesOnly(disturbed, d.req)
      BY <2>2, <2>7, <2>20
    <3>2. status[call[x].req] = CI
      BY <2>20, <3>1 DEF FinalInv, Settled
    <3>3. Certifies(c) => call[x].req # c.req
      BY <2>15, <2>20, <3>1 DEF FinalInv, c
    <3> QED
      BY <2>11, <2>15, <2>20, <3>2, <3>3 DEF CC, CI
  <2>21. ASSUME NEW r \in Requests, "certificate_issued_at" \in fields'[r],
                OwnCascadesOnly(disturbed', r)
         PROVE  status'[r] = CI /\ \A x \in Threads : Certifies(call'[x]) => call'[x].req # r
    <3>1. OwnCascadesOnly(disturbed, r)
      BY <2>7, <2>21
    <3>2. CASE "certificate_issued_at" \in fields[r]
      <4>1. status[r] = CI /\ \A x \in Threads : Certifies(call[x]) => call[x].req # r
        BY <3>1, <3>2 DEF FinalInv
      <4>2. Certifies(c) => c.req # r
        BY <4>1 DEF c
      <4>3. status'[r] = CI
        BY <2>17, <2>21, <4>1, <4>2
      <4>4. Certifies(d) => d.req # r
        BY <2>11, <2>15, <4>1, <4>2 DEF CC, CI
      <4> QED
        BY <2>3, <4>1, <4>3, <4>4 DEF d
    <3>3. CASE "certificate_issued_at" \notin fields[r]
      <4>1. c.pc = "fields" /\ r = c.req /\ FieldOf(c.target) = "certificate_issued_at"
        BY <2>1, <2>2, <2>5, <2>21, <3>3
      <4>2. c.target = CI
        BY <4>1 DEF FieldOf
      <4>3. Certifies(c) /\ ~Certifies(d)
        BY <2>4, <2>15, <4>1, <4>2
           DEF Certifies, Claims, Follows, Ends, Begun, Moves, Reads, PlanAborts, ShredGoesOn,
               Dispatches, Concludes, Completes, Recovers, CertPoints, CascadePoints
      <4>4. \A x \in Threads : x # t /\ Certifies(call[x]) => call[x].req # r
        BY <3>1, <4>1, <4>3 DEF FinalInv, c
      <4>5. status'[r] = CI
        BY <2>6, <2>17, <2>21, <3>1, <4>1, <4>3 DEF Settled
      <4> QED
        BY <2>3, <4>3, <4>4, <4>5 DEF d
    <3> QED
      BY <3>2, <3>3
  <2>22. \A x \in Threads : OwnCascadesOnly(disturbed', call'[x].req) => Settled(call'[x], status')
    BY <2>3, <2>18, <2>19 DEF d
  <2>23. \A x, y \in Threads :
           /\ Certifies(call'[x]) /\ Certifies(call'[y])
           /\ call'[x].req = call'[y].req /\ OwnCascadesOnly(disturbed', call'[x].req)
           => x = y
    <3> SUFFICES ASSUME NEW x \in Threads, NEW y \in Threads, Certifies(call'[x]),
                        Certifies(call'[y]), call'[x].req = call'[y].req,
                        OwnCascadesOnly(disturbed', call'[x].req), x # y
                 PROVE  FALSE
      OBVIOUS
    <3>1. CASE x = t \/ y = t
      BY <2>3, <2>20, <3>1 DEF d
    <3>2. CASE x # t /\ y # t
      <4>1. call'[x] = call[x] /\ call'[y] = call[y] /\ call[x].req \in Requests
        BY <2>3, <3>2, CallFields DEF TypeOK
      <4>2. OwnCascadesOnly(disturbed, call[x].req)
        BY <2>7, <4>1
      <4> QED
        BY <4>1, <4>2 DEF FinalInv
    <3> QED
      BY <3>1, <3>2
  <2> QED
    BY <2>21, <2>22, <2>23
       DEF FinalInv, Settled, Runs, Certifies, OwnCascadesOnly, Calm
<1>2. CASE (Environment \/ UNCHANGED vars) /\ UNCHANGED disturbed
  BY <1>2, EnvironmentFrame DEF FinalInv, Settled, Runs, Certifies, OwnCascadesOnly, Calm
<1> QED
  BY <1>1, <1>2, HistoryStep

\* CertificateStaysIssued, of every behaviour of every client: a request that its
\* own cascades alone completed, and whose certificate is recorded, stays issued.
THEOREM CertificateStaysIssuedHolds == HSpec => CertificateStaysIssued
<1> DEFINE Stays == \A r \in Requests :
             /\ status[r] = CI
             /\ "certificate_issued_at" \in fields[r]
             /\ Undisturbed(r)'
             => status'[r] = CI
<1>1. HInit => CascadeInv /\ FinalInv
  BY DEF HInit, Init, CascadeInv, Orderly, Owns, FinalInv, Settled, Runs, Certifies,
         NoCall, Fresh, CertPoints, CascadePoints
<1>2. CascadeInv /\ TypeOK /\ HistoryOK /\ [HNext]_hvars => CascadeInv'
  BY CascadeStep
<1>3. FinalInv /\ CascadeInv /\ TypeOK /\ HistoryOK /\ [HNext]_hvars => FinalInv'
  BY FinalStep
<1>4. TypeOK /\ HistoryOK /\ [HNext]_hvars => \A r \in Requests : fields[r] \subseteq fields'[r]
  <2> SUFFICES ASSUME TypeOK, HistoryOK, [HNext]_hvars
               PROVE  \A r \in Requests : fields[r] \subseteq fields'[r]
    OBVIOUS
  <2>1. ASSUME NEW t \in Threads, Progress(t) \/ Failure(t) \/ Start(t)
        PROVE  \A r \in Requests : fields[r] \subseteq fields'[r]
    <3>1. call[t].req \in Requests /\ fields \in [Requests -> SUBSET FieldNames]
      BY CallFields DEF TypeOK
    <3> QED
      BY <2>1, <3>1, FieldsStep
  <2>2. CASE Environment \/ UNCHANGED vars
    BY <2>2, EnvironmentFrame
  <2> QED
    BY <2>1, <2>2, HistoryStep
<1>5. FinalInv' /\ TypeOK /\ HistoryOK /\ [HNext]_hvars => Stays
  BY <1>4 DEF FinalInv, Undisturbed, Unmoved, OwnCascadesOnly, Calm
<1>6. FinalInv /\ CascadeInv /\ TypeOK /\ HistoryOK /\ [HNext]_hvars => [Stays]_hvars
  BY <1>3, <1>5
<1>7. CertificateStaysIssued <=> [][Stays]_hvars
  BY DEF CertificateStaysIssued
<1> HIDE DEF Stays
<1> QED
  BY <1>1, <1>2, <1>3, <1>6, <1>7, HistoryTypeCorrect, PTL DEF HSpec

(***************************************************************************)
(* A failed wipe is never certified                                        *)
(***************************************************************************)

\* The sites recorded as failed, and those an execution has tried to wipe.
FailedWipes(w, r) == {s \in Sites : w[r][s] = "FAILED"}
Tried(c) == {s \in Sites : c.outcome[s] # "NONE"}

\* What a cascade knows of the failures recorded on its request: it wipes each of
\* them again and records its own outcome over each, so that nothing failed is left
\* when it goes on to CASCADE_COMPLETE and to the claims of the certificate.
Thorough(c, w) ==
    /\ c.pc = "wipe" => FailedWipes(w, c.req) \subseteq c.todo \cup Tried(c)
    /\ c.pc = "record" =>
         \A s \in FailedWipes(w, c.req) : s \in c.todo \/ c.outcome[s] = "FAILED"
    /\ c.kind = "cascade" /\ c.target = CC /\ c.pc \in {"read", "complete"} =>
         FailedWipes(w, c.req) = {}
    /\ c.pc = "append" => c.failed = {}

CleanInv ==
    /\ \A r \in Requests :
         disturbed[r] = {} /\ status[r] \in {CC, CI} => FailedWipes(wipes, r) = {}
    /\ \A t \in Threads : disturbed[call[t].req] = {} => Thorough(call[t], wipes)
    /\ FailedWipeNeverCertified

\* Only updateJanitorWipeStatus writes the records of wipes.
LEMMA WipesFrame ==
    ASSUME NEW t \in Threads, Progress(t) \/ Failure(t) \/ Start(t),
           \A s \in Sites : ~RecordWipe(t, s)
    PROVE  UNCHANGED wipes
BY DEF Progress, Failure, Start, PostAdvance, DeleteKeyShred, PostDeletionRequest,
    PostKeyGenerate, Begin, ShredLookup, ShredKeyStatus, CreateQuery, CreateDocument,
    GenerateCheck, SetKeyForUser, AdvanceRead, PrepareCascadeTrigger, ClaimTransition,
    ShredKeyForUser, Rollback, UpdateFields, CascadeReplan, WipesDone, CascadeConclude,
    WipeSite, WriteComplete, ClaimsReadKey, ClaimsReadRequest, AppendToChain,
    UploadCertificate, PlanFails, ShredFails, ReplanFails, CertificateFails,
    StorageFails, Crash, world, docVars

\* Six actions lead to the points Thorough is about beside the reads; every other one
\* ends, begins or moves an execution elsewhere.
LEMMA PlainStep ==
    ASSUME TypeOK, NEW t \in Threads, Progress(t) \/ Failure(t) \/ Start(t),
           call[t].pc \notin {"read", "plan", "claim", "fields"},
           ~CascadeReplan(t), ~WipesDone(t), ~CascadeConclude(t), ~ClaimsReadRequest(t),
           \A s \in Sites : ~RecordWipe(t, s),
           \A s \in Sites, result \in {"SUCCEEDED", "FAILED"} : ~WipeSite(t, s, result)
    PROVE  /\ call'[t].pc \notin {"wipe", "record", "append"}
           /\ call'[t].pc = "read" => call[t].pc # "record"
<1> DEFINE c == call[t]
           d == call'[t]
<1>1. c \in Call
  BY DEF TypeOK
<1>2. \A e : Become(t, e) => d = e
  BY OthersKept
<1>3. NoCall.pc = "idle"
  BY DEF NoCall, Fresh
<1>4. Thrown(c).pc \in {"idle", "read"}
  BY <1>1, <1>3 DEF Thrown, Call
<1>5. SUFFICES d.pc \notin {"wipe", "record", "append"} /\ (d.pc = "read" => c.pc # "record")
  OBVIOUS
<1> HIDE DEF c, d
<1>6. CASE Start(t)
  <2>1. PICK i \in Instances, p \in {"read", "lookup", "query", "gencheck"}, k \in Kinds,
             r \in Requests, s \in DeletionRequestStatus : Become(t, Fresh(i, p, k, r, s))
    BY <1>6, Members DEF Start, PostAdvance, DeleteKeyShred, PostDeletionRequest,
                         PostKeyGenerate, Begin
  <2>2. d.pc = p
    BY <1>2, <2>1 DEF Fresh
  <2>3. c.pc = "idle"
    BY <1>6 DEF Start, PostAdvance, DeleteKeyShred, PostDeletionRequest, PostKeyGenerate, Begin,
                At, c
  <2> QED
    BY <2>2, <2>3
<1>7. CASE \/ ReplanFails(t) \/ StorageFails(t) \/ Rollback(t) \/ SetKeyForUser(t) \/ Crash(t)
  <2>1. d = NoCall \/ (d = Thrown(c) /\ c.pc # "record")
    BY <1>2, <1>7 DEF ReplanFails, StorageFails, Crash, Rollback, SetKeyForUser,
                      Throw, Stop, At, c
  <2> QED
    BY <1>3, <1>4, <2>1
<1>8. CASE \/ ShredLookup(t) \/ ShredKeyStatus(t) \/ CreateQuery(t) \/ CreateDocument(t)
           \/ GenerateCheck(t) \/ ClaimsReadKey(t) \/ CertificateFails(t) \/ AppendToChain(t)
           \/ UploadCertificate(t) \/ ShredKeyForUser(t) \/ ShredFails(t)
  <2>1. \/ d = NoCall
        \/ /\ d.pc \in {"keystatus", "query", "create", "read", "genset", "docread", "upload",
                        "rollback", "fields"}
           /\ c.pc # "record"
    BY <1>1, <1>2, <1>8
       DEF c, ShredLookup, ShredKeyStatus, CreateQuery, CreateDocument, GenerateCheck,
           ClaimsReadKey, CertificateFails, AppendToChain, UploadCertificate,
           ShredKeyForUser, ShredFails, Move, Stop, At, Call
  <2> QED
    BY <1>3, <2>1
<1>9. CASE WriteComplete(t)
  <2>1. d.pc = "read" /\ c.pc # "record"
    BY <1>1, <1>2, <1>9 DEF c, WriteComplete, At, Call
  <2> QED
    BY <2>1
<1>10. CASE \/ AdvanceRead(t) \/ PrepareCascadeTrigger(t) \/ PlanFails(t) \/ ClaimTransition(t)
            \/ UpdateFields(t)
  BY <1>10 DEF AdvanceRead, PrepareCascadeTrigger, PlanFails, ClaimTransition, UpdateFields, At, c
<1> QED
  BY <1>6, <1>7, <1>8, <1>9, <1>10 DEF Progress, Failure

\* What the execution of an undisturbed request makes of what it knows.
LEMMA ThoroughStep ==
    ASSUME TypeOK, HistoryOK, CascadeInv, CleanInv,
           NEW t \in Threads, Progress(t) \/ Failure(t) \/ Start(t), Notes(t),
           disturbed'[call'[t].req] = {}
    PROVE  Thorough(call'[t], wipes')
<1> DEFINE c == call[t]
           d == call'[t]
<1>1. c \in Call /\ d \in Call
  BY CallStep, OthersKept DEF TypeOK
<1>2. /\ c.req \in Requests /\ c.todo \in SUBSET Sites
      /\ c.outcome \in [Sites -> Outcomes] /\ c.failed \in SUBSET Sites
  BY <1>1, CallFields
<1>3. \A e : Become(t, e) => d = e
  BY OthersKept
<1>4. Orderly(c) /\ Follows(c, d)
  BY FollowsStep DEF CascadeInv
<1>5. disturbed'[d.req] = {}
  OBVIOUS
<1>6. disturbed'[c.req] = {} =>
        /\ disturbed[c.req] = {} /\ ~Disturbs(t, "unplanned") /\ ~Disturbs(t, "unrecorded")
  BY <1>2, NotesStep DEF Marks
<1>7. disturbed[c.req] = {} =>
        /\ Thorough(c, wipes)
        /\ status[c.req] \in {CC, CI} => FailedWipes(wipes, c.req) = {}
  BY <1>2 DEF CleanInv
<1>8. Disturbs(t, "unplanned") <=>
        /\ c.pc = "replan" /\ d.pc = "wipe"
        /\ \E s \in Sites \ d.todo : wipes[c.req][s] = "FAILED" /\ d.outcome[s] = "NONE"
  BY DEF Disturbs
<1>9. Disturbs(t, "unrecorded") <=>
        /\ c.pc = "record" /\ d.pc = "record"
        /\ \E s \in c.todo \ d.todo : wipes'[c.req][s] # c.outcome[s]
  BY DEF Disturbs
<1>10. SUFFICES Thorough(d, wipes')
  OBVIOUS
<1>11. (\A s \in Sites : ~RecordWipe(t, s)) => UNCHANGED wipes
  BY WipesFrame
<1> HIDE DEF c, d
<1>elsewhere. CASE Ends(d) \/ Begun(c, d)
  BY <1>elsewhere DEF Ends, Begun, Thorough
<1>same. ASSUME ~Ends(d), ~Begun(c, d)
         PROVE  d.req = c.req
  BY <1>4, <1>same DEF Follows, Moves, Same, Reads, PlanAborts, ShredGoesOn, Dispatches,
                       Concludes, Completes, Recovers
<1>known. ASSUME d.req = c.req
          PROVE  Thorough(d, wipes')
  <2>1. /\ ~Disturbs(t, "unplanned") /\ ~Disturbs(t, "unrecorded") /\ Thorough(c, wipes)
        /\ status[c.req] \in {CC, CI} => FailedWipes(wipes, c.req) = {}
    BY <1>5, <1>6, <1>7, <1>known
  \* A cascade on its way to CASCADE_COMPLETE was so before, or has just concluded.
  <2>2. d.kind = "cascade" /\ d.target = CC /\ d.pc \in {"read", "complete"} =>
          Reads(c, d) \/ (Concludes(c, d) /\ c.kind = "cascade")
    BY <1>4 DEF Follows, Ends, Begun, Moves, Same, Reads, PlanAborts, ShredGoesOn, Dispatches,
                Concludes, Completes, Recovers, Orderly, Claims, CertPoints, CascadePoints,
                SR, KD, CP, CIP, CC, PF, CI
  <2>elsewhere. ASSUME d.pc \notin {"wipe", "record", "append"}, d.pc = "read" => c.pc # "record",
                       UNCHANGED wipes
                PROVE  Thorough(d, wipes')
    <3>1. d.kind = "cascade" /\ d.target = CC /\ d.pc \in {"read", "complete"} =>
            FailedWipes(wipes, c.req) = {}
      BY <2>1, <2>2, <2>elsewhere DEF Reads, Concludes, Thorough
    <3> QED
      BY <1>known, <2>elsewhere, <3>1 DEF Thorough
  <2>early. CASE c.pc \in {"read", "plan", "claim", "fields"}
    <3>1. d.pc \notin {"wipe", "record", "append"}
      BY <1>4, <2>early DEF Follows, Ends, Begun, Moves, Reads, PlanAborts, ShredGoesOn,
                            Dispatches, Concludes, Completes, Recovers, CertPoints, CascadePoints
    <3>2. UNCHANGED wipes
      BY <1>11, <2>early DEF RecordWipe, At, c
    <3> QED
      BY <2>early, <2>elsewhere, <3>1, <3>2
  <2>plain. CASE /\ c.pc \notin {"read", "plan", "claim", "fields"}
                 /\ ~CascadeReplan(t) /\ ~WipesDone(t) /\ ~CascadeConclude(t) /\ ~ClaimsReadRequest(t)
                 /\ \A s \in Sites : ~RecordWipe(t, s)
                 /\ \A s \in Sites, result \in {"SUCCEEDED", "FAILED"} : ~WipeSite(t, s, result)
    BY <1>11, <2>plain, <2>elsewhere, PlainStep DEF c, d
  <2>replan. CASE CascadeReplan(t)
    <3>1. /\ c.pc = "replan" /\ UNCHANGED wipes
          /\ d = [c EXCEPT !.pc = "wipe", !.todo = c.todo \cup Tasks(Owner[c.req])]
      BY <1>3, <2>replan DEF CascadeReplan, At, User, world, docVars, c
    <3>2. d.pc = "wipe"
      BY <1>1, <3>1 DEF Call
    <3>3. \A s \in Sites \ d.todo : wipes[c.req][s] = "FAILED" => d.outcome[s] # "NONE"
      BY <1>8, <2>1, <3>1, <3>2
    <3>4. FailedWipes(wipes', d.req) \subseteq d.todo \cup Tried(d)
      BY <1>known, <3>1, <3>3 DEF FailedWipes, Tried
    <3> QED
      BY <3>2, <3>4 DEF Thorough
  <2>wipe. ASSUME NEW s \in Sites, NEW result \in {"SUCCEEDED", "FAILED"}, WipeSite(t, s, result)
           PROVE  Thorough(d, wipes')
    <3>1. /\ c.pc \in {"replan", "wipe"} /\ s \in c.todo /\ UNCHANGED wipes
          /\ d = [c EXCEPT !.todo = c.todo \ {s}, !.outcome[s] = result]
      BY <1>3, <2>wipe DEF WipeSite, docVars, c
    <3>2. /\ d.pc = c.pc /\ d.todo = c.todo \ {s}
          /\ d.outcome = [c.outcome EXCEPT ![s] = result]
      BY <1>1, <3>1 DEF Call
    <3>3. Tried(d) = Tried(c) \cup {s}
      BY <1>2, <3>2 DEF Tried
    <3>4. d.pc = "wipe" => FailedWipes(wipes', d.req) \subseteq d.todo \cup Tried(d)
      BY <1>known, <2>1, <3>1, <3>2, <3>3 DEF Thorough
    <3> QED
      BY <3>1, <3>2, <3>4 DEF Thorough
  <2>done. CASE WipesDone(t)
    <3>1. /\ c.pc = "wipe" /\ c.todo = {} /\ UNCHANGED wipes
          /\ d = [c EXCEPT !.pc = "record", !.todo = Tried(c)]
      BY <1>3, <2>done DEF WipesDone, At, world, docVars, Tried, c
    <3>2. d.pc = "record" /\ d.todo = Tried(c)
      BY <1>1, <3>1 DEF Call
    <3>3. FailedWipes(wipes', d.req) \subseteq d.todo
      BY <1>known, <2>1, <3>1, <3>2 DEF Thorough
    <3> QED
      BY <3>2, <3>3 DEF Thorough
  <2>record. ASSUME NEW s \in Sites, RecordWipe(t, s)
             PROVE  Thorough(d, wipes')
    <3>1. /\ c.pc = "record" /\ s \in c.todo
          /\ wipes' = [wipes EXCEPT ![c.req][s] = c.outcome[s]] \/ UNCHANGED wipes
          /\ d = [c EXCEPT !.todo = c.todo \ {s}]
      BY <1>3, <2>record DEF RecordWipe, At, c
    <3>2. d.pc = "record" /\ d.todo = c.todo \ {s} /\ d.outcome = c.outcome
      BY <1>1, <3>1 DEF Call
    <3>3. wipes'[c.req][s] = c.outcome[s]
      BY <1>9, <2>1, <3>1, <3>2
    <3>4. wipes \in [Requests -> [Sites -> Outcomes]]
      BY DEF TypeOK
    <3>5. \A x \in Sites : x # s => wipes'[c.req][x] = wipes[c.req][x]
      BY <1>2, <3>1, <3>4
    <3>6. \A x \in FailedWipes(wipes', c.req) :
            (x = s /\ c.outcome[x] = "FAILED") \/ (x # s /\ x \in FailedWipes(wipes, c.req))
      BY <3>3, <3>5 DEF FailedWipes
    <3>7. \A x \in FailedWipes(wipes', d.req) : x \in d.todo \/ d.outcome[x] = "FAILED"
      BY <1>known, <2>1, <3>1, <3>2, <3>6 DEF Thorough
    <3> QED
      BY <3>2, <3>7 DEF Thorough
  <2>conclude. CASE CascadeConclude(t)
    <3>1. /\ c.pc = "record" /\ c.todo = {} /\ UNCHANGED wipes
          /\ d = [c EXCEPT !.pc = "read", !.target = CascadeOutcome(c)]
      BY <1>3, <2>conclude DEF CascadeConclude, At, world, docVars, c
    <3>2. d.pc = "read" /\ d.target = CascadeOutcome(c)
      BY <1>1, <3>1 DEF Call
    <3>3. d.target = CC => FailedWipes(wipes, c.req) = {}
      BY <2>1, <3>1, <3>2 DEF CascadeOutcome, Thorough, FailedWipes, CC, PF
    <3> QED
      BY <1>known, <3>1, <3>2, <3>3 DEF Thorough
  <2>claims. CASE ClaimsReadRequest(t)
    <3> DEFINE S == LineageSummary(c.req)
    <3>1. S \in SUBSET Sites
      BY DEF LineageSummary
    <3>2. \/ /\ status[c.req] \in {CC, CI}
             /\ d = [c EXCEPT !.pc = "append", !.sites = S, !.failed = FailedWipes(wipes, c.req)]
          \/ d = [c EXCEPT !.pc = "rollback"]
      BY <1>3, <2>claims DEF ClaimsReadRequest, FailedWipes, Move, c
    <3> HIDE DEF S
    <3>3. (d.pc = "append" /\ d.failed = {}) \/ d.pc = "rollback"
      BY <1>1, <2>1, <3>2 DEF Call
    <3> QED
      BY <3>3 DEF Thorough
  <2> QED
    BY <2>early, <2>plain, <2>replan, <2>wipe, <2>done, <2>record, <2>conclude, <2>claims
<1> QED
  BY <1>elsewhere, <1>same, <1>known

\* CleanInv is inductive.  A failure is recorded by the cascade that owns its request,
\* before the request is complete; a completed one has none and none is added to it.
LEMMA CleanStep ==
    TypeOK /\ HistoryOK /\ CascadeInv /\ FinalInv /\ CleanInv /\ [HNext]_hvars => CleanInv'
<1> SUFFICES ASSUME TypeOK, HistoryOK, CascadeInv, FinalInv, CleanInv, [HNext]_hvars
             PROVE  CleanInv'
  OBVIOUS
<1>1. ASSUME NEW t \in Threads, Progress(t) \/ Failure(t) \/ Start(t), Notes(t)
      PROVE  CleanInv'
  <2> DEFINE c == call[t]
             d == call'[t]
  <2>1. /\ status \in [Requests -> DeletionRequestStatus \cup {Absent}]
        /\ wipes \in [Requests -> [Sites -> Outcomes]]
        /\ c \in Call
    BY DEF TypeOK
  <2>2. /\ c.req \in Requests /\ c.target \in DeletionRequestStatus
        /\ c.seen \in DeletionRequestStatus
    BY <2>1, CallFields
  <2>3. \A x \in Threads \ {t} : call'[x] = call[x]
    BY <1>1, CallStep, OthersKept
  <2>4. Orderly(c) /\ StatusWrites(c)
    BY <1>1, StatusStep DEF CascadeInv
  <2>5. \A r \in Requests : disturbed'[r] = {} =>
          disturbed[r] = {} /\ Calm(disturbed, r) /\ OwnCascadesOnly(disturbed, r)
    BY <1>1, NotesStep DEF Calm, OwnCascadesOnly
  <2>6. disturbed'[c.req] = {} =>
          Settled(c, status) /\ Thorough(c, wipes) /\ ~Disturbs(t, "rolled_back")
    BY <1>1, <2>2, <2>5, NotesStep DEF FinalInv, CleanInv, Marks
  <2>7. Disturbs(t, "rolled_back") <=> status[c.req] \notin {Absent, SR, KD} /\ status'[c.req] = SR
    BY DEF Disturbs
  <2>8. disturbed'[call'[t].req] = {} => Thorough(call'[t], wipes')
    BY <1>1, ThoroughStep
  \* A record is written by the cascade of its request, which is not complete yet.
  <2>9. ASSUME NEW r \in Requests, wipes'[r] # wipes[r]
        PROVE  r = c.req /\ c.pc = "record" /\ UNCHANGED status
    <3>1. PICK s \in Sites : RecordWipe(t, s)
      BY <1>1, <2>9, WipesFrame
    <3>2. c.pc = "record" /\ UNCHANGED status
      BY <3>1 DEF RecordWipe, At
    <3>3. wipes' = [wipes EXCEPT ![c.req][s] = c.outcome[s]] \/ UNCHANGED wipes
      BY <3>1 DEF RecordWipe
    <3> HIDE DEF c
    <3>4. r = c.req
      BY <2>1, <2>2, <2>9, <3>3
    <3> QED
      BY <3>2, <3>4
  <2> HIDE DEF c, d
  <2>10. ASSUME NEW r \in Requests, disturbed'[r] = {}, status'[r] \in {CC, CI}
         PROVE  FailedWipes(wipes', r) = {}
    <3>1. disturbed[r] = {} /\ (status[r] \in {CC, CI} => FailedWipes(wipes, r) = {})
      BY <2>5, <2>10 DEF CleanInv
    <3>2. wipes'[r] = wipes[r]
      <4>1. c.pc = "record" /\ r = c.req => status[c.req] \in {CP, CIP}
        BY <2>6, <2>10 DEF Settled, Runs, CascadePoints
      <4> QED
        BY <2>9, <2>10, <4>1 DEF CP, CIP, CC, CI
    <3>3. FailedWipes(wipes', r) = FailedWipes(wipes, r)
      BY <3>2 DEF FailedWipes
    <3>4. status[r] \in {CC, CI} \/ FailedWipes(wipes, r) = {}
      <4>1. CASE Claims(c)
        <5>1. c.target \in transitions[c.seen] /\ c.target # CC
          BY <2>4, <4>1 DEF Claims, Orderly
        <5>2. c.target = CI => c.seen = CC
          BY <2>2, <5>1, TransitionTable
        <5> QED
          BY <2>1, <2>2, <2>10, <4>1, <5>1, <5>2 DEF Claims
      <4>2. CASE c.pc = "rollback" /\ status' = [status EXCEPT ![c.req] = c.seen]
        <5>1. CASE r = c.req
          <6>1. Certifies(c) \/ c.seen = SR
            BY <2>4, <4>2 DEF Orderly, Certifies, CertPoints
          <6>2. status'[c.req] = c.seen
            BY <2>1, <2>2, <4>2
          <6>3. c.seen # SR
            BY <2>10, <5>1, <6>2 DEF SR, CC, CI
          <6> QED
            BY <2>6, <2>10, <5>1, <6>1, <6>3 DEF Settled
        <5>2. CASE r # c.req
          BY <2>1, <2>2, <2>10, <4>2, <5>2
        <5> QED
          BY <5>1, <5>2
      <4>3. CASE c.pc = "complete" /\ status' = [status EXCEPT ![c.req] = CC]
        <5>1. CASE r = c.req
          <6>1. c.kind = "cascade" /\ c.target = CC
            BY <2>4, <2>6, <2>10, <4>3, <5>1
               DEF Settled, Orderly, CascadePoints, CP, CIP, CC, PF, CI
          <6> QED
            BY <2>6, <2>10, <4>3, <5>1, <6>1 DEF Thorough
        <5>2. CASE r # c.req
          BY <2>1, <2>2, <2>10, <4>3, <5>2
        <5> QED
          BY <5>1, <5>2
      <4>4. CASE c.pc = "create" /\ status[c.req] = Absent /\ status' = [status EXCEPT ![c.req] = SR]
        BY <2>1, <2>2, <2>10, <4>4 DEF SR, CC, CI
      <4>5. CASE UNCHANGED status
        BY <2>10, <4>5
      <4> QED
        BY <2>4, <4>1, <4>2, <4>3, <4>4, <4>5 DEF StatusWrites
    <3> QED
      BY <3>1, <3>3, <3>4
  <2>11. ASSUME NEW x \in Threads, x # t, disturbed'[call[x].req] = {}
         PROVE  Thorough(call[x], wipes')
    <3>1. /\ call[x].req \in Requests /\ disturbed[call[x].req] = {}
          /\ Thorough(call[x], wipes) /\ Calm(disturbed, call[x].req) /\ Orderly(call[x])
      BY <2>5, <2>11, CallFields DEF TypeOK, CleanInv, CascadeInv
    <3>2. CASE wipes'[call[x].req] = wipes[call[x].req]
      BY <3>1, <3>2 DEF Thorough, FailedWipes
    <3>3. CASE wipes'[call[x].req] # wipes[call[x].req]
      <4>1. call[x].req = c.req /\ c.pc = "record"
        BY <2>9, <3>1, <3>3
      <4>2. Owns(c)
        BY <2>4, <4>1 DEF Owns, Orderly, CascadePoints
      <4>3. ~Owns(call[x])
        BY <2>11, <3>1, <4>1, <4>2 DEF CascadeInv, c
      <4>4. call[x].kind # "cascade" /\ call[x].pc \notin CascadePoints
        BY <3>1, <4>3 DEF Owns, Orderly
      <4> QED
        BY <3>1, <4>4 DEF Thorough, CascadePoints
    <3> QED
      BY <3>2, <3>3
  <2>12. \A x \in Threads : disturbed'[call'[x].req] = {} => Thorough(call'[x], wipes')
    BY <2>3, <2>8, <2>11
  <2>13. FailedWipeNeverCertified'
    <3>1. \A i \in DOMAIN chain : chain[i].req \in Requests
      <4>1. \A i \in DOMAIN chain : chain[i] \in Entry
        BY DEF TypeOK
      <4> QED
        BY <4>1 DEF Entry
    <3>2. \A i \in DOMAIN chain : disturbed'[chain[i].req] = {} => chain[i].failed = {}
      BY <2>5, <3>1 DEF CleanInv, FailedWipeNeverCertified
    <3>3. CASE UNCHANGED chain
      BY <3>2, <3>3 DEF FailedWipeNeverCertified
    <3>4. CASE ~UNCHANGED chain
      <4>1. /\ AppendToChain(t)
            /\ \A i \in DOMAIN chain' :
                 \/ i \in DOMAIN chain /\ chain'[i] = chain[i]
                 \/ chain'[i].req = c.req /\ chain'[i].failed = c.failed
        BY <1>1, <3>4, ChainStep DEF c
      <4>2. disturbed'[c.req] = {} => c.failed = {}
        BY <2>6, <4>1 DEF AppendToChain, At, Thorough, c
      <4> QED
        BY <3>2, <4>1, <4>2 DEF FailedWipeNeverCertified
    <3> QED
      BY <3>3, <3>4
  <2> QED
    BY <2>10, <2>12, <2>13 DEF CleanInv
<1>2. CASE (Environment \/ UNCHANGED vars) /\ UNCHANGED disturbed
  BY <1>2, EnvironmentFrame DEF CleanInv, FailedWipeNeverCertified
<1> QED
  BY <1>1, <1>2, HistoryStep

\* FailedWipeNeverCertified, of every behaviour of every client: a certificate of a
\* request whose cascades planned what is recorded as failed, were recorded and were
\* not disturbed was built from a document without a failed wipe.
THEOREM FailedWipeNeverCertifiedHolds == HSpec => []FailedWipeNeverCertified
<1>1. HInit => CascadeInv /\ FinalInv
  BY DEF HInit, Init, CascadeInv, Orderly, Owns, FinalInv, Settled, Runs, Certifies,
         NoCall, Fresh, CertPoints, CascadePoints
<1>2. HInit => CleanInv
  BY DEF HInit, Init, CleanInv, Thorough, FailedWipes, NoOutcome, NoCall, Fresh,
         FailedWipeNeverCertified
<1>3. CascadeInv /\ TypeOK /\ HistoryOK /\ [HNext]_hvars => CascadeInv'
  BY CascadeStep
<1>4. FinalInv /\ CascadeInv /\ TypeOK /\ HistoryOK /\ [HNext]_hvars => FinalInv'
  BY FinalStep
<1>5. CleanInv /\ FinalInv /\ CascadeInv /\ TypeOK /\ HistoryOK /\ [HNext]_hvars => CleanInv'
  BY CleanStep
<1>6. CleanInv => FailedWipeNeverCertified
  BY DEF CleanInv
<1> QED
  BY <1>1, <1>2, <1>3, <1>4, <1>5, <1>6, HistoryTypeCorrect, PTL DEF HSpec

(***************************************************************************)
(* The fair specification                                                  *)
(***************************************************************************)

\* Fairness only restricts the behaviours: the safety of a request's cascades (the
\* claims, the certificate, the failed wipes) holds of the behaviours the liveness
\* is about.
THEOREM FairSafety ==
    FairSpec => [](OneCascadeRecords /\ FailedWipeNeverCertified) /\ CertificateStaysIssued
BY OneCascadeRecordsHolds, FailedWipeNeverCertifiedHolds, CertificateStaysIssuedHolds, PTL
   DEF FairSpec

=============================================================================
