----------------------------- MODULE PiiRegistry -----------------------------
(***************************************************************************)
(* One resource of one tenant in the registry of declared PII: the         *)
(* Firestore document that is the durable declaration, the copy every      *)
(* instance loads at boot and serves from memory, and the SHADOW_COPY view *)
(* in the customer's BigQuery.  Each route reads or writes the memory and  *)
(* awaits the store in between; nothing tells one instance what another    *)
(* wrote.  Validation and the schema checks are the choice to refuse a     *)
(* declaration; the ENCRYPTED_COPY table, created if absent and never      *)
(* dropped here, and the audit mirror are left out.                        *)
(***************************************************************************)
EXTENDS Integers, FiniteSets

CONSTANTS
    Instances,      \* running instances of the vault
    Threads,        \* requests being served
    MaxRevision,    \* bound on the declarations that pass validation
    Watermarks,     \* "synced" and "attempted", or only one of them
    MaxTime,        \* bound on the sync job's timestamps
    None            \* no declaration, no view

ASSUME PiiRegistryAssumption ==
    /\ MaxRevision \in Nat /\ MaxTime \in Nat
    /\ Watermarks \subseteq {"synced", "attempted"}
    /\ None \notin [revision: Nat, column: BOOLEAN, shadow: BOOLEAN, synced: Nat, attempted: Nat]
    /\ None \notin Nat

VARIABLES
    store,          \* the manual declaration in Firestore
    memory,         \* the same, in each instance's entries Map
    view,           \* the shadow view: the revision it was created for
    thread,         \* the requests
    revision,       \* revisions given out
    persisted,      \* history: revisions that reached the store
    reached         \* history: the highest watermarks that reached the store

vars == <<store, memory, view, thread, revision, persisted, reached>>

-----------------------------------------------------------------------------
Never == 0              \* lastSyncedAt, lastSyncAttemptAt not set
Time == 1..MaxTime

Entry == [revision: 1..MaxRevision, column: BOOLEAN, shadow: BOOLEAN,
          synced: Never..MaxTime, attempted: Never..MaxTime]

\* buildManualEntry, for an input that passes its checks: no watermark is
\* taken over from the existing entry.
ManualEntry(rev, column, shadow) ==
    [revision |-> rev, column |-> column, shadow |-> shadow,
     synced |-> Never, attempted |-> Never]

\* mutant: the undefined watermarks are written too
MergedFull(current, entry) == entry

\* upsert: set with merge keeps the watermarks the entry does not mention,
\* but clearing updatedAtColumn deletes lastSyncedAt.
Merged(current, entry) ==
    IF current = None THEN entry
    ELSE [entry EXCEPT !.synced = IF entry.column THEN current.synced ELSE Never,
                       !.attempted = current.attempted]

\* mutant: last write wins
AdvancedBlindly(current, candidate) == candidate

Advanced(current, candidate) == IF current >= candidate THEN current ELSE candidate

\* mutant: no look at whether the document exists; the merge creates one
MarkedMerging(current, watermark, candidate) ==
    IF current = None THEN [w \in {watermark} |-> candidate]
    ELSE [current EXCEPT ![watermark] = Advanced(@, candidate)]

\* advanceSyncWatermark, advanceLastSyncAttempt: the document their
\* transaction leaves, None when it throws because the declaration is gone.
Marked(current, watermark, candidate) ==
    IF current = None THEN None
    ELSE [current EXCEPT ![watermark] = Advanced(@, candidate)]

-----------------------------------------------------------------------------
Idle == [at |-> "idle"]

Init ==
    /\ store = None
    /\ memory = [i \in Instances |-> None]
    /\ view = None
    /\ thread = [t \in Threads |-> Idle]
    /\ revision = 0
    /\ persisted = {}
    /\ reached = [w \in Watermarks |-> Never]

Goto(t, step) == thread' = [thread EXCEPT ![t].at = step]
Finish(t) == thread' = [thread EXCEPT ![t] = Idle]

\* POST and PUT .../resources.
\* A PUT on a platform entry is refused, without an effect.
Declare(t, i, column, shadow) ==
    /\ thread[t] = Idle
    /\ revision < MaxRevision
    /\ revision' = revision + 1
    /\ thread' = [thread EXCEPT ![t] =
           [at |-> "upsert", instance |-> i, entry |-> ManualEntry(revision', column, shadow)]]
    /\ UNCHANGED <<store, memory, view, persisted, reached>>

WriteUpsert(t) ==
    /\ store' = Merged(store, thread[t].entry)
    /\ persisted' = persisted \cup {thread[t].entry.revision}

StoreUpsert(t) ==
    /\ thread[t].at = "upsert"
    /\ WriteUpsert(t)
    /\ Goto(t, "remember")
    /\ UNCHANGED <<memory, view, revision, reached>>

MemoryUpsert(t) ==
    /\ thread[t].at = "remember"
    /\ memory' = [memory EXCEPT ![thread[t].instance] = thread[t].entry]
    /\ Goto(t, "drop view")
    /\ UNCHANGED <<store, view, revision, persisted, reached>>

\* DELETE .../resources; 404 when this instance does not know it.
Remove(t, i) ==
    /\ thread[t] = Idle
    /\ memory[i] # None
    /\ thread' = [thread EXCEPT ![t] = [at |-> "delete", instance |-> i, entry |-> None]]
    /\ UNCHANGED <<store, memory, view, revision, persisted, reached>>

StoreDelete(t) ==
    /\ thread[t].at = "delete"
    /\ store' = None
    /\ Goto(t, "forget")
    /\ UNCHANGED <<memory, view, revision, persisted, reached>>

MemoryDelete(t) ==
    /\ thread[t].at = "forget"
    /\ memory' = [memory EXCEPT ![thread[t].instance] = None]
    /\ Goto(t, "drop view")
    /\ UNCHANGED <<store, view, revision, persisted, reached>>

\* dropShadowCopyIfExists: first half of ensureShadowCopy, or the end of a
\* removal.
DropView(t) ==
    /\ thread[t].at = "drop view"
    /\ view' = None
    /\ IF thread[t].entry # None /\ thread[t].entry.shadow THEN Goto(t, "create view") ELSE Finish(t)
    /\ UNCHANGED <<store, memory, revision, persisted, reached>>

\* BigQuery refuses to create a view that another request just created.
CreateView(t) ==
    /\ thread[t].at = "create view"
    /\ view' = IF view = None THEN thread[t].entry.revision ELSE view
    /\ Finish(t)
    /\ UNCHANGED <<store, memory, revision, persisted, reached>>

\* The sync job's mark-synced and mark-sync-attempted.
Mark(t, i, watermark, candidate) ==
    /\ thread[t] = Idle
    /\ memory[i] # None
    /\ thread' = [thread EXCEPT ![t] =
           [at |-> "advance", instance |-> i, existing |-> memory[i],
            watermark |-> watermark, candidate |-> candidate]]
    /\ UNCHANGED <<store, memory, view, revision, persisted, reached>>

WriteAdvance(t, marked) ==
    /\ marked # None
    /\ store' = marked
    /\ reached' = [reached EXCEPT ![thread[t].watermark] = Advanced(@, marked[thread[t].watermark])]

Advance(t) ==
    /\ thread[t].at = "advance"
    /\ LET watermark == thread[t].watermark
           marked == Marked(store, watermark, thread[t].candidate)
       IN
       /\ WriteAdvance(t, marked)
       /\ thread' = [thread EXCEPT ![t] =
              [at |-> "reconcile", instance |-> thread[t].instance,
               entry |-> [thread[t].existing EXCEPT ![watermark] = marked[watermark]]]]
    /\ UNCHANGED <<memory, view, revision, persisted>>

\* The entry as it was read before the transaction, with the stored watermark.
Reconcile(t) ==
    /\ thread[t].at = "reconcile"
    /\ memory' = [memory EXCEPT ![thread[t].instance] = thread[t].entry]
    /\ Finish(t)
    /\ UNCHANGED <<store, view, revision, persisted, reached>>

-----------------------------------------------------------------------------
(* Failures *)

\* mutant: a failed write is logged and the request goes on
AbortIgnored(t) ==
    /\ thread[t].at \in {"upsert", "delete", "advance"}
    /\ IF thread[t].at = "upsert" THEN Goto(t, "remember") ELSE Finish(t)
    /\ UNCHANGED <<store, memory, view, revision, persisted, reached>>

\* The schema check refuses the declaration, the store fails, or the
\* declaration to mark is gone: the request ends before its memory write.
Abort(t) ==
    /\ thread[t].at \in {"upsert", "delete", "advance"}
    /\ Finish(t)
    /\ UNCHANGED <<store, memory, view, revision, persisted, reached>>

\* The store did it, but its answer is lost: the request ends the same way.
AnswerLost(t) ==
    /\ \/ thread[t].at = "upsert" /\ WriteUpsert(t) /\ UNCHANGED reached
       \/ thread[t].at = "delete" /\ store' = None /\ UNCHANGED <<persisted, reached>>
       \/ /\ thread[t].at = "advance"
          /\ WriteAdvance(t, Marked(store, thread[t].watermark, thread[t].candidate))
          /\ UNCHANGED persisted
    /\ Finish(t)
    /\ UNCHANGED <<memory, view, revision>>

\* BigQuery fails: surfaced to the caller, or logged on a removal.
ViewFails(t) ==
    /\ thread[t].at \in {"drop view", "create view"}
    /\ Finish(t)
    /\ UNCHANGED <<store, memory, view, revision, persisted, reached>>

\* The instance dies with its requests and a new one boots; when loadAll
\* fails it starts without the manual declarations.
Restart(i, loaded) ==
    /\ memory' = [memory EXCEPT ![i] = IF loaded THEN store ELSE None]
    /\ thread' = [t \in Threads |->
           IF thread[t] # Idle /\ thread[t].instance = i THEN Idle ELSE thread[t]]
    /\ UNCHANGED <<store, view, revision, persisted, reached>>

Next ==
    \/ \E t \in Threads :
         \/ StoreUpsert(t) \/ MemoryUpsert(t) \/ StoreDelete(t) \/ MemoryDelete(t)
         \/ DropView(t) \/ CreateView(t) \/ Advance(t) \/ Reconcile(t)
         \/ Abort(t) \/ AnswerLost(t) \/ ViewFails(t)
         \/ \E i \in Instances :
              \/ Remove(t, i)
              \/ \E column, shadow \in BOOLEAN : Declare(t, i, column, shadow)
              \/ \E watermark \in Watermarks, candidate \in Time : Mark(t, i, watermark, candidate)
    \/ \E i \in Instances, loaded \in BOOLEAN : Restart(i, loaded)

Spec == Init /\ [][Next]_vars

-----------------------------------------------------------------------------
(* Properties *)

Writing ==
    [at: {"upsert", "remember", "delete", "forget", "drop view", "create view", "reconcile"},
     instance: Instances, entry: Entry \cup {None}]

Marking ==
    [at: {"advance"}, instance: Instances, existing: Entry, watermark: Watermarks, candidate: Time]

\* What is stored is a declaration, also when a mark's transaction races a
\* removal: boot takes every document for a full entry.
TypeOK ==
    /\ store \in Entry \cup {None}
    /\ memory \in [Instances -> Entry \cup {None}]
    /\ view \in 1..MaxRevision \cup {None}
    /\ thread \in [Threads -> {Idle} \cup Writing \cup Marking]
    /\ revision \in 0..MaxRevision
    /\ persisted \subseteq 1..MaxRevision
    /\ reached \in [Watermarks -> Never..MaxTime]

\* "A failed write never leaves the hot path ahead of durable state": what an
\* instance serves, and the view a customer queries, is a declaration that
\* was stored, with watermarks that were stored, whatever failed, restarted
\* or overlapped.
HotPathNotAhead ==
    /\ \A i \in Instances : memory[i] # None =>
          /\ memory[i].revision \in persisted
          /\ \A w \in Watermarks : memory[i][w] <= reached[w]
    /\ view # None => view \in persisted

\* Overlapping sync runs, late marks and declarations on any instance never
\* set a stored watermark back; only a removal, or for lastSyncedAt a
\* declaration without an updatedAtColumn, starts it afresh.
WatermarksAdvance ==
    [][store # None /\ store' # None =>
          /\ store'.attempted >= store.attempted
          /\ store'.synced >= store.synced \/ ~store'.column]_vars

=============================================================================
