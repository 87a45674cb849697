------------------------------ MODULE SyncRuns ------------------------------
(***************************************************************************)
(* One sync run: the document behind the console's progress bar, and the   *)
(* pipeline that reports to it.  The sync job creates the run, publishes   *)
(* chunks while it enumerates, and posts their number at the end; Pub/Sub  *)
(* delivers each chunk at least once, in any order, also before the number *)
(* is known; a worker reports each delivery's outcome on a best-effort     *)
(* basis.  The pipeline is another repository and modelled from the routes *)
(* it calls; every route is one Firestore transaction or write.            *)
(***************************************************************************)
EXTENDS Integers, FiniteSets

CONSTANTS
    Chunks,         \* what an enumeration may publish
    MaxDeliveries   \* bound on the deliveries of chunks

ASSUME SyncRunsAssumption == IsFiniteSet(Chunks) /\ MaxDeliveries \in Nat

VARIABLES
    run,            \* the sync_runs document
    published,      \* chunks the job has published
    ended,          \* the enumeration is over
    done,           \* chunks whose work was really done
    reports,        \* chunks with a "completed" report under way
    failures,       \* "failed" reports under way
    deliveries,     \* deliveries so far
    recorded,       \* history: chunks whose completion was counted
    twice           \* history: some chunk's completion was counted twice

pipeline == <<published, ended, done, reports, failures, deliveries>>
vars == <<run, pipeline, recorded, twice>>

-----------------------------------------------------------------------------
(* The document *)

NoRun == [status |-> "none"]
Unknown == -1           \* null, chunksTotal before finalizeTotal

NewRun == [status |-> "enumerating", total |-> Unknown, completed |-> 0, failed |-> 0]

\* mutant: the comparison with a null total, which JavaScript takes for 0
AllDoneUnguarded(total, completed) == total = Unknown \/ completed >= total

AllDone(total, completed) == total # Unknown /\ completed >= total

\* mutant: the total only starts the run
AfterTotalRunning(current, total) == "running"

AfterTotal(current, total) == IF AllDone(total, current.completed) THEN "complete" ELSE "running"

\* finalizeTotal: chunks may all have reported before.
WithTotal(current, total) ==
    [current EXCEPT !.total = total, !.status = AfterTotal(current, total)]

\* mutant: every outcome is progress
CountedAny(completed, outcome) == completed + 1

Counted(completed, outcome) == IF outcome = "completed" THEN completed + 1 ELSE completed

\* recordChunkOutcome
WithOutcome(current, outcome) ==
    LET completed == Counted(current.completed, outcome) IN
    [current EXCEPT !.completed = completed,
                    !.failed = IF outcome = "failed" THEN @ + 1 ELSE @,
                    !.status = IF AllDone(current.total, completed) THEN "complete" ELSE @]

-----------------------------------------------------------------------------
Init ==
    /\ run = NoRun
    /\ published = {} /\ ended = FALSE
    /\ done = {} /\ reports = {} /\ failures = 0 /\ deliveries = 0
    /\ recorded = {} /\ twice = FALSE

\* POST /pii-registry/sync-runs, again when its answer was lost; the job
\* publishes nothing before it has an answer.
Create ==
    /\ published = {} /\ ~ended
    /\ run' = NewRun
    /\ UNCHANGED <<pipeline, recorded, twice>>

Publish(c) ==
    /\ run # NoRun
    /\ ~ended
    /\ published' = published \cup {c}
    /\ UNCHANGED <<run, ended, done, reports, failures, deliveries, recorded, twice>>

EndEnumeration ==
    /\ run # NoRun
    /\ ~ended
    /\ ended' = TRUE
    /\ UNCHANGED <<run, published, done, reports, failures, deliveries, recorded, twice>>

\* POST .../finalize-total, again when its answer was lost.
FinalizeTotal ==
    /\ ended
    /\ run' = WithTotal(run, Cardinality(published))
    /\ UNCHANGED <<pipeline, recorded, twice>>

\* Pub/Sub delivers a chunk, a finished one too.
Deliver(c, outcome) ==
    /\ c \in published
    /\ deliveries < MaxDeliveries
    /\ deliveries' = deliveries + 1
    /\ IF outcome = "completed"
       THEN done' = done \cup {c} /\ reports' = reports \cup {c} /\ UNCHANGED failures
       ELSE failures' = failures + 1 /\ UNCHANGED <<done, reports>>
    /\ UNCHANGED <<run, published, ended, recorded, twice>>

\* POST .../progress for a chunk that completed.
RecordCompleted(c) ==
    /\ c \in reports
    /\ run' = WithOutcome(run, "completed")
    /\ reports' = reports \ {c}
    /\ recorded' = recorded \cup {c}
    /\ twice' = (twice \/ c \in recorded)
    /\ UNCHANGED <<published, ended, done, failures, deliveries>>

\* POST .../progress for a delivery that failed.
RecordFailed ==
    /\ failures > 0
    /\ run' = WithOutcome(run, "failed")
    /\ failures' = failures - 1
    /\ UNCHANGED <<published, ended, done, reports, deliveries, recorded, twice>>

\* A report does not get through; the chunk's work is done all the same.
ReportLost(c) ==
    /\ c \in reports
    /\ reports' = reports \ {c}
    /\ UNCHANGED <<run, published, ended, done, failures, deliveries, recorded, twice>>

Next ==
    \/ Create \/ EndEnumeration \/ FinalizeTotal \/ RecordFailed
    \/ \E c \in Chunks :
         \/ Publish(c) \/ RecordCompleted(c) \/ ReportLost(c)
         \/ \E outcome \in {"completed", "failed"} : Deliver(c, outcome)

Spec == Init /\ [][Next]_vars

-----------------------------------------------------------------------------
(* Properties *)

SyncRun ==
    [status: {"enumerating", "running", "complete"},
     total: Unknown..Cardinality(Chunks), completed: Nat, failed: Nat]

\* The counters never count more than was delivered.
TypeOK ==
    /\ run \in SyncRun \cup {NoRun}
    /\ published \subseteq Chunks /\ ended \in BOOLEAN
    /\ done \subseteq published /\ reports \subseteq done /\ recorded \subseteq done
    /\ failures \in Nat /\ deliveries \in 0..MaxDeliveries
    /\ twice \in BOOLEAN
    /\ run # NoRun => run.completed + run.failed <= deliveries

\* A complete run is complete: every chunk of the whole enumeration has been
\* worked on, in whatever order the total and the reports came and however
\* many deliveries failed, unless a redelivered chunk was counted twice.
CompleteMeansDone ==
    run.status = "complete" => twice \/ (ended /\ done = published)

\* "The run completes correctly no matter which one observes the last chunk":
\* with the total posted and every chunk's completion counted, no run is left
\* enumerating or running.
NoRunLeftBehind ==
    run # NoRun /\ run.status # "enumerating" /\ recorded = published => run.status = "complete"

\* A complete run stays complete through late failures, duplicates and a
\* repeated finalize-total.
CompleteIsFinal ==
    [][run.status = "complete" => run'.status = "complete"]_vars

=============================================================================
