--------------------------- MODULE SyncRunsProofs ---------------------------
(***************************************************************************)
(* A run completes when, and only when, its chunks are done, for any       *)
(* number of chunks and deliveries.                                        *)
(***************************************************************************)
EXTENDS SyncRuns, FiniteSetTheorems, TLAPS

Document ==
    [status: {"enumerating", "running", "complete"}, total: Nat \cup {Unknown},
     completed: Nat, failed: Nat]

\* What the counters of a document mean: the completions counted are those
\* recorded, or more after a duplicate; a total is that of the whole
\* enumeration; and with a total, the status says whether it is reached.
Accounts(r) ==
    /\ r \in Document
    /\ r.completed >= Cardinality(recorded)
    /\ ~twice => r.completed = Cardinality(recorded)
    /\ r.total = Unknown => r.status = "enumerating"
    /\ r.total # Unknown => /\ ended /\ r.total = Cardinality(published)
                            /\ r.status = IF r.completed >= r.total THEN "complete" ELSE "running"

\* The inductive invariant.
RunInv ==
    /\ published \subseteq Chunks /\ done \subseteq published
    /\ reports \subseteq done /\ recorded \subseteq done
    /\ ended \in BOOLEAN /\ twice \in BOOLEAN
    /\ run = NoRun => published = {} /\ ~ended /\ recorded = {} /\ failures = 0
    /\ run # NoRun => Accounts(run)
    /\ failures \in Nat

-----------------------------------------------------------------------------
\* The sets of chunks are finite.
LEMMA FiniteParts ==
    ASSUME RunInv
    PROVE  /\ IsFiniteSet(published) /\ IsFiniteSet(recorded)
           /\ Cardinality(published) \in Nat /\ Cardinality(recorded) \in Nat
<1>1. IsFiniteSet(published) /\ IsFiniteSet(recorded)
  <2>1. published \subseteq Chunks /\ recorded \subseteq Chunks
    BY DEF RunInv
  <2> QED
    BY <2>1, FS_Subset, SyncRunsAssumption
<1> QED
  BY <1>1, FS_CardinalityType

\* A missing document is not one with counters.
LEMMA NoRunIsNone == \A r \in Document : r # NoRun
<1> SUFFICES ASSUME NEW r \in Document PROVE r # NoRun
  OBVIOUS
<1>1. r.status \in {"enumerating", "running", "complete"}
  BY DEF Document
<1>2. NoRun.status = "none"
  BY DEF NoRun
<1> QED
  BY <1>1, <1>2

\* At the start there is no run.
LEMMA RunInit == Init => RunInv
<1> SUFFICES ASSUME Init PROVE RunInv
  OBVIOUS
<1>1. failures = 0 /\ failures \in Nat
  BY DEF Init
<1>2. /\ published = {} /\ done = {} /\ reports = {} /\ recorded = {}
      /\ run = NoRun /\ ~ended /\ ended \in BOOLEAN /\ twice \in BOOLEAN
  BY Zenon DEF Init
<1> QED
  BY <1>1, <1>2, Zenon DEF RunInv

\* POST /pii-registry/sync-runs: nothing was counted before.
LEMMA CreateStep == RunInv /\ Create => RunInv'
<1> SUFFICES ASSUME RunInv, Create PROVE RunInv'
  OBVIOUS
<1>1. run' = NewRun /\ NewRun \in Document /\ NewRun # NoRun
  <2>1. NewRun \in Document
    BY DEF NewRun, Document, Unknown
  <2> QED
    BY <2>1, NoRunIsNone DEF Create
<1>2. recorded = {} /\ Cardinality(recorded) = 0
  BY FS_EmptySet DEF Create, RunInv
<1>3. Accounts(run)'
  <2>1. recorded' = recorded /\ twice' = twice
    BY DEF Create
  <2>2. NewRun.completed = 0 /\ NewRun.total = Unknown /\ NewRun.status = "enumerating"
    BY DEF NewRun
  <2> QED
    BY <1>1, <1>2, <2>1, <2>2 DEF Accounts
<1> QED
  BY <1>1, <1>3 DEF RunInv, Create, pipeline

\* POST .../finalize-total: the status is decided by what was counted so far.
LEMMA FinalizeStep == RunInv /\ FinalizeTotal => RunInv'
<1> SUFFICES ASSUME RunInv, FinalizeTotal PROVE RunInv'
  OBVIOUS
<1> DEFINE n == Cardinality(published)
<1>1. ended /\ run # NoRun /\ Accounts(run) /\ run \in Document
  BY DEF RunInv, FinalizeTotal, Accounts
<1>2. n \in Nat
  BY FiniteParts
<1>3. UNCHANGED <<published, ended, done, reports, failures, recorded, twice>>
  BY DEF FinalizeTotal, pipeline
<1> DEFINE s == AfterTotal(run, n)
<1>4. s = IF run.completed >= n THEN "complete" ELSE "running"
  BY <1>1, <1>2 DEF AfterTotal, AllDone, Unknown
<1>5. run' = [run EXCEPT !.total = n, !.status = s]
  BY DEF FinalizeTotal, WithTotal
<1> HIDE DEF n, s
<1>6. /\ run' \in Document
      /\ run'.total = n /\ run'.status = s /\ run'.completed = run.completed
  BY <1>1, <1>2, <1>4, <1>5 DEF Document
<1>7. Accounts(run)'
  BY <1>1, <1>2, <1>3, <1>4, <1>6 DEF Accounts, n, Unknown
<1> QED
  BY <1>1, <1>3, <1>6, <1>7, NoRunIsNone DEF RunInv

\* recordChunkOutcome: counting an outcome keeps the document and decides its
\* status anew.
LEMMA Outcome ==
    ASSUME NEW r \in Document, NEW outcome \in {"completed", "failed"},
           r.total = Unknown => r.status = "enumerating",
           r.total # Unknown => r.status = IF r.completed >= r.total THEN "complete" ELSE "running"
    PROVE  LET new == WithOutcome(r, outcome) IN
           /\ new \in Document
           /\ new.completed = IF outcome = "completed" THEN r.completed + 1 ELSE r.completed
           /\ new.total = r.total
           /\ r.total = Unknown => new.status = "enumerating"
           /\ r.total # Unknown =>
                new.status = IF new.completed >= r.total THEN "complete" ELSE "running"
<1> DEFINE k == Counted(r.completed, outcome)
           f == IF outcome = "failed" THEN r.failed + 1 ELSE r.failed
           s == IF AllDone(r.total, k) THEN "complete" ELSE r.status
           new == [r EXCEPT !.completed = k, !.failed = f, !.status = s]
<1>1. /\ r.completed \in Nat /\ r.failed \in Nat /\ r.total \in Nat \cup {Unknown}
      /\ r.status \in {"enumerating", "running", "complete"}
  BY DEF Document
<1>2. k \in Nat /\ k = IF outcome = "completed" THEN r.completed + 1 ELSE r.completed
  BY <1>1 DEF Counted
<1>3. f \in Nat /\ s \in {"enumerating", "running", "complete"}
  BY <1>1
<1>4. /\ r.total = Unknown => s = "enumerating"
      /\ r.total # Unknown => s = IF k >= r.total THEN "complete" ELSE "running"
  BY <1>1, <1>2 DEF AllDone, Unknown
<1> HIDE DEF k, f, s
<1>5. new \in Document /\ new.completed = k /\ new.total = r.total /\ new.status = s
  BY <1>2, <1>3 DEF Document
<1>6. WithOutcome(r, outcome) = new
  BY DEF WithOutcome, k, f, s
<1> QED
  BY <1>2, <1>4, <1>5, <1>6

\* POST .../progress, whatever the outcome.
LEMMA RecordStep ==
    ASSUME RunInv, (\E c \in Chunks : RecordCompleted(c)) \/ RecordFailed
    PROVE  RunInv'
<1>1. run # NoRun /\ Accounts(run)
  BY DEF RunInv, RecordCompleted, RecordFailed
<1>2. /\ run \in Document
      /\ run.total = Unknown => run.status = "enumerating"
      /\ run.total # Unknown =>
           run.status = IF run.completed >= run.total THEN "complete" ELSE "running"
      /\ run.completed \in Nat
  BY <1>1 DEF Accounts, Document
<1>3. ASSUME NEW c \in Chunks, RecordCompleted(c)
      PROVE  RunInv'
  <2> DEFINE new == WithOutcome(run, "completed")
  <2>1. /\ new \in Document /\ new.completed = run.completed + 1 /\ new.total = run.total
        /\ run.total = Unknown => new.status = "enumerating"
        /\ run.total # Unknown =>
             new.status = IF new.completed >= run.total THEN "complete" ELSE "running"
    BY <1>2, Outcome
  <2> HIDE DEF new
  <2>2. /\ run' = new /\ recorded' = recorded \cup {c}
        /\ twice' = (twice \/ c \in recorded) /\ c \in reports /\ reports' = reports \ {c}
        /\ UNCHANGED <<published, ended, done, failures>>
    BY <1>3 DEF RecordCompleted, new
  <2>3. /\ Cardinality(recorded) \in Nat
        /\ Cardinality(recorded') = IF c \in recorded THEN Cardinality(recorded)
                                    ELSE Cardinality(recorded) + 1
    BY <2>2, FiniteParts, FS_AddElement
  <2>4. /\ new.completed >= Cardinality(recorded')
        /\ ~twice' => new.completed = Cardinality(recorded')
    <3>1. /\ run.completed >= Cardinality(recorded)
          /\ ~twice => run.completed = Cardinality(recorded)
      BY <1>1 DEF Accounts
    <3>2. new.completed >= Cardinality(recorded')
      BY <1>2, <2>1, <2>3, <3>1
    <3>3. ~twice' => ~twice /\ c \notin recorded
      BY <2>2, Zenon
    <3>4. ~twice /\ c \notin recorded => new.completed = Cardinality(recorded')
      BY <1>2, <2>1, <2>3, <3>1
    <3> QED
      BY <3>2, <3>3, <3>4, Zenon
  <2>5. Accounts(run)'
    BY <1>1, <2>1, <2>2, <2>4 DEF Accounts
  <2>6. run' # NoRun
    BY <2>1, <2>2, NoRunIsNone
  <2> QED
    BY <2>2, <2>5, <2>6 DEF RunInv
<1>4. CASE RecordFailed
  <2> DEFINE new == WithOutcome(run, "failed")
  <2>1. /\ new \in Document /\ new.completed = run.completed /\ new.total = run.total
        /\ run.total = Unknown => new.status = "enumerating"
        /\ run.total # Unknown =>
             new.status = IF new.completed >= run.total THEN "complete" ELSE "running"
    BY <1>2, Outcome
  <2> HIDE DEF new
  <2>2. /\ run' = new /\ failures > 0 /\ failures' = failures - 1
        /\ UNCHANGED <<published, ended, done, reports, recorded, twice>>
    BY <1>4 DEF RecordFailed, new
  <2>3. Accounts(run)'
    BY <1>1, <2>1, <2>2 DEF Accounts
  <2>4. run' # NoRun /\ failures' \in Nat
    BY <2>1, <2>2, NoRunIsNone DEF RunInv
  <2> QED
    BY <2>2, <2>3, <2>4 DEF RunInv
<1> QED
  BY <1>3, <1>4

\* The pipeline's own steps: a chunk published leaves no total behind, since
\* the enumeration is not over.
LEMMA PipelineStep ==
    ASSUME RunInv, NEW c \in Chunks, NEW outcome \in {"completed", "failed"},
           Publish(c) \/ ReportLost(c) \/ Deliver(c, outcome)
    PROVE  RunInv'
<1>1. run' = run /\ recorded' = recorded /\ twice' = twice
  BY DEF Publish, ReportLost, Deliver
<1>2. CASE Publish(c)
  BY <1>1, <1>2 DEF Publish, RunInv, Accounts
<1>3. CASE ReportLost(c)
  BY <1>1, <1>3 DEF ReportLost, RunInv, Accounts
<1>4. CASE Deliver(c, outcome)
  BY <1>1, <1>4 DEF Deliver, RunInv, Accounts
<1> QED
  BY <1>2, <1>3, <1>4

\* RunInv is inductive.
LEMMA RunStep == RunInv /\ [Next]_vars => RunInv'
<1> SUFFICES ASSUME RunInv, [Next]_vars PROVE RunInv'
  OBVIOUS
<1>1. CASE UNCHANGED vars
  BY <1>1 DEF RunInv, Accounts, vars, pipeline
<1>2. CASE EndEnumeration
  BY <1>2 DEF EndEnumeration, RunInv, Accounts
<1>3. ASSUME NEW c \in Chunks, NEW outcome \in {"completed", "failed"},
             Publish(c) \/ ReportLost(c) \/ Deliver(c, outcome)
      PROVE  RunInv'
  BY <1>3, PipelineStep
<1> QED
  BY <1>1, <1>2, <1>3, CreateStep, FinalizeStep, RecordStep DEF Next

-----------------------------------------------------------------------------
\* A run shown as complete has all its chunks done unless a completion was
\* counted twice, for any number of chunks, deliveries and failures.
THEOREM CompleteMeansDoneHolds == Spec => []CompleteMeansDone
<1>1. RunInv => CompleteMeansDone
  <2> SUFFICES ASSUME RunInv, run.status = "complete", ~twice
               PROVE  ended /\ done = published
    BY DEF CompleteMeansDone, RunInv
  <2>1. run # NoRun
    BY DEF NoRun
  <2>2. Accounts(run) /\ run.total # Unknown
    BY <2>1 DEF RunInv, Accounts
  <2>3. run.completed = Cardinality(recorded) /\ run.completed >= Cardinality(published) /\ ended
    BY <2>2 DEF Accounts
  <2>4. recorded \subseteq published /\ IsFiniteSet(published)
    BY FiniteParts DEF RunInv
  <2>5. recorded = published
    BY <2>3, <2>4, FiniteParts, FS_Subset
  <2> QED
    BY <2>3, <2>5 DEF RunInv
<1> QED
  BY <1>1, RunInit, RunStep, PTL DEF Spec

\* Whichever of finalizeTotal and recordChunkOutcome comes last, a run whose
\* chunks were all counted is complete.
THEOREM NoRunLeftBehindHolds == Spec => []NoRunLeftBehind
<1>1. RunInv => NoRunLeftBehind
  <2> SUFFICES ASSUME RunInv, run # NoRun, run.status # "enumerating", recorded = published
               PROVE  run.status = "complete"
    BY DEF NoRunLeftBehind
  <2>1. Accounts(run) /\ run.total # Unknown
    BY DEF RunInv, Accounts
  <2> QED
    BY <2>1 DEF Accounts
<1> QED
  BY <1>1, RunInit, RunStep, PTL DEF Spec

\* A complete run is never shown as running again: a step moves its count up or
\* leaves it, and posts no other total.
THEOREM CompleteIsFinalHolds == Spec => CompleteIsFinal
<1>1. RunInv /\ [Next]_vars => (run.status = "complete" => run'.status = "complete")
  <2> SUFFICES ASSUME RunInv, [Next]_vars, run.status = "complete"
               PROVE  run'.status = "complete"
    OBVIOUS
  <2>1. run # NoRun
    BY DEF NoRun
  <2>2. /\ Accounts(run) /\ run.total # Unknown /\ ended /\ run \in Document
        /\ run.total = Cardinality(published) /\ run.completed >= run.total
        /\ run.completed \in Nat /\ run.total \in Nat
    BY <2>1 DEF RunInv, Accounts, Document
  <2>3. CASE run' = run
    BY <2>3
  <2>4. CASE FinalizeTotal
    <3>1. AfterTotal(run, Cardinality(published)) = "complete"
      BY <2>2 DEF AfterTotal, AllDone
    <3>2. run' = [run EXCEPT !.total = Cardinality(published), !.status = "complete"]
      BY <2>4, <3>1 DEF FinalizeTotal, WithTotal
    <3> QED
      BY <2>2, <3>2 DEF Document
  <2>5. ASSUME NEW outcome \in {"completed", "failed"}, run' = WithOutcome(run, outcome)
        PROVE  run'.status = "complete"
    <3>1. /\ run'.completed = IF outcome = "completed" THEN run.completed + 1 ELSE run.completed
          /\ run'.status = IF run'.completed >= run.total THEN "complete" ELSE "running"
      BY <2>2, <2>5, Outcome DEF Accounts
    <3> QED
      BY <2>2, <3>1
  <2>6. ~Create
    BY <2>2 DEF Create
  <2> QED
    BY <2>3, <2>4, <2>5, <2>6
       DEF Next, vars, EndEnumeration, Publish, ReportLost, Deliver, RecordCompleted, RecordFailed
<1> QED
  BY <1>1, RunInit, RunStep, PTL DEF Spec, CompleteIsFinal

-----------------------------------------------------------------------------
(* The counters *)

\* The reports under way and what the document counted, the reports of one
\* chunk at a time: none without a delivery of its own.
Budget ==
    /\ deliveries \in 0..MaxDeliveries
    /\ failures + Cardinality(reports) <= deliveries
    /\ run # NoRun => run.completed + run.failed + failures + Cardinality(reports) <= deliveries

\* The reports under way are finitely many.
LEMMA FiniteReports ==
    ASSUME RunInv
    PROVE  IsFiniteSet(reports) /\ Cardinality(reports) \in Nat
<1>1. reports \subseteq Chunks
  BY DEF RunInv
<1> QED
  BY <1>1, FS_Subset, FS_CardinalityType, SyncRunsAssumption

\* A delivery pays for the report it starts.
LEMMA DeliverBudget ==
    ASSUME RunInv, Budget, NEW c \in Chunks, NEW outcome \in {"completed", "failed"},
           Deliver(c, outcome)
    PROVE  Budget'
<1>1. PICK n \in Nat, m \in Nat, f \in Nat, g \in Nat, d \in Nat :
        /\ n = Cardinality(reports) /\ m = Cardinality(reports')
        /\ f = failures /\ g = failures' /\ d = deliveries
  <2>1. Cardinality(reports) \in Nat /\ failures \in Nat /\ deliveries \in Nat
    BY FiniteReports, SyncRunsAssumption DEF RunInv, Budget
  <2>2. reports' = reports \/ reports' = reports \cup {c}
    BY DEF Deliver
  <2>3. Cardinality(reports') \in Nat
    BY <2>2, FiniteReports, FS_AddElement, FS_CardinalityType
  <2>4. failures' \in Nat
    BY <2>1 DEF Deliver
  <2> QED
    BY <2>1, <2>3, <2>4
<1>2. deliveries' = d + 1 /\ d + 1 <= MaxDeliveries /\ run' = run
  BY <1>1, SyncRunsAssumption DEF Deliver
<1>3. m + g <= n + f + 1
  <2>1. CASE outcome = "completed"
    <3>1. reports' = reports \cup {c} /\ g = f
      BY <1>1, <2>1 DEF Deliver
    <3>2. m = n \/ m = n + 1
      BY <1>1, <3>1, FiniteReports, FS_AddElement
    <3> QED
      BY <1>1, <3>1, <3>2
  <2>2. CASE outcome = "failed"
    <3>1. m = n /\ g = f + 1
      BY <1>1, <2>2 DEF Deliver
    <3> QED
      BY <1>1, <3>1
  <2> QED
    BY <2>1, <2>2
<1>4. f + n <= d
  BY <1>1 DEF Budget
<1>5. failures' + Cardinality(reports') <= deliveries'
  <2>1. g + m <= d + 1
    BY <1>1, <1>3, <1>4
  <2> QED
    BY <1>1, <1>2, <2>1
<1>6. ASSUME run' # NoRun
      PROVE  run'.completed + run'.failed + failures' + Cardinality(reports') <= deliveries'
  <2>1. PICK a \in Nat, b \in Nat : a = run.completed /\ b = run.failed
    BY <1>2, <1>6 DEF RunInv, Accounts, Document
  <2>2. a + b + f + n <= d
    BY <1>1, <1>2, <1>6, <2>1 DEF Budget
  <2>3. a + b + g + m <= d + 1
    BY <1>1, <1>3, <2>1, <2>2
  <2> QED
    BY <1>1, <1>2, <2>1, <2>3
<1>7. deliveries' \in 0..MaxDeliveries
  BY <1>1, <1>2, SyncRunsAssumption
<1> QED
  BY <1>5, <1>6, <1>7 DEF Budget

\* A report that arrives, or is lost, leaves the reports under way; an outcome
\* that arrives is counted once.
LEMMA ReportBudget ==
    ASSUME RunInv, Budget,
           \/ \E c \in Chunks : RecordCompleted(c) \/ ReportLost(c)
           \/ RecordFailed
    PROVE  Budget'
<1> DEFINE n == Cardinality(reports)
           m == Cardinality(reports')
<1>1. /\ n \in Nat /\ failures \in Nat /\ deliveries \in Nat
      /\ deliveries' = deliveries
  BY FiniteReports
     DEF RunInv, Budget, RecordCompleted, ReportLost, RecordFailed
<1>2. \A c \in reports : reports' = reports \ {c} => m = n - 1
  BY FiniteReports, FS_RemoveElement
<1>3. /\ failures + n <= deliveries
      /\ run # NoRun => run.completed + run.failed + failures + n <= deliveries
  BY DEF Budget
<1>4. run # NoRun /\ run \in Document /\ run.completed \in Nat /\ run.failed \in Nat
  BY DEF RunInv, Accounts, Document, RecordCompleted, ReportLost, RecordFailed
<1> HIDE DEF n, m
<1>5. ASSUME NEW c \in Chunks, RecordCompleted(c) PROVE Budget'
  <2>1. run' = WithOutcome(run, "completed") /\ m = n - 1 /\ failures' = failures
    BY <1>2, <1>5 DEF RecordCompleted
  <2>2. run'.completed = run.completed + 1 /\ run'.failed = run.failed
    BY <1>4, <2>1 DEF WithOutcome, Counted, Document
  <2>3. /\ failures' + m <= deliveries'
        /\ run'.completed + run'.failed + failures' + m <= deliveries'
    BY <1>1, <1>3, <1>4, <2>1, <2>2
  <2> QED
    BY <1>1, <2>3 DEF Budget, m
<1>6. ASSUME NEW c \in Chunks, ReportLost(c) PROVE Budget'
  <2>1. run' = run /\ m = n - 1 /\ failures' = failures
    BY <1>2, <1>6 DEF ReportLost
  <2>2. /\ failures' + m <= deliveries'
        /\ run'.completed + run'.failed + failures' + m <= deliveries'
    BY <1>1, <1>3, <1>4, <2>1
  <2> QED
    BY <1>1, <2>2 DEF Budget, m
<1>7. CASE RecordFailed
  <2>1. run' = WithOutcome(run, "failed") /\ reports' = reports /\ failures' = failures - 1
    BY <1>7 DEF RecordFailed
  <2>2. run'.completed = run.completed /\ run'.failed = run.failed + 1 /\ m = n
    BY <1>4, <2>1 DEF WithOutcome, Counted, Document, m, n
  <2>3. /\ failures' + m <= deliveries'
        /\ run'.completed + run'.failed + failures' + m <= deliveries'
    BY <1>1, <1>3, <1>4, <2>1, <2>2
  <2> QED
    BY <1>1, <2>3 DEF Budget, m
<1> QED
  BY <1>5, <1>6, <1>7, Zenon

\* The sync job's own calls count nothing.
LEMMA JobBudget ==
    ASSUME RunInv, Budget,
           Create \/ EndEnumeration \/ FinalizeTotal \/ (\E c \in Chunks : Publish(c))
    PROVE  Budget'
<1>1. UNCHANGED <<reports, failures, deliveries>>
  BY DEF Create, EndEnumeration, FinalizeTotal, Publish, pipeline
<1>2. CASE Create
  <2>1. run'.completed = 0 /\ run'.failed = 0
    BY <1>2 DEF Create, NewRun
  <2>2. failures \in Nat /\ Cardinality(reports) \in Nat
    BY FiniteReports DEF RunInv
  <2> QED
    BY <1>1, <2>1, <2>2 DEF Budget
<1>3. CASE FinalizeTotal
  <2>1. run # NoRun /\ run \in Document
    BY <1>3 DEF FinalizeTotal, RunInv, Accounts
  <2>2. run'.completed = run.completed /\ run'.failed = run.failed
    BY <1>3, <2>1 DEF FinalizeTotal, WithTotal, Document
  <2> QED
    BY <1>1, <2>1, <2>2 DEF Budget
<1>4. CASE EndEnumeration \/ \E c \in Chunks : Publish(c)
  BY <1>1, <1>4 DEF EndEnumeration, Publish, Budget
<1> QED
  BY <1>2, <1>3, <1>4

\* The document's counters never count more outcomes than Pub/Sub made
\* deliveries, duplicates and retried creates included, and its total is one an
\* enumeration can have.
THEOREM SyncRunsTypeCorrect == Spec => []TypeOK
<1>1. Init => Budget
  <2> SUFFICES ASSUME Init PROVE Budget
    OBVIOUS
  <2>1. reports = {} /\ failures = 0 /\ deliveries = 0 /\ run = NoRun
    BY Zenon DEF Init
  <2> QED
    BY <2>1, FS_EmptySet, SyncRunsAssumption DEF Budget
<1>2. RunInv /\ Budget /\ [Next]_vars => Budget'
  <2> SUFFICES ASSUME RunInv, Budget, [Next]_vars PROVE Budget'
    OBVIOUS
  <2>1. CASE UNCHANGED vars
    BY <2>1 DEF Budget, vars, pipeline
  <2> QED
    BY <2>1, DeliverBudget, ReportBudget, JobBudget DEF Next
<1>3. RunInv /\ Budget => TypeOK
  <2> SUFFICES ASSUME RunInv, Budget PROVE TypeOK
    OBVIOUS
  <2>1. deliveries \in 0..MaxDeliveries /\ deliveries \in Nat /\ failures \in Nat
    BY SyncRunsAssumption DEF Budget, RunInv
  <2>2. CASE run = NoRun
    BY <2>1, <2>2 DEF TypeOK, RunInv
  <2>3. CASE run # NoRun
    <3>1. Accounts(run) /\ run \in Document
      BY <2>3 DEF RunInv, Accounts
    <3>2. Cardinality(published) <= Cardinality(Chunks) /\ Cardinality(Chunks) \in Nat
      BY FS_Subset, FS_CardinalityType, SyncRunsAssumption DEF RunInv
    <3>3. run.total \in Unknown..Cardinality(Chunks)
      BY <3>1, <3>2, FiniteParts DEF Accounts, Unknown
    <3>4. run \in SyncRun
      BY <3>1, <3>3 DEF Document, SyncRun
    <3>5. run.completed + run.failed <= deliveries
      <4>1. /\ run.completed \in Nat /\ run.failed \in Nat
            /\ run.completed + run.failed + failures + Cardinality(reports) <= deliveries
        BY <2>3, <3>1 DEF Document, Budget
      <4> QED
        BY <2>1, <4>1, FiniteReports
    <3> QED
      BY <2>1, <3>4, <3>5 DEF TypeOK, RunInv
  <2> QED
    BY <2>2, <2>3
<1> QED
  BY <1>1, <1>2, <1>3, RunInit, RunStep, PTL DEF Spec

=============================================================================
