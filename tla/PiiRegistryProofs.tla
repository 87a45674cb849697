-------------------------- MODULE PiiRegistryProofs --------------------------
(***************************************************************************)
(* For any number of instances, requests, declarations and timestamps: the *)
(* memory of an instance and the shadow view are never ahead of the store, *)
(* and stored watermarks only advance.  The invariant follows an entry     *)
(* from the store write through the request that carries it to the memory: *)
(* every entry a request holds after its store write is backed by the      *)
(* store's history.                                                        *)
(***************************************************************************)
EXTENDS PiiRegistry, TLAPS

Backed(entry) ==
    /\ entry.revision \in persisted
    /\ \A w \in Watermarks : entry[w] <= reached[w]

\* What a request carries, step by step.
RequestInv(r) ==
    /\ r.at \in {"upsert", "remember", "create view", "reconcile"} => r.entry \in Entry
    /\ r.at = "upsert" => r.entry.synced = Never /\ r.entry.attempted = Never
    /\ r.at \in {"remember", "create view", "reconcile"} => Backed(r.entry)
    /\ r.at \in {"delete", "forget"} => r.entry = None
    /\ r.at = "drop view" /\ r.entry # None => Backed(r.entry)
    /\ r.at = "advance" => Backed(r.existing)

BackedInv ==
    /\ store # None => Backed(store)
    /\ \A i \in Instances : memory[i] # None => Backed(memory[i])
    /\ view # None => view \in persisted
    /\ \A t \in Threads : RequestInv(thread[t])

Inv == TypeOK /\ BackedInv

-----------------------------------------------------------------------------
\* None is not an entry and not a revision.
LEMMA NoneIsNoEntry == None \notin Entry /\ None \notin 1..MaxRevision
  BY PiiRegistryAssumption DEF Entry, Never

\* A watermark of an entry is a time or Never.
LEMMA WatermarkType ==
  ASSUME NEW e \in Entry, NEW w \in Watermarks
  PROVE  e[w] \in Never..MaxTime
<1>1. w = "synced" \/ w = "attempted"
  BY PiiRegistryAssumption
<1>2. CASE w = "synced"
  BY <1>2 DEF Entry
<1>3. CASE w = "attempted"
  BY <1>3 DEF Entry
<1>. QED
  BY <1>1, <1>2, <1>3

\* Setting a watermark changes nothing else of an entry.
LEMMA SetWatermark ==
  ASSUME NEW e \in Entry, NEW w \in Watermarks, NEW c \in Never..MaxTime
  PROVE  /\ [e EXCEPT ![w] = c] \in Entry
         /\ [e EXCEPT ![w] = c].revision = e.revision
         /\ [e EXCEPT ![w] = c].column = e.column
         /\ \A v \in Watermarks : [e EXCEPT ![w] = c][v] = IF v = w THEN c ELSE e[v]
         /\ [e EXCEPT ![w] = c].synced = IF w = "synced" THEN c ELSE e.synced
         /\ [e EXCEPT ![w] = c].attempted = IF w = "attempted" THEN c ELSE e.attempted
<1>1. w \in {"synced", "attempted"} /\ Watermarks \subseteq {"synced", "attempted"}
  BY PiiRegistryAssumption
<1>2. CASE w = "synced"
  BY <1>1, <1>2 DEF Entry
<1>3. CASE w = "attempted"
  BY <1>1, <1>3 DEF Entry
<1>. QED
  BY <1>1, <1>2, <1>3

\* The compare-and-swap keeps the later of two times.
LEMMA AdvancedType ==
  ASSUME NEW x \in Never..MaxTime, NEW y \in Never..MaxTime
  PROVE  /\ Advanced(x, y) \in Never..MaxTime
         /\ Advanced(x, y) >= x
         /\ Advanced(x, y) >= y
  BY PiiRegistryAssumption DEF Advanced, Never

\* The transaction of a mark leaves the same declaration, one watermark no
\* lower than it was.
LEMMA MarkedType ==
  ASSUME NEW e \in Entry, NEW w \in Watermarks, NEW c \in Time
  PROVE  /\ Marked(e, w, c) \in Entry
         /\ Marked(e, w, c).revision = e.revision
         /\ Marked(e, w, c).column = e.column
         /\ \A v \in Watermarks \ {w} : Marked(e, w, c)[v] = e[v]
         /\ Marked(e, w, c)[w] \in Never..MaxTime
         /\ Marked(e, w, c).synced >= e.synced
         /\ Marked(e, w, c).attempted >= e.attempted
<1>1. e[w] \in Never..MaxTime /\ c \in Never..MaxTime
  BY WatermarkType, PiiRegistryAssumption DEF Time, Never
<1>2. /\ Advanced(e[w], c) \in Never..MaxTime
      /\ Advanced(e[w], c) >= e[w]
  BY <1>1, AdvancedType
<1>3. Marked(e, w, c) = [e EXCEPT ![w] = Advanced(e[w], c)]
  BY NoneIsNoEntry DEF Marked
<1>4. e.synced \in Never..MaxTime /\ e.attempted \in Never..MaxTime
  BY DEF Entry
<1>5. w \in {"synced", "attempted"}
  BY PiiRegistryAssumption
<1> DEFINE a == Advanced(e[w], c)
<1>6. /\ [e EXCEPT ![w] = a] \in Entry
      /\ [e EXCEPT ![w] = a].revision = e.revision
      /\ [e EXCEPT ![w] = a].column = e.column
      /\ \A v \in Watermarks : [e EXCEPT ![w] = a][v] = IF v = w THEN a ELSE e[v]
      /\ [e EXCEPT ![w] = a].synced = IF w = "synced" THEN a ELSE e.synced
      /\ [e EXCEPT ![w] = a].attempted = IF w = "attempted" THEN a ELSE e.attempted
  BY <1>2, SetWatermark
<1>7. [e EXCEPT ![w] = a].synced >= e.synced
  <2>1. CASE w = "synced"
    BY <2>1, <1>2, <1>6
  <2>2. CASE w = "attempted"
    BY <2>2, <1>4, <1>6, PiiRegistryAssumption DEF Never
  <2>. QED
    BY <2>1, <2>2, <1>5
<1>8. [e EXCEPT ![w] = a].attempted >= e.attempted
  <2>1. CASE w = "attempted"
    BY <2>1, <1>2, <1>6
  <2>2. CASE w = "synced"
    BY <2>2, <1>4, <1>6, PiiRegistryAssumption DEF Never
  <2>. QED
    BY <2>1, <2>2, <1>5
<1>. QED
  BY <1>2, <1>3, <1>6, <1>7, <1>8

\* A declaration merged into the document keeps its watermarks, but for
\* lastSyncedAt when the column is cleared.
LEMMA MergedType ==
  ASSUME NEW current \in Entry \cup {None}, NEW e \in Entry,
         e.synced = Never, e.attempted = Never
  PROVE  /\ Merged(current, e) \in Entry
         /\ Merged(current, e).revision = e.revision
         /\ Merged(current, e).column = e.column
         /\ current = None => Merged(current, e) = e
         /\ current # None =>
              /\ Merged(current, e).attempted = current.attempted
              /\ Merged(current, e).synced = IF e.column THEN current.synced ELSE Never
  BY NoneIsNoEntry, PiiRegistryAssumption DEF Merged, Entry, Never

\* The step of no request.
LEMMA IdleStep == Idle.at = "idle"
  BY DEF Idle

\* What a request at each step may be.
LEMMA RequestType ==
  ASSUME TypeOK, NEW t \in Threads
  PROVE  /\ thread[t].at = "idle" <=> thread[t] = Idle
         /\ thread[t].at = "advance" => thread[t] \in Marking
         /\ thread[t].at \in {"upsert", "remember", "delete", "forget",
                             "drop view", "create view", "reconcile"} => thread[t] \in Writing
         /\ thread[t] # Idle => thread[t].instance \in Instances
<1>1. thread[t] \in {Idle} \cup Writing \cup Marking
  BY DEF TypeOK
<1>2. CASE thread[t] = Idle
  BY <1>2, IdleStep
<1>3. CASE thread[t] \in Writing
  <2>1. /\ thread[t].at \in {"upsert", "remember", "delete", "forget",
                             "drop view", "create view", "reconcile"}
        /\ thread[t].instance \in Instances
    BY <1>3 DEF Writing
  <2>2. thread[t] # Idle
    BY <2>1, IdleStep
  <2>. QED
    BY <1>3, <2>1, <2>2
<1>4. CASE thread[t] \in Marking
  <2>1. thread[t].at = "advance" /\ thread[t].instance \in Instances
    BY <1>4 DEF Marking
  <2>2. thread[t] # Idle
    BY <2>1, IdleStep
  <2>. QED
    BY <1>4, <2>1, <2>2
<1>. QED
  BY <1>1, <1>2, <1>3, <1>4

\* Requests keep their type when one of them moves on.
LEMMA ThreadMoves ==
  ASSUME TypeOK, NEW t \in Threads, NEW next \in {Idle} \cup Writing \cup Marking,
         thread' = [thread EXCEPT ![t] = next]
  PROVE  thread' \in [Threads -> {Idle} \cup Writing \cup Marking]
  BY DEF TypeOK

\* Moving a request that writes to a later step changes only the step.
LEMMA GotoMoves ==
  ASSUME TypeOK, NEW t \in Threads, thread[t] \in Writing,
         NEW step \in {"remember", "forget", "drop view", "create view"}, Goto(t, step)
  PROVE  /\ thread' \in [Threads -> {Idle} \cup Writing \cup Marking]
         /\ thread'[t].at = step
         /\ thread'[t].entry = thread[t].entry
         /\ \A u \in Threads \ {t} : thread'[u] = thread[u]
  BY DEF TypeOK, Goto, Writing

\* A request that ends is idle; the others stay where they are.
LEMMA FinishMoves ==
  ASSUME TypeOK, NEW t \in Threads, Finish(t)
  PROVE  /\ thread' \in [Threads -> {Idle} \cup Writing \cup Marking]
         /\ thread'[t] = Idle
         /\ \A u \in Threads \ {t} : thread'[u] = thread[u]
  BY DEF TypeOK, Finish

-----------------------------------------------------------------------------
(* The type invariant *)

LEMMA TypeInit == Init => TypeOK
  BY PiiRegistryAssumption, NoneIsNoEntry DEF Init, TypeOK, Never, Idle

\* The store write of a declaration.
LEMMA UpsertTypes ==
  ASSUME TypeOK, NEW t \in Threads, RequestInv(thread[t]), thread[t].at = "upsert", WriteUpsert(t)
  PROVE  /\ thread[t] \in Writing /\ thread[t].entry \in Entry
         /\ store' \in Entry
         /\ persisted' \subseteq 1..MaxRevision
         /\ persisted \subseteq persisted'
         /\ thread[t].entry.revision \in persisted'
<1>1. thread[t] \in Writing /\ thread[t].entry \in Entry
  BY RequestType DEF RequestInv
<1>2. store' \in Entry
  BY <1>1, MergedType DEF WriteUpsert, RequestInv, TypeOK
<1>3. thread[t].entry.revision \in 1..MaxRevision
  BY <1>1 DEF Entry
<1>. QED
  BY <1>1, <1>2, <1>3 DEF WriteUpsert, TypeOK

\* The transaction of a mark.
LEMMA AdvanceTypes ==
  ASSUME TypeOK, NEW t \in Threads, thread[t].at = "advance",
         WriteAdvance(t, Marked(store, thread[t].watermark, thread[t].candidate))
  PROVE  /\ thread[t] \in Marking /\ store \in Entry
         /\ store' = Marked(store, thread[t].watermark, thread[t].candidate)
         /\ store' \in Entry
         /\ reached' \in [Watermarks -> Never..MaxTime]
         /\ \A w \in Watermarks : reached'[w] >= reached[w]
         /\ reached'[thread[t].watermark] >= store'[thread[t].watermark]
<1> DEFINE w == thread[t].watermark
           c == thread[t].candidate
<1>1. thread[t] \in Marking
  BY RequestType
<1>2. w \in Watermarks /\ c \in Time
  BY <1>1 DEF Marking
<1>3. store \in Entry
  <2>1. Marked(None, w, c) = None
    BY DEF Marked
  <2>. QED
    BY <2>1 DEF WriteAdvance, TypeOK
<1>4. store' = Marked(store, w, c)
  BY DEF WriteAdvance
<1>5. store' \in Entry /\ store'[w] \in Never..MaxTime
  BY <1>2, <1>3, <1>4, MarkedType
<1>6. reached \in [Watermarks -> Never..MaxTime]
  BY DEF TypeOK
<1>7. reached' = [reached EXCEPT ![w] = Advanced(reached[w], store'[w])]
  BY <1>4 DEF WriteAdvance
<1>8. /\ Advanced(reached[w], store'[w]) \in Never..MaxTime
      /\ Advanced(reached[w], store'[w]) >= reached[w]
      /\ Advanced(reached[w], store'[w]) >= store'[w]
  BY <1>2, <1>5, <1>6, AdvancedType
<1>9. ASSUME NEW v \in Watermarks PROVE reached'[v] >= reached[v]
  BY <1>2, <1>6, <1>7, <1>8, PiiRegistryAssumption DEF Never
<1>10. reached' \in [Watermarks -> Never..MaxTime]
  BY <1>2, <1>6, <1>7, <1>8
<1>11. reached'[w] >= store'[w]
  BY <1>2, <1>6, <1>7, <1>8
<1>. QED
  BY <1>1, <1>3, <1>4, <1>5, <1>9, <1>10, <1>11

\* One step of one request, or a restart, keeps the types.
LEMMA TypeStep ==
  ASSUME TypeOK, \A t \in Threads : RequestInv(thread[t]), [Next]_vars
  PROVE  TypeOK'
<1>1. CASE UNCHANGED vars
  BY <1>1 DEF TypeOK, vars
<1>2. ASSUME NEW t \in Threads, StoreUpsert(t) PROVE TypeOK'
  <2>1. /\ thread[t] \in Writing /\ store' \in Entry /\ persisted' \subseteq 1..MaxRevision
    BY <1>2, UpsertTypes DEF StoreUpsert
  <2>2. thread' \in [Threads -> {Idle} \cup Writing \cup Marking]
    BY <1>2, <2>1, GotoMoves DEF StoreUpsert
  <2>. QED
    BY <1>2, <2>1, <2>2 DEF StoreUpsert, TypeOK
<1>3. ASSUME NEW t \in Threads, MemoryUpsert(t) PROVE TypeOK'
  <2>1. thread[t] \in Writing /\ thread[t].entry \in Entry
    BY <1>3, RequestType DEF MemoryUpsert, RequestInv
  <2>2. thread' \in [Threads -> {Idle} \cup Writing \cup Marking]
    BY <1>3, <2>1, GotoMoves DEF MemoryUpsert
  <2>. QED
    BY <1>3, <2>1, <2>2 DEF MemoryUpsert, TypeOK
<1>4. ASSUME NEW t \in Threads, StoreDelete(t) PROVE TypeOK'
  <2>1. thread' \in [Threads -> {Idle} \cup Writing \cup Marking]
    BY <1>4, RequestType, GotoMoves DEF StoreDelete
  <2>. QED
    BY <1>4, <2>1 DEF StoreDelete, TypeOK
<1>5. ASSUME NEW t \in Threads, MemoryDelete(t) PROVE TypeOK'
  <2>1. thread' \in [Threads -> {Idle} \cup Writing \cup Marking]
    BY <1>5, RequestType, GotoMoves DEF MemoryDelete
  <2>. QED
    BY <1>5, <2>1 DEF MemoryDelete, TypeOK
<1>6. ASSUME NEW t \in Threads, DropView(t) PROVE TypeOK'
  <2>1. thread[t] \in Writing
    BY <1>6, RequestType DEF DropView
  <2>2. Goto(t, "create view") \/ Finish(t)
    BY <1>6 DEF DropView
  <2>3. thread' \in [Threads -> {Idle} \cup Writing \cup Marking]
    BY <2>1, <2>2, GotoMoves, FinishMoves
  <2>. QED
    BY <1>6, <2>3 DEF DropView, TypeOK
<1>7. ASSUME NEW t \in Threads, CreateView(t) PROVE TypeOK'
  <2>1. thread[t].entry.revision \in 1..MaxRevision
    BY <1>7, RequestType DEF CreateView, RequestInv, Entry
  <2>2. thread' \in [Threads -> {Idle} \cup Writing \cup Marking]
    BY <1>7, FinishMoves DEF CreateView
  <2>. QED
    BY <1>7, <2>1, <2>2 DEF CreateView, TypeOK
<1>8. ASSUME NEW t \in Threads, Advance(t) PROVE TypeOK'
  <2> DEFINE w == thread[t].watermark
             marked == Marked(store, w, thread[t].candidate)
             next == [at |-> "reconcile", instance |-> thread[t].instance,
                      entry |-> [thread[t].existing EXCEPT ![w] = marked[w]]]
  <2>1. /\ thread[t] \in Marking /\ store' \in Entry /\ store' = marked
        /\ reached' \in [Watermarks -> Never..MaxTime]
    BY <1>8, AdvanceTypes DEF Advance
  <2>2. w \in Watermarks /\ thread[t].existing \in Entry /\ thread[t].instance \in Instances
    BY <2>1 DEF Marking
  <2>3. marked[w] \in Never..MaxTime
    BY <2>1, <2>2, WatermarkType
  <2>4. [thread[t].existing EXCEPT ![w] = marked[w]] \in Entry
    BY <2>2, <2>3, SetWatermark
  <2>5. next \in Writing
    BY <2>2, <2>4 DEF Writing
  <2>6. thread' = [thread EXCEPT ![t] = next]
    BY <1>8 DEF Advance
  <2>7. thread' \in [Threads -> {Idle} \cup Writing \cup Marking]
    BY <2>5, <2>6, ThreadMoves
  <2>. QED
    BY <1>8, <2>1, <2>7 DEF Advance, TypeOK
<1>9. ASSUME NEW t \in Threads, Reconcile(t) PROVE TypeOK'
  <2>1. thread[t].entry \in Entry
    BY <1>9 DEF Reconcile, RequestInv
  <2>2. thread' \in [Threads -> {Idle} \cup Writing \cup Marking]
    BY <1>9, FinishMoves DEF Reconcile
  <2>. QED
    BY <1>9, <2>1, <2>2 DEF Reconcile, TypeOK
<1>10. ASSUME NEW t \in Threads, Abort(t) \/ ViewFails(t) PROVE TypeOK'
  <2>1. thread' \in [Threads -> {Idle} \cup Writing \cup Marking]
    BY <1>10, FinishMoves DEF Abort, ViewFails
  <2>. QED
    BY <1>10, <2>1 DEF Abort, ViewFails, TypeOK
<1>11. ASSUME NEW t \in Threads, AnswerLost(t) PROVE TypeOK'
  <2>1. /\ store' \in Entry \cup {None}
        /\ persisted' \subseteq 1..MaxRevision
        /\ reached' \in [Watermarks -> Never..MaxTime]
    <3>1. CASE thread[t].at = "upsert" /\ WriteUpsert(t) /\ UNCHANGED reached
      BY <3>1, UpsertTypes DEF TypeOK
    <3>2. CASE thread[t].at = "delete" /\ store' = None /\ UNCHANGED <<persisted, reached>>
      BY <3>2 DEF TypeOK
    <3>3. CASE /\ thread[t].at = "advance"
               /\ WriteAdvance(t, Marked(store, thread[t].watermark, thread[t].candidate))
               /\ UNCHANGED persisted
      BY <3>3, AdvanceTypes DEF TypeOK
    <3>. QED
      BY <1>11, <3>1, <3>2, <3>3 DEF AnswerLost
  <2>2. thread' \in [Threads -> {Idle} \cup Writing \cup Marking]
    BY <1>11, FinishMoves DEF AnswerLost
  <2>. QED
    BY <1>11, <2>1, <2>2 DEF AnswerLost, TypeOK
<1>12. ASSUME NEW t \in Threads, NEW i \in Instances, Remove(t, i) PROVE TypeOK'
  <2>1. [at |-> "delete", instance |-> i, entry |-> None] \in Writing
    BY DEF Writing
  <2>2. thread' \in [Threads -> {Idle} \cup Writing \cup Marking]
    BY <1>12, <2>1, ThreadMoves DEF Remove
  <2>. QED
    BY <1>12, <2>2 DEF Remove, TypeOK
<1>13. ASSUME NEW t \in Threads, NEW i \in Instances,
              NEW column \in BOOLEAN, NEW shadow \in BOOLEAN, Declare(t, i, column, shadow)
       PROVE  TypeOK'
  <2>1. revision' \in 1..MaxRevision
    BY <1>13, PiiRegistryAssumption DEF Declare, TypeOK
  <2>2. ManualEntry(revision', column, shadow) \in Entry
    BY <2>1, PiiRegistryAssumption DEF ManualEntry, Entry, Never
  <2>3. [at |-> "upsert", instance |-> i, entry |-> ManualEntry(revision', column, shadow)] \in Writing
    BY <2>2 DEF Writing
  <2>4. thread' \in [Threads -> {Idle} \cup Writing \cup Marking]
    BY <1>13, <2>3, ThreadMoves DEF Declare
  <2>. QED
    BY <1>13, <2>1, <2>4 DEF Declare, TypeOK
<1>14. ASSUME NEW t \in Threads, NEW i \in Instances,
              NEW watermark \in Watermarks, NEW candidate \in Time, Mark(t, i, watermark, candidate)
       PROVE  TypeOK'
  <2>1. memory[i] \in Entry
    BY <1>14 DEF Mark, TypeOK
  <2>2. [at |-> "advance", instance |-> i, existing |-> memory[i],
         watermark |-> watermark, candidate |-> candidate] \in Marking
    BY <2>1 DEF Marking
  <2>3. thread' \in [Threads -> {Idle} \cup Writing \cup Marking]
    BY <1>14, <2>2, ThreadMoves DEF Mark
  <2>. QED
    BY <1>14, <2>3 DEF Mark, TypeOK
<1>15. ASSUME NEW i \in Instances, NEW loaded \in BOOLEAN, Restart(i, loaded) PROVE TypeOK'
  BY <1>15 DEF Restart, TypeOK
<1>. QED
  BY <1>1, <1>2, <1>3, <1>4, <1>5, <1>6, <1>7, <1>8, <1>9, <1>10, <1>11, <1>12, <1>13, <1>14, <1>15
     DEF Next

-----------------------------------------------------------------------------
(* The backing invariant *)

\* Backed and RequestInv after the step, of values of either state.
BackedNext(entry) ==
    /\ entry.revision \in persisted'
    /\ \A w \in Watermarks : entry[w] <= reached'[w]

RequestNext(r) ==
    /\ r.at \in {"upsert", "remember", "create view", "reconcile"} => r.entry \in Entry
    /\ r.at = "upsert" => r.entry.synced = Never /\ r.entry.attempted = Never
    /\ r.at \in {"remember", "create view", "reconcile"} => BackedNext(r.entry)
    /\ r.at \in {"delete", "forget"} => r.entry = None
    /\ r.at = "drop view" /\ r.entry # None => BackedNext(r.entry)
    /\ r.at = "advance" => BackedNext(r.existing)

LEMMA BackedInit == Init => BackedInv
  BY IdleStep DEF Init, BackedInv, RequestInv

\* The history only grows.
LEMMA HistoryGrows ==
  ASSUME Inv, [Next]_vars
  PROVE  persisted \subseteq persisted' /\ \A w \in Watermarks : reached'[w] >= reached[w]
<1>1. \A w \in Watermarks : reached[w] \in Int
  BY PiiRegistryAssumption DEF Inv, TypeOK, Never
<1>2. CASE UNCHANGED <<persisted, reached>>
  BY <1>1, <1>2
<1>3. ASSUME NEW t \in Threads, thread[t].at = "upsert", WriteUpsert(t), UNCHANGED reached
      PROVE  persisted \subseteq persisted' /\ \A w \in Watermarks : reached'[w] >= reached[w]
  BY <1>1, <1>3 DEF WriteUpsert
<1>4. ASSUME NEW t \in Threads, thread[t].at = "advance", UNCHANGED persisted,
             WriteAdvance(t, Marked(store, thread[t].watermark, thread[t].candidate))
      PROVE  persisted \subseteq persisted' /\ \A w \in Watermarks : reached'[w] >= reached[w]
  BY <1>4, AdvanceTypes DEF Inv
<1>5. CASE UNCHANGED vars
  BY <1>2, <1>5 DEF vars
<1>6. ASSUME NEW t \in Threads, StoreUpsert(t) \/ Advance(t) \/ AnswerLost(t)
      PROVE  persisted \subseteq persisted' /\ \A w \in Watermarks : reached'[w] >= reached[w]
  BY <1>2, <1>3, <1>4, <1>6 DEF StoreUpsert, Advance, AnswerLost
<1>7. ASSUME NEW t \in Threads,
             \/ MemoryUpsert(t) \/ StoreDelete(t) \/ MemoryDelete(t) \/ DropView(t)
             \/ CreateView(t) \/ Reconcile(t) \/ Abort(t) \/ ViewFails(t)
      PROVE  UNCHANGED <<persisted, reached>>
  BY <1>7 DEF MemoryUpsert, StoreDelete, MemoryDelete, DropView, CreateView, Reconcile, Abort, ViewFails
<1>8. ASSUME NEW t \in Threads, NEW i \in Instances,
             \/ Remove(t, i)
             \/ \E column, shadow \in BOOLEAN : Declare(t, i, column, shadow)
             \/ \E watermark \in Watermarks, candidate \in Time : Mark(t, i, watermark, candidate)
      PROVE  UNCHANGED <<persisted, reached>>
  BY <1>8 DEF Remove, Declare, Mark
<1>9. ASSUME NEW i \in Instances, NEW loaded \in BOOLEAN, Restart(i, loaded)
      PROVE  UNCHANGED <<persisted, reached>>
  BY <1>9 DEF Restart
<1>. QED
  BY <1>2, <1>5, <1>6, <1>7, <1>8, <1>9 DEF Next

\* What is backed stays backed.
LEMMA StillBacked ==
  ASSUME Inv, TypeOK', [Next]_vars, NEW e \in Entry, Backed(e)
  PROVE  BackedNext(e)
<1>1. e.revision \in persisted'
  BY HistoryGrows DEF Backed
<1>2. ASSUME NEW w \in Watermarks PROVE e[w] <= reached'[w]
  <2>1. reached[w] \in Int /\ reached'[w] \in Int /\ e[w] \in Int
    BY PiiRegistryAssumption, WatermarkType DEF Inv, TypeOK, Never
  <2>2. e[w] <= reached[w] /\ reached'[w] >= reached[w]
    BY HistoryGrows DEF Backed
  <2>. QED
    BY <2>1, <2>2
<1>. QED
  BY <1>1, <1>2 DEF BackedNext

\* A request that does not move keeps what it carries backed.
LEMMA RequestStays ==
  ASSUME Inv, TypeOK', [Next]_vars, NEW t \in Threads
  PROVE  RequestNext(thread[t])
<1>1. RequestInv(thread[t]) /\ TypeOK
  BY DEF Inv, BackedInv
<1>2. thread[t].at = "drop view" => thread[t].entry \in Entry \cup {None}
  BY <1>1, RequestType DEF Writing
<1>3. thread[t].at = "advance" => thread[t].existing \in Entry
  BY <1>1, RequestType DEF Marking
<1>. QED
  BY <1>1, <1>2, <1>3, StillBacked DEF RequestInv, RequestNext

\* The four parts of the invariant in the next state.
LEMMA BackedInvNext ==
  ASSUME store' # None => BackedNext(store'),
         \A i \in Instances : memory'[i] # None => BackedNext(memory'[i]),
         view' # None => view' \in persisted',
         \A t \in Threads : RequestNext(thread'[t])
  PROVE  BackedInv'
<1>1. \A t \in Threads : RequestInv(thread[t])'
  BY DEF RequestInv, RequestNext, Backed, BackedNext
<1>. QED
  BY <1>1 DEF BackedInv, Backed, BackedNext

\* The request's entry is backed once the store has it.
LEMMA UpsertBacks ==
  ASSUME Inv, TypeOK', [Next]_vars, NEW t \in Threads, thread[t].at = "upsert", WriteUpsert(t)
  PROVE  BackedNext(store') /\ BackedNext(thread[t].entry)
<1> DEFINE e == thread[t].entry
<1>1. RequestInv(thread[t]) /\ TypeOK
  BY DEF Inv, BackedInv
<1>2. /\ e \in Entry /\ e.synced = Never /\ e.attempted = Never
      /\ e.revision \in persisted'
  BY <1>1, UpsertTypes DEF RequestInv
<1>3. \A w \in Watermarks : reached'[w] \in Never..MaxTime
  BY DEF TypeOK
<1>4. \A w \in Watermarks : e[w] = Never
  BY <1>2, PiiRegistryAssumption
<1>5. BackedNext(e)
  BY <1>2, <1>3, <1>4, PiiRegistryAssumption DEF BackedNext, Never
<1>6. store' = Merged(store, e)
  BY DEF WriteUpsert
<1>7. CASE store = None
  BY <1>2, <1>5, <1>6, <1>7, MergedType
<1>8. CASE store # None
  <2>1. store \in Entry /\ BackedNext(store)
    BY <1>1, <1>8, StillBacked DEF Inv, BackedInv, TypeOK
  <2>2. /\ store'.revision = e.revision
        /\ store'.attempted = store.attempted
        /\ store'.synced = IF e.column THEN store.synced ELSE Never
    BY <1>2, <1>6, <1>8, <2>1, MergedType
  <2>3. ASSUME NEW w \in Watermarks PROVE store'[w] <= reached'[w]
    <3>1. reached'[w] >= Never /\ reached'[w] \in Int
      BY <1>3, PiiRegistryAssumption DEF Never
    <3>2. store[w] <= reached'[w]
      BY <2>1 DEF BackedNext
    <3>3. w \in {"synced", "attempted"}
      BY PiiRegistryAssumption
    <3>4. CASE w = "synced"
      BY <2>2, <3>1, <3>2, <3>4 DEF Never
    <3>5. CASE w = "attempted"
      BY <2>2, <3>2, <3>5
    <3>. QED
      BY <3>3, <3>4, <3>5
  <2>. QED
    BY <1>2, <1>5, <2>2, <2>3 DEF BackedNext
<1>. QED
  BY <1>5, <1>7, <1>8

\* The marked document, and the entry the request will put in memory, are
\* backed once the transaction committed.
LEMMA AdvanceBacks ==
  ASSUME Inv, TypeOK', [Next]_vars, NEW t \in Threads, thread[t].at = "advance",
         WriteAdvance(t, Marked(store, thread[t].watermark, thread[t].candidate))
  PROVE  /\ BackedNext(store')
         /\ LET w == thread[t].watermark
            IN  /\ [thread[t].existing EXCEPT ![w] = store'[w]] \in Entry
                /\ BackedNext([thread[t].existing EXCEPT ![w] = store'[w]])
<1> DEFINE w == thread[t].watermark
           c == thread[t].candidate
           e == thread[t].existing
<1>1. RequestInv(thread[t]) /\ TypeOK
  BY DEF Inv, BackedInv
<1>2. /\ thread[t] \in Marking /\ store \in Entry
      /\ store' = Marked(store, w, c) /\ store' \in Entry
      /\ reached'[w] >= store'[w]
  BY <1>1, AdvanceTypes
<1>3. w \in Watermarks /\ c \in Time /\ e \in Entry
  BY <1>2 DEF Marking
<1>4. store # None /\ BackedNext(store)
  BY <1>2, NoneIsNoEntry, StillBacked DEF Inv, BackedInv
<1>5. /\ store'.revision = store.revision
      /\ \A v \in Watermarks \ {w} : store'[v] = store[v]
      /\ store'[w] \in Never..MaxTime
  BY <1>2, <1>3, MarkedType
<1>6. \A v \in Watermarks : reached'[v] \in Int /\ store'[w] \in Int
  BY <1>5, PiiRegistryAssumption DEF TypeOK, Never
<1>7. ASSUME NEW v \in Watermarks PROVE store'[v] <= reached'[v]
  BY <1>2, <1>3, <1>4, <1>5, <1>6 DEF BackedNext
<1>8. BackedNext(e)
  BY <1>1, <1>3, StillBacked DEF RequestInv
<1>9. /\ [e EXCEPT ![w] = store'[w]] \in Entry
      /\ [e EXCEPT ![w] = store'[w]].revision = e.revision
      /\ \A v \in Watermarks : [e EXCEPT ![w] = store'[w]][v] = IF v = w THEN store'[w] ELSE e[v]
  BY <1>3, <1>5, SetWatermark
<1>10. ASSUME NEW v \in Watermarks PROVE [e EXCEPT ![w] = store'[w]][v] <= reached'[v]
  BY <1>2, <1>3, <1>6, <1>8, <1>9 DEF BackedNext
<1>. QED
  BY <1>4, <1>5, <1>7, <1>8, <1>9, <1>10 DEF BackedNext

\* Every step keeps what is served backed: the parts a step does not touch
\* stay as they are, and an entry enters the memory only from a request
\* whose store write is done.
LEMMA BackedStep ==
  ASSUME Inv, TypeOK', [Next]_vars
  PROVE  BackedInv'
<1> DEFINE Store(s) == s # None => BackedNext(s)
           Served(m) == \A i \in Instances : m[i] # None => BackedNext(m[i])
           View(v) == v # None => v \in persisted'
<1>1. Store(store) /\ Served(memory) /\ View(view) /\ TypeOK
  BY StillBacked, HistoryGrows DEF Inv, BackedInv, TypeOK
<1>2. \A t \in Threads : RequestNext(thread[t])
  BY RequestStays
<1>3. RequestNext(Idle)
  BY IdleStep DEF RequestNext
<1>4. SUFFICES /\ Store(store') /\ Served(memory') /\ View(view')
               /\ \A t \in Threads : RequestNext(thread'[t])
  BY BackedInvNext
<1>5. ASSUME NEW t \in Threads, Finish(t) PROVE \A u \in Threads : RequestNext(thread'[u])
  BY <1>1, <1>2, <1>3, <1>5, FinishMoves
<1>6. ASSUME NEW t \in Threads, thread[t] \in Writing,
             NEW step \in {"remember", "forget", "drop view", "create view"}, Goto(t, step),
             thread[t].entry = None \/ BackedNext(thread[t].entry),
             step = "forget" => thread[t].entry = None,
             step \in {"remember", "create view"} => thread[t].entry \in Entry
      PROVE  \A u \in Threads : RequestNext(thread'[u])
  <2>1. /\ thread'[t].at = step /\ thread'[t].entry = thread[t].entry
        /\ \A u \in Threads \ {t} : thread'[u] = thread[u]
    BY <1>1, <1>6, GotoMoves
  <2>2. RequestNext(thread'[t])
    BY <1>6, <2>1, NoneIsNoEntry DEF RequestNext
  <2>. QED
    BY <1>2, <2>1, <2>2
<1>7. CASE UNCHANGED vars
  BY <1>1, <1>2, <1>7 DEF vars
<1> DEFINE Goal == /\ Store(store') /\ Served(memory') /\ View(view')
                   /\ \A t \in Threads : RequestNext(thread'[t])
<1>8. ASSUME NEW t \in Threads, StoreUpsert(t) PROVE Goal
  <2>1. thread[t] \in Writing /\ thread[t].entry \in Entry
    BY <1>1, <1>8, UpsertTypes DEF StoreUpsert, Inv, BackedInv
  <2>2. BackedNext(store') /\ BackedNext(thread[t].entry)
    BY <1>8, UpsertBacks DEF StoreUpsert
  <2>3. \A u \in Threads : RequestNext(thread'[u])
    BY <1>6, <1>8, <2>1, <2>2 DEF StoreUpsert
  <2>. QED
    BY <1>1, <1>8, <2>2, <2>3 DEF StoreUpsert
<1>9. ASSUME NEW t \in Threads, MemoryUpsert(t) PROVE Goal
  <2>1. thread[t] \in Writing /\ thread[t].entry \in Entry /\ BackedNext(thread[t].entry)
    BY <1>1, <1>2, <1>9, RequestType DEF MemoryUpsert, RequestNext
  <2>2. \A u \in Threads : RequestNext(thread'[u])
    BY <1>6, <1>9, <2>1 DEF MemoryUpsert
  <2>3. Served(memory')
    BY <1>1, <1>9, <2>1 DEF MemoryUpsert, TypeOK
  <2>. QED
    BY <1>1, <1>9, <2>2, <2>3 DEF MemoryUpsert
<1>10. ASSUME NEW t \in Threads, StoreDelete(t) PROVE Goal
  <2>1. thread[t] \in Writing /\ thread[t].entry = None
    BY <1>1, <1>10, RequestType DEF StoreDelete, Inv, BackedInv, RequestInv
  <2>2. \A u \in Threads : RequestNext(thread'[u])
    BY <1>6, <1>10, <2>1 DEF StoreDelete
  <2>. QED
    BY <1>1, <1>10, <2>2 DEF StoreDelete
<1>11. ASSUME NEW t \in Threads, MemoryDelete(t) PROVE Goal
  <2>1. thread[t] \in Writing /\ thread[t].entry = None
    BY <1>1, <1>11, RequestType DEF MemoryDelete, Inv, BackedInv, RequestInv
  <2>2. \A u \in Threads : RequestNext(thread'[u])
    BY <1>6, <1>11, <2>1 DEF MemoryDelete
  <2>3. Served(memory')
    BY <1>1, <1>11 DEF MemoryDelete, TypeOK
  <2>. QED
    BY <1>1, <1>11, <2>2, <2>3 DEF MemoryDelete
<1>12. ASSUME NEW t \in Threads, DropView(t) PROVE Goal
  <2>1. thread[t] \in Writing /\ thread[t].entry \in Entry \cup {None}
    BY <1>1, <1>12, RequestType DEF DropView, Writing
  <2>2. \A u \in Threads : RequestNext(thread'[u])
    <3>1. CASE thread[t].entry # None /\ thread[t].entry.shadow
      <4>1. BackedNext(thread[t].entry) /\ thread[t].entry \in Entry
        BY <1>2, <1>12, <2>1, <3>1 DEF DropView, RequestNext
      <4>. QED
        BY <1>6, <1>12, <2>1, <3>1, <4>1 DEF DropView
    <3>2. CASE ~(thread[t].entry # None /\ thread[t].entry.shadow)
      BY <1>5, <1>12, <3>2 DEF DropView
    <3>. QED
      BY <3>1, <3>2
  <2>. QED
    BY <1>1, <1>12, <2>2 DEF DropView
<1>13. ASSUME NEW t \in Threads, CreateView(t) PROVE Goal
  <2>1. thread[t].entry.revision \in persisted'
    BY <1>2, <1>13 DEF CreateView, RequestNext, BackedNext
  <2>2. \A u \in Threads : RequestNext(thread'[u])
    BY <1>5, <1>13 DEF CreateView
  <2>. QED
    BY <1>1, <1>13, <2>1, <2>2 DEF CreateView
<1>14. ASSUME NEW t \in Threads, Advance(t) PROVE Goal
  <2> DEFINE w == thread[t].watermark
             next == [at |-> "reconcile", instance |-> thread[t].instance,
                      entry |-> [thread[t].existing EXCEPT ![w] = store'[w]]]
  <2>1. /\ BackedNext(store')
        /\ next.entry \in Entry
        /\ BackedNext(next.entry)
    BY <1>14, AdvanceBacks DEF Advance
  <2>2. store' = Marked(store, w, thread[t].candidate)
    BY <1>14 DEF Advance, WriteAdvance
  <2>3. thread' = [thread EXCEPT ![t] = next]
    BY <1>14, <2>2 DEF Advance
  <2>4. RequestNext(next)
    BY <2>1 DEF RequestNext
  <2>5. \A u \in Threads : RequestNext(thread'[u])
    BY <1>1, <1>2, <2>3, <2>4 DEF TypeOK
  <2>. QED
    BY <1>1, <1>14, <2>1, <2>5 DEF Advance
<1>15. ASSUME NEW t \in Threads, Reconcile(t) PROVE Goal
  <2>1. BackedNext(thread[t].entry)
    BY <1>2, <1>15 DEF Reconcile, RequestNext
  <2>2. \A u \in Threads : RequestNext(thread'[u])
    BY <1>5, <1>15 DEF Reconcile
  <2>3. Served(memory')
    BY <1>1, <1>15, <2>1 DEF Reconcile, TypeOK
  <2>. QED
    BY <1>1, <1>15, <2>2, <2>3 DEF Reconcile
<1>16. ASSUME NEW t \in Threads, Abort(t) \/ ViewFails(t) PROVE Goal
  BY <1>1, <1>5, <1>16 DEF Abort, ViewFails
<1>17. ASSUME NEW t \in Threads, AnswerLost(t) PROVE Goal
  <2>1. Store(store')
    BY <1>17, UpsertBacks, AdvanceBacks DEF AnswerLost
  <2>2. \A u \in Threads : RequestNext(thread'[u])
    BY <1>5, <1>17 DEF AnswerLost
  <2>. QED
    BY <1>1, <1>17, <2>1, <2>2 DEF AnswerLost
<1>18. ASSUME NEW t \in Threads, NEW i \in Instances, Remove(t, i) PROVE Goal
  <2>1. RequestNext([at |-> "delete", instance |-> i, entry |-> None])
    BY DEF RequestNext
  <2>2. \A u \in Threads : RequestNext(thread'[u])
    BY <1>1, <1>2, <1>18, <2>1 DEF Remove, TypeOK
  <2>. QED
    BY <1>1, <1>18, <2>2 DEF Remove
<1>19. ASSUME NEW t \in Threads, NEW i \in Instances,
              NEW column \in BOOLEAN, NEW shadow \in BOOLEAN, Declare(t, i, column, shadow)
       PROVE  Goal
  <2> DEFINE e == ManualEntry(revision', column, shadow)
  <2>1. revision' \in 1..MaxRevision
    BY <1>1, <1>19, PiiRegistryAssumption DEF Declare, TypeOK
  <2>2. e \in Entry /\ e.synced = Never /\ e.attempted = Never
    BY <2>1, PiiRegistryAssumption DEF ManualEntry, Entry, Never
  <2>3. RequestNext([at |-> "upsert", instance |-> i, entry |-> e])
    BY <2>2 DEF RequestNext
  <2>4. \A u \in Threads : RequestNext(thread'[u])
    BY <1>1, <1>2, <1>19, <2>3 DEF Declare, TypeOK
  <2>. QED
    BY <1>1, <1>19, <2>4 DEF Declare
<1>20. ASSUME NEW t \in Threads, NEW i \in Instances,
              NEW watermark \in Watermarks, NEW candidate \in Time, Mark(t, i, watermark, candidate)
       PROVE  Goal
  <2>1. BackedNext(memory[i])
    BY <1>1, <1>20 DEF Mark
  <2>2. RequestNext([at |-> "advance", instance |-> i, existing |-> memory[i],
                     watermark |-> watermark, candidate |-> candidate])
    BY <2>1 DEF RequestNext
  <2>3. \A u \in Threads : RequestNext(thread'[u])
    BY <1>1, <1>2, <1>20, <2>2 DEF Mark, TypeOK
  <2>. QED
    BY <1>1, <1>20, <2>3 DEF Mark
<1>21. ASSUME NEW i \in Instances, NEW loaded \in BOOLEAN, Restart(i, loaded) PROVE Goal
  <2>1. \A u \in Threads : RequestNext(thread'[u])
    BY <1>2, <1>3, <1>21 DEF Restart
  <2>2. Served(memory')
    BY <1>1, <1>21 DEF Restart, TypeOK
  <2>. QED
    BY <1>1, <1>21, <2>1, <2>2 DEF Restart
<1>. QED
  BY <1>7, <1>8, <1>9, <1>10, <1>11, <1>12, <1>13, <1>14, <1>15, <1>16, <1>17, <1>18, <1>19, <1>20, <1>21
     DEF Next

-----------------------------------------------------------------------------
(* The theorems *)

\* The inductive invariant holds of every behaviour.
LEMMA InvHolds == Spec => []Inv
<1>1. Init => Inv
  BY TypeInit, BackedInit DEF Inv
<1>2. Inv /\ [Next]_vars => Inv'
  <2> SUFFICES ASSUME Inv, [Next]_vars PROVE Inv'
    OBVIOUS
  <2>1. TypeOK'
    BY TypeStep DEF Inv, BackedInv
  <2>. QED
    BY <2>1, BackedStep DEF Inv
<1>. QED
  BY <1>1, <1>2, PTL DEF Spec

\* No instance serves, and no shadow view shows, a declaration or a watermark
\* that did not reach the store first: upsertEntry and the marks write the
\* store before the memory and stop when that fails.
THEOREM HotPathNotAheadHolds == Spec => []HotPathNotAhead
<1>1. Inv => HotPathNotAhead
  BY DEF Inv, BackedInv, Backed, HotPathNotAhead
<1>. QED
  BY <1>1, InvHolds, PTL

\* The transactions of advanceSyncWatermark and advanceLastSyncAttempt, and
\* the merging upsert, never set a stored watermark back while the
\* declaration exists and keeps its updatedAtColumn.
THEOREM WatermarksAdvanceHolds == Spec => WatermarksAdvance
<1> DEFINE Kept == store # None /\ store' # None =>
                      /\ store'.attempted >= store.attempted
                      /\ store'.synced >= store.synced \/ ~store'.column
<1>1. Inv /\ [Next]_vars => [Kept]_vars
  <2> SUFFICES ASSUME Inv, [Next]_vars, store # None, store' # None PROVE Kept
    OBVIOUS
  <2>1. store \in Entry /\ TypeOK /\ \A t \in Threads : RequestInv(thread[t])
    BY DEF Inv, TypeOK, BackedInv
  <2>2. store.synced \in Int /\ store.attempted \in Int
    BY <2>1, PiiRegistryAssumption DEF Entry, Never
  <2>3. CASE UNCHANGED store
    BY <2>2, <2>3
  <2>4. ASSUME NEW t \in Threads, thread[t].at = "upsert", WriteUpsert(t) PROVE Kept
    <3>1. /\ thread[t].entry \in Entry
          /\ thread[t].entry.synced = Never /\ thread[t].entry.attempted = Never
      BY <2>1, <2>4 DEF RequestInv
    <3>2. /\ store'.attempted = store.attempted
          /\ store'.column = thread[t].entry.column
          /\ store'.synced = IF thread[t].entry.column THEN store.synced ELSE Never
      BY <2>1, <2>4, <3>1, MergedType DEF WriteUpsert
    <3>3. thread[t].entry.column \in BOOLEAN
      BY <3>1 DEF Entry
    <3>. QED
      BY <2>2, <3>2, <3>3
  <2>5. ASSUME NEW t \in Threads, thread[t].at = "advance",
               WriteAdvance(t, Marked(store, thread[t].watermark, thread[t].candidate))
        PROVE  Kept
    <3>1. thread[t] \in Marking
      BY <2>1, <2>5, RequestType
    <3>2. thread[t].watermark \in Watermarks /\ thread[t].candidate \in Time
      BY <3>1 DEF Marking
    <3>. QED
      BY <2>1, <2>5, <3>2, MarkedType DEF WriteAdvance
  <2>6. CASE UNCHANGED vars
    BY <2>3, <2>6 DEF vars
  <2>7. ASSUME NEW t \in Threads, StoreUpsert(t) \/ Advance(t) \/ AnswerLost(t) PROVE Kept
    BY <2>4, <2>5, <2>7 DEF StoreUpsert, Advance, AnswerLost
  <2>8. ASSUME NEW t \in Threads,
               \/ MemoryUpsert(t) \/ StoreDelete(t) \/ MemoryDelete(t) \/ DropView(t)
               \/ CreateView(t) \/ Reconcile(t) \/ Abort(t) \/ ViewFails(t)
        PROVE  Kept
    BY <2>3, <2>8
       DEF MemoryUpsert, StoreDelete, MemoryDelete, DropView, CreateView, Reconcile, Abort, ViewFails
  <2>9. ASSUME NEW t \in Threads, NEW i \in Instances,
               \/ Remove(t, i)
               \/ \E column, shadow \in BOOLEAN : Declare(t, i, column, shadow)
               \/ \E watermark \in Watermarks, candidate \in Time : Mark(t, i, watermark, candidate)
        PROVE  Kept
    BY <2>3, <2>9 DEF Remove, Declare, Mark
  <2>10. ASSUME NEW i \in Instances, NEW loaded \in BOOLEAN, Restart(i, loaded) PROVE Kept
    BY <2>3, <2>10 DEF Restart
  <2>. QED
    BY <2>6, <2>7, <2>8, <2>9, <2>10 DEF Next
<1>. QED
  BY <1>1, InvHolds, PTL DEF Spec, WatermarksAdvance

\* What upsertEntry and the marks merge and re-read stays an entry: every
\* request holds what its handler has at that point, and the store, the memory
\* of each instance and the view never hold anything else.
THEOREM PiiRegistryTypeCorrect == Spec => []TypeOK
<1>1. Inv => TypeOK
  BY DEF Inv
<1>. QED
  BY <1>1, InvHolds, PTL

=============================================================================
