---------------------- MODULE DeletionRequestsHistory ----------------------
(***************************************************************************)
(* DeletionRequests with two history variables and the fairness of the     *)
(* code's scheduling.  The histories tell what a property excuses, request *)
(* by request: the stalls a client is told of or a killed instance leaves  *)
(* behind, and the steps of one execution that disturb the cascade another *)
(* one runs.                                                               *)
(***************************************************************************)
EXTENDS DeletionRequests

VARIABLES
    excused,    \* history: the requests with an execution that was killed, or that
                \* rolled its claim back and answered its client with the failure
    disturbed   \* history: what has disturbed the cascades of each request

hvars == <<vars, excused, disturbed>>

\* restarted    CASCADE_IN_PROGRESS claimed over CASCADE_PENDING: no retry after a
\*              partial failure, but a client's advance past a running cascade
\* reported     a partial failure claimed over a running or completed cascade by an
\*              execution that is not its own: a client, or a plan that failed
\* rolled_back  a failed shred's rollback to SHRED_REQUESTED after the request had
\*              moved on from KEY_DESTROYED
\* completed    a completion that is no cascade's: a client's, or the shortcut's
\* unplanned    a cascade whose plan leaves out a site recorded as failed
\* unrecorded   an outcome whose record was lost
Marks == {"restarted", "reported", "rolled_back", "completed", "unplanned", "unrecorded"}

Disturbs(t, m) ==
    LET c == call[t]
        d == call'[t]
        r == c.req
    IN  \/ m = "restarted" /\ status[r] = CP /\ status'[r] = CIP
        \/ /\ m = "reported" /\ c.kind \notin {"cascade", "recovery"}
           /\ status[r] \in {CP, CIP, CC} /\ status'[r] = PF
        \/ m = "rolled_back" /\ status[r] \notin {Absent, SR, KD} /\ status'[r] = SR
        \/ m = "completed" /\ c.kind # "cascade" /\ c.pc # "complete" /\ d.pc = "complete"
        \/ /\ m = "unplanned" /\ c.pc = "replan" /\ d.pc = "wipe"
           /\ \E s \in Sites \ d.todo : wipes[r][s] = "FAILED" /\ d.outcome[s] = "NONE"
        \/ /\ m = "unrecorded" /\ c.pc = "record" /\ d.pc = "record"
           /\ \E s \in c.todo \ d.todo : wipes'[r][s] # c.outcome[s]

HInit ==
    /\ Init
    /\ excused = {}
    /\ disturbed = [r \in Requests |-> {}]

Notes(t) ==
    disturbed' = [disturbed EXCEPT ![call[t].req] = @ \cup {m \in Marks : Disturbs(t, m)}]

\* A rollback that is over: the failure is the cascade's to handle if a cascade
\* issued the certificate, and otherwise it is answered to the client.
Answers(t) == At(t, "rollback") /\ call[t].kind # "cascade"

Histories(t) ==
    /\ Notes(t)
    /\ excused' = IF Answers(t) THEN excused \cup {call[t].req} ELSE excused

Killed(t) ==
    /\ Crash(t)
    /\ Notes(t)
    /\ excused' = excused \cup {call[t].req}

Ordinary(t) ==
    /\ \/ Progress(t) \/ Start(t)
       \/ PlanFails(t) \/ ShredFails(t) \/ ReplanFails(t) \/ CertificateFails(t)
       \/ StorageFails(t)
    /\ Histories(t)

HNext ==
    \/ \E t \in Threads : Killed(t) \/ Ordinary(t)
    \/ Environment /\ UNCHANGED <<excused, disturbed>>

HSpec == HInit /\ [][HNext]_hvars

\* Every call of a client library settles in the end (a promise resolves or
\* rejects), so an execution that is not killed keeps taking steps.
Fairness ==
    \A t \in Threads : WF_hvars(Progress(t) /\ Histories(t))

FairSpec == HSpec /\ Fairness

-----------------------------------------------------------------------------
(* Properties *)

\* The histories have their types.
HistoryOK ==
    /\ excused \subseteq Requests
    /\ disturbed \in [Requests -> SUBSET Marks]

Unmoved(r) == disturbed[r] \cap {"restarted", "reported", "rolled_back"} = {}

\* Of a request whose status nothing but its cascades moved out of the cascade, at
\* most one execution wipes, records and decides: the claims of CASCADE_PENDING
\* and CASCADE_IN_PROGRESS admit one cascade until it has concluded, however plans,
\* replans, wipes and executions fail.  Redactions that a failed replan left behind
\* may still run beside it; they record and decide nothing.
OneCascadeRecords ==
    \A t1, t2 \in Threads :
        /\ call[t1].pc \in CascadePoints
        /\ call[t2].pc \in CascadePoints
        /\ call[t1].req = call[t2].req
        /\ Unmoved(call[t1].req)
        => t1 = t2

\* Completed by its own cascades only.
Undisturbed(r) == Unmoved(r) /\ "completed" \notin disturbed[r]

\* CERTIFICATE_ISSUED is terminal for a request that its own cascades completed:
\* no retry, recovery, second attempt at the certificate or rollback of one takes
\* it back once the certificate is recorded on it.
CertificateStaysIssued ==
    [][\A r \in Requests :
         /\ status[r] = CI
         /\ "certificate_issued_at" \in fields[r]
         /\ Undisturbed(r)'
         => status'[r] = CI]_hvars

\* No certificate over a failed wipe, for a request whose cascades planned every
\* site recorded as failed and whose outcomes were recorded: a failure is in the
\* document before the request can complete, and is gone from it only once a
\* later cascade wiped that very site.
FailedWipeNeverCertified ==
    \A i \in DOMAIN chain : disturbed[chain[i].req] = {} => chain[i].failed = {}

\* No silent stall: a request whose cascade was claimed, or which completed,
\* ends in a visible failure or with its certificate, a certificate that fails
\* in the cascade included.  The exceptions are an instance that was killed, and
\* a shred or a certificate that was rolled back and its client told so.
NoSilentStall ==
    \A r \in Requests :
        status[r] \in {CP, CIP, CC} ~> status[r] \in {PF, CI} \/ r \in excused

=============================================================================
