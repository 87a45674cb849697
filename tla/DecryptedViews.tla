--------------------------- MODULE DecryptedViews ---------------------------
(***************************************************************************)
(* Decrypted views: BigQuery views that decrypt pii_vault rows through the *)
(* vault when they are queried, composed with the keys they decrypt with.  *)
(*                                                                         *)
(* A view lives in two places no transaction spans: the BigQuery view with *)
(* its grant, and the declaration in Firestore that says why it exists.    *)
(* declareView writes the first and then the second, revokeView removes    *)
(* the first and then marks the second, and either may die in between.     *)
(***************************************************************************)
EXTENDS KeyRegistry, Sequences

CONSTANTS
    Views,          \* names of views of one tenant
    Fields,         \* what a view may be declared to expose
    Managers        \* declarations and revocations that may be in flight at once

ASSUME DecryptedViewsAssumption == Views # {} /\ Fields # {}

VARIABLES
    view,           \* the BigQuery view of each name
    record,         \* the DecryptedViewDeclaration of each name
    mcall,          \* the declarations and revocations in flight
    managed,        \* how many began so far
    disturbed       \* history: what has happened to a view since it was last
                    \* revoked undisturbed: calls that overlapped, or died midway

viewVars == <<view, record, mcall, managed, disturbed>>
allVars == <<vars, viewVars>>

-----------------------------------------------------------------------------
(* Executions *)

NoView == [live |-> FALSE, fields |-> CHOOSE f \in Fields : TRUE, granted |-> FALSE]
NoRecord == [status |-> "none", fields |-> CHOOSE f \in Fields : TRUE]

\* mutant: the declaration is marked revoked before the view is dropped
StepsMarkFirst == [declare |-> <<"available", "create", "grant", "lookup", "set">>,
                   revoke |-> <<"read", "mark", "drop">>]

\* What declareView and revokeView await, in order.
Steps == [declare |-> <<"available", "create", "grant", "lookup", "set">>,
          revoke |-> <<"read", "drop", "mark">>]

NoManager == [op |-> "none", at |-> 0, view |-> CHOOSE v \in Views : TRUE,
              fields |-> CHOOSE f \in Fields : TRUE, alone |-> TRUE]

Awaits(m, step) == mcall[m].op # "none" /\ Steps[mcall[m].op][mcall[m].at] = step
InFlight(v) == {m \in Managers : mcall[m].op # "none" /\ mcall[m].view = v}

Return(m) == mcall' = [mcall EXCEPT ![m] = NoManager]
Proceed(m) ==
    IF mcall[m].at = Len(Steps[mcall[m].op]) THEN Return(m)
    ELSE mcall' = [mcall EXCEPT ![m].at = @ + 1]

DVInit ==
    /\ Init
    /\ view = [v \in Views |-> NoView]
    /\ record = [v \in Views |-> NoRecord]
    /\ mcall = [m \in Managers |-> NoManager]
    /\ managed = 0
    /\ disturbed = [v \in Views |-> {}]

\* The bound MaxCalls is on the calls of keys and of views together.
Manage(m, op, v, f) ==
    /\ calls + managed < MaxCalls
    /\ mcall[m].op = "none"
    /\ managed' = managed + 1
    /\ mcall' = [x \in Managers |->
                   IF x = m THEN [op |-> op, at |-> 1, view |-> v, fields |-> f,
                                  alone |-> InFlight(v) = {}]
                   ELSE [mcall[x] EXCEPT !.alone = @ /\ x \notin InFlight(v)]]
    /\ disturbed' = IF InFlight(v) = {} THEN disturbed
                    ELSE [disturbed EXCEPT ![v] = @ \cup {"overlap"}]
    /\ UNCHANGED <<view, record>>

\* Past the validation of the name, the justification and the list of fields.
PostDecryptedViews(m, v, f) == Manage(m, "declare", v, f)
DeleteDecryptedViews(m, v) == Manage(m, "revoke", v, CHOOSE f \in Fields : TRUE)

-----------------------------------------------------------------------------
(* declareView *)

\* A declared field must have synced rows, which hold ciphertexts.
GetAvailableFields(m) ==
    /\ Awaits(m, "available")
    /\ Return(m) \/ (ciphertexts # {} /\ Proceed(m))
    /\ UNCHANGED <<view, record, managed, disturbed>>

\* mutant: CREATE OR REPLACE
CreatableAlways(v) == TRUE

\* createTable answers 409 when there is a view of that name.
Creatable(v) == ~view[v].live

CreateTable(m) ==
    LET v == mcall[m].view IN
    /\ Awaits(m, "create")
    /\ IF Creatable(v)
       THEN /\ view' = [view EXCEPT ![v] = [live |-> TRUE, fields |-> mcall[m].fields,
                                            granted |-> FALSE]]
            /\ Proceed(m)
       ELSE Return(m) /\ UNCHANGED view
    /\ UNCHANGED <<record, managed, disturbed>>

\* getIamPolicy and setIamPolicy; both throw when the view is gone.
GrantViewerOnView(m) ==
    LET v == mcall[m].view IN
    /\ Awaits(m, "grant")
    /\ view[v].live
    /\ view' = [view EXCEPT ![v].granted = TRUE]
    /\ Proceed(m)
    /\ UNCHANGED <<record, managed, disturbed>>

\* repository.create refuses a name whose declaration is active: the view that
\* was just created stays.
CreateLookup(m) ==
    /\ Awaits(m, "lookup")
    /\ IF record[mcall[m].view].status = "active" THEN Return(m) ELSE Proceed(m)
    /\ UNCHANGED <<view, record, managed, disturbed>>

CreateSet(m) ==
    /\ Awaits(m, "set")
    /\ record' = [record EXCEPT ![mcall[m].view] = [status |-> "active", fields |-> mcall[m].fields]]
    /\ Proceed(m)
    /\ UNCHANGED <<view, managed, disturbed>>

-----------------------------------------------------------------------------
(* revokeView *)

\* Only an active declaration is revoked.
RevokeRead(m) ==
    /\ Awaits(m, "read")
    /\ IF record[mcall[m].view].status = "active" THEN Proceed(m) ELSE Return(m)
    /\ UNCHANGED <<view, record, managed, disturbed>>

\* The view is deleted; one that is gone already (404) is fine.
DropView(m) ==
    /\ Awaits(m, "drop")
    /\ view' = [view EXCEPT ![mcall[m].view] = NoView]
    /\ Proceed(m)
    /\ UNCHANGED <<record, managed, disturbed>>

\* repository.revoke marks the declaration whatever it says by now.
MarkRevoked(m) ==
    LET v == mcall[m].view IN
    /\ Awaits(m, "mark")
    /\ record' = [record EXCEPT ![v].status = "revoked"]
    /\ disturbed' = IF mcall[m].alone THEN [disturbed EXCEPT ![v] = {}] ELSE disturbed
    /\ Proceed(m)
    /\ UNCHANGED <<view, managed>>

\* A call of BigQuery or Firestore throws, or the instance dies: what was done
\* stays done.
Dies(m) ==
    LET c == mcall[m] IN
    /\ c.op # "none"
    /\ disturbed' = IF \E p \in {"grant", "lookup", "set", "mark"} : Awaits(m, p)
                    THEN [disturbed EXCEPT ![c.view] = @ \cup {c.op}] ELSE disturbed
    /\ Return(m)
    /\ UNCHANGED <<view, record, managed>>

-----------------------------------------------------------------------------
(* Queries *)

\* The key document is read at the ciphertext's version, the DEK unwrapped, the
\* value opened: the awaits of POST /decrypt.  A key that is gone or does not fit
\* yields null.
DecryptPiiVaultValue(t, ct) ==
    /\ calls + managed < MaxCalls
    /\ PostDecrypt(t, ct)
    /\ UNCHANGED viewVars

\* A consumer the view is granted to queries it: BigQuery calls batch-decrypt,
\* which decrypts all rows at once, each in an execution of its own.
BatchDecrypt(t, v, ct) ==
    /\ view[v].live /\ view[v].granted
    /\ DecryptPiiVaultValue(t, ct)

\* The console's Decrypt page, for one row it looks up in pii_vault.  The audit
\* event is best-effort and read by no other step.
PostPiiVaultDecrypt(t, ct) == DecryptPiiVaultValue(t, ct)

KeyStep == Next /\ calls' + managed <= MaxCalls /\ UNCHANGED viewVars

ViewStep ==
    \E m \in Managers :
        \/ \E v \in Views :
             \/ \E f \in Fields : PostDecryptedViews(m, v, f)
             \/ DeleteDecryptedViews(m, v)
        \/ GetAvailableFields(m) \/ CreateTable(m) \/ GrantViewerOnView(m)
        \/ CreateLookup(m) \/ CreateSet(m)
        \/ RevokeRead(m) \/ DropView(m) \/ MarkRevoked(m) \/ Dies(m)

DVNext ==
    \/ KeyStep
    \/ ViewStep /\ UNCHANGED vars
    \/ \E t \in Threads, ct \in ciphertexts :
         \/ \E v \in Views : BatchDecrypt(t, v, ct)
         \/ PostPiiVaultDecrypt(t, ct)

DVSpec == DVInit /\ [][DVNext]_allVars

-----------------------------------------------------------------------------
(* Properties *)

\* Nobody reads decrypted data through a view no declaration accounts for: a
\* live view has an active declaration, unless a declaration of it died midway
\* or calls for it overlapped.  A revocation that died midway never is the
\* reason, and one that succeeds alone makes up for all that came before.
NoUnrecordedView ==
    \A v \in Views :
        InFlight(v) = {} /\ disturbed[v] \subseteq {"revoke"} /\ view[v].live
            => record[v].status = "active"

\* The declaration tells what the view exposes: as long as no call dies midway
\* or overlaps another, a view is live exactly when its declaration is active,
\* with the fields declared there, and its consumer can query it.
RecordMatchesView ==
    \A v \in Views :
        InFlight(v) = {} /\ disturbed[v] = {} =>
            /\ view[v].live <=> record[v].status = "active"
            /\ view[v].live => view[v].fields = record[v].fields /\ view[v].granted

=============================================================================
