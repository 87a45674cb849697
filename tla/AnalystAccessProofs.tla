------------------------- MODULE AnalystAccessProofs -------------------------
(***************************************************************************)
(* Theorems about AnalystAccess for any tenants, names, executions and     *)
(* lifetimes, every choice of faults and every interleaving.               *)
(*                                                                         *)
(* Everything rests on one fact: a credential belongs to one document      *)
(* (KeysApart).  A claim in flight holds a key that no document but its    *)
(* own has, and its own only once the commit whose answer was lost put it  *)
(* there (Claiming).                                                       *)
(***************************************************************************)
EXTENDS AnalystAccess, TLAPS

Idles == [pc: {"idle"}]
Claims == [pc: {"claim"}, token: Secrets, key: Secrets, began: Nat]
Revocations ==
    [pc: {"revoke"}, docs: SUBSET Secrets, todo: SUBSET Secrets, failed: BOOLEAN]

Handout ==
    [key: Secrets, claim: 0..MaxSecrets, began: Nat, tenant: Tenants, name: Names,
     role: {"analyst", "auditor"}, kind: {"analyst", "service"}, lasts: Nat]

\* TypeOK, the executions and the history included; the clock starts at 1, so
\* that no session ends at None.
Shapes ==
    /\ TypeOK
    /\ now # None
    /\ call \in [Threads -> Idles \cup Claims \cup Revocations]
    /\ handed \subseteq Handout

\* A claim link is an analyst's, durable and never revoked; every other
\* document is known by the credential it holds.
DocumentKinds ==
    \A d \in Secrets : Exists(d) =>
        IF records[d].source = "claim_link"
        THEN records[d].kind = "analyst" /\ ~records[d].revoked /\ records[d].lasts = None
        ELSE records[d].claimed /\ records[d].credential = d

KeysApart ==
    \A d, e \in Secrets :
        /\ Exists(d) /\ Exists(e) /\ records[d].claimed
        /\ records[e].credential = records[d].credential
        => d = e

Claiming ==
    \A t \in Threads : At(t, "claim") =>
        LET c == call[t] IN
        /\ Exists(c.token) /\ records[c.token].source = "claim_link"
        /\ c.key <= secrets
        /\ c.began <= records[c.token].expires
        /\ \A d \in Secrets : Exists(d) /\ records[d].credential = c.key => d = c.token
        /\ \A x \in Threads : x # t /\ At(x, "claim") => call[x].key # c.key

\* What a revocation has not got to, it has revoked, or failed to.
Revoking ==
    \A t \in Threads : At(t, "revoke") =>
        /\ call[t].todo \subseteq call[t].docs
        /\ \A d \in call[t].docs :
             /\ Exists(d) /\ records[d].kind = "service"
             /\ d \in call[t].todo \/ records[d].revoked \/ call[t].failed

\* What a caller received is what a document says.
IssuedBy(h, d) ==
    /\ Exists(d) /\ records[d].claimed /\ records[d].credential = h.key
    /\ records[d].tenant = h.tenant /\ records[d].name = h.name
    /\ records[d].role = h.role /\ records[d].kind = h.kind /\ records[d].lasts = h.lasts
    /\ h.lasts # None => h.lasts = h.began + SessionTtl
    /\ h.claim # None => /\ d = h.claim /\ records[d].source = "claim_link"
                         /\ h.began <= records[d].expires

Issued == \A h \in handed : \E d \in Secrets : IssuedBy(h, d)
IssuedOnce == \A g, h \in handed : h.claim # None /\ g.claim = h.claim => g = h

Revoked ==
    \A d \in cutOff : Exists(d) /\ records[d].kind = "service" /\ records[d].revoked

Inv ==
    /\ Shapes
    /\ DocumentKinds /\ KeysApart /\ Claiming /\ Revoking
    /\ Issued /\ IssuedOnce /\ Revoked

-----------------------------------------------------------------------------
(* Documents and executions *)

\* A document that has fields exists.
LEMMA RecordIsThere == \A r \in Record : r # NoRecord
<1> SUFFICES ASSUME NEW r \in Record PROVE r # NoRecord
  OBVIOUS
<1>1. r.source # "none"
  BY DEF Record
<1>2. NoRecord.source = "none"
  BY DEF NoRecord
<1> QED BY <1>1, <1>2

LEMMA ExistsIs ==
    ASSUME Shapes, NEW d \in Secrets
    PROVE  Exists(d) <=> records[d] \in Record
  BY RecordIsThere DEF Shapes, TypeOK, Exists

\* An execution's point tells what it holds.
LEMMA CallIs ==
    ASSUME Shapes, NEW t \in Threads
    PROVE  /\ At(t, "idle") <=> call[t] \in Idles
           /\ At(t, "claim") <=> call[t] \in Claims
           /\ At(t, "revoke") <=> call[t] \in Revocations
<1>1. call[t] \in Idles \cup Claims \cup Revocations
  BY DEF Shapes
<1> QED
  BY <1>1 DEF At, Idles, Claims, Revocations

LEMMA BecomeIs ==
    ASSUME Shapes, NEW t \in Threads, NEW c \in Idles \cup Claims \cup Revocations, Become(t, c)
    PROVE  /\ call' \in [Threads -> Idles \cup Claims \cup Revocations]
           /\ call'[t] = c
           /\ \A x \in Threads : x # t => call'[x] = call[x]
  BY DEF Become, Shapes

LEMMA StopIs ==
    ASSUME Shapes, NEW t \in Threads, Stop(t)
    PROVE  /\ call' \in [Threads -> Idles \cup Claims \cup Revocations]
           /\ call'[t].pc = "idle"
           /\ \A x \in Threads : x # t => call'[x] = call[x]
<1>1. NoCall \in Idles \cup Claims \cup Revocations /\ NoCall.pc = "idle"
  BY DEF NoCall, Idles
<1> QED
  BY <1>1, BecomeIs DEF Stop

\* A credential is held by claimed documents alone, and was generated.
LEMMA HeldKey ==
    ASSUME Shapes, NEW d \in Secrets, Exists(d)
    PROVE  /\ records[d] \in Record
           /\ d <= secrets
           /\ records[d].claimed <=> records[d].credential # None
           /\ records[d].credential \in 0..secrets
<1>1. records[d] \in Record
  BY ExistsIs
<1>2. /\ d <= secrets /\ secrets \in 0..MaxSecrets
      /\ IF records[d].claimed THEN records[d].credential \in 1..secrets
         ELSE records[d].credential = None
  BY DEF Shapes, TypeOK
<1> QED
  BY <1>1, <1>2 DEF Record, None
-----------------------------------------------------------------------------
(* A new document *)

LEMMA NewDocument ==
    ASSUME Shapes, NEW rec \in Record, GenerateSecret,
           records' = [records EXCEPT ![NewSecret] = rec]
    PROVE  /\ NewSecret \in Secrets /\ secrets' = NewSecret /\ secrets' \in 0..MaxSecrets
           /\ ~Exists(NewSecret)
           /\ records'[NewSecret] # NoRecord /\ records'[NewSecret] = rec
           /\ \A d \in Secrets : d # NewSecret => records'[d] = records[d]
           /\ \A d \in Secrets : Exists(d) => d # NewSecret /\ d <= secrets
           /\ records' \in [Secrets -> Record \cup {NoRecord}]
<1>1. /\ secrets \in 0..MaxSecrets /\ records \in [Secrets -> Record \cup {NoRecord}]
      /\ \A d \in Secrets : Exists(d) => d <= secrets
  BY DEF Shapes, TypeOK
<1>2. /\ NewSecret \in Secrets /\ secrets' = NewSecret /\ secrets' \in 0..MaxSecrets
      /\ ~(NewSecret <= secrets)
  BY <1>1, AccessAssumption DEF GenerateSecret, NewSecret, Secrets
<1>3. rec # NoRecord
  BY RecordIsThere
<1> QED
  BY <1>1, <1>2, <1>3 DEF Exists

\* The two ways a document begins.
Begins(rec) ==
    IF rec.source = "claim_link"
    THEN /\ ~rec.claimed /\ rec.credential = None
         /\ rec.kind = "analyst" /\ ~rec.revoked /\ rec.lasts = None
    ELSE rec.claimed /\ rec.credential = NewSecret

\* Everything but the history of what was handed out.
Core ==
    /\ TypeOK /\ now # None
    /\ call \in [Threads -> Idles \cup Claims \cup Revocations]
    /\ DocumentKinds /\ KeysApart /\ Claiming /\ Revoking /\ Revoked

\* A new document disturbs none of the others: its credential, if it has one,
\* was never seen before.
LEMMA AddKeeps ==
    ASSUME Inv, NEW rec \in Record, Begins(rec), GenerateSecret,
           records' = [records EXCEPT ![NewSecret] = rec],
           UNCHANGED <<now, call, cutOff>>
    PROVE  /\ Core'
           /\ \A h, d : d \in Secrets /\ IssuedBy(h, d) => IssuedBy(h, d)'
<1> USE DEF Inv
<1>1. /\ NewSecret \in Secrets /\ secrets' = NewSecret /\ secrets' \in 0..MaxSecrets
      /\ ~Exists(NewSecret)
      /\ records'[NewSecret] # NoRecord /\ records'[NewSecret] = rec
      /\ \A d \in Secrets : d # NewSecret => records'[d] = records[d]
      /\ \A d \in Secrets : Exists(d) => d # NewSecret /\ d <= secrets
      /\ records' \in [Secrets -> Record \cup {NoRecord}]
  BY NewDocument
<1>2. \A d \in Secrets : Exists(d)' => d = NewSecret \/ Exists(d)
  BY <1>1 DEF Exists
<1>3. \A d \in Secrets : Exists(d) => Exists(d)' /\ records'[d] = records[d]
  BY <1>1 DEF Exists
<1>4. NewSecret = secrets + 1 /\ secrets \in 0..MaxSecrets
  BY DEF NewSecret, Shapes, TypeOK
<1>5. \A d \in Secrets : Exists(d) =>
        /\ records[d].claimed <=> records[d].credential # None
        /\ records[d].credential \in 0..secrets
  BY HeldKey
<1>6. TypeOK' /\ now' # None /\ call' \in [Threads -> Idles \cup Claims \cup Revocations]
  <2>1. \A d \in Secrets : Exists(d)' =>
          /\ d <= secrets'
          /\ IF records'[d].claimed THEN records'[d].credential \in 1..secrets'
             ELSE records'[d].credential = None
    <3> SUFFICES ASSUME NEW d \in Secrets, Exists(d)'
                 PROVE  /\ d <= secrets'
                        /\ IF records'[d].claimed THEN records'[d].credential \in 1..secrets'
                           ELSE records'[d].credential = None
      OBVIOUS
    <3>1. CASE d = NewSecret
      BY <1>1, <1>4, <3>1 DEF Begins, None
    <3>2. CASE d # NewSecret
      BY <1>1, <1>2, <1>4, <1>5, <3>2 DEF None, Secrets
    <3> QED BY <3>1, <3>2
  <2> QED BY <1>1, <2>1 DEF Shapes, TypeOK
<1>7. DocumentKinds'
  BY <1>1, <1>2, <1>3 DEF DocumentKinds, Begins
<1>8. KeysApart'
  <2> SUFFICES ASSUME NEW d \in Secrets, NEW e \in Secrets, Exists(d)', Exists(e)',
                      records'[d].claimed, records'[e].credential = records'[d].credential
               PROVE  d = e
    BY DEF KeysApart
  <2>1. records'[d].credential # None
    BY <1>1, <1>2, <1>4, <1>5 DEF Begins, None, Secrets
  <2>2. CASE d = NewSecret /\ e # NewSecret
    BY <1>1, <1>2, <1>4, <1>5, <2>1, <2>2 DEF Begins
  <2>3. CASE d # NewSecret /\ e = NewSecret
    BY <1>1, <1>2, <1>4, <1>5, <2>1, <2>3 DEF Begins
  <2>4. CASE d # NewSecret /\ e # NewSecret
    BY <1>1, <1>2, <2>4 DEF KeysApart
  <2> QED BY <2>2, <2>3, <2>4
<1>9. Claiming'
  <2> SUFFICES ASSUME NEW t \in Threads, At(t, "claim")
               PROVE  LET c == call[t] IN
                      /\ Exists(c.token)' /\ records'[c.token].source = "claim_link"
                      /\ c.key <= secrets'
                      /\ c.began <= records'[c.token].expires
                      /\ \A d \in Secrets : Exists(d)' /\ records'[d].credential = c.key => d = c.token
                      /\ \A x \in Threads : x # t /\ At(x, "claim") => call[x].key # c.key
    BY DEF Claiming, At
  <2>1. call[t].token \in Secrets /\ call[t].key \in Secrets
    BY CallIs DEF Claims
  <2>2. /\ Exists(call[t].token) /\ records[call[t].token].source = "claim_link"
        /\ call[t].key <= secrets
        /\ call[t].began <= records[call[t].token].expires
        /\ \A d \in Secrets : Exists(d) /\ records[d].credential = call[t].key => d = call[t].token
        /\ \A x \in Threads : x # t /\ At(x, "claim") => call[x].key # call[t].key
    BY DEF Claiming
  <2>3. call[t].key <= secrets' /\ call[t].key # NewSecret /\ call[t].key # None
    BY <1>1, <1>4, <2>1, <2>2 DEF Secrets, None
  <2>4. rec.credential # call[t].key
    BY <2>3 DEF Begins
  <2> QED BY <1>1, <1>2, <1>3, <2>1, <2>2, <2>3, <2>4
<1>10. Revoking'
  <2> SUFFICES ASSUME NEW t \in Threads, At(t, "revoke"), NEW d \in call[t].docs
               PROVE  /\ Exists(d)' /\ records'[d].kind = "service"
                      /\ d \in call[t].todo \/ records'[d].revoked \/ call[t].failed
    BY DEF Revoking, At
  <2>1. d \in Secrets
    BY CallIs DEF Revocations
  <2> QED BY <1>3, <2>1 DEF Revoking
<1>11. Revoked'
  <2>1. cutOff \subseteq Secrets
    BY DEF Shapes, TypeOK
  <2> QED BY <1>3, <2>1 DEF Revoked
<1>12. \A h, d : d \in Secrets /\ IssuedBy(h, d) => IssuedBy(h, d)'
  BY <1>3 DEF IssuedBy
<1> QED BY <1>6, <1>7, <1>8, <1>9, <1>10, <1>11, <1>12 DEF Core
\* The invariant is Core and the history.
LEMMA InvIs == Inv <=> Core /\ handed \subseteq Handout /\ Issued /\ IssuedOnce
  BY DEF Inv, Core, Shapes

LEMMA CreateClaimKeeps ==
    ASSUME Inv, NEW tenant \in Tenants, NEW name \in Names, NEW role \in {"analyst", "auditor"},
           CreateClaim(tenant, name, role)
    PROVE  Inv'
<1> DEFINE rec == ClaimRecord(tenant, name, role)
<1>1. now \in Nat
  BY DEF Inv, Shapes, TypeOK
<1>2. rec \in Record /\ Begins(rec)
  BY <1>1, AccessAssumption DEF ClaimRecord, Record, Begins, None
<1> HIDE DEF rec
<1>3. GenerateSecret /\ records' = [records EXCEPT ![NewSecret] = rec]
  BY DEF CreateClaim, rec
<1>4. UNCHANGED <<now, call, cutOff>> /\ handed' = handed
  BY DEF CreateClaim
<1>5. Core' /\ \A h, d : d \in Secrets /\ IssuedBy(h, d) => IssuedBy(h, d)'
  BY <1>2, <1>3, <1>4, AddKeeps
<1>6. handed' \subseteq Handout /\ Issued' /\ IssuedOnce'
  BY <1>4, <1>5, InvIs DEF Issued, IssuedOnce
<1> QED BY <1>5, <1>6 DEF Inv, Core, Shapes

\* A credential that is minted is handed out at once, with its document.
LEMMA MintKeeps ==
    ASSUME Inv, NEW tenant \in Tenants, NEW name \in Names, NEW kind \in {"analyst", "service"},
           NEW lasts \in Nat, lasts = None \/ lasts = now + SessionTtl,
           MintCredential(tenant, name, kind, lasts)
    PROVE  Inv'
<1> DEFINE rec == CredentialRecord(NewSecret, tenant, name, kind, lasts)
           h0 == Handed(NewSecret, None, now, rec)
<1>1. now \in Nat /\ now # None /\ secrets \in 0..MaxSecrets /\ secrets < MaxSecrets
  BY DEF Inv, Shapes, TypeOK, MintCredential, GenerateSecret
<1>2. NewSecret \in Secrets /\ NewSecret \in 0..MaxSecrets
  BY <1>1, AccessAssumption DEF NewSecret, Secrets
<1>3. rec \in Record /\ Begins(rec)
  BY <1>2, AccessAssumption DEF CredentialRecord, Record, Begins, None
<1>4. /\ h0 \in Handout /\ h0.claim = None /\ h0.key = NewSecret /\ h0.began = now
      /\ h0.tenant = rec.tenant /\ h0.name = rec.name /\ h0.role = rec.role
      /\ h0.kind = rec.kind /\ h0.lasts = rec.lasts /\ rec.lasts = lasts
      /\ rec.claimed /\ rec.credential = NewSecret
  BY <1>1, <1>2, AccessAssumption DEF Handed, Handout, CredentialRecord, None
<1> HIDE DEF h0, rec
<1>5. GenerateSecret /\ records' = [records EXCEPT ![NewSecret] = rec] /\ UNCHANGED <<now, call, cutOff>>
  BY DEF MintCredential, rec
<1>6. handed' = handed \cup {h0}
  BY DEF MintCredential, rec, h0
<1>7. Core' /\ \A h, d : d \in Secrets /\ IssuedBy(h, d) => IssuedBy(h, d)'
  BY <1>3, <1>5, AddKeeps
<1>8. records'[NewSecret] # NoRecord /\ records'[NewSecret] = rec
  BY <1>3, <1>5, NewDocument DEF Inv
<1>9. PICK h \in Handout, n \in Secrets : h = h0 /\ n = NewSecret
  BY <1>2, <1>4
<1>10. IssuedBy(h, n)'
  BY <1>4, <1>8, <1>9 DEF IssuedBy, Exists
<1>11. handed' \subseteq Handout /\ Issued'
  BY <1>4, <1>6, <1>7, <1>9, <1>10, InvIs DEF Issued
<1>12. IssuedOnce'
  BY <1>4, <1>6, InvIs DEF IssuedOnce
<1> QED BY <1>7, <1>11, <1>12 DEF Inv, Core, Shapes

-----------------------------------------------------------------------------
(* An execution ends, or a claim begins *)

\* An execution that ends leaves the invariant to what it did to cutOff.
LEMMA StopKeeps ==
    ASSUME Inv, NEW t \in Threads, Stop(t), UNCHANGED <<records, secrets, now, handed>>,
           cutOff' \subseteq Secrets,
           \A d \in cutOff' : Exists(d) /\ records[d].kind = "service" /\ records[d].revoked
    PROVE  Inv'
<1> USE DEF Inv
<1>1. /\ call' \in [Threads -> Idles \cup Claims \cup Revocations]
      /\ call'[t].pc = "idle"
      /\ \A x \in Threads : x # t => call'[x] = call[x]
  BY StopIs
<1>2. Shapes'
  BY <1>1 DEF Shapes, TypeOK, Exists
<1>3. DocumentKinds' /\ KeysApart' /\ Issued' /\ IssuedOnce' /\ Revoked'
  BY DEF DocumentKinds, KeysApart, Issued, IssuedOnce, IssuedBy, Revoked, Exists
<1>4. Claiming'
  BY <1>1 DEF Claiming, At, Exists
<1>5. Revoking'
  BY <1>1 DEF Revoking, At, Exists
<1> QED BY <1>2, <1>3, <1>4, <1>5

\* The key of a claim that begins is new.
LEMMA ClaimKeeps ==
    ASSUME Inv, NEW t \in Threads, NEW token \in Secrets, Claim(t, token)
    PROVE  Inv'
<1> USE DEF Inv
<1> DEFINE c == [pc |-> "claim", token |-> token, key |-> NewSecret, began |-> now]
<1>1. /\ secrets \in 0..MaxSecrets /\ secrets < MaxSecrets /\ now \in Nat
      /\ secrets' = secrets + 1 /\ NewSecret = secrets + 1
  BY DEF Shapes, TypeOK, Claim, GenerateSecret, NewSecret
<1>2. NewSecret \in Secrets /\ secrets' \in 0..MaxSecrets
  BY <1>1, AccessAssumption DEF Secrets
<1>3. /\ c \in Idles \cup Claims \cup Revocations
      /\ c.pc = "claim" /\ c.token = token /\ c.key = NewSecret /\ c.began = now
  BY <1>1, <1>2 DEF Claims
<1> HIDE DEF c
<1>4. Become(t, c) /\ UNCHANGED <<records, now, handed, cutOff>>
  BY DEF Claim, c
<1>5. /\ call' \in [Threads -> Idles \cup Claims \cup Revocations]
      /\ call'[t] = c
      /\ \A x \in Threads : x # t => call'[x] = call[x]
  BY <1>3, <1>4, BecomeIs
<1>6. \A d \in Secrets : Exists(d) =>
        /\ d <= secrets
        /\ records[d].claimed <=> records[d].credential # None
        /\ records[d].credential \in 0..secrets
  BY HeldKey
<1>7. Shapes'
  <2>1. \A d \in Secrets : Exists(d)' =>
          /\ d <= secrets'
          /\ IF records'[d].claimed THEN records'[d].credential \in 1..secrets'
             ELSE records'[d].credential = None
    BY <1>1, <1>4, <1>6 DEF Exists, None, Secrets
  <2> QED BY <1>2, <1>4, <1>5, <2>1 DEF Shapes, TypeOK
<1>8. DocumentKinds' /\ KeysApart' /\ Issued' /\ IssuedOnce' /\ Revoked'
  BY <1>4 DEF DocumentKinds, KeysApart, Issued, IssuedOnce, IssuedBy, Revoked, Exists
<1>9. Revoking'
  BY <1>3, <1>4, <1>5 DEF Revoking, At, Exists
<1>10. Claiming'
  <2>1. \A x \in Threads : At(x, "claim") => call[x].key \in Secrets /\ call[x].key <= secrets
    BY CallIs DEF Claiming, Claims
  <2>2. ASSUME NEW x \in Threads, call'[x].pc = "claim", x # t
        PROVE  /\ Exists(call[x].token) /\ records[call[x].token].source = "claim_link"
               /\ call[x].key <= secrets' /\ call[x].key # NewSecret
               /\ call[x].began <= records[call[x].token].expires
               /\ \A d \in Secrets : Exists(d) /\ records[d].credential = call[x].key => d = call[x].token
               /\ \A y \in Threads : y # x /\ At(y, "claim") => call[y].key # call[x].key
    BY <1>1, <1>5, <2>1, <2>2 DEF Claiming, At, Secrets
  <2>3. /\ Exists(token) /\ records[token].source = "claim_link"
        /\ now <= records[token].expires
    <3>1. records[token] \in Record
      BY HeldKey DEF Claim
    <3> QED BY <1>1, <3>1 DEF Claim, DocumentKinds, Record
  <2>4. \A d \in Secrets : Exists(d) => records[d].credential # NewSecret
    BY <1>1, <1>6
  <2>5. \A x \in Threads : x # t /\ At(x, "claim") => call[x].key # NewSecret
    BY <1>1, <2>1 DEF Secrets
  <2> QED BY <1>1, <1>3, <1>4, <1>5, <2>2, <2>3, <2>4, <2>5 DEF Claiming, At, Exists
<1> QED BY <1>7, <1>8, <1>9, <1>10
-----------------------------------------------------------------------------
(* The claim's transaction *)

\* The transaction writes a key that no other document has, onto a document
\* that had none, so nobody was handed one for it.
LEMMA IssueKeeps ==
    ASSUME Inv, NEW t \in Threads, NEW answered \in BOOLEAN, ClaimAndIssueCredential(t, answered)
    PROVE  Inv'
<1> USE DEF Inv
<1>1. call[t] \in Claims /\ At(t, "claim")
  BY CallIs DEF ClaimAndIssueCredential
<1>2. PICK token \in Secrets, key \in Secrets, began \in Nat :
        token = call[t].token /\ key = call[t].key /\ began = call[t].began
  BY <1>1 DEF Claims
<1>3. /\ Exists(token) /\ records[token].source = "claim_link"
      /\ key <= secrets /\ began <= records[token].expires
      /\ \A d \in Secrets : Exists(d) /\ records[d].credential = key => d = token
      /\ \A x \in Threads : x # t /\ At(x, "claim") => call[x].key # key
  BY <1>1, <1>2 DEF Claiming
<1>4. records[token] \in Record /\ ~records[token].claimed
  BY <1>2, <1>3, HeldKey DEF ClaimAndIssueCredential, StillUnclaimed
<1> DEFINE new == Claimed(records[token], key)
<1>5. /\ new \in Record /\ new.claimed /\ new.credential = key
      /\ new.source = records[token].source /\ new.tenant = records[token].tenant
      /\ new.name = records[token].name /\ new.role = records[token].role
      /\ new.kind = records[token].kind /\ new.expires = records[token].expires
      /\ new.lasts = records[token].lasts /\ new.revoked = records[token].revoked
  <2>1. key \in 0..MaxSecrets
    BY AccessAssumption DEF Secrets
  <2> QED BY <1>4, <2>1 DEF Claimed, Record
<1> HIDE DEF new
<1>6. records' = [records EXCEPT ![token] = new] /\ UNCHANGED <<secrets, now, cutOff>>
  BY <1>2 DEF ClaimAndIssueCredential, new
<1>7. /\ records' \in [Secrets -> Record \cup {NoRecord}]
      /\ records'[token] = new /\ records'[token] # NoRecord
      /\ \A d \in Secrets : d # token => records'[d] = records[d]
  BY <1>5, <1>6, RecordIsThere DEF Shapes, TypeOK
<1>8. \A d \in Secrets : Exists(d)' <=> Exists(d)
  BY <1>3, <1>7 DEF Exists
<1>9. /\ call' \in [Threads -> Idles \cup Claims \cup Revocations]
      /\ \A x \in Threads : call'[x].pc = "idle" \/ call'[x] = call[x]
  <2>1. CASE answered
    BY <2>1, StopIs DEF ClaimAndIssueCredential
  <2>2. CASE ~answered
    BY <2>2 DEF ClaimAndIssueCredential, Shapes
  <2> QED BY <2>1, <2>2
<1>10. TypeOK' /\ now' # None
  <2>1. secrets \in 0..MaxSecrets
    BY DEF Shapes, TypeOK
  <2>2. \A d \in Secrets : Exists(d)' =>
          /\ d <= secrets'
          /\ IF records'[d].claimed THEN records'[d].credential \in 1..secrets'
             ELSE records'[d].credential = None
    <3>1. key \in 1..secrets
      BY <1>3, <2>1 DEF Secrets
    <3>2. \A d \in Secrets : Exists(d) =>
            /\ d <= secrets
            /\ IF records[d].claimed THEN records[d].credential \in 1..secrets
               ELSE records[d].credential = None
      BY DEF Shapes, TypeOK
    <3> QED BY <1>3, <1>5, <1>6, <1>7, <1>8, <3>1, <3>2
  <2> QED BY <1>6, <1>7, <2>2 DEF Shapes, TypeOK
<1>11. DocumentKinds'
  BY <1>3, <1>5, <1>7, <1>8 DEF DocumentKinds
<1>12. KeysApart'
  <2> SUFFICES ASSUME NEW d \in Secrets, NEW e \in Secrets, Exists(d), Exists(e),
                      records'[d].claimed, records'[e].credential = records'[d].credential
               PROVE  d = e
    BY <1>8 DEF KeysApart
  <2>1. CASE d = token
    BY <1>3, <1>5, <1>7, <2>1
  <2>2. CASE d # token /\ e = token
    BY <1>3, <1>5, <1>7, <2>2
  <2>3. CASE d # token /\ e # token
    BY <1>7, <2>3 DEF KeysApart
  <2> QED BY <2>1, <2>2, <2>3
<1>13. Claiming'
  <2> SUFFICES ASSUME NEW x \in Threads, call'[x].pc = "claim"
               PROVE  LET c == call'[x] IN
                      /\ records'[c.token] # NoRecord /\ records'[c.token].source = "claim_link"
                      /\ c.key <= secrets'
                      /\ c.began <= records'[c.token].expires
                      /\ \A d \in Secrets : records'[d] # NoRecord /\ records'[d].credential = c.key
                                           => d = c.token
                      /\ \A y \in Threads : y # x /\ call'[y].pc = "claim" => call'[y].key # c.key
    BY DEF Claiming, At, Exists
  <2>1. call'[x] = call[x] /\ At(x, "claim")
    BY <1>9 DEF At
  <2>2. call[x] \in Claims
    BY <2>1, CallIs
  <2>3. PICK xt \in Secrets, xk \in Secrets : xt = call[x].token /\ xk = call[x].key
    BY <2>2 DEF Claims
  <2>4. /\ Exists(xt) /\ records[xt].source = "claim_link"
        /\ xk <= secrets
        /\ call[x].began <= records[xt].expires
        /\ \A d \in Secrets : Exists(d) /\ records[d].credential = xk => d = xt
        /\ \A y \in Threads : y # x /\ At(y, "claim") => call[y].key # xk
    BY <2>1, <2>3 DEF Claiming
  <2>5. records'[xt].source = records[xt].source /\ records'[xt].expires = records[xt].expires
    BY <1>5, <1>7, <2>3
  <2>6. x = t \/ xk # key
    BY <1>3, <2>1, <2>3
  <2>7. \A d \in Secrets : Exists(d) /\ records'[d].credential = xk => d = xt
    BY <1>2, <1>5, <1>7, <2>3, <2>4, <2>6
  <2>8. \A y \in Threads : y # x /\ call'[y].pc = "claim" => call'[y].key # xk
    BY <1>9, <2>4 DEF At
  <2> QED BY <1>6, <1>8, <2>1, <2>3, <2>4, <2>5, <2>7, <2>8 DEF Exists
<1>14. Revoking'
  <2> SUFFICES ASSUME NEW x \in Threads, call'[x].pc = "revoke"
               PROVE  /\ call'[x].todo \subseteq call'[x].docs
                      /\ \A d \in call'[x].docs :
                           /\ Exists(d)' /\ records'[d].kind = "service"
                           /\ d \in call'[x].todo \/ records'[d].revoked \/ call'[x].failed
    BY DEF Revoking, At
  <2>1. call'[x] = call[x] /\ At(x, "revoke") /\ call[x] \in Revocations
    BY <1>9, CallIs DEF At
  <2>2. call[x].docs \subseteq Secrets
    BY <2>1 DEF Revocations
  <2> QED BY <1>5, <1>7, <1>8, <2>1, <2>2 DEF Revoking
<1>15. Revoked'
  <2>1. cutOff \subseteq Secrets
    BY DEF Shapes, TypeOK
  <2> QED BY <1>5, <1>6, <1>7, <1>8, <2>1 DEF Revoked
<1>16. \A h, d : d \in Secrets /\ IssuedBy(h, d) => IssuedBy(h, d)' /\ d # token
  BY <1>4, <1>6, <1>7, <1>8 DEF IssuedBy
<1>17. handed' \subseteq Handout /\ Issued' /\ IssuedOnce'
  <2>1. CASE ~answered
    BY <1>16, <2>1 DEF ClaimAndIssueCredential, Shapes, Issued, IssuedOnce
  <2>2. CASE answered
    <3>1. PICK h0 : h0 = Handed(key, token, began, new)
      OBVIOUS
    <3>2. handed' = handed \cup {h0}
      BY <1>2, <1>7, <2>2, <3>1 DEF ClaimAndIssueCredential
    <3>3. /\ h0 \in Handout /\ h0.claim = token /\ h0.key = key /\ h0.began = began
          /\ h0.tenant = new.tenant /\ h0.name = new.name /\ h0.role = new.role
          /\ h0.kind = new.kind /\ h0.lasts = new.lasts
      <4>1. token \in 0..MaxSecrets
        BY AccessAssumption DEF Secrets
      <4> QED BY <1>5, <3>1, <4>1 DEF Handed, Handout, Record
    <3>4. new.lasts = None
      BY <1>3, <1>5 DEF DocumentKinds
    <3>5. IssuedBy(h0, token)'
      BY <1>3, <1>5, <1>7, <1>8, <3>3, <3>4 DEF IssuedBy
    <3>6. \A g \in handed : g.claim # token
      <4> SUFFICES ASSUME NEW g \in handed, g.claim = token PROVE FALSE
        OBVIOUS
      <4>1. PICK d \in Secrets : IssuedBy(g, d)
        BY DEF Issued
      <4>2. token # None
        BY DEF Secrets, None
      <4> QED BY <1>16, <4>1, <4>2 DEF IssuedBy
    <3>7. handed' \subseteq Handout /\ Issued'
      BY <1>16, <3>2, <3>3, <3>5 DEF Shapes, Issued
    <3> QED BY <3>2, <3>3, <3>6, <3>7 DEF IssuedOnce
  <2> QED BY <2>1, <2>2
<1> QED BY <1>9, <1>10, <1>11, <1>12, <1>13, <1>14, <1>15, <1>17 DEF Shapes
-----------------------------------------------------------------------------
(* Revocation *)

\* A revocation begins with all live service credentials of the name ahead.
LEMMA RevokeKeeps ==
    ASSUME Inv, NEW t \in Threads, NEW tenant \in Tenants, NEW name \in Names,
           RevokeServiceCredentialsFor(t, tenant, name)
    PROVE  Inv'
<1> USE DEF Inv
<1> DEFINE docs == ServiceCredentials(tenant, name)
           c == [pc |-> "revoke", docs |-> docs, todo |-> ToRevoke(docs), failed |-> FALSE]
<1>1. docs \subseteq Secrets /\ ToRevoke(docs) \subseteq docs
  BY DEF ServiceCredentials, ToRevoke
<1>2. \A d \in docs :
        /\ Exists(d) /\ records[d].kind = "service"
        /\ d \in ToRevoke(docs) \/ records[d].revoked
  BY DEF ServiceCredentials, ToRevoke
<1> HIDE DEF docs
<1>3. /\ c \in Idles \cup Claims \cup Revocations
      /\ c.pc = "revoke" /\ c.docs = docs /\ c.todo = ToRevoke(docs)
  BY <1>1 DEF Revocations
<1> HIDE DEF c
<1>4. Become(t, c) /\ UNCHANGED <<records, secrets, now, handed, cutOff>>
  BY DEF RevokeServiceCredentialsFor, c, docs
<1>5. /\ call' \in [Threads -> Idles \cup Claims \cup Revocations]
      /\ call'[t] = c
      /\ \A x \in Threads : x # t => call'[x] = call[x]
  BY <1>3, <1>4, BecomeIs
<1>6. Shapes'
  BY <1>4, <1>5 DEF Shapes, TypeOK, Exists
<1>7. DocumentKinds' /\ KeysApart' /\ Issued' /\ IssuedOnce' /\ Revoked'
  BY <1>4 DEF DocumentKinds, KeysApart, Issued, IssuedOnce, IssuedBy, Revoked, Exists
<1>8. Claiming'
  BY <1>3, <1>4, <1>5 DEF Claiming, At, Exists
<1>9. Revoking'
  <2>1. /\ c.todo \subseteq c.docs
        /\ \A d \in c.docs :
             /\ records'[d] # NoRecord /\ records'[d].kind = "service"
             /\ d \in c.todo \/ records'[d].revoked \/ c.failed
    <3>1. records' = records
      BY <1>4
    <3>2. c.docs = docs /\ \A d : d \in c.todo <=> d \in ToRevoke(docs)
      BY <1>3
    <3>3. c.todo \subseteq c.docs
      BY <1>1, <3>2
    <3> QED BY <1>2, <3>1, <3>2, <3>3 DEF Exists
  <2>2. ASSUME NEW x \in Threads, x # t, call'[x].pc = "revoke"
        PROVE  /\ call'[x].todo \subseteq call'[x].docs
               /\ \A d \in call'[x].docs :
                    /\ records'[d] # NoRecord /\ records'[d].kind = "service"
                    /\ d \in call'[x].todo \/ records'[d].revoked \/ call'[x].failed
    BY <1>4, <1>5, <2>2 DEF Revoking, At, Exists
  <2> QED BY <1>5, <2>1, <2>2 DEF Revoking, At, Exists
<1> QED BY <1>6, <1>7, <1>8, <1>9

\* One update of a revocation: a service credential is no claim link, so that
\* marking it revoked takes nothing from a person of the same name.
LEMMA RevokeUpdateKeeps ==
    ASSUME Inv, NEW t \in Threads, NEW d0 \in Secrets, NEW succeeds \in BOOLEAN,
           RevokeUpdate(t, d0, succeeds)
    PROVE  Inv'
<1> USE DEF Inv
<1>1. call[t] \in Revocations /\ At(t, "revoke") /\ d0 \in call[t].todo
  BY CallIs DEF RevokeUpdate
<1>2. /\ call[t].todo \subseteq call[t].docs /\ call[t].docs \subseteq Secrets
      /\ \A d \in call[t].docs :
           /\ Exists(d) /\ records[d].kind = "service"
           /\ d \in call[t].todo \/ records[d].revoked \/ call[t].failed
  BY <1>1 DEF Revoking, Revocations
<1>3. Exists(d0) /\ records[d0].kind = "service" /\ records[d0] \in Record
  BY <1>1, <1>2, HeldKey
<1>4. records[d0].source # "claim_link"
  BY <1>3 DEF DocumentKinds
<1> DEFINE c == [call[t] EXCEPT !.todo = @ \ {d0}, !.failed = @ \/ ~succeeds]
<1>5. /\ c \in Idles \cup Claims \cup Revocations
      /\ c.pc = "revoke" /\ c.docs = call[t].docs /\ c.todo = call[t].todo \ {d0}
      /\ c.failed <=> (call[t].failed \/ ~succeeds)
  BY <1>1 DEF Revocations
<1> HIDE DEF c
<1>6. Become(t, c) /\ UNCHANGED <<secrets, now, handed, cutOff>>
  BY DEF RevokeUpdate, c
<1>7. /\ call' \in [Threads -> Idles \cup Claims \cup Revocations]
      /\ call'[t] = c
      /\ \A x \in Threads : x # t => call'[x] = call[x]
  BY <1>5, <1>6, BecomeIs
<1> DEFINE new == [records[d0] EXCEPT !.revoked = TRUE]
<1>8. /\ new \in Record /\ new.revoked
      /\ new.source = records[d0].source /\ new.tenant = records[d0].tenant
      /\ new.name = records[d0].name /\ new.role = records[d0].role
      /\ new.kind = records[d0].kind /\ new.expires = records[d0].expires
      /\ new.lasts = records[d0].lasts /\ new.claimed = records[d0].claimed
      /\ new.credential = records[d0].credential
  BY <1>3 DEF Record
<1> HIDE DEF new
<1>9. /\ records' \in [Secrets -> Record \cup {NoRecord}]
      /\ records'[d0] = IF succeeds THEN new ELSE records[d0]
      /\ \A d \in Secrets : d # d0 => records'[d] = records[d]
  BY <1>8 DEF Shapes, TypeOK, RevokeUpdate, new
<1>10. \A d \in Secrets :
         /\ Exists(d)' <=> Exists(d)
         /\ Exists(d) =>
              /\ records'[d].source = records[d].source /\ records'[d].tenant = records[d].tenant
              /\ records'[d].name = records[d].name /\ records'[d].role = records[d].role
              /\ records'[d].kind = records[d].kind /\ records'[d].expires = records[d].expires
              /\ records'[d].lasts = records[d].lasts /\ records'[d].claimed = records[d].claimed
              /\ records'[d].credential = records[d].credential
         /\ records[d].revoked => records'[d].revoked
         /\ d # d0 => records'[d].revoked = records[d].revoked
  BY <1>3, <1>8, <1>9, RecordIsThere DEF Exists
<1>11. Shapes'
  <2>1. TypeOK'
    BY <1>6, <1>9, <1>10 DEF Shapes, TypeOK
  <2> QED BY <1>6, <1>7, <2>1 DEF Shapes
<1>12. DocumentKinds' /\ KeysApart'
  <2>1. DocumentKinds'
    BY <1>4, <1>10 DEF DocumentKinds
  <2>2. KeysApart'
    BY <1>10 DEF KeysApart
  <2> QED BY <2>1, <2>2
<1>13. Claiming'
  <2>1. \A x \in Threads : At(x, "claim") => call[x].token \in Secrets
    BY CallIs DEF Claims
  <2> QED BY <1>5, <1>6, <1>7, <1>10, <2>1 DEF Claiming, At, Exists
<1>14. Revoking'
  <2>1. ASSUME NEW x \in Threads, x # t, call'[x].pc = "revoke"
        PROVE  /\ call'[x].todo \subseteq call'[x].docs
               /\ \A d \in call'[x].docs :
                    /\ records'[d] # NoRecord /\ records'[d].kind = "service"
                    /\ d \in call'[x].todo \/ records'[d].revoked \/ call'[x].failed
    <3>1. call'[x] = call[x] /\ At(x, "revoke") /\ call[x].docs \subseteq Secrets
      BY <1>7, <2>1, CallIs DEF At, Revocations
    <3> QED BY <1>10, <3>1 DEF Revoking, Exists
  <2>2. /\ c.todo \subseteq c.docs
        /\ \A d \in c.docs :
             /\ records'[d] # NoRecord /\ records'[d].kind = "service"
             /\ d \in c.todo \/ records'[d].revoked \/ c.failed
    <3>1. \A d \in call[t].docs : records'[d] # NoRecord /\ records'[d].kind = "service"
      BY <1>2, <1>10 DEF Exists
    <3>2. succeeds => records'[d0].revoked
      BY <1>8, <1>9
    <3>3. ASSUME NEW d \in call[t].docs
          PROVE  d \in c.todo \/ records'[d].revoked \/ c.failed
      <4>1. CASE d = d0
        BY <1>5, <3>2, <4>1
      <4>2. CASE d # d0
        BY <1>2, <1>5, <1>10, <4>2
      <4> QED BY <4>1, <4>2
    <3> QED BY <1>2, <1>5, <3>1, <3>3
  <2> QED BY <1>7, <2>1, <2>2 DEF Revoking, At, Exists
<1>15. Revoked'
  <2>1. cutOff \subseteq Secrets
    BY DEF Shapes, TypeOK
  <2> QED BY <1>6, <1>10, <2>1 DEF Revoked
<1>16. Issued' /\ IssuedOnce'
  <2>1. \A h, d : d \in Secrets /\ IssuedBy(h, d) => IssuedBy(h, d)'
    BY <1>10 DEF IssuedBy
  <2> QED BY <1>6, <2>1 DEF Issued, IssuedOnce
<1> QED BY <1>11, <1>12, <1>13, <1>14, <1>15, <1>16

\* A revocation that answers with success has revoked all it found.
LEMMA RevokeAnswerKeeps ==
    ASSUME Inv, NEW t \in Threads, RevokeAnswer(t)
    PROVE  Inv'
<1>1. call[t] \in Revocations /\ At(t, "revoke")
  BY CallIs DEF Inv, RevokeAnswer
<1>2. call[t].docs \subseteq Secrets /\ cutOff \subseteq Secrets
  BY <1>1 DEF Revocations, Inv, Shapes, TypeOK
<1>3. \A d \in cutOff' : Exists(d) /\ records[d].kind = "service" /\ records[d].revoked
  BY <1>1 DEF Inv, Revoking, Revoked, RevokeAnswer
<1>4. cutOff' \subseteq Secrets
  BY <1>2 DEF RevokeAnswer
<1> QED BY <1>3, <1>4, StopKeeps DEF RevokeAnswer

-----------------------------------------------------------------------------
(* The invariant *)

LEMMA InvInit == Init => Inv
<1> SUFFICES ASSUME Init PROVE Inv
  OBVIOUS
<1>1. \A d \in Secrets : ~Exists(d)
  BY DEF Init, Exists
<1>2. \A t \in Threads : call[t].pc = "idle"
  BY DEF Init, NoCall
<1>3. Shapes
  <2>1. NoCall \in Idles
    BY DEF NoCall, Idles
  <2> QED BY <1>1, <2>1, AccessAssumption DEF Init, Shapes, TypeOK, None
<1>4. DocumentKinds /\ KeysApart
  BY <1>1 DEF DocumentKinds, KeysApart
<1>5. Claiming /\ Revoking
  BY <1>2 DEF Claiming, Revoking, At
<1>6. Issued /\ IssuedOnce /\ Revoked
  BY DEF Init, Issued, IssuedOnce, Revoked
<1> QED BY <1>3, <1>4, <1>5, <1>6 DEF Inv

\* Time alone disturbs nothing.
LEMMA TickKeeps == Inv /\ Tick => Inv'
<1> SUFFICES ASSUME Inv, Tick PROVE Inv'
  OBVIOUS
<1>1. Shapes'
  <2>1. now' \in Nat /\ now' # None
    BY DEF Inv, Shapes, TypeOK, Tick, None
  <2> QED BY <2>1 DEF Inv, Shapes, TypeOK, Tick, Exists
<1>2. DocumentKinds' /\ KeysApart' /\ Issued' /\ IssuedOnce' /\ Revoked'
  BY DEF Inv, Tick, DocumentKinds, KeysApart, Issued, IssuedOnce, IssuedBy, Revoked, Exists
<1>3. Claiming' /\ Revoking'
  BY DEF Inv, Tick, Claiming, Revoking, At, Exists
<1> QED BY <1>1, <1>2, <1>3 DEF Inv

LEMMA InvStep == Inv /\ [Next]_vars => Inv'
<1> SUFFICES ASSUME Inv, [Next]_vars PROVE Inv'
  OBVIOUS
<1>1. ASSUME NEW tenant \in Tenants, NEW name \in Names, NEW role \in {"analyst", "auditor"},
             CreateClaim(tenant, name, role)
      PROVE  Inv'
  BY <1>1, CreateClaimKeeps
<1>2. ASSUME NEW tenant \in Tenants, NEW name \in Names,
             MintSessionCredential(tenant, name) \/ MintServiceCredential(tenant, name)
      PROVE  Inv'
  <2>1. now \in Nat /\ now + SessionTtl \in Nat /\ None \in Nat
    BY AccessAssumption DEF Inv, Shapes, TypeOK, None
  <2> QED BY <1>2, <2>1, MintKeeps DEF MintSessionCredential, MintServiceCredential
<1>3. ASSUME NEW tenant \in Tenants, NEW name \in Names, NEW t \in Threads,
             RevokeServiceCredentialsFor(t, tenant, name)
      PROVE  Inv'
  BY <1>3, RevokeKeeps
<1>4. ASSUME NEW t \in Threads, NEW d \in Secrets, Claim(t, d)
      PROVE  Inv'
  BY <1>4, ClaimKeeps
<1>5. ASSUME NEW t \in Threads, NEW answered \in BOOLEAN, ClaimAndIssueCredential(t, answered)
      PROVE  Inv'
  BY <1>5, IssueKeeps
<1>6. ASSUME NEW t \in Threads, ClaimLost(t) \/ Crash(t)
      PROVE  Inv'
  <2>1. /\ cutOff' = cutOff /\ cutOff \subseteq Secrets
        /\ \A d \in cutOff : Exists(d) /\ records[d].kind = "service" /\ records[d].revoked
    BY <1>6 DEF ClaimLost, Crash, Inv, Shapes, TypeOK, Revoked
  <2> QED BY <1>6, <2>1, StopKeeps DEF ClaimLost, Crash
<1>7. ASSUME NEW t \in Threads, NEW d \in Secrets, NEW succeeds \in BOOLEAN,
             RevokeUpdate(t, d, succeeds)
      PROVE  Inv'
  BY <1>7, RevokeUpdateKeeps
<1>8. ASSUME NEW t \in Threads, RevokeAnswer(t)
      PROVE  Inv'
  BY <1>8, RevokeAnswerKeeps
<1>9. CASE Tick
  BY <1>9, TickKeeps
<1>10. CASE UNCHANGED vars
  <2>1. Shapes' /\ DocumentKinds' /\ KeysApart' /\ Claiming' /\ Revoking'
    BY <1>10 DEF vars, Inv, Shapes, TypeOK, DocumentKinds, KeysApart, Claiming, Revoking, At, Exists
  <2>2. Issued' /\ IssuedOnce' /\ Revoked'
    BY <1>10 DEF vars, Inv, Issued, IssuedOnce, IssuedBy, Revoked, Exists
  <2> QED BY <2>1, <2>2 DEF Inv
<1> QED
  BY <1>1, <1>2, <1>3, <1>4, <1>5, <1>6, <1>7, <1>8, <1>9, <1>10 DEF Next

LEMMA InvAlways == Spec => []Inv
BY InvInit, InvStep, PTL DEF Spec
-----------------------------------------------------------------------------
(* What it is for *)

\* A document holds a credential exactly when it is claimed, and the credential
\* is a secret that was generated, whatever claims and revocations overlap.
THEOREM AccessTypeCorrect == Spec => []TypeOK
<1>1. Inv => TypeOK
  BY DEF Inv, Shapes
<1> QED BY <1>1, InvAlways, PTL

\* A claim link works once: however many calls follow it at the same moment,
\* and whether or not the answer of a commit was lost, one caller gets a key;
\* it called in time, and its key resolves to the invitation's tenant, person
\* and role for good.
THEOREM ClaimWorksOnceHolds == Spec => []ClaimWorksOnce
<1>1. Inv => ClaimWorksOnce
  <2> SUFFICES ASSUME Inv, NEW h \in handed, h.claim # None
               PROVE  /\ \A g \in handed : g.claim = h.claim => g = h
                      /\ h.began <= records[h.claim].expires
                      /\ \E identity \in resolveCredential(h.key) :
                           /\ identity.tenant = records[h.claim].tenant
                           /\ identity.name = records[h.claim].name
                           /\ identity.role = records[h.claim].role
    BY DEF ClaimWorksOnce
  <2>1. PICK d \in Secrets : IssuedBy(h, d)
    BY DEF Inv, Issued
  <2>2. /\ d = h.claim /\ h.began <= records[d].expires
        /\ Exists(d) /\ records[d].credential = h.key /\ records[d].source = "claim_link"
    BY <2>1 DEF IssuedBy
  <2>3. ~records[d].revoked /\ records[d].lasts = None
    BY <2>2 DEF Inv, DocumentKinds
  <2>4. records[d] \in resolveCredential(h.key)
    BY <2>2, <2>3 DEF resolveCredential
  <2> QED BY <2>2, <2>4 DEF Inv, IssuedOnce
<1> QED BY <1>1, InvAlways, PTL

\* The auth hook lets a credential act for its own tenant alone, on the routes
\* its issue was for, and never after its session ended.
THEOREM GrantsInScopeHolds == Spec => []GrantsInScope
<1>1. Inv => GrantsInScope
  <2> SUFFICES ASSUME Inv, NEW h \in handed, NEW path \in Paths, NEW tenant \in Tenants,
                      resolveAuth(path, h.key, tenant)
               PROVE  /\ tenant = h.tenant
                      /\ path \notin Forbidden(h)
                      /\ h.lasts # None => now <= h.began + SessionTtl
    BY DEF GrantsInScope
  <2>1. PICK d \in Secrets : IssuedBy(h, d)
    BY DEF Inv, Issued
  <2>2. PICK e \in Secrets :
          /\ Exists(e) /\ records[e].credential = h.key
          /\ records[e].lasts # None => records[e].lasts >= now
          /\ records[e].tenant = tenant /\ isAllowedForCredential(records[e], path)
    BY DEF resolveAuth, resolveCredential
  <2>3. e = d
    BY <2>1, <2>2 DEF Inv, KeysApart, IssuedBy
  <2>4. tenant = h.tenant
    BY <2>1, <2>2, <2>3 DEF IssuedBy
  <2>5. h.lasts # None => now <= h.began + SessionTtl
    <3>1. now \in Nat /\ h.began \in Nat /\ SessionTtl \in Nat
      BY AccessAssumption DEF Inv, Shapes, TypeOK, Handout
    <3> QED BY <2>1, <2>2, <2>3, <3>1 DEF IssuedBy
  <2>6. records[e].role = h.role /\ records[e].kind = h.kind
        /\ h.role \in {"analyst", "auditor"} /\ h.kind \in {"analyst", "service"}
    BY <2>1, <2>3 DEF IssuedBy, Inv, Shapes, Handout
  <2>7. path \notin Forbidden(h)
    <3>1. CASE h.role = "auditor"
      BY <2>2, <2>6, <3>1 DEF Forbidden, isAllowedForCredential, AuditorPaths
    <3>2. CASE h.role = "analyst" /\ h.kind = "service"
      <4>1. path \in ServicePaths
        BY <2>2, <2>6, <3>2 DEF isAllowedForCredential
      <4>2. Forbidden(h) = OtherPaths \cup
              {"/encrypt", "/decrypt", "/pii-vault/decrypt", "/pii-registry/resources",
               "/pii-registry/resources/:id", "/audit/key-status/:id"}
        BY <3>2 DEF Forbidden
      <4> QED BY <4>1, <4>2 DEF ServicePaths, OtherPaths
    <3>3. CASE h.role = "analyst" /\ h.kind = "analyst"
      <4>1. path \in AnalystPaths
        BY <2>2, <2>6, <3>3 DEF isAllowedForCredential
      <4>2. Forbidden(h) = OtherPaths \cup
              {"/deletion-requests/:id/advance", "/certificate/:id", "/audit/key-status/:id"}
        BY <3>3 DEF Forbidden
      <4> QED BY <4>1, <4>2 DEF AnalystPaths, OtherPaths
    <3> QED BY <2>6, <3>1, <3>2, <3>3
  <2> QED BY <2>4, <2>5, <2>7
<1> QED BY <1>1, InvAlways, PTL

\* Once POST /admin/service-credentials/revoke has answered with success, no
\* credential it found opens any route again, whatever else was in flight and
\* whatever was minted since.
THEOREM CutOffForGoodHolds == Spec => []CutOffForGood
<1>1. Inv => CutOffForGood
  <2> SUFFICES ASSUME Inv, NEW key \in cutOff, NEW path \in Paths, NEW tenant \in Tenants,
                      resolveAuth(path, key, tenant)
               PROVE  FALSE
    BY DEF CutOffForGood
  <2>1. key \in Secrets
    BY DEF Inv, Shapes, TypeOK
  <2>2. Exists(key) /\ records[key].kind = "service" /\ records[key].revoked
    BY DEF Inv, Revoked
  <2>3. records[key].claimed /\ records[key].credential = key
    BY <2>1, <2>2 DEF Inv, DocumentKinds
  <2>4. PICK e \in Secrets : Exists(e) /\ records[e].credential = key /\ ~records[e].revoked
    BY DEF resolveAuth, resolveCredential
  <2>5. e = key
    BY <2>1, <2>2, <2>3, <2>4 DEF Inv, KeysApart
  <2> QED BY <2>2, <2>4, <2>5
<1> QED BY <1>1, InvAlways, PTL

=============================================================================
