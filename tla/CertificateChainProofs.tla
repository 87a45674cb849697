----------------------- MODULE CertificateChainProofs -----------------------
(***************************************************************************)
(* Proofs about CertificateChain, for any tenants, requests, executions    *)
(* and retries.                                                            *)
(*                                                                         *)
(* The chain is linked because the hash an attempt is about to commit is   *)
(* fresh (Fresh) and the transaction commits only onto the head it read.   *)
(* Only chained certificates leave the vault because an execution past     *)
(* its commit holds the hash it committed (Past).  For a request that no   *)
(* CASCADE_COMPLETE write moved back, at most one execution issues, and    *)
(* none once the path is recorded (Owned); for the others what is stored   *)
(* under a path is still a certificate of its request (Stored).            *)
(***************************************************************************)
EXTENDS CertificateChain, SequenceTheorems, TLAPS

Documents ==
    [sequence: Nat, last_hash: Nat]

Calls ==
    [pc: {"idle", "head", "sign", "commit", "attest", "savehash", "fields", "rollback"},
     req: Requests, current: Documents, hash: Nat, attempt: Nat, next: Nat,
     path: Paths \cup {NoPath}]

\* The shapes the proofs need.
Shapes ==
    /\ status \in [Requests -> {CC, CI}]
    /\ gcsPath \in [Requests -> Paths \cup {NoPath}]
    /\ head \in [Tenants -> Documents]
    /\ entries \in [DOMAIN entries -> [tenant: Tenants, sequence: Nat, previous: Nat, req: Requests]]
    /\ DOMAIN entries \subseteq Nat \ {0}
    /\ signed \in Nat
    /\ call \in [Threads -> Calls]
    /\ objects \in [Paths -> Nat]
    /\ auditHash \in [Paths -> Nat]
    /\ day \in 1..MaxDay
    /\ reopened \subseteq Requests

\* A hash was signed before it is used, and one about to be committed is new:
\* no other attempt holds it and the chain does not have it.
Fresh ==
    /\ \A h \in DOMAIN entries : h <= signed
    /\ \A t \in Threads : At(t, "commit") =>
         /\ call[t].hash \in 1..signed
         /\ call[t].hash \notin DOMAIN entries
         /\ \A x \in Threads : x # t /\ At(x, "commit") => call[x].hash # call[t].hash

\* A tenant without certificates has no head; otherwise the head is an entry.
HeadIsEntry ==
    \A tenant \in Tenants :
        IF head[tenant].sequence = 0 THEN head[tenant].last_hash = Null
        ELSE /\ head[tenant].last_hash \in DOMAIN entries
             /\ entries[head[tenant].last_hash].tenant = tenant
             /\ entries[head[tenant].last_hash].sequence = head[tenant].sequence

\* Past its commit, an execution holds a hash of the chain, of its own request;
\* what it has saved is under its own path, and stays there unless the request
\* was moved back and is issued again.
Past ==
    \A t \in Threads :
        LET c == call[t]
            Saved(h) == h # Null /\ (c.req \notin reopened => h = c.hash)
        IN
        /\ c.pc \in {"attest", "savehash", "fields"} => ChainedFor(c.hash, c.req)
        /\ c.pc \in {"savehash", "fields"} =>
             c.path \in Paths /\ c.path.req = c.req /\ Saved(objects[c.path])
        /\ c.pc = "fields" => Saved(auditHash[c.path])

\* What is stored under the path of a request is a certificate of that request.
Stored ==
    \A p \in Paths :
        /\ objects[p] # Null => ChainedFor(objects[p], p.req)
        /\ auditHash[p] # Null => ChainedFor(auditHash[p], p.req)

\* Of a request that was never moved back, one execution at a time issues the
\* certificate, and none once the request has its path.
Owned ==
    /\ \A t \in Threads : call[t].pc # "idle" /\ call[t].req \notin reopened =>
         /\ status[call[t].req] = CI /\ gcsPath[call[t].req] = NoPath
         /\ \A x \in Threads : x # t /\ call[x].pc # "idle" => call[x].req # call[t].req
    /\ \A r \in Requests : gcsPath[r] # NoPath =>
         gcsPath[r].req = r /\ (r \notin reopened => status[r] = CI)

Chain == Fresh /\ HeadIsEntry /\ ChainLinked
Kept == Past /\ Stored /\ OnlyChainedLeaves /\ RecordedCertificateIsOwn
Inv == Shapes /\ Chain /\ Owned /\ Kept

-----------------------------------------------------------------------------
(* What the steps do *)

LEMMA NoCallIs ==
    ASSUME NEW r \in Requests
    PROVE  NoCall \in Calls /\ NoCall.pc = "idle"
<1>1. (CHOOSE q \in Requests : TRUE) \in Requests
  OBVIOUS
<1>2. NoHead \in Documents
  BY DEF NoHead, Documents, Null
<1> QED BY <1>1, <1>2 DEF NoCall, Calls, Null

LEMMA BecomeIs ==
    ASSUME Shapes, NEW t \in Threads, NEW c \in Calls, Become(t, c)
    PROVE  /\ call' \in [Threads -> Calls]
           /\ call'[t] = c
           /\ \A x \in Threads : x # t => call'[x] = call[x]
  BY DEF Become, Shapes

\* A step of one execution that leaves all documents and objects alone, and
\* does not enter the commit.
LEMMA QuietStep ==
    ASSUME Inv, NEW t \in Threads, NEW c \in Calls, Become(t, c),
           UNCHANGED <<status, gcsPath, head, entries, store, attested, signed, day, reopened>>,
           c.pc \notin {"commit", "savehash", "fields"},
           c.pc = "attest" => ChainedFor(c.hash, c.req),
           c.pc = "idle" \/ (call[t].pc # "idle" /\ c.req = call[t].req)
    PROVE  Inv'
<1>1. Shapes'
  BY BecomeIs DEF Inv, Shapes, store
<1>2. /\ call'[t] = c
      /\ \A x \in Threads : x # t => call'[x] = call[x]
  BY BecomeIs DEF Inv
<1>3. Fresh'
  BY <1>2 DEF Inv, Chain, Fresh, At
<1>4. HeadIsEntry' /\ ChainLinked'
  BY DEF Inv, Chain, HeadIsEntry, ChainLinked
<1>5. Stored' /\ OnlyChainedLeaves' /\ RecordedCertificateIsOwn'
  BY DEF Inv, Kept, Stored, OnlyChainedLeaves, RecordedCertificateIsOwn, ChainedFor, store
<1>6. Past'
  BY <1>2 DEF Inv, Kept, Past, ChainedFor, store
<1>7. Owned'
  BY <1>2 DEF Inv, Owned
<1> QED BY <1>1, <1>3, <1>4, <1>5, <1>6, <1>7 DEF Inv, Chain, Kept

\* An entry appended onto the head keeps the chain linked.
LEMMA AppendLinks ==
    ASSUME Shapes, HeadIsEntry, ChainLinked,
           NEW T \in Tenants, NEW g \in Nat \ {0}, g \notin DOMAIN entries, NEW r \in Requests,
           head' = [head EXCEPT ![T] = [sequence |-> head[T].sequence + 1, last_hash |-> g]],
           entries' = [h \in DOMAIN entries \cup {g} |->
                         IF h = g
                         THEN [tenant |-> T, sequence |-> head[T].sequence + 1,
                               previous |-> head[T].last_hash, req |-> r]
                         ELSE entries[h]]
    PROVE  HeadIsEntry' /\ ChainLinked'
<1> DEFINE n == head[T].sequence
<1>1. /\ head'[T].sequence = n + 1 /\ head'[T].last_hash = g
      /\ \A u \in Tenants : u # T => head'[u] = head[u]
      /\ n \in Nat /\ head[T].last_hash \in Nat
  BY DEF Shapes, Documents
<1>2. /\ DOMAIN entries' = DOMAIN entries \cup {g}
      /\ entries'[g].tenant = T /\ entries'[g].sequence = n + 1
      /\ entries'[g].previous = head[T].last_hash
      /\ \A h \in DOMAIN entries : h # g /\ entries'[h] = entries[h]
  OBVIOUS
<1>3. \A h \in DOMAIN entries : /\ entries[h].sequence \in Nat /\ entries[h].tenant \in Tenants
                                /\ entries[h].previous \in Nat
  BY DEF Shapes
<1> DEFINE Own(u) == {h \in DOMAIN entries : entries[h].tenant = u}
           Linked(u, h) ==
             /\ entries[h].sequence <= head[u].sequence
             /\ entries[h].sequence = head[u].sequence => h = head[u].last_hash
             /\ \A k \in Own(u) : entries[k].sequence = entries[h].sequence => k = h
             /\ IF entries[h].sequence = 1 THEN entries[h].previous = Null
                ELSE /\ entries[h].previous \in Own(u)
                     /\ entries[entries[h].previous].sequence = entries[h].sequence - 1
<1>4. \A u \in Tenants :
        /\ \A i \in 1..head[u].sequence : \E h \in Own(u) : entries[h].sequence = i
        /\ \A h \in Own(u) : Linked(u, h)
  BY DEF ChainLinked
<1>5. HeadIsEntry'
  <2> SUFFICES ASSUME NEW u \in Tenants
               PROVE  IF head'[u].sequence = 0 THEN head'[u].last_hash = Null
                      ELSE /\ head'[u].last_hash \in DOMAIN entries'
                           /\ entries'[head'[u].last_hash].tenant = u
                           /\ entries'[head'[u].last_hash].sequence = head'[u].sequence
    BY DEF HeadIsEntry, Null
  <2>1. CASE u = T
    BY <1>1, <1>2, <2>1
  <2>2. CASE u # T
    BY <1>1, <1>2, <2>2 DEF HeadIsEntry
  <2> QED BY <2>1, <2>2
<1> DEFINE OwnNext(u) == {h \in DOMAIN entries' : entries'[h].tenant = u}
<1>6. \A u \in Tenants : u # T => OwnNext(u) = Own(u)
  BY <1>2
<1>7. OwnNext(T) = Own(T) \cup {g}
  BY <1>2
<1> DEFINE LinkedNext(u, h) ==
             /\ entries'[h].sequence <= head'[u].sequence
             /\ entries'[h].sequence = head'[u].sequence => h = head'[u].last_hash
             /\ \A k \in OwnNext(u) : entries'[k].sequence = entries'[h].sequence => k = h
             /\ IF entries'[h].sequence = 1 THEN entries'[h].previous = Null
                ELSE /\ entries'[h].previous \in OwnNext(u)
                     /\ entries'[entries'[h].previous].sequence = entries'[h].sequence - 1
<1>8. ASSUME NEW u \in Tenants, u # T
      PROVE  /\ \A i \in 1..head'[u].sequence : \E h \in OwnNext(u) : entries'[h].sequence = i
             /\ \A h \in OwnNext(u) : LinkedNext(u, h)
  <2>1. head'[u] = head[u] /\ OwnNext(u) = Own(u)
    BY <1>1, <1>6, <1>8
  <2>2. \A h \in Own(u) : h \in DOMAIN entries /\ entries'[h] = entries[h]
    BY <1>2
  <2>3. \A i \in 1..head'[u].sequence : \E h \in OwnNext(u) : entries'[h].sequence = i
    BY <1>4, <2>1, <2>2
  <2>4. ASSUME NEW h \in OwnNext(u) PROVE LinkedNext(u, h)
    <3>1. Linked(u, h) /\ h \in Own(u)
      BY <1>4, <2>1
    <3> QED BY <2>1, <2>2, <3>1
  <2> QED BY <2>3, <2>4
<1>9. \A i \in 1..head'[T].sequence : \E h \in OwnNext(T) : entries'[h].sequence = i
  <2> TAKE i \in 1..head'[T].sequence
  <2>1. CASE i = n + 1
    BY <1>2, <1>7, <2>1
  <2>2. CASE i # n + 1
    <3>1. i \in 1..n
      BY <1>1, <2>2
    <3>2. PICK h \in Own(T) : entries[h].sequence = i
      BY <1>4, <3>1
    <3> QED BY <1>2, <1>7, <3>2
  <2> QED BY <2>1, <2>2
<1>10. ASSUME NEW h \in OwnNext(T) PROVE LinkedNext(T, h)
  <2>0. \A k \in Own(T) : /\ k \in DOMAIN entries /\ entries'[k] = entries[k] /\ k # g
                          /\ entries[k].sequence \in Nat /\ entries[k].sequence <= n
    BY <1>2, <1>3, <1>4
  <2>1. CASE h = g
    <3>1. /\ entries'[h].sequence = n + 1 /\ entries'[h].previous = head[T].last_hash
          /\ head'[T].sequence = n + 1 /\ head'[T].last_hash = h
      BY <1>1, <1>2, <2>1
    <3>2. \A k \in OwnNext(T) : entries'[k].sequence = n + 1 => k = h
      <4>1. \A k \in Own(T) : entries'[k].sequence # n + 1
        <5> TAKE k \in Own(T)
        <5>1. entries'[k].sequence \in Nat /\ entries'[k].sequence <= n
          BY <2>0
        <5> HIDE DEF n, Own
        <5> QED BY <1>1, <5>1
      <4>2. \A k \in OwnNext(T) : k = g \/ k \in Own(T)
        BY <1>7
      <4> QED BY <2>1, <4>1, <4>2
    <3>3. CASE n = 0
      <4>1. head[T].last_hash = Null
        BY <3>3 DEF HeadIsEntry
      <4> HIDE DEF n, OwnNext
      <4>2. n + 1 = 1 /\ n + 1 <= n + 1
        BY <3>3
      <4>3. entries'[h].sequence = 1 /\ entries'[h].previous = Null
        BY <3>1, <4>1, <4>2
      <4>4. entries'[h].sequence <= head'[T].sequence
        BY <3>1, <4>2
      <4>5. \A k \in OwnNext(T) : entries'[k].sequence = entries'[h].sequence => k = h
        BY <3>1, <3>2
      <4> QED BY <3>1, <4>3, <4>4, <4>5
    <3>4. CASE n # 0
      <4>1. /\ head[T].last_hash \in Own(T)
            /\ entries[head[T].last_hash].sequence = n
        BY <3>4 DEF HeadIsEntry
      <4>2. /\ head[T].last_hash \in OwnNext(T)
            /\ entries'[head[T].last_hash].sequence = n
        BY <1>7, <2>0, <4>1
      <4> HIDE DEF n, OwnNext
      <4>3. n + 1 # 1 /\ n + 1 - 1 = n /\ n + 1 <= n + 1
        BY <1>1, <3>4
      <4>4. entries'[h].sequence <= head'[T].sequence /\ entries'[h].sequence # 1
        BY <3>1, <4>3
      <4>5. \A k \in OwnNext(T) : entries'[k].sequence = entries'[h].sequence => k = h
        BY <3>1, <3>2
      <4>6. /\ entries'[h].previous \in OwnNext(T)
            /\ entries'[entries'[h].previous].sequence = entries'[h].sequence - 1
        <5>1. entries'[h].previous = head[T].last_hash
          BY <3>1
        <5>2. entries'[h].sequence - 1 = n
          <6>1. \A x, y : y \in Nat /\ x = y + 1 => x - 1 = y
            OBVIOUS
          <6>2. n \in Nat
            BY <1>1 DEF n
          <6> QED BY <3>1, <6>1, <6>2, Zenon
        <5> QED BY <5>1, <5>2, <4>2, Zenon
      <4> QED BY <3>1, <4>4, <4>5, <4>6
    <3> QED BY <3>3, <3>4
  <2>2. CASE h # g
    <3>1. h \in Own(T) /\ Linked(T, h)
      BY <1>4, <1>7, <2>2
    <3>2. /\ entries'[h] = entries[h] /\ entries[h].sequence \in Nat /\ entries[h].sequence <= n
      BY <2>0, <3>1
    <3>3. entries'[h].sequence <= n + 1 /\ entries'[h].sequence # n + 1
      BY <1>1, <3>2
    <3>4. \A k \in OwnNext(T) : entries'[k].sequence = entries'[h].sequence => k = h
      BY <1>2, <1>7, <2>0, <3>1, <3>2, <3>3
    <3>5. IF entries[h].sequence = 1 THEN entries[h].previous = Null
          ELSE /\ entries[h].previous \in OwnNext(T)
               /\ entries'[entries[h].previous].sequence = entries[h].sequence - 1
      BY <1>7, <2>0, <3>1
    <3> QED BY <1>1, <3>2, <3>3, <3>4, <3>5
  <2> QED BY <2>1, <2>2
<1>11. ChainLinked'
  <2>1. ASSUME NEW u \in Tenants
        PROVE  /\ \A i \in 1..head'[u].sequence : \E h \in OwnNext(u) : entries'[h].sequence = i
               /\ \A h \in OwnNext(u) : LinkedNext(u, h)
    <3>1. CASE u = T
      <4>1. \A h \in OwnNext(T) : LinkedNext(T, h)
        BY <1>10
      <4> HIDE DEF OwnNext, LinkedNext
      <4> QED BY <1>9, <3>1, <4>1
    <3>2. CASE u # T
      BY <1>8, <3>2
    <3> QED BY <3>1, <3>2
  <2> QED BY <2>1 DEF ChainLinked, Null
<1> QED BY <1>5, <1>11

-----------------------------------------------------------------------------
(* The invariant is inductive *)

LEMMA InvInit == Init => Inv
<1> SUFFICES ASSUME Init PROVE Inv
  OBVIOUS
<1>1. \A t \in Threads : call[t] = NoCall /\ NoCall.pc = "idle"
  BY DEF Init, NoCall
<1>2. Shapes
  <2>1. NoHead \in Documents
    BY DEF NoHead, Documents, Null
  <2>2. call \in [Threads -> Calls]
    <3>1. PICK r \in Requests : TRUE
      BY CertificateChainAssumption
    <3> QED BY <3>1, NoCallIs DEF Init
  <2> QED BY <2>1, <2>2, CertificateChainAssumption DEF Init, Shapes, Null
<1>3. Chain
  BY <1>1 DEF Init, Chain, Fresh, HeadIsEntry, ChainLinked, At, NoHead, Null
<1>4. Owned
  BY <1>1 DEF Init, Owned
<1>5. Kept
  BY <1>1 DEF Init, Kept, Past, Stored, OnlyChainedLeaves, RecordedCertificateIsOwn, Null
<1> QED BY <1>2, <1>3, <1>4, <1>5 DEF Inv

LEMMA ClaimKeeps ==
    ASSUME Inv, NEW t \in Threads, NEW r \in Requests, Claim(t, r)
    PROVE  Inv'
<1> DEFINE c == [NoCall EXCEPT !.pc = "head", !.req = r, !.attempt = 1]
<1>1. c \in Calls /\ c.pc = "head" /\ c.req = r
  BY NoCallIs DEF Calls
<1>2. /\ UNCHANGED <<gcsPath, head, entries, store, attested, signed, day, reopened>>
      /\ status[r] = CC /\ status' = [status EXCEPT ![r] = CI]
      /\ Become(t, c) /\ call[t].pc = "idle"
  BY DEF Claim, Claimable, At
<1> HIDE DEF c
<1>3. /\ call' \in [Threads -> Calls] /\ call'[t] = c
      /\ \A x \in Threads : x # t => call'[x] = call[x]
  BY <1>1, <1>2, BecomeIs DEF Inv
<1>4. status' \in [Requests -> {CC, CI}] /\ status'[r] = CI
      /\ \A q \in Requests : status[q] = CI => status'[q] = CI
  BY <1>2 DEF Inv, Shapes
<1>5. Shapes'
  BY <1>2, <1>3, <1>4 DEF Inv, Shapes, store
<1>6. Chain'
  <2>1. Fresh'
    BY <1>1, <1>2, <1>3 DEF Inv, Chain, Fresh, At
  <2>2. HeadIsEntry' /\ ChainLinked'
    BY <1>2 DEF Inv, Chain, HeadIsEntry, ChainLinked
  <2> QED BY <2>1, <2>2 DEF Chain
<1>7. Owned'
  <2>1. CC # CI
    BY DEF CC, CI
  <2>2. r \notin reopened => gcsPath[r] = NoPath
    BY <1>2, <2>1 DEF Inv, Owned
  <2>3. \A x \in Threads : x # t /\ call[x].pc # "idle" =>
          call[x].req \in Requests /\ (call[x].req \notin reopened => call[x].req # r)
    BY <1>2, <2>1 DEF Inv, Owned, Shapes, Calls
  <2> QED BY <1>1, <1>2, <1>3, <1>4, <2>2, <2>3 DEF Inv, Owned
<1>8. Kept'
  <2>1. Past'
    BY <1>1, <1>2, <1>3 DEF Inv, Kept, Past, ChainedFor, store
  <2>2. Stored' /\ OnlyChainedLeaves' /\ RecordedCertificateIsOwn'
    BY <1>2 DEF Inv, Kept, Stored, OnlyChainedLeaves, RecordedCertificateIsOwn, ChainedFor, store
  <2> QED BY <2>1, <2>2 DEF Kept
<1> QED BY <1>5, <1>6, <1>7, <1>8 DEF Inv

LEMMA SignKeeps ==
    ASSUME Inv, NEW t \in Threads, SignClaims(t)
    PROVE  Inv'
<1> DEFINE c == [call[t] EXCEPT !.pc = "commit", !.hash = signed + 1]
<1>0. call[t] \in Calls /\ signed \in Nat
  BY DEF Inv, Shapes
<1>1. c \in Calls /\ c.pc = "commit" /\ c.req = call[t].req /\ c.hash = signed + 1
  <2>1. signed + 1 \in Nat
    BY <1>0
  <2> QED BY <1>0, <2>1 DEF Calls
<1>2. /\ UNCHANGED <<status, gcsPath, head, entries, store, attested, day, reopened>>
      /\ signed' = signed + 1 /\ Become(t, c) /\ call[t].pc = "sign"
  BY DEF SignClaims, At
<1> HIDE DEF c
<1>3. /\ call' \in [Threads -> Calls] /\ call'[t] = c
      /\ \A x \in Threads : x # t => call'[x] = call[x]
  BY <1>1, <1>2, BecomeIs DEF Inv
<1>4. Shapes'
  BY <1>0, <1>2, <1>3 DEF Inv, Shapes, store
<1>5. Fresh'
  <2>1. /\ \A h \in DOMAIN entries : h \in Nat /\ h <= signed
        /\ \A x \in Threads : x # t /\ At(x, "commit") => call[x].hash \in 1..signed
    BY DEF Inv, Chain, Fresh, Shapes
  <2>2. /\ \A h \in DOMAIN entries : h <= signed + 1 /\ h # signed + 1
        /\ \A x \in Threads : x # t /\ At(x, "commit") =>
             call[x].hash \in 1..(signed + 1) /\ call[x].hash # signed + 1
        /\ signed + 1 \in 1..(signed + 1)
    BY <1>0, <2>1
  <2>3. \A x \in Threads : x # t => (At(x, "commit")' <=> At(x, "commit"))
    BY <1>3 DEF At
  <2>4. \A x \in Threads : At(x, "commit") =>
          /\ call[x].hash \notin DOMAIN entries
          /\ \A y \in Threads : y # x /\ At(y, "commit") => call[y].hash # call[x].hash
    BY DEF Inv, Chain, Fresh
  <2> QED BY <1>1, <1>2, <1>3, <2>2, <2>3, <2>4 DEF Fresh
<1>6. HeadIsEntry' /\ ChainLinked'
  BY <1>2 DEF Inv, Chain, HeadIsEntry, ChainLinked
<1>7. Owned'
  BY <1>1, <1>2, <1>3 DEF Inv, Owned
<1>8. Past'
  BY <1>1, <1>2, <1>3 DEF Inv, Kept, Past, ChainedFor, store
<1>9. Stored' /\ OnlyChainedLeaves' /\ RecordedCertificateIsOwn'
  BY <1>2 DEF Inv, Kept, Stored, OnlyChainedLeaves, RecordedCertificateIsOwn, ChainedFor, store
<1> QED BY <1>4, <1>5, <1>6, <1>7, <1>8, <1>9 DEF Inv, Chain, Kept

\* An attempt that lost, or whose answer was lost, starts over or gives up.
LEMMA AfterContentionIs ==
    ASSUME NEW c \in Calls
    PROVE  /\ AfterContention(c) \in Calls /\ AfterContention(c).req = c.req
           /\ AfterContention(c).pc \in {"head", "rollback"}
<1>1. c.attempt + 1 \in Nat
  BY DEF Calls
<1>2. /\ [c EXCEPT !.pc = "head", !.attempt = c.attempt + 1] \in Calls
      /\ [c EXCEPT !.pc = "rollback"] \in Calls
  BY <1>1 DEF Calls
<1> QED BY <1>2 DEF AfterContention, Calls

LEMMA CommitKeeps ==
    ASSUME Inv, NEW t \in Threads, NEW answered \in BOOLEAN, Commit(t, answered)
    PROVE  Inv'
<1> DEFINE c == call[t]
           T == TenantOf[c.req]
           d == IF answered THEN [c EXCEPT !.pc = "attest", !.next = 1] ELSE AfterContention(c)
           e == [tenant |-> T, sequence |-> head[T].sequence + 1,
                 previous |-> head[T].last_hash, req |-> c.req]
<1>1. /\ c \in Calls /\ c.req \in Requests /\ T \in Tenants /\ c.pc = "commit"
      /\ c.current = head[T] /\ head[T] \in Documents
  BY CertificateChainAssumption DEF Inv, Shapes, Calls, Commit, HeadUnchanged, At
<1>2. /\ d \in Calls /\ d.req = c.req
      /\ d.pc \in {"head", "rollback"} \/ (d.pc = "attest" /\ d.hash = c.hash)
  BY <1>1, AfterContentionIs DEF Calls
<1>3. /\ c.hash \in Nat \ {0} /\ c.hash \notin DOMAIN entries /\ c.hash <= signed
      /\ \A x \in Threads : x # t /\ At(x, "commit") => call[x].hash # c.hash
  BY <1>1 DEF Inv, Chain, Fresh, At, Shapes
<1>4. /\ head' = [head EXCEPT ![T] = [sequence |-> head[T].sequence + 1, last_hash |-> c.hash]]
      /\ entries' = [h \in DOMAIN entries \cup {c.hash} |-> IF h = c.hash THEN e ELSE entries[h]]
  BY <1>1 DEF Commit, Tenant, NextSequence
<1>5. /\ Become(t, d) /\ UNCHANGED <<status, gcsPath, store, attested, signed, day, reopened>>
  BY DEF Commit
<1>6. HeadIsEntry' /\ ChainLinked'
  BY <1>1, <1>3, <1>4, AppendLinks DEF Inv, Chain
<1> HIDE DEF d
<1>7. /\ call' \in [Threads -> Calls] /\ call'[t] = d
      /\ \A x \in Threads : x # t => call'[x] = call[x]
  BY <1>2, <1>5, BecomeIs DEF Inv
<1>8. /\ e \in [tenant: Tenants, sequence: Nat, previous: Nat, req: Requests] /\ e.req = c.req
      /\ head[T].sequence + 1 \in Nat
  BY <1>1 DEF Documents
<1>9. /\ DOMAIN entries' = DOMAIN entries \cup {c.hash}
      /\ entries'[c.hash] = e
      /\ \A h \in DOMAIN entries : entries'[h] = entries[h]
  BY <1>3, <1>4
<1>10. Shapes'
  <2>1. head' \in [Tenants -> Documents]
    BY <1>3, <1>4, <1>8 DEF Inv, Shapes, Documents
  <2>2. /\ entries' \in [DOMAIN entries' -> [tenant: Tenants, sequence: Nat, previous: Nat, req: Requests]]
        /\ DOMAIN entries' \subseteq Nat \ {0}
    <3> HIDE DEF e
    <3> QED BY <1>3, <1>4, <1>8, <1>9 DEF Inv, Shapes
  <2> QED BY <1>5, <1>7, <2>1, <2>2 DEF Inv, Shapes, store
<1> HIDE DEF e
<1>11. Fresh'
  <2>1. \A x \in Threads : At(x, "commit")' => x # t /\ At(x, "commit") /\ call'[x] = call[x]
    BY <1>2, <1>7 DEF At
  <2> QED BY <1>3, <1>5, <1>9, <2>1 DEF Inv, Chain, Fresh
<1>12. Owned'
  BY <1>1, <1>2, <1>5, <1>7 DEF Inv, Owned
<1>13. Past'
  <2> SUFFICES ASSUME NEW x \in Threads
               PROVE  LET k == call'[x]
                          Saved(h) == h # Null /\ (k.req \notin reopened' => h = k.hash)
                      IN
                      /\ k.pc \in {"attest", "savehash", "fields"} =>
                           k.hash \in DOMAIN entries' /\ entries'[k.hash].req = k.req
                      /\ k.pc \in {"savehash", "fields"} =>
                           k.path \in Paths /\ k.path.req = k.req /\ Saved(objects'[k.path])
                      /\ k.pc = "fields" => Saved(auditHash'[k.path])
    BY DEF Past, ChainedFor
  <2>1. CASE x = t
    <3>1. call'[x].pc \in {"head", "rollback"} \/ (call'[x].pc = "attest" /\ call'[x].hash = c.hash /\ call'[x].req = c.req)
      BY <1>2, <1>7, <2>1
    <3> QED BY <1>8, <1>9, <3>1
  <2>2. CASE x # t
    <3>1. call'[x] = call[x]
      BY <1>7, <2>2
    <3>2. call[x].pc \in {"attest", "savehash", "fields"} =>
            call[x].hash \in DOMAIN entries' /\ entries'[call[x].hash].req = call[x].req
      BY <1>9 DEF Inv, Kept, Past, ChainedFor
    <3> QED BY <1>5, <3>1, <3>2 DEF Inv, Kept, Past, ChainedFor, store
  <2> QED BY <2>1, <2>2
<1>14. Stored' /\ OnlyChainedLeaves' /\ RecordedCertificateIsOwn'
  BY <1>5, <1>9 DEF Inv, Kept, Stored, OnlyChainedLeaves, RecordedCertificateIsOwn, ChainedFor, store
<1> QED BY <1>6, <1>10, <1>11, <1>12, <1>13, <1>14 DEF Inv, Chain, Kept

LEMMA AttestKeeps ==
    ASSUME Inv, NEW t \in Threads, NEW reached \in BOOLEAN, Attest(t, reached)
    PROVE  Inv'
<1> DEFINE c == [call[t] EXCEPT !.next = call[t].next + 1]
<1>0. call[t] \in Calls /\ call[t].pc = "attest" /\ call[t].next + 1 \in Nat
  BY DEF Inv, Shapes, Attest, At, Calls
<1>1. c \in Calls /\ c.pc = "attest" /\ c.req = call[t].req /\ c.hash = call[t].hash
  BY <1>0 DEF Calls
<1>2. /\ UNCHANGED <<status, gcsPath, head, entries, store, signed, day, reopened>>
      /\ Become(t, c)
      /\ \A a \in attested' : a \in attested \/ a.hash = call[t].hash
  BY DEF Attest
<1> HIDE DEF c
<1>3. /\ call' \in [Threads -> Calls] /\ call'[t] = c
      /\ \A x \in Threads : x # t => call'[x] = call[x]
  BY <1>1, <1>2, BecomeIs DEF Inv
<1>4. Shapes'
  BY <1>2, <1>3 DEF Inv, Shapes, store
<1>5. Chain'
  <2>1. Fresh'
    BY <1>1, <1>2, <1>3 DEF Inv, Chain, Fresh, At
  <2>2. HeadIsEntry' /\ ChainLinked'
    BY <1>2 DEF Inv, Chain, HeadIsEntry, ChainLinked
  <2> QED BY <2>1, <2>2 DEF Chain
<1>6. Owned'
  BY <1>0, <1>1, <1>2, <1>3 DEF Inv, Owned
<1>7. Kept'
  <2>1. Past'
    BY <1>0, <1>1, <1>2, <1>3 DEF Inv, Kept, Past, ChainedFor, store
  <2>2. call[t].hash \in DOMAIN entries
    BY <1>0 DEF Inv, Kept, Past, ChainedFor
  <2>3. OnlyChainedLeaves'
    BY <1>2, <2>2 DEF Inv, Kept, OnlyChainedLeaves, store
  <2>4. Stored' /\ RecordedCertificateIsOwn'
    BY <1>2 DEF Inv, Kept, Stored, RecordedCertificateIsOwn, ChainedFor, store
  <2> QED BY <2>1, <2>3, <2>4 DEF Kept
<1> QED BY <1>4, <1>5, <1>6, <1>7 DEF Inv

LEMMA SaveCertificateKeeps ==
    ASSUME Inv, NEW t \in Threads, SaveCertificate(t)
    PROVE  Inv'
<1> DEFINE p == CertPath(call[t].req, day)
           c == [call[t] EXCEPT !.pc = "savehash", !.path = p]
<1>0. /\ call[t] \in Calls /\ call[t].pc = "attest" /\ call[t].req \in Requests
      /\ p \in Paths /\ p.req = call[t].req
  BY DEF Inv, Shapes, SaveCertificate, At, Calls, CertPath, Paths
<1>1. /\ c \in Calls /\ c.pc = "savehash" /\ c.req = call[t].req /\ c.hash = call[t].hash
      /\ c.path = p
  BY <1>0 DEF Calls
<1>2. /\ UNCHANGED <<status, gcsPath, head, entries, auditHash, attested, signed, day, reopened>>
      /\ Become(t, c)
      /\ objects' = [objects EXCEPT ![p] = call[t].hash]
  BY DEF SaveCertificate
<1>a. /\ ChainedFor(call[t].hash, call[t].req)
      /\ call[t].hash \in DOMAIN entries /\ call[t].hash \in Nat /\ call[t].hash # Null
  BY <1>0 DEF Inv, Kept, Past, Calls, ChainedFor, Shapes, Null
<1> HIDE DEF c, p
<1>3. /\ call' \in [Threads -> Calls] /\ call'[t] = c
      /\ \A x \in Threads : x # t => call'[x] = call[x]
  BY <1>1, <1>2, BecomeIs DEF Inv
<1>b. /\ objects' \in [Paths -> Nat] /\ objects'[p] = call[t].hash
      /\ \A q \in Paths : q # p => objects'[q] = objects[q]
  BY <1>0, <1>2, <1>a DEF Inv, Shapes
<1>4. Shapes'
  BY <1>2, <1>3, <1>b DEF Inv, Shapes
<1>5. Chain'
  <2>1. Fresh'
    BY <1>1, <1>2, <1>3 DEF Inv, Chain, Fresh, At
  <2>2. HeadIsEntry' /\ ChainLinked'
    BY <1>2 DEF Inv, Chain, HeadIsEntry, ChainLinked
  <2> QED BY <2>1, <2>2 DEF Chain
<1>6. Owned'
  BY <1>0, <1>1, <1>2, <1>3 DEF Inv, Owned
<1>7. Kept'
  <2>1. Past'
    <3>1. \A x \in Threads : x # t /\ call[x].pc # "idle" /\ call[x].req \notin reopened =>
            call[x].req # call[t].req
      BY <1>0 DEF Inv, Owned
    <3>2. \A x \in Threads : x # t /\ call[x].pc \in {"savehash", "fields"} =>
            /\ objects'[call[x].path] # Null
            /\ call[x].req \notin reopened => objects'[call[x].path] = objects[call[x].path]
      BY <1>0, <1>a, <1>b, <3>1 DEF Inv, Kept, Past
    <3> QED BY <1>0, <1>1, <1>2, <1>3, <1>a, <1>b, <3>2 DEF Inv, Kept, Past, ChainedFor
  <2>2. OnlyChainedLeaves'
    BY <1>2, <1>a, <1>b DEF Inv, Kept, OnlyChainedLeaves
  <2>3. Stored'
    BY <1>0, <1>2, <1>a, <1>b DEF Inv, Kept, Stored, ChainedFor
  <2>4. RecordedCertificateIsOwn'
    <3>1. \A r \in Requests : gcsPath[r] # NoPath =>
            /\ gcsPath[r] \in Paths
            /\ gcsPath[r] = p => r = call[t].req /\ r \in reopened
      BY <1>0 DEF Inv, Owned, Shapes
    <3> QED BY <1>2, <1>a, <1>b, <3>1 DEF Inv, Kept, RecordedCertificateIsOwn, ChainedFor
  <2> QED BY <2>1, <2>2, <2>3, <2>4 DEF Kept
<1> QED BY <1>4, <1>5, <1>6, <1>7 DEF Inv

LEMMA SaveHashKeeps ==
    ASSUME Inv, NEW t \in Threads, SaveHash(t)
    PROVE  Inv'
<1> DEFINE p == call[t].path
           c == [call[t] EXCEPT !.pc = "fields"]
<1>0. /\ call[t] \in Calls /\ call[t].pc = "savehash" /\ call[t].req \in Requests
      /\ p \in Paths /\ p.req = call[t].req
  BY DEF Inv, Shapes, SaveHash, At, Calls, Kept, Past
<1>1. /\ c \in Calls /\ c.pc = "fields" /\ c.req = call[t].req /\ c.hash = call[t].hash
      /\ c.path = p
  BY <1>0 DEF Calls
<1>2. /\ UNCHANGED <<status, gcsPath, head, entries, objects, attested, signed, day, reopened>>
      /\ Become(t, c)
      /\ auditHash' = [auditHash EXCEPT ![p] = call[t].hash]
  BY DEF SaveHash
<1>a. /\ ChainedFor(call[t].hash, call[t].req)
      /\ call[t].hash \in DOMAIN entries /\ call[t].hash \in Nat /\ call[t].hash # Null
  BY <1>0 DEF Inv, Kept, Past, Calls, ChainedFor, Shapes, Null
<1> HIDE DEF c, p
<1>3. /\ call' \in [Threads -> Calls] /\ call'[t] = c
      /\ \A x \in Threads : x # t => call'[x] = call[x]
  BY <1>1, <1>2, BecomeIs DEF Inv
<1>b. /\ auditHash' \in [Paths -> Nat] /\ auditHash'[p] = call[t].hash
      /\ \A q \in Paths : q # p => auditHash'[q] = auditHash[q]
  BY <1>0, <1>2, <1>a DEF Inv, Shapes
<1>4. Shapes'
  BY <1>2, <1>3, <1>b DEF Inv, Shapes
<1>5. Chain'
  <2>1. Fresh'
    BY <1>1, <1>2, <1>3 DEF Inv, Chain, Fresh, At
  <2>2. HeadIsEntry' /\ ChainLinked'
    BY <1>2 DEF Inv, Chain, HeadIsEntry, ChainLinked
  <2> QED BY <2>1, <2>2 DEF Chain
<1>6. Owned'
  BY <1>0, <1>1, <1>2, <1>3 DEF Inv, Owned
<1>7. Kept'
  <2>1. Past'
    <3>1. \A x \in Threads : x # t /\ call[x].pc # "idle" /\ call[x].req \notin reopened =>
            call[x].req # call[t].req
      BY <1>0 DEF Inv, Owned
    <3>2. \A x \in Threads : x # t /\ call[x].pc = "fields" =>
            /\ auditHash'[call[x].path] # Null
            /\ call[x].req \notin reopened => auditHash'[call[x].path] = auditHash[call[x].path]
      BY <1>0, <1>a, <1>b, <3>1 DEF Inv, Kept, Past
    <3>3. objects[p] # Null /\ (call[t].req \notin reopened => objects[p] = call[t].hash)
      BY <1>0 DEF Inv, Kept, Past, p
    <3> QED BY <1>0, <1>1, <1>2, <1>3, <1>a, <1>b, <3>2, <3>3 DEF Inv, Kept, Past, ChainedFor
  <2>2. OnlyChainedLeaves'
    BY <1>2, <1>a, <1>b DEF Inv, Kept, OnlyChainedLeaves
  <2>3. Stored'
    BY <1>0, <1>2, <1>a, <1>b DEF Inv, Kept, Stored, ChainedFor
  <2>4. RecordedCertificateIsOwn'
    <3>1. \A r \in Requests : gcsPath[r] # NoPath =>
            /\ gcsPath[r] \in Paths
            /\ gcsPath[r] = p => r = call[t].req /\ r \in reopened
      BY <1>0 DEF Inv, Owned, Shapes
    <3> QED BY <1>2, <1>a, <1>b, <3>1 DEF Inv, Kept, RecordedCertificateIsOwn, ChainedFor
  <2> QED BY <2>1, <2>2, <2>3, <2>4 DEF Kept
<1> QED BY <1>4, <1>5, <1>6, <1>7 DEF Inv

LEMMA UpdateFieldsKeeps ==
    ASSUME Inv, NEW t \in Threads, UpdateFields(t)
    PROVE  Inv'
<1> DEFINE q == call[t].req
           p == call[t].path
<1>0. /\ call[t].pc = "fields" /\ q \in Requests /\ p \in Paths /\ p.req = q
      /\ ChainedFor(objects[p], q) /\ ChainedFor(auditHash[p], q)
      /\ q \notin reopened => auditHash[p] = objects[p]
  BY DEF Inv, Shapes, UpdateFields, At, Calls, Kept, Past, Stored
<1>1. NoCall \in Calls /\ NoCall.pc = "idle"
  BY <1>0, NoCallIs
<1>2. /\ UNCHANGED <<status, head, entries, store, attested, signed, day, reopened>>
      /\ Become(t, NoCall)
      /\ gcsPath' = [gcsPath EXCEPT ![q] = p]
  BY DEF UpdateFields
<1>3. /\ call' \in [Threads -> Calls] /\ call'[t] = NoCall
      /\ \A x \in Threads : x # t => call'[x] = call[x]
  BY <1>1, <1>2, BecomeIs DEF Inv
<1>4. /\ q \notin reopened => status[q] = CI
      /\ \A x \in Threads : x # t /\ call[x].pc # "idle" /\ call[x].req \notin reopened =>
           call[x].req # q
  BY <1>0 DEF Inv, Owned
<1> HIDE DEF q, p
<1>5. /\ gcsPath' \in [Requests -> Paths \cup {NoPath}] /\ gcsPath'[q] = p
      /\ \A r \in Requests : r # q => gcsPath'[r] = gcsPath[r]
  BY <1>0, <1>2 DEF Inv, Shapes
<1>6. Shapes'
  BY <1>2, <1>3, <1>5 DEF Inv, Shapes, store
<1>7. Chain'
  <2>1. Fresh'
    BY <1>1, <1>2, <1>3 DEF Inv, Chain, Fresh, At
  <2>2. HeadIsEntry' /\ ChainLinked'
    BY <1>2 DEF Inv, Chain, HeadIsEntry, ChainLinked
  <2> QED BY <2>1, <2>2 DEF Chain
<1>8. Owned'
  <2>1. \A x \in Threads : call'[x].pc # "idle" =>
          /\ x # t /\ call'[x] = call[x] /\ call[x].req \in Requests
          /\ call[x].req \notin reopened => call[x].req # q
    BY <1>1, <1>3, <1>4 DEF Inv, Shapes, Calls
  <2> QED BY <1>0, <1>2, <1>4, <1>5, <2>1 DEF Inv, Owned
<1>9. Kept'
  <2>1. Past'
    BY <1>1, <1>2, <1>3 DEF Inv, Kept, Past, ChainedFor, store
  <2>2. OnlyChainedLeaves'
    BY <1>2 DEF Inv, Kept, OnlyChainedLeaves, store
  <2>3. Stored'
    BY <1>2 DEF Inv, Kept, Stored, ChainedFor, store
  <2>4. RecordedCertificateIsOwn'
    BY <1>0, <1>2, <1>5 DEF Inv, Kept, RecordedCertificateIsOwn, ChainedFor, store
  <2> QED BY <2>1, <2>2, <2>3, <2>4 DEF Kept
<1> QED BY <1>6, <1>7, <1>8, <1>9 DEF Inv

LEMMA RollbackKeeps ==
    ASSUME Inv, NEW t \in Threads, Rollback(t)
    PROVE  Inv'
<1> DEFINE q == call[t].req
<1>0. call[t].pc = "rollback" /\ q \in Requests /\ (q \notin reopened => gcsPath[q] = NoPath)
  BY DEF Inv, Shapes, Rollback, At, Calls, Owned
<1>1. NoCall \in Calls /\ NoCall.pc = "idle"
  BY <1>0, NoCallIs
<1>2. /\ UNCHANGED <<gcsPath, head, entries, store, attested, signed, day, reopened>>
      /\ Become(t, NoCall)
      /\ status' = [status EXCEPT ![q] = CC]
  BY DEF Rollback
<1>3. /\ call' \in [Threads -> Calls] /\ call'[t] = NoCall
      /\ \A x \in Threads : x # t => call'[x] = call[x]
  BY <1>1, <1>2, BecomeIs DEF Inv
<1>4. \A x \in Threads : x # t /\ call[x].pc # "idle" /\ call[x].req \notin reopened =>
        call[x].req # q
  BY <1>0 DEF Inv, Owned
<1> HIDE DEF q
<1>5. /\ status' \in [Requests -> {CC, CI}]
      /\ \A r \in Requests : r # q => status'[r] = status[r]
  BY <1>0, <1>2 DEF Inv, Shapes
<1>6. Shapes'
  BY <1>2, <1>3, <1>5 DEF Inv, Shapes, store
<1>7. Chain'
  <2>1. Fresh'
    BY <1>1, <1>2, <1>3 DEF Inv, Chain, Fresh, At
  <2>2. HeadIsEntry' /\ ChainLinked'
    BY <1>2 DEF Inv, Chain, HeadIsEntry, ChainLinked
  <2> QED BY <2>1, <2>2 DEF Chain
<1>8. Owned'
  <2>1. \A x \in Threads : call'[x].pc # "idle" =>
          /\ x # t /\ call'[x] = call[x] /\ call[x].req \in Requests
          /\ call[x].req \notin reopened => call[x].req # q
    BY <1>1, <1>3, <1>4 DEF Inv, Shapes, Calls
  <2> QED BY <1>0, <1>2, <1>5, <2>1 DEF Inv, Owned
<1>9. Kept'
  <2>1. Past'
    BY <1>1, <1>2, <1>3 DEF Inv, Kept, Past, ChainedFor, store
  <2>2. Stored' /\ OnlyChainedLeaves' /\ RecordedCertificateIsOwn'
    BY <1>2 DEF Inv, Kept, Stored, OnlyChainedLeaves, RecordedCertificateIsOwn, ChainedFor, store
  <2> QED BY <2>1, <2>2 DEF Kept
<1> QED BY <1>6, <1>7, <1>8, <1>9 DEF Inv

\* What Owned says of a request it does not say of one that was moved back.
LEMMA CompleteAgainKeeps ==
    ASSUME Inv, NEW r \in Requests, CompleteAgain(r)
    PROVE  Inv'
<1>1. /\ UNCHANGED <<gcsPath, head, entries, store, attested, signed, day, call>>
      /\ status' = [status EXCEPT ![r] = CC] /\ reopened' = reopened \cup {r}
  BY DEF CompleteAgain
<1>2. /\ status' \in [Requests -> {CC, CI}]
      /\ \A q \in Requests : q \notin reopened' => q \notin reopened /\ status'[q] = status[q]
  BY <1>1 DEF Inv, Shapes
<1>3. Shapes'
  BY <1>1, <1>2 DEF Inv, Shapes, store
<1>4. Chain'
  BY <1>1 DEF Inv, Chain, Fresh, HeadIsEntry, ChainLinked, At
<1>5. Owned'
  <2>1. \A x \in Threads : call[x].req \in Requests
    BY DEF Inv, Shapes, Calls
  <2> QED BY <1>1, <1>2, <2>1 DEF Inv, Owned
<1>6. Past'
  <2>1. \A x \in Threads : call[x].req \notin reopened' => call[x].req \notin reopened
    BY <1>1
  <2> QED BY <1>1, <2>1 DEF Inv, Kept, Past, ChainedFor, store
<1>7. Stored' /\ OnlyChainedLeaves' /\ RecordedCertificateIsOwn'
  BY <1>1, <1>2 DEF Inv, Kept, Stored, OnlyChainedLeaves, RecordedCertificateIsOwn, ChainedFor, store
<1> QED BY <1>3, <1>4, <1>5, <1>6, <1>7 DEF Inv, Kept

LEMMA InvStep == Inv /\ [Next]_vars => Inv'
<1> SUFFICES ASSUME Inv, [Next]_vars PROVE Inv'
  OBVIOUS
<1>1. ASSUME NEW t \in Threads, ReadHead(t) PROVE Inv'
  <2> DEFINE c == [call[t] EXCEPT !.pc = "sign", !.current = head[Tenant(t)]]
  <2>1. call[t] \in Calls /\ call[t].pc = "head" /\ call[t].req \in Requests
    BY <1>1 DEF Inv, Shapes, Calls, ReadHead, At
  <2>2. head[Tenant(t)] \in Documents
    BY <2>1, CertificateChainAssumption DEF Inv, Shapes, Tenant
  <2>3. c \in Calls /\ c.pc = "sign" /\ c.req = call[t].req
    BY <2>1, <2>2 DEF Calls
  <2>4. Become(t, c) /\ UNCHANGED <<status, gcsPath, head, entries, store, attested, signed, day, reopened>>
    BY <1>1 DEF ReadHead
  <2> HIDE DEF c
  <2> QED BY <2>1, <2>3, <2>4, QuietStep
<1>2. ASSUME NEW t \in Threads, Contention(t) PROVE Inv'
  <2>1. call[t] \in Calls /\ call[t].pc = "commit"
    BY <1>2 DEF Inv, Shapes, Contention, At
  <2>2. /\ Become(t, AfterContention(call[t]))
        /\ UNCHANGED <<status, gcsPath, head, entries, store, attested, signed, day, reopened>>
    BY <1>2 DEF Contention
  <2> QED BY <2>1, <2>2, AfterContentionIs, QuietStep
<1>3. ASSUME NEW t \in Threads, IssueFails(t) PROVE Inv'
  <2> DEFINE c == [call[t] EXCEPT !.pc = "rollback"]
  <2>1. call[t] \in Calls /\ call[t].pc # "idle"
    BY <1>3 DEF Inv, Shapes, IssueFails, At
  <2>2. c \in Calls /\ c.pc = "rollback" /\ c.req = call[t].req
    BY <2>1 DEF Calls
  <2>3. Become(t, c) /\ UNCHANGED <<status, gcsPath, head, entries, store, attested, signed, day, reopened>>
    BY <1>3 DEF IssueFails
  <2> HIDE DEF c
  <2> QED BY <2>1, <2>2, <2>3, QuietStep
<1>4. ASSUME NEW t \in Threads, Abandoned(t) PROVE Inv'
  <2>1. NoCall \in Calls /\ NoCall.pc = "idle"
    BY CertificateChainAssumption, NoCallIs
  <2>2. Become(t, NoCall) /\ UNCHANGED <<status, gcsPath, head, entries, store, attested, signed, day, reopened>>
    BY <1>4 DEF Abandoned
  <2> QED BY <2>1, <2>2, QuietStep
<1>5. CASE NextDay
  <2>1. /\ UNCHANGED <<status, gcsPath, head, entries, store, attested, signed, call, reopened>>
        /\ day' \in 1..MaxDay
    BY <1>5, CertificateChainAssumption DEF NextDay, Inv, Shapes
  <2>2. Shapes'
    BY <2>1 DEF Inv, Shapes, store
  <2>3. Chain' /\ Owned'
    BY <2>1 DEF Inv, Chain, Owned, Fresh, HeadIsEntry, ChainLinked, At
  <2>4. Kept'
    BY <2>1 DEF Inv, Kept, Past, Stored, OnlyChainedLeaves, RecordedCertificateIsOwn, ChainedFor, store
  <2> QED BY <2>2, <2>3, <2>4 DEF Inv
<1>6. CASE UNCHANGED vars
  <2>1. UNCHANGED <<status, gcsPath, head, entries, store, attested, signed, call, day, reopened>>
    BY <1>6 DEF vars
  <2>2. Shapes'
    BY <2>1 DEF Inv, Shapes, store
  <2>3. Chain' /\ Owned'
    BY <2>1 DEF Inv, Chain, Owned, Fresh, HeadIsEntry, ChainLinked, At
  <2>4. Kept'
    BY <2>1 DEF Inv, Kept, Past, Stored, OnlyChainedLeaves, RecordedCertificateIsOwn, ChainedFor, store
  <2> QED BY <2>2, <2>3, <2>4 DEF Inv
<1> QED BY <1>1, <1>2, <1>3, <1>4, <1>5, <1>6, ClaimKeeps, SignKeeps, CommitKeeps, AttestKeeps,
           SaveCertificateKeeps, SaveHashKeeps, UpdateFieldsKeeps, RollbackKeeps, CompleteAgainKeeps DEF Next

LEMMA InvAlways == Spec => []Inv
  BY InvInit, InvStep, PTL DEF Spec

-----------------------------------------------------------------------------
(* The theorems *)

\* Two appends of one tenant never share a slot, and every certificate names the
\* one before it: the transaction of appendToChain commits onto the head it read.
THEOREM ChainLinkedHolds == Spec => []ChainLinked
<1>1. Inv => ChainLinked
  BY DEF Inv, Chain
<1> QED BY <1>1, InvAlways, PTL

\* Nothing that issueAndStoreCertificate uploads, timestamps or publishes is the
\* certificate of an attempt that lost.
THEOREM OnlyChainedLeavesHolds == Spec => []OnlyChainedLeaves
<1>1. Inv => OnlyChainedLeaves
  BY DEF Inv, Kept
<1> QED BY <1>1, InvAlways, PTL

\* certificate_gcs_path leads to a chained certificate of the request it is
\* recorded on, with an audit hash of the request beside it: its own, unless a
\* CASCADE_COMPLETE write let the certificate be issued again.
THEOREM RecordedCertificateIsOwnHolds == Spec => []RecordedCertificateIsOwn
<1>1. Inv => RecordedCertificateIsOwn
  BY DEF Inv, Kept
<1> QED BY <1>1, InvAlways, PTL

\* The writers of objects, paths and statuses all work for a request without a
\* path or for one that was moved back, so none of them touches what a request
\* that was not is served.
LEMMA ServedStays ==
    ASSUME Inv, [Next]_vars, NEW r \in Requests, getCertificateForUser(r) # Null, r \notin reopened'
    PROVE  status'[r] = status[r] /\ gcsPath'[r] = gcsPath[r] /\ objects'[gcsPath[r]] = objects[gcsPath[r]]
<1>0. r \notin reopened
  BY DEF Next, Claim, ReadHead, SignClaims, Contention, Commit, Attest, SaveCertificate, SaveHash,
         UpdateFields, IssueFails, Rollback, Abandoned, CompleteAgain, NextDay, vars
<1>1. /\ gcsPath[r] # NoPath /\ gcsPath[r] \in Paths /\ gcsPath[r].req = r
      /\ status[r] = CI /\ CI # CC
  BY <1>0 DEF getCertificateForUser, Inv, Shapes, Owned, CC, CI
<1>2. \A t \in Threads : call[t].pc # "idle" => call[t].req # r /\ call[t].req \in Requests
  BY <1>0, <1>1 DEF Inv, Owned, Shapes, Calls
<1>3. /\ status \in [Requests -> {CC, CI}] /\ gcsPath \in [Requests -> Paths \cup {NoPath}]
      /\ objects \in [Paths -> Nat] /\ day \in 1..MaxDay
  BY DEF Inv, Shapes
<1>4. ASSUME NEW t \in Threads, NEW q \in Requests, Claim(t, q)
      PROVE  status'[r] = status[r] /\ UNCHANGED <<gcsPath, objects>>
  BY <1>1, <1>3, <1>4 DEF Claim, Claimable, store
<1>5. ASSUME NEW t \in Threads, SaveCertificate(t)
      PROVE  objects'[gcsPath[r]] = objects[gcsPath[r]] /\ UNCHANGED <<status, gcsPath>>
  <2>1. call[t].req # r /\ CertPath(call[t].req, day) # gcsPath[r]
    BY <1>1, <1>2, <1>5 DEF SaveCertificate, At, CertPath, Paths
  <2> QED BY <1>1, <1>3, <1>5, <2>1 DEF SaveCertificate
<1>6. ASSUME NEW t \in Threads, UpdateFields(t)
      PROVE  gcsPath'[r] = gcsPath[r] /\ UNCHANGED <<status, objects>>
  BY <1>2, <1>3, <1>6 DEF UpdateFields, At, store
<1>7. ASSUME NEW t \in Threads, Rollback(t)
      PROVE  status'[r] = status[r] /\ UNCHANGED <<gcsPath, objects>>
  BY <1>2, <1>3, <1>7 DEF Rollback, At, store
<1>8. ASSUME NEW t \in Threads,
             \/ ReadHead(t) \/ SignClaims(t) \/ Contention(t)
             \/ \E answered \in BOOLEAN : Commit(t, answered)
             \/ \E reached \in BOOLEAN : Attest(t, reached)
             \/ SaveHash(t) \/ IssueFails(t) \/ Abandoned(t)
      PROVE  UNCHANGED <<status, gcsPath, objects>>
  BY <1>8 DEF ReadHead, SignClaims, Contention, Commit, Attest, SaveHash, IssueFails, Abandoned, store
<1>9. ASSUME NEW q \in Requests, CompleteAgain(q)
      PROVE  status'[r] = status[r] /\ UNCHANGED <<gcsPath, objects>>
  BY <1>3, <1>9 DEF CompleteAgain, store
<1>10. CASE NextDay
  BY <1>10 DEF NextDay, store
<1>11. CASE UNCHANGED vars
  BY <1>11 DEF vars, store
<1> QED BY <1>4, <1>5, <1>6, <1>7, <1>8, <1>9, <1>10, <1>11 DEF Next

\* GET /certificate/:userId: the stored certificate, once served, is the one
\* served ever after, unless a CASCADE_COMPLETE write moves its request back.
THEOREM ServedCertificateStableHolds == Spec => ServedCertificateStable
<1>1. Inv /\ [Next]_vars =>
        [\A r \in Requests : getCertificateForUser(r) # Null /\ r \notin reopened' =>
            getCertificateForUser(r)' = getCertificateForUser(r)]_vars
  <2> SUFFICES ASSUME Inv, [Next]_vars, NEW r \in Requests, getCertificateForUser(r) # Null,
                      r \notin reopened'
               PROVE  getCertificateForUser(r)' = getCertificateForUser(r)
    OBVIOUS
  <2>1. status'[r] = status[r] /\ gcsPath'[r] = gcsPath[r] /\ objects'[gcsPath[r]] = objects[gcsPath[r]]
    BY ServedStays
  <2> QED BY <2>1 DEF getCertificateForUser, Null
<1> QED BY <1>1, InvAlways, PTL DEF Spec, ServedCertificateStable

-----------------------------------------------------------------------------
(* Type correctness *)

\* A hash is signed after the head it will follow was read, so the hashes of a
\* tenant's chain increase, and a chain is never longer than its last hash.
HashBounds(c) ==
    /\ c.current.sequence <= c.current.last_hash
    /\ c.current.last_hash <= signed
    /\ c.hash <= signed
    /\ c.pc = "commit" => c.current.last_hash < c.hash

Bounds ==
    /\ signed <= MaxSigned
    /\ \A tenant \in Tenants :
         head[tenant].sequence <= head[tenant].last_hash /\ head[tenant].last_hash <= signed
    /\ \A h \in DOMAIN entries :
         /\ entries[h].sequence \in 1..h
         /\ entries[h].previous < h
    /\ \A t \in Threads : HashBounds(call[t])
    /\ attested \subseteq [service: {"tsa", "rekor"}, hash: DOMAIN entries]
    /\ issues \in 0..MaxIssues

\* The hashes that executions hold stay bounded when one of them moves.
LEMMA CallBounds ==
    ASSUME Inv, Bounds, NEW t \in Threads, NEW c \in Calls, Become(t, c),
           signed' \in Nat, signed <= signed',
           c.current.sequence <= c.current.last_hash,
           c.current.last_hash <= signed', c.hash <= signed',
           c.pc = "commit" => c.current.last_hash < c.hash
    PROVE  \A x \in Threads : HashBounds(call[x])'
<1>1. /\ call'[t] = c
      /\ \A x \in Threads : x # t => call'[x] = call[x]
  BY BecomeIs DEF Inv
<1> TAKE x \in Threads
<1>2. CASE x = t
  BY <1>1, <1>2 DEF HashBounds
<1>3. CASE x # t
  <2>1. call'[x] = call[x] /\ HashBounds(call[x])
    BY <1>1, <1>3 DEF Bounds
  <2>2. call[x].current.last_hash \in Nat /\ call[x].hash \in Nat /\ signed \in Nat
    BY DEF Inv, Shapes, Calls, Documents
  <2> QED BY <2>1, <2>2 DEF HashBounds
<1> QED BY <1>2, <1>3

\* A step that signs nothing, commits nothing and keeps or forgets what its
\* execution holds.
LEMMA PlainBounds ==
    ASSUME Inv, Bounds, NEW t \in Threads, NEW c \in Calls, Become(t, c), c.pc # "commit",
           \/ c.current = call[t].current /\ c.hash = call[t].hash
           \/ c.current = NoHead /\ c.hash = Null
           \/ c.current = head[Tenant(t)] /\ c.hash = call[t].hash,
           call[t].req \in Requests,
           UNCHANGED <<head, entries, signed>>,
           attested' \subseteq [service: {"tsa", "rekor"}, hash: DOMAIN entries],
           issues' \in 0..MaxIssues
    PROVE  Bounds'
<1>1. Tenant(t) \in Tenants /\ signed \in Nat
  BY CertificateChainAssumption DEF Tenant, Inv, Shapes
<1>2. /\ c.current.sequence <= c.current.last_hash
      /\ c.current.last_hash <= signed /\ c.hash <= signed
  <2>1. HashBounds(call[t])
    BY DEF Bounds
  <2>2. NoHead.sequence = 0 /\ NoHead.last_hash = 0 /\ Null = 0
    BY DEF NoHead, Null
  <2> QED BY <1>1, <2>1, <2>2 DEF HashBounds, Bounds
<1>3. \A x \in Threads : HashBounds(call[x])'
  BY <1>1, <1>2, CallBounds
<1> QED BY <1>3 DEF Bounds

LEMMA SignBounds ==
    ASSUME Inv, Bounds, NEW t \in Threads, SignClaims(t)
    PROVE  Bounds'
<1> DEFINE c == [call[t] EXCEPT !.pc = "commit", !.hash = signed + 1]
<1>1. call[t] \in Calls /\ signed \in Nat /\ signed < MaxSigned /\ signed' = signed + 1
  BY DEF Inv, Shapes, SignClaims
<1>2. c \in Calls /\ c.current = call[t].current /\ c.hash = signed + 1
  <2>1. signed + 1 \in Nat
    BY <1>1
  <2> QED BY <1>1, <2>1 DEF Calls
<1>3. c.current.sequence <= c.current.last_hash /\ c.current.last_hash < c.hash
      /\ c.current.last_hash <= signed' /\ c.hash <= signed'
  <2>1. HashBounds(call[t]) /\ call[t].current.last_hash \in Nat
    BY <1>1 DEF Bounds, Calls, Documents
  <2> HIDE DEF c
  <2> QED BY <1>1, <1>2, <2>1 DEF HashBounds
<1>4. Become(t, c) /\ UNCHANGED <<head, entries, attested, issues>>
  BY DEF SignClaims
<1> HIDE DEF c
<1>5. \A x \in Threads : HashBounds(call[x])'
  BY <1>1, <1>2, <1>3, <1>4, CallBounds
<1>6. signed' <= MaxSigned
  BY <1>1, CertificateChainAssumption
<1>7. \A tenant \in Tenants :
        head'[tenant].sequence <= head'[tenant].last_hash /\ head'[tenant].last_hash <= signed'
  BY <1>1, <1>4 DEF Bounds, Inv, Shapes, Documents
<1> QED BY <1>4, <1>5, <1>6, <1>7 DEF Bounds

LEMMA CommitBounds ==
    ASSUME Inv, Bounds, NEW t \in Threads, NEW answered \in BOOLEAN, Commit(t, answered)
    PROVE  Bounds'
<1> DEFINE c == call[t]
           T == TenantOf[c.req]
           d == IF answered THEN [c EXCEPT !.pc = "attest", !.next = 1] ELSE AfterContention(c)
<1>1. /\ c \in Calls /\ c.req \in Requests /\ T \in Tenants /\ c.pc = "commit"
      /\ c.current = head[T] /\ c.current \in Documents
  BY CertificateChainAssumption DEF Inv, Shapes, Calls, Commit, HeadUnchanged, At
<1>2. d \in Calls /\ d.current = c.current /\ d.hash = c.hash /\ d.pc # "commit"
  <2>1. AfterContention(c) \in Calls /\ AfterContention(c).pc \in {"head", "rollback"}
    BY <1>1, AfterContentionIs
  <2>2. AfterContention(c).current = c.current /\ AfterContention(c).hash = c.hash
    BY <1>1 DEF AfterContention, Calls
  <2> QED BY <1>1, <2>1, <2>2 DEF Calls
<1>3. /\ head[T].sequence \in Nat /\ head[T].last_hash \in Nat /\ c.hash \in Nat /\ signed \in Nat
      /\ head[T].sequence <= head[T].last_hash
      /\ head[T].last_hash < c.hash /\ c.hash <= signed /\ head[T].last_hash <= signed
  BY <1>1 DEF Bounds, HashBounds, Calls, Documents, Inv, Shapes
<1>4. /\ head' = [head EXCEPT ![T] = [sequence |-> head[T].sequence + 1, last_hash |-> c.hash]]
      /\ entries' = [h \in DOMAIN entries \cup {c.hash} |->
                       IF h = c.hash
                       THEN [tenant |-> T, sequence |-> head[T].sequence + 1,
                             previous |-> head[T].last_hash, req |-> c.req]
                       ELSE entries[h]]
  BY <1>1 DEF Commit, Tenant, NextSequence
<1>5. Become(t, d) /\ UNCHANGED <<attested, signed, issues>>
  BY DEF Commit
<1> HIDE DEF d
<1>6. \A x \in Threads : HashBounds(call[x])'
  BY <1>1, <1>2, <1>3, <1>5, CallBounds
<1>7. \A tenant \in Tenants :
        head'[tenant].sequence <= head'[tenant].last_hash /\ head'[tenant].last_hash <= signed'
  <2> TAKE tenant \in Tenants
  <2>1. CASE tenant = T
    <3>1. head'[tenant].sequence = head[T].sequence + 1 /\ head'[tenant].last_hash = c.hash
      BY <1>1, <1>4, <2>1 DEF Inv, Shapes
    <3> QED BY <1>3, <1>5, <3>1
  <2>2. CASE tenant # T
    <3>1. head'[tenant] = head[tenant]
      BY <1>4, <2>2 DEF Inv, Shapes
    <3> QED BY <1>5, <3>1 DEF Bounds
  <2> QED BY <2>1, <2>2
<1>8. \A h \in DOMAIN entries' : entries'[h].sequence \in 1..h /\ entries'[h].previous < h
  <2> TAKE h \in DOMAIN entries'
  <2>1. CASE h = c.hash
    <3>1. entries'[h].sequence = head[T].sequence + 1 /\ entries'[h].previous = head[T].last_hash
      BY <1>4, <2>1
    <3> QED BY <1>3, <2>1, <3>1
  <2>2. CASE h # c.hash
    <3>1. h \in DOMAIN entries /\ entries'[h] = entries[h]
      BY <1>4, <2>2
    <3> QED BY <3>1 DEF Bounds
  <2> QED BY <2>1, <2>2
<1>9. attested' \subseteq [service: {"tsa", "rekor"}, hash: DOMAIN entries']
  BY <1>4, <1>5 DEF Bounds
<1> QED BY <1>5, <1>6, <1>7, <1>8, <1>9 DEF Bounds

LEMMA AttestBounds ==
    ASSUME Inv, Bounds, NEW t \in Threads, NEW reached \in BOOLEAN, Attest(t, reached)
    PROVE  Bounds'
<1> DEFINE c == [call[t] EXCEPT !.next = @ + 1]
<1>1. call[t] \in Calls /\ call[t].pc = "attest" /\ call[t].next + 1 \in Nat
  BY DEF Inv, Shapes, Calls, Attest, At
<1>2. c \in Calls /\ c.pc # "commit" /\ c.current = call[t].current /\ c.hash = call[t].hash
  BY <1>1 DEF Calls
<1>3. Become(t, c) /\ UNCHANGED <<head, entries, signed, issues>>
  BY DEF Attest
<1> HIDE DEF c
<1>4. call[t].hash \in DOMAIN entries /\ call[t].req \in Requests
  BY <1>1 DEF Inv, Kept, Past, ChainedFor, Calls
<1>5. Services[call[t].next] \in {"tsa", "rekor"}
  <2>1. call[t].next \in DOMAIN Services
    BY DEF Attest
  <2> QED BY <2>1, CertificateChainAssumption
<1>6. attested' \subseteq [service: {"tsa", "rekor"}, hash: DOMAIN entries]
  BY <1>4, <1>5 DEF Attest, Bounds
<1>7. issues' \in 0..MaxIssues
  BY <1>3 DEF Bounds
<1> QED BY <1>2, <1>3, <1>4, <1>6, <1>7, PlainBounds

LEMMA BoundsStep == Inv /\ Bounds /\ [Next]_vars => Bounds'
<1> SUFFICES ASSUME Inv, Bounds, [Next]_vars PROVE Bounds'
  OBVIOUS
<1>1. NoCall \in Calls /\ NoCall.pc = "idle" /\ NoCall.current = NoHead /\ NoCall.hash = Null
  BY CertificateChainAssumption, NoCallIs DEF NoCall
<1>2. /\ attested \subseteq [service: {"tsa", "rekor"}, hash: DOMAIN entries]
      /\ issues \in 0..MaxIssues
      /\ \A t \in Threads : call[t] \in Calls /\ call[t].req \in Requests
  BY DEF Inv, Bounds, Shapes, Calls
<1>3. ASSUME NEW t \in Threads, NEW r \in Requests, Claim(t, r) PROVE Bounds'
  <2> DEFINE c == [NoCall EXCEPT !.pc = "head", !.req = r, !.attempt = 1]
  <2>1. c \in Calls /\ c.pc = "head" /\ c.current = NoHead /\ c.hash = Null
    BY <1>1 DEF Calls
  <2>2. Become(t, c) /\ UNCHANGED <<head, entries, signed, attested>>
    BY <1>3 DEF Claim
  <2> HIDE DEF c
  <2>3. issues' \in 0..MaxIssues
    BY <1>2, <1>3, CertificateChainAssumption DEF Claim
  <2> QED BY <1>2, <2>1, <2>2, <2>3, PlainBounds
<1>4. ASSUME NEW t \in Threads, ReadHead(t) PROVE Bounds'
  <2> DEFINE c == [call[t] EXCEPT !.pc = "sign", !.current = head[Tenant(t)]]
  <2>1. head[Tenant(t)] \in Documents
    BY <1>2, CertificateChainAssumption DEF Inv, Shapes, Tenant
  <2>2. c \in Calls /\ c.pc = "sign" /\ c.current = head[Tenant(t)] /\ c.hash = call[t].hash
    BY <1>2, <2>1 DEF Calls
  <2>3. Become(t, c) /\ UNCHANGED <<head, entries, signed, attested, issues>>
    BY <1>4 DEF ReadHead
  <2> HIDE DEF c
  <2> QED BY <1>2, <2>2, <2>3, PlainBounds
<1>5. ASSUME NEW t \in Threads, NEW c \in Calls, Become(t, c), c.pc # "commit",
             \/ c.current = call[t].current /\ c.hash = call[t].hash
             \/ c.current = NoHead /\ c.hash = Null,
             UNCHANGED <<head, entries, signed, attested, issues>>
      PROVE  Bounds'
  BY <1>2, <1>5, PlainBounds
<1>6. ASSUME NEW t \in Threads, Contention(t) PROVE Bounds'
  <2> DEFINE c == AfterContention(call[t])
  <2>1. c \in Calls /\ c.pc \in {"head", "rollback"}
    BY <1>2, AfterContentionIs
  <2>2. c.current = call[t].current /\ c.hash = call[t].hash
    BY <1>2 DEF AfterContention, Calls
  <2>3. Become(t, c) /\ UNCHANGED <<head, entries, signed, attested, issues>>
    BY <1>6 DEF Contention
  <2> HIDE DEF c
  <2> QED BY <1>5, <2>1, <2>2, <2>3
<1>7. ASSUME NEW t \in Threads, SaveCertificate(t) PROVE Bounds'
  <2> DEFINE c == [call[t] EXCEPT !.pc = "savehash", !.path = CertPath(call[t].req, day)]
  <2>1. CertPath(call[t].req, day) \in Paths
    BY <1>2 DEF CertPath, Paths, Inv, Shapes
  <2>2. c \in Calls /\ c.pc # "commit" /\ c.current = call[t].current /\ c.hash = call[t].hash
    BY <1>2, <2>1 DEF Calls
  <2>3. Become(t, c) /\ UNCHANGED <<head, entries, signed, attested, issues>>
    BY <1>7 DEF SaveCertificate
  <2> HIDE DEF c
  <2> QED BY <1>5, <2>2, <2>3
<1>8. ASSUME NEW t \in Threads, SaveHash(t) \/ IssueFails(t) PROVE Bounds'
  <2>1. PICK p \in {"fields", "rollback"} : Become(t, [call[t] EXCEPT !.pc = p])
    BY <1>8 DEF SaveHash, IssueFails
  <2> DEFINE c == [call[t] EXCEPT !.pc = p]
  <2>2. c \in Calls /\ c.pc # "commit" /\ c.current = call[t].current /\ c.hash = call[t].hash
    BY <1>2, <2>1 DEF Calls
  <2>3. Become(t, c) /\ UNCHANGED <<head, entries, signed, attested, issues>>
    BY <1>8, <2>1 DEF SaveHash, IssueFails, store
  <2> HIDE DEF c
  <2> QED BY <1>5, <2>2, <2>3
<1>9. ASSUME NEW t \in Threads, UpdateFields(t) \/ Rollback(t) \/ Abandoned(t) PROVE Bounds'
  <2>1. Become(t, NoCall) /\ UNCHANGED <<head, entries, signed, attested, issues>>
    BY <1>9 DEF UpdateFields, Rollback, Abandoned
  <2> QED BY <1>1, <1>5, <2>1
<1>10. CASE (\E r \in Requests : CompleteAgain(r)) \/ NextDay \/ UNCHANGED vars
  <2>1. UNCHANGED <<head, entries, signed, attested, issues, call>>
    BY <1>10 DEF CompleteAgain, NextDay, vars
  <2> QED BY <2>1 DEF Bounds, HashBounds
<1> QED BY <1>3, <1>4, <1>6, <1>7, <1>8, <1>9, <1>10, SignBounds, CommitBounds, AttestBounds DEF Next

LEMMA BoundsInit == Init => Bounds
<1> SUFFICES ASSUME Init PROVE Bounds
  OBVIOUS
<1>1. NoHead.sequence = 0 /\ NoHead.last_hash = 0
  BY DEF NoHead, Null
<1>2. \A t \in Threads : HashBounds(call[t])
  <2>1. NoCall.pc # "commit" /\ NoCall.current = NoHead /\ NoCall.hash = 0
    BY DEF NoCall, Null
  <2>2. HashBounds(NoCall)
    <3>1. NoCall.current.sequence = 0 /\ NoCall.current.last_hash = 0
      BY <1>1, <2>1
    <3> QED BY <2>1, <3>1 DEF Init, HashBounds
  <2> QED BY <2>2 DEF Init
<1> QED BY <1>1, <1>2, CertificateChainAssumption DEF Init, Bounds

LEMMA BoundsAlways == Spec => [](Inv /\ Bounds)
<1>1. Init => Inv /\ Bounds
  BY InvInit, BoundsInit
<1>2. Inv /\ Bounds /\ [Next]_vars => (Inv /\ Bounds)'
  BY InvStep, BoundsStep
<1> QED BY <1>1, <1>2, PTL DEF Spec

\* Every document, object and execution keeps its shape: in particular sequence
\* numbers stay within the hashes signed.
THEOREM ChainTypeCorrect == Spec => []TypeOK
<1>1. Inv /\ Bounds => TypeOK
  <2> SUFFICES ASSUME Inv, Bounds PROVE TypeOK
    OBVIOUS
  <2>1. signed \in Nat /\ signed <= MaxSigned /\ MaxSigned \in Nat
    BY CertificateChainAssumption DEF Inv, Shapes, Bounds
  <2>2. \A h \in DOMAIN entries : h \in Nat \ {0} /\ h <= signed
    BY DEF Inv, Shapes, Chain, Fresh
  <2>3. DOMAIN entries \subseteq Hashes /\ signed \in Hashes \cup {0}
    BY <2>1, <2>2 DEF Hashes
  <2>4. head \in [Tenants -> [sequence: Hashes \cup {0}, last_hash: Hashes \cup {Null}]]
    <3>1. ASSUME NEW u \in Tenants
          PROVE  head[u] \in [sequence: Hashes \cup {0}, last_hash: Hashes \cup {Null}]
      <4>1. head[u] \in Documents /\ head[u].sequence <= head[u].last_hash /\ head[u].last_hash <= signed
        BY DEF Inv, Shapes, Bounds
      <4>2. head[u].sequence \in Hashes \cup {0} /\ head[u].last_hash \in Hashes \cup {Null}
        BY <2>1, <4>1 DEF Documents, Hashes, Null
      <4> QED BY <4>1, <4>2 DEF Documents
    <3> QED BY <3>1 DEF Inv, Shapes
  <2>5. entries \in [DOMAIN entries -> Entry]
    <3>1. ASSUME NEW h \in DOMAIN entries PROVE entries[h] \in Entry
      <4>1. /\ entries[h] \in [tenant: Tenants, sequence: Nat, previous: Nat, req: Requests]
            /\ entries[h].sequence \in 1..h /\ entries[h].previous < h
        BY DEF Inv, Shapes, Bounds
      <4>2. entries[h].sequence \in Hashes /\ entries[h].previous \in Hashes \cup {Null}
        BY <2>1, <2>2, <4>1 DEF Hashes, Null
      <4> QED BY <4>1, <4>2 DEF Entry
    <3> QED BY <3>1 DEF Inv, Shapes
  <2>6. objects \in [Paths -> Hashes \cup {Null}] /\ auditHash \in [Paths -> Hashes \cup {Null}]
    BY <2>3 DEF Inv, Shapes, Kept, OnlyChainedLeaves
  <2>7. attested \subseteq [service: {"tsa", "rekor"}, hash: Hashes] /\ issues \in 0..MaxIssues
    BY <2>3 DEF Bounds
  <2> QED BY <2>3, <2>4, <2>5, <2>6, <2>7 DEF TypeOK, Inv, Shapes
<1> QED BY <1>1, BoundsAlways, PTL
-----------------------------------------------------------------------------
(* The chain implements the log *)

\* The slot of a chain names the one certificate that has it.
LEMMA SlotIs ==
    ASSUME NEW E, NEW u, NEW n, NEW h \in DOMAIN E, E[h].tenant = u, E[h].sequence = n,
           \A k \in DOMAIN E : E[k].tenant = u /\ E[k].sequence = n => k = h
    PROVE  (CHOOSE k \in DOMAIN E : E[k].tenant = u /\ E[k].sequence = n) = h
  OBVIOUS

\* A slot of a linked chain is taken by one certificate, which chainOf finds.
LEMMA SlotTaken ==
    ASSUME Inv, NEW u \in Tenants, NEW n \in 1..head[u].sequence
    PROVE  /\ chainOf(u)[n] \in DOMAIN entries
           /\ entries[chainOf(u)[n]].tenant = u /\ entries[chainOf(u)[n]].sequence = n
           /\ \A k \in DOMAIN entries :
                entries[k].tenant = u /\ entries[k].sequence = n => k = chainOf(u)[n]
<1>1. PICK h \in DOMAIN entries :
        /\ entries[h].tenant = u /\ entries[h].sequence = n
        /\ \A k \in DOMAIN entries : entries[k].tenant = u /\ entries[k].sequence = n => k = h
  BY DEF Inv, Chain, ChainLinked
<1>2. chainOf(u)[n] = h
  BY <1>1, SlotIs DEF chainOf
<1> QED BY <1>1, <1>2

LEMMA ChainOfIs ==
    ASSUME Inv, NEW u \in Tenants
    PROVE  /\ head[u].sequence \in Nat
           /\ chainOf(u) \in Seq(DOMAIN entries) /\ Len(chainOf(u)) = head[u].sequence
           /\ DOMAIN chainOf(u) = 1..head[u].sequence
<1>1. head[u].sequence \in Nat
  BY DEF Inv, Shapes, Documents
<1>2. DOMAIN chainOf(u) = 1..head[u].sequence
  BY DEF chainOf
<1>3. chainOf(u) \in [1..head[u].sequence -> DOMAIN entries]
  BY SlotTaken DEF chainOf
<1> QED BY <1>1, <1>2, <1>3, IsASeq

\* A commit appends its fresh hash to the log of its own tenant and leaves the
\* logs of the others alone.
LEMMA CommitExtends ==
    ASSUME Inv, Bounds, Inv', NEW t \in Threads, NEW answered \in BOOLEAN, Commit(t, answered)
    PROVE  \E tenant \in Tenants, certificate \in Hashes : Log!Extend(tenant, certificate)
<1>1. PICK c : c = call[t]
  OBVIOUS
<1>2. PICK T : T = TenantOf[c.req]
  OBVIOUS
<1>3. /\ c \in Calls /\ c.req \in Requests /\ T \in Tenants /\ c.pc = "commit"
      /\ c.current = head[T]
  BY <1>1, <1>2, CertificateChainAssumption DEF Inv, Shapes, Calls, Commit, HeadUnchanged, At
<1>4. PICK g : g = c.hash
  OBVIOUS
<1>5. /\ g \in Nat \ {0} /\ g \notin DOMAIN entries /\ g <= signed
      /\ g \in Hashes
  <2>1. g \in 1..signed /\ g \notin DOMAIN entries
    BY <1>1, <1>3, <1>4 DEF Inv, Chain, Fresh, At
  <2>2. signed \in Nat /\ signed <= MaxSigned /\ MaxSigned \in Nat
    BY CertificateChainAssumption DEF Inv, Shapes, Bounds
  <2> QED BY <2>1, <2>2 DEF Hashes
<1>6. PICK n \in Nat : n = head[T].sequence
  BY <1>3 DEF Inv, Shapes, Documents
<1>7. /\ head' = [head EXCEPT ![T] = [sequence |-> n + 1, last_hash |-> g]]
      /\ entries' = [h \in DOMAIN entries \cup {g} |->
                       IF h = g
                       THEN [tenant |-> T, sequence |-> n + 1, previous |-> head[T].last_hash, req |-> c.req]
                       ELSE entries[h]]
  BY <1>1, <1>2, <1>3, <1>4, <1>6 DEF Commit, Tenant, NextSequence
<1>8. /\ DOMAIN entries' = DOMAIN entries \cup {g}
      /\ entries'[g].tenant = T /\ entries'[g].sequence = n + 1
      /\ \A h \in DOMAIN entries : entries'[h] = entries[h]
      /\ head'[T].sequence = n + 1
      /\ \A u \in Tenants : u # T => head'[u] = head[u]
  BY <1>3, <1>5, <1>7 DEF Inv, Shapes
<1>9. ASSUME NEW u \in Tenants, NEW i \in 1..head[u].sequence
      PROVE  (CHOOSE k \in DOMAIN entries' : entries'[k].tenant = u /\ entries'[k].sequence = i)
               = chainOf(u)[i]
  <2>1. PICK h \in DOMAIN entries :
          /\ h = chainOf(u)[i] /\ entries[h].tenant = u /\ entries[h].sequence = i
          /\ \A k \in DOMAIN entries : entries[k].tenant = u /\ entries[k].sequence = i => k = h
    BY <1>9, SlotTaken
  <2>2. u = T => i # n + 1
    BY <1>6, <1>9
  <2>3. \A k \in DOMAIN entries' : entries'[k].tenant = u /\ entries'[k].sequence = i => k = h
    BY <1>8, <2>1, <2>2
  <2>4. h \in DOMAIN entries' /\ entries'[h].tenant = u /\ entries'[h].sequence = i
    BY <1>8, <2>1
  <2>5. PICK E : E = entries'
    OBVIOUS
  <2>6. (CHOOSE k \in DOMAIN E : E[k].tenant = u /\ E[k].sequence = i) = h
    BY <2>3, <2>4, <2>5, SlotIs
  <2> QED BY <2>1, <2>5, <2>6
<1>10. (CHOOSE k \in DOMAIN entries' : entries'[k].tenant = T /\ entries'[k].sequence = n + 1) = g
  <2>1. \A k \in DOMAIN entries : entries[k].tenant = T => entries[k].sequence # n + 1
    <3> TAKE k \in DOMAIN entries
    <3>1. entries[k].tenant = T => entries[k].sequence <= n
      BY <1>3, <1>6 DEF Inv, Chain, ChainLinked
    <3> QED BY <3>1
  <2>2. \A k \in DOMAIN entries' : entries'[k].tenant = T /\ entries'[k].sequence = n + 1 => k = g
    BY <1>8, <2>1
  <2>3. PICK E : E = entries'
    OBVIOUS
  <2>4. (CHOOSE k \in DOMAIN E : E[k].tenant = T /\ E[k].sequence = n + 1) = g
    BY <1>8, <2>2, <2>3, SlotIs
  <2> QED BY <2>3, <2>4
<1> DEFINE next(u) == [i \in 1..head'[u].sequence |->
                        CHOOSE k \in DOMAIN entries' : entries'[k].tenant = u /\ entries'[k].sequence = i]
<1>11. \A u \in Tenants : u # T => next(u) = chainOf(u)
  <2> SUFFICES ASSUME NEW u \in Tenants, u # T PROVE next(u) = chainOf(u)
    OBVIOUS
  <2>1. head'[u].sequence = head[u].sequence
    BY <1>8
  <2>2. DOMAIN chainOf(u) = 1..head[u].sequence /\ chainOf(u) = [i \in DOMAIN chainOf(u) |-> chainOf(u)[i]]
    BY DEF chainOf
  <2>3. \A i \in 1..head[u].sequence : next(u)[i] = chainOf(u)[i]
    BY <1>9, <2>1
  <2> QED BY <2>1, <2>2, <2>3
<1>12. next(T) = Append(chainOf(T), g)
  <2>1. /\ chainOf(T) \in Seq(Nat) /\ Len(chainOf(T)) = n
    <3>1. DOMAIN entries \subseteq Nat
      BY DEF Inv, Shapes
    <3> QED BY <1>3, <1>6, <3>1, ChainOfIs, SeqMonotonic
  <2> DEFINE s == chainOf(T)
  <2> HIDE DEF s
  <2>2. /\ Append(s, g) \in Seq(Nat) /\ Len(Append(s, g)) = n + 1
        /\ \A i \in 1..n : Append(s, g)[i] = s[i]
        /\ Append(s, g)[n + 1] = g
    BY <1>5, <2>1, AppendProperties DEF s
  <2>3. \A i \in 1..(n + 1) : next(T)[i] = Append(s, g)[i]
    <3> SUFFICES ASSUME NEW i \in 1..(n + 1) PROVE next(T)[i] = Append(s, g)[i]
      OBVIOUS
    <3>1. next(T)[i] = CHOOSE k \in DOMAIN entries' : entries'[k].tenant = T /\ entries'[k].sequence = i
      BY <1>8
    <3>2. CASE i = n + 1
      BY <1>10, <2>2, <3>1, <3>2
    <3>3. CASE i # n + 1
      <4>1. i \in 1..n
        BY <3>3
      <4> QED BY <1>3, <1>6, <1>9, <2>2, <3>1, <4>1 DEF s
    <3> QED BY <3>2, <3>3
  <2>4. DOMAIN next(T) = 1..(n + 1) /\ next(T) = [i \in DOMAIN next(T) |-> next(T)[i]]
    BY <1>8
  <2>5. Append(s, g) = [i \in 1..(n + 1) |-> Append(s, g)[i]]
    <3>1. Append(s, g) \in [1..(n + 1) -> Nat]
      BY <2>2, LenProperties
    <3> QED BY <3>1
  <2> HIDE DEF next
  <2>6. next(T) = Append(s, g)
    BY <2>3, <2>4, <2>5
  <2> QED BY <2>6 DEF s
<1>13. \A u \in Tenants : chainOf(u)' = next(u)
  BY DEF chainOf
<1> HIDE DEF next
<1>14. g \notin Log!Logged
  <2>1. \A u \in Tenants : \A i \in DOMAIN chainOf(u) : chainOf(u)[i] # g
    BY <1>5, ChainOfIs, SlotTaken
  <2> QED BY <2>1 DEF Log!Logged
<1>15. [u \in Tenants |-> chainOf(u)]' = [[u \in Tenants |-> chainOf(u)] EXCEPT ![T] = Append(@, g)]
  BY <1>3, <1>11, <1>12, <1>13
<1> QED BY <1>3, <1>5, <1>14, <1>15 DEF Log!Extend

\* Every step maps to an append or leaves all logs alone.
LEMMA LogStep ==
    Inv /\ Bounds /\ Inv' /\ [Next]_vars => [Log!Next]_([tenant \in Tenants |-> chainOf(tenant)])
<1> SUFFICES ASSUME Inv, Bounds, Inv', [Next]_vars
             PROVE  Log!Next \/ UNCHANGED [tenant \in Tenants |-> chainOf(tenant)]
  OBVIOUS
<1>1. ASSUME NEW t \in Threads, NEW answered \in BOOLEAN, Commit(t, answered)
      PROVE  Log!Next
  BY <1>1, CommitExtends DEF Log!Next
<1>2. ASSUME UNCHANGED <<head, entries>>
      PROVE  UNCHANGED [tenant \in Tenants |-> chainOf(tenant)]
  BY <1>2 DEF chainOf
<1>3. ASSUME NEW t \in Threads,
             \/ \E r \in Requests : Claim(t, r)
             \/ ReadHead(t) \/ SignClaims(t) \/ Contention(t)
             \/ \E reached \in BOOLEAN : Attest(t, reached)
             \/ SaveCertificate(t) \/ SaveHash(t) \/ UpdateFields(t)
             \/ IssueFails(t) \/ Rollback(t) \/ Abandoned(t)
      PROVE  UNCHANGED <<head, entries>>
  BY <1>3 DEF Claim, ReadHead, SignClaims, Contention, Attest, SaveCertificate, SaveHash,
              UpdateFields, IssueFails, Rollback, Abandoned
<1>4. CASE (\E r \in Requests : CompleteAgain(r)) \/ NextDay \/ UNCHANGED vars
  BY <1>2, <1>4 DEF CompleteAgain, NextDay, vars
<1> QED BY <1>1, <1>2, <1>3, <1>4 DEF Next

\* The head documents and the hash index of appendToChain, together, are an
\* append-only log per tenant: no entry is ever rewritten, dropped or reused,
\* whatever contends, fails or is retried.
THEOREM ChainImplementsLog == Spec => ImplementsLog
<1>1. Init => Log!Init
  <2> SUFFICES ASSUME Init PROVE Log!Init
    OBVIOUS
  <2>1. \A u \in Tenants : head[u].sequence = 0
    BY DEF Init, NoHead
  <2>2. \A u \in Tenants : chainOf(u) = << >>
    BY <2>1 DEF chainOf
  <2> QED BY <2>2 DEF Log!Init
<1>2. Spec => [][Log!Next]_([tenant \in Tenants |-> chainOf(tenant)])
  BY LogStep, BoundsAlways, PTL DEF Spec
<1>3. Log!Init /\ [][Log!Next]_([tenant \in Tenants |-> chainOf(tenant)]) => ImplementsLog
  BY PTL DEF ImplementsLog, Log!Spec
<1> QED BY <1>1, <1>2, <1>3, PTL DEF Spec

=============================================================================
