---------------------------- MODULE SigningKeys ----------------------------
(***************************************************************************)
(* The versions of the certificate-signing key in Cloud KMS, the caches    *)
(* each instance of the vault keeps of them, and what reads or rotates     *)
(* them: generateClaims and signClaims of the certificate signer,          *)
(* GET /public-key, GET /.well-known/jwks.json, POST                       *)
(* /admin/signing-key/rotate.                                              *)
(*                                                                         *)
(* An instance has three caches: "current" and "enabled" belong to its     *)
(* CertificateService, "signer" to its CertificateSigner.  A lookup that   *)
(* misses awaits KMS and stores the answer when it arrives, whatever       *)
(* happened to the cache in between.  The JWK and the fingerprint of a     *)
(* version never change, so the two maps that cache them are left out.     *)
(*                                                                         *)
(* A cached value is the set of versions it names: the newest ENABLED one  *)
(* for "current" and "signer", every ENABLED one for "enabled".            *)
(***************************************************************************)
EXTENDS Integers

CONSTANTS
    Instances,      \* instances of the vault behind the load balancer
    Threads,        \* executions that may be in flight at once
    MaxVersions,    \* bound on the versions of the key
    Ttl,            \* time an answer is cached, for each cache
    Latency,        \* the longest a call of KMS takes before it settles
    MaxTime         \* bound on the clock

Caches == {"current", "signer", "enabled"}
Versions == 1..MaxVersions

ASSUME SigningKeysAssumption ==
    /\ Instances # {}
    /\ MaxVersions \in Nat \ {0}
    /\ Ttl \in [Caches -> Nat \ {0}]
    /\ Latency \in Nat
    /\ MaxTime \in Nat

VARIABLES
    state,          \* the state of each version in KMS
    enabledAt,      \* when it became ENABLED
    cache,          \* the caches of each instance
    call,           \* the executions in flight
    now,            \* the clock
    effective       \* history: the newest version whose rotation an instance
                    \* completed while no older answer was on its way to its signer

vars == <<state, enabledAt, cache, call, now, effective>>

-----------------------------------------------------------------------------
(* Executions *)

\* The cache an operation looks into first.
CacheOf == [claims |-> "signer", sign |-> "signer", publickey |-> "current",
            jwks |-> "enabled", rotate |-> "current", none |-> "current"]
Ops == DOMAIN CacheOf

\* What an operation awaits once it knows the versions.  The fingerprint and the
\* public key are read from KMS and returned, which changes nothing.
Continuation == [claims |-> "idle", sign |-> "sign", publickey |-> "idle",
                 jwks |-> "keys", rotate |-> "create", none |-> "idle"]

Points == {"idle", "ask", "store", "sign", "keys", "create", "wait"}

NoCall == [op |-> "none", pc |-> "idle", inst |-> CHOOSE i \in Instances : TRUE,
           value |-> {}, since |-> 0, floor |-> 0]

At(t, p) == call[t].pc = p
Become(t, c) == call' = [call EXCEPT ![t] = c]
Stop(t) == Become(t, NoCall)

\* The execution knows the versions and goes on.
Found(c, value) ==
    IF Continuation[c.op] = "idle" THEN NoCall
    ELSE [c EXCEPT !.pc = Continuation[c.op], !.value = value, !.since = now]

Init ==
    /\ state = [v \in Versions |-> IF v = 1 THEN "ENABLED" ELSE "NONE"]
    /\ enabledAt = [v \in Versions |-> 0]
    /\ cache = [i \in Instances |-> [k \in Caches |-> [value |-> {}, expiresAt |-> 0]]]
    /\ call = [t \in Threads |-> NoCall]
    /\ now = 0
    /\ effective = [i \in Instances |-> 0]

-----------------------------------------------------------------------------
(* getCurrentSigningKeyVersion (of both classes) and getEnabledVersions *)

CachedForever(entry) == entry.expiresAt > 0        \* mutant: the expiry is not looked at

\* A null cache is one that expired at time 0.
Cached(entry) == entry.expiresAt > now

Begin(t, op, i) ==
    LET entry == cache[i][CacheOf[op]]
        c == [NoCall EXCEPT !.op = op, !.pc = "ask", !.inst = i, !.since = now,
                            !.floor = IF op = "sign" THEN effective[i] ELSE 0]
    IN
    /\ At(t, "idle")
    /\ Become(t, IF Cached(entry) THEN Found(c, entry.value) ELSE c)
    /\ UNCHANGED <<state, enabledAt, cache, now, effective>>

GenerateClaims(t, i) == Begin(t, "claims", i)
SignClaims(t, i) == Begin(t, "sign", i)
GetPublicKey(t, i) == Begin(t, "publickey", i)
GetJwks(t, i) == Begin(t, "jwks", i)
PostRotate(t, i) == Begin(t, "rotate", i)

Enabled == {v \in Versions : state[v] = "ENABLED"}

\* getNewestEnabledVersion: version ids grow, so the newest is the greatest.
Newest == {v \in Enabled : \A w \in Enabled : w <= v}

AnswerNewestOnly(k) == Newest      \* mutant: only the primary, for the JWKS too

\* listEnabledVersions, reduced to the newest for the two caches of "current".
Answer(k) == IF k = "enabled" THEN Enabled ELSE Newest

\* KMS answers: from here on the answer may be overtaken.  Without an ENABLED
\* version getNewestEnabledVersion throws.
KmsAnswers(t) ==
    LET c == call[t] IN
    /\ At(t, "ask")
    /\ CacheOf[c.op] # "enabled" => Newest # {}
    /\ Become(t, [c EXCEPT !.pc = "store", !.value = Answer(CacheOf[c.op])])
    /\ UNCHANGED <<state, enabledAt, cache, now, effective>>

ExpiryTwice(k) == now + 2 * Ttl[k]       \* mutant: twice the time to live

Expiry(k) == now + Ttl[k]

\* The answer arrives, overwrites the cache, and the execution goes on.
StoreAnswer(t) ==
    LET c == call[t]
        k == CacheOf[c.op]
    IN
    /\ At(t, "store")
    /\ cache' = [cache EXCEPT ![c.inst][k] = [value |-> c.value, expiresAt |-> Expiry(k)]]
    /\ Become(t, Found(c, c.value))
    /\ UNCHANGED <<state, enabledAt, now, effective>>

-----------------------------------------------------------------------------
(* What the operations do with it *)

\* asymmetricSign: the certificate carries the version as its kid.
AsymmetricSign(t) ==
    /\ At(t, "sign")
    /\ Stop(t)
    /\ UNCHANGED <<state, enabledAt, cache, now, effective>>

\* getJwks fetches the public keys it has not got and returns the set.
ServeJwks(t) ==
    /\ At(t, "keys")
    /\ Stop(t)
    /\ UNCHANGED <<state, enabledAt, cache, now, effective>>

\* rotateSigningKey: a new version, whose material KMS generates later.
CreateKeyVersion(t) ==
    /\ At(t, "create")
    /\ \E v \in Versions :
         /\ state[v] = "NONE"
         /\ \A w \in Versions : w < v => state[w] # "NONE"
         /\ state' = [state EXCEPT ![v] = "PENDING"]
         /\ Become(t, [call[t] EXCEPT !.pc = "wait", !.value = {v}, !.since = 0])
    /\ UNCHANGED <<enabledAt, cache, now, effective>>

InvalidatedOwnOnly == {"current", "enabled"}    \* mutant: the signer's is forgotten

\* The caches a completed rotation sets to null, the signer's among them.
Invalidated == Caches

\* An answer older than version v is on its way to the signer of instance i.
OlderAnswerComing(i, v) ==
    \E t \in Threads : /\ At(t, "store")
                       /\ call[t].inst = i
                       /\ CacheOf[call[t].op] = "signer"
                       /\ \E w \in call[t].value : w < v

\* waitForVersionEnabled returns, the caches of this instance are invalidated
\* and the rotation is answered.  The JWKS snapshot it asks GitHub for is taken
\* by a workflow that polls the JWKS.
Rotated(t) ==
    LET i == call[t].inst IN
    /\ At(t, "wait")
    /\ \A v \in call[t].value : state[v] = "ENABLED"
    /\ cache' = [cache EXCEPT ![i] =
                   [k \in Caches |-> IF k \in Invalidated
                                     THEN [value |-> {}, expiresAt |-> 0] ELSE @[k]]]
    /\ \E v \in call[t].value :
         effective' = IF effective[i] < v /\ ~OlderAnswerComing(i, v)
                      THEN [effective EXCEPT ![i] = v] ELSE effective
    /\ Stop(t)
    /\ UNCHANGED <<state, enabledAt, now>>

\* GENERATION_FAILED, or two minutes of polling: the rotation throws, and
\* nothing is invalidated even if the version is enabled afterwards.
WaitFails(t) ==
    /\ At(t, "wait")
    /\ Stop(t)
    /\ UNCHANGED <<state, enabledAt, cache, now, effective>>

\* A call of KMS throws; the cache stays as it was.
KmsFails(t) ==
    /\ call[t].pc \in {"ask", "store", "sign", "keys", "create"}
    /\ Stop(t)
    /\ UNCHANGED <<state, enabledAt, cache, now, effective>>

-----------------------------------------------------------------------------
(* Surroundings *)

\* KMS generates the material of a version, or fails to.
GenerationEnds(v, outcome) ==
    /\ state[v] = "PENDING"
    /\ state' = [state EXCEPT ![v] = outcome]
    /\ enabledAt' = IF outcome = "ENABLED" THEN [enabledAt EXCEPT ![v] = now] ELSE enabledAt
    /\ UNCHANGED <<cache, call, now, effective>>

\* Cloud Run replaces an instance: its caches and executions are gone.
Reap(i) ==
    /\ cache' = [cache EXCEPT ![i] = [k \in Caches |-> [value |-> {}, expiresAt |-> 0]]]
    /\ call' = [t \in Threads |-> IF call[t].inst = i THEN NoCall ELSE call[t]]
    /\ UNCHANGED <<state, enabledAt, now, effective>>

\* Time passes, but no call of KMS stays open for longer than Latency.
Tick ==
    /\ now < MaxTime
    /\ \A t \in Threads : call[t].pc \in {"ask", "store", "sign", "keys"} =>
         now < call[t].since + Latency
    /\ now' = now + 1
    /\ UNCHANGED <<state, enabledAt, cache, call, effective>>

Next ==
    \/ \E t \in Threads :
         \/ \E i \in Instances :
              \/ GenerateClaims(t, i) \/ SignClaims(t, i)
              \/ GetPublicKey(t, i) \/ GetJwks(t, i) \/ PostRotate(t, i)
         \/ KmsAnswers(t) \/ StoreAnswer(t) \/ AsymmetricSign(t) \/ ServeJwks(t)
         \/ CreateKeyVersion(t) \/ Rotated(t) \/ WaitFails(t) \/ KmsFails(t)
    \/ \E v \in Versions, outcome \in {"ENABLED", "GENERATION_FAILED"} :
         GenerationEnds(v, outcome)
    \/ \E i \in Instances : Reap(i)
    \/ Tick

Spec == Init /\ [][Next]_vars

-----------------------------------------------------------------------------
(* Properties *)

\* Every variable has its shape, and no cache entry outlives its time to live.
TypeOK ==
    /\ state \in [Versions -> {"NONE", "PENDING", "ENABLED", "GENERATION_FAILED"}]
    /\ now \in 0..MaxTime
    /\ enabledAt \in [Versions -> 0..now]
    /\ cache \in [Instances -> [Caches -> [value: SUBSET Versions, expiresAt: Nat]]]
    /\ \A i \in Instances, k \in Caches : cache[i][k].expiresAt <= now + Ttl[k]
    /\ call \in [Threads -> [op: Ops, pc: Points, inst: Instances, value: SUBSET Versions,
                             since: 0..now, floor: Versions \cup {0}]]
    /\ effective \in [Instances -> Versions \cup {0}]

\* A version that has been ENABLED for as long as an answer may be under way,
\* cached, and used.
LongEnabled(v, k) ==
    state[v] = "ENABLED" /\ enabledAt[v] + Ttl[k] + 2 * Latency <= now

\* A rotation takes effect on every instance within the five minutes of the
\* signer's cache, however it ended for the instance that ran it and whatever
\* was in flight: no certificate is signed later than that with an older version.
SigningLagBounded ==
    \A t \in Threads, v \in Versions :
        At(t, "sign") /\ LongEnabled(v, "signer") => \E w \in call[t].value : v <= w

\* Certificates stay verifiable: a JWKS served by any instance lists every
\* version enabled more than the ten minutes of its cache ago, old ones
\* included, and so the kid of every certificate older than that.
JwksComplete ==
    \A t \in Threads, v \in Versions :
        At(t, "keys") /\ LongEnabled(v, "enabled") => v \in call[t].value

\* A rotation takes effect right away on the instance that ran it: a signature
\* begun after it is made with its version or a newer one, unless an answer from
\* before it was on its way to the signer's cache when that was invalidated.
RotationTakesEffect ==
    \A t \in Threads : At(t, "sign") => \E w \in call[t].value : call[t].floor <= w

=============================================================================
