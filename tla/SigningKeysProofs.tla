------------------------- MODULE SigningKeysProofs -------------------------
(***************************************************************************)
(* Proofs about SigningKeys, for any number of instances and executions,   *)
(* any times to live and any latency.                                      *)
(*                                                                         *)
(* The bounds on staleness rest on how old the oldest version missing from *)
(* an answer can be: an answer under way misses only versions enabled      *)
(* since it was asked for, a cached one expires at most a latency and a    *)
(* time to live after such a version, and so on (Aged).  That a rotation   *)
(* takes effect rests on what an instance's signer may still learn after   *)
(* the invalidation (Floored).                                             *)
(***************************************************************************)
EXTENDS SigningKeys, TLAPS

\* A call of KMS is open.
Waiting == {"ask", "store", "sign", "keys"}

\* The answer, or cached value, S takes version v into account.
Covers(k, S, v) == IF k = "enabled" THEN v \in S ELSE \A w \in S : v <= w

\* No call of KMS is open for longer than Latency, and a point is reached only
\* by the operation it belongs to.
InFlight ==
    \A t \in Threads :
        /\ call[t].pc \in Waiting => now <= call[t].since + Latency
        /\ At(t, "sign") => call[t].op = "sign"
        /\ At(t, "keys") => call[t].op = "jwks"

\* How long ago a version that a cache, or an execution, does not take into
\* account became ENABLED.
AgedCaches(v) ==
    \A i \in Instances, k \in Caches :
        \/ Covers(k, cache[i][k].value, v)
        \/ cache[i][k].expiresAt <= enabledAt[v] + Ttl[k] + Latency

AgedCall(t, v) ==
    LET c == call[t]
        k == CacheOf[c.op]
    IN
    /\ c.pc = "store" => Covers(k, c.value, v) \/ c.since <= enabledAt[v]
    /\ c.pc \in {"sign", "keys"} =>
         Covers(k, c.value, v) \/ c.since < enabledAt[v] + Ttl[k] + Latency

Aged ==
    \A v \in Versions : state[v] = "ENABLED" =>
        AgedCaches(v) /\ \A t \in Threads : AgedCall(t, v)

\* The version in effect on an instance is ENABLED; a signer that was answered
\* knows a version, and none that is older.
FlooredCache(i) ==
    LET entry == cache[i]["signer"] IN
    /\ effective[i] # 0 => state[effective[i]] = "ENABLED"
    /\ entry.expiresAt > 0 => entry.value # {} /\ \A w \in entry.value : effective[i] <= w

FlooredCall(t) ==
    LET c == call[t] IN
    /\ c.pc = "ask" \/ c.pc = "store" => c.floor <= effective[c.inst]
    /\ c.pc = "store" /\ CacheOf[c.op] = "signer" =>
         c.value # {} /\ \A w \in c.value : effective[c.inst] <= w
    /\ c.pc = "sign" => c.value # {} /\ \A w \in c.value : c.floor <= w

Floored ==
    /\ \A i \in Instances : FlooredCache(i)
    /\ \A t \in Threads : FlooredCall(t)

-----------------------------------------------------------------------------
(* Types *)

LEMMA OpsAre ==
    /\ Ops = {"claims", "sign", "publickey", "jwks", "rotate", "none"}
    /\ CacheOf \in [Ops -> Caches]
    /\ Continuation \in [Ops -> Points]
    /\ CacheOf["claims"] = "signer" /\ CacheOf["sign"] = "signer"
    /\ CacheOf["publickey"] = "current" /\ CacheOf["rotate"] = "current"
    /\ CacheOf["jwks"] = "enabled" /\ CacheOf["none"] = "current"
    /\ Continuation["claims"] = "idle" /\ Continuation["sign"] = "sign"
    /\ Continuation["publickey"] = "idle" /\ Continuation["jwks"] = "keys"
    /\ Continuation["rotate"] = "create" /\ Continuation["none"] = "idle"
  BY DEF Ops, CacheOf, Continuation, Caches, Points

Calls == [op: Ops, pc: Points, inst: Instances, value: SUBSET Versions,
          since: 0..now, floor: Versions \cup {0}]

LEMMA NoCallType ==
    ASSUME NEW i \in Instances, TypeOK
    PROVE  NoCall \in Calls
<1>1. (CHOOSE j \in Instances : TRUE) \in Instances
  OBVIOUS
<1>2. 0 \in 0..now
  BY DEF TypeOK
<1> QED BY <1>1, <1>2, OpsAre DEF NoCall, Calls, Points

LEMMA FoundType ==
    ASSUME TypeOK, NEW c \in Calls, NEW S \in SUBSET Versions
    PROVE  Found(c, S) \in Calls
<1>1. now \in 0..now
  BY DEF TypeOK
<1>2. c.inst \in Instances
  BY DEF Calls
<1>3. NoCall \in Calls
  BY <1>2, NoCallType
<1>4. [c EXCEPT !.pc = Continuation[c.op], !.value = S, !.since = now] \in Calls
  BY <1>1, OpsAre DEF Calls
<1> QED BY <1>3, <1>4 DEF Found

LEMMA TypeInit == Init => TypeOK
<1> SUFFICES ASSUME Init PROVE TypeOK
  OBVIOUS
<1>1. /\ state \in [Versions -> {"NONE", "PENDING", "ENABLED", "GENERATION_FAILED"}]
      /\ now \in 0..MaxTime
      /\ enabledAt \in [Versions -> 0..now]
      /\ effective \in [Instances -> Versions \cup {0}]
  BY SigningKeysAssumption DEF Init
<1>2. cache \in [Instances -> [Caches -> [value: SUBSET Versions, expiresAt: Nat]]]
  BY DEF Init
<1>3. \A i \in Instances, k \in Caches : cache[i][k].expiresAt <= now + Ttl[k]
  BY SigningKeysAssumption DEF Init
<1>4. call \in [Threads -> Calls]
  <2>1. SUFFICES ASSUME Threads # {} PROVE NoCall \in Calls
    BY DEF Init
  <2>2. now = 0 /\ 0 \in 0..now
    BY DEF Init
  <2>3. (CHOOSE j \in Instances : TRUE) \in Instances
    BY SigningKeysAssumption
  <2> QED BY <2>2, <2>3, OpsAre DEF NoCall, Calls, Points
<1> QED BY <1>1, <1>2, <1>3, <1>4 DEF TypeOK, Calls

\* What a step of an execution may touch, and the types of what it writes.
LEMMA TypeStep ==
    ASSUME TypeOK, [Next]_vars
    PROVE  TypeOK'
<1> USE SigningKeysAssumption
<1>0. call \in [Threads -> Calls]
  BY DEF TypeOK, Calls
<1>a. ASSUME NEW t \in Threads, NEW c \in Calls, Become(t, c),
             UNCHANGED <<state, enabledAt, cache, now, effective>>
      PROVE  TypeOK'
  <2>1. call' \in [Threads -> Calls]
    BY <1>0, <1>a DEF Become
  <2> QED BY <2>1, <1>a DEF TypeOK, Calls
<1>b. ASSUME NEW t \in Threads PROVE NoCall \in Calls
  <2>1. call[t].inst \in Instances
    BY <1>0 DEF Calls
  <2> QED BY <2>1, NoCallType
<1>1. ASSUME NEW t \in Threads, NEW i \in Instances, NEW op \in Ops, Begin(t, op, i)
      PROVE  TypeOK'
  <2> DEFINE c == [NoCall EXCEPT !.op = op, !.pc = "ask", !.inst = i, !.since = now,
                                 !.floor = IF op = "sign" THEN effective[i] ELSE 0]
             entry == cache[i][CacheOf[op]]
  <2>1. c \in Calls
    <3>1. NoCall \in Calls /\ "ask" \in Points /\ now \in 0..now
      BY <1>b DEF Points, TypeOK
    <3>2. (IF op = "sign" THEN effective[i] ELSE 0) \in Versions \cup {0}
      BY DEF TypeOK
    <3> QED BY <3>1, <3>2 DEF Calls
  <2>2. entry.value \in SUBSET Versions
    BY OpsAre DEF TypeOK
  <2>3. Found(c, entry.value) \in Calls
    BY <2>1, <2>2, FoundType
  <2> QED BY <1>1, <1>a, <2>1, <2>3 DEF Begin
<1>2. ASSUME NEW t \in Threads, KmsAnswers(t) PROVE TypeOK'
  <2>1. Answer(CacheOf[call[t].op]) \in SUBSET Versions
    BY DEF Answer, Enabled, Newest
  <2>2. [call[t] EXCEPT !.pc = "store", !.value = Answer(CacheOf[call[t].op])] \in Calls
    BY <1>0, <2>1 DEF Calls, Points
  <2> QED BY <1>2, <1>a, <2>2 DEF KmsAnswers
<1>3. ASSUME NEW t \in Threads, StoreAnswer(t) PROVE TypeOK'
  <2> DEFINE k == CacheOf[call[t].op]
             i == call[t].inst
  <2>1. k \in Caches /\ i \in Instances /\ call[t].value \in SUBSET Versions
    BY <1>0, OpsAre DEF Calls
  <2>2. call' \in [Threads -> Calls]
    BY <1>0, <1>3, <2>1, FoundType DEF StoreAnswer, Become
  <2>3. Expiry(k) \in Nat /\ Expiry(k) = now + Ttl[k]
    BY <2>1 DEF Expiry, TypeOK
  <2>4. cache' \in [Instances -> [Caches -> [value: SUBSET Versions, expiresAt: Nat]]]
    BY <1>3, <2>1, <2>3 DEF StoreAnswer, TypeOK
  <2>5. \A j \in Instances, q \in Caches : cache'[j][q].expiresAt <= now + Ttl[q]
    <3> TAKE j \in Instances, q \in Caches
    <3>1. CASE j = i /\ q = k
      BY <3>1, <1>3, <2>1, <2>3 DEF StoreAnswer, TypeOK
    <3>2. CASE ~(j = i /\ q = k)
      <4>1. cache'[j][q] = cache[j][q]
        BY <3>2, <1>3, <2>1 DEF StoreAnswer, TypeOK
      <4> QED BY <4>1 DEF TypeOK
    <3> QED BY <3>1, <3>2
  <2> QED BY <1>3, <2>2, <2>4, <2>5 DEF StoreAnswer, TypeOK, Calls
<1>4. ASSUME NEW t \in Threads,
             AsymmetricSign(t) \/ ServeJwks(t) \/ WaitFails(t) \/ KmsFails(t)
      PROVE  TypeOK'
  BY <1>4, <1>a, <1>b DEF AsymmetricSign, ServeJwks, WaitFails, KmsFails, Stop
<1>5. ASSUME NEW t \in Threads, CreateKeyVersion(t) PROVE TypeOK'
  <2>1. PICK v \in Versions :
          /\ state' = [state EXCEPT ![v] = "PENDING"]
          /\ Become(t, [call[t] EXCEPT !.pc = "wait", !.value = {v}, !.since = 0])
    BY <1>5 DEF CreateKeyVersion
  <2>2. [call[t] EXCEPT !.pc = "wait", !.value = {v}, !.since = 0] \in Calls
    <3>1. call[t] \in Calls /\ "wait" \in Points /\ 0 \in 0..now
      BY <1>0 DEF Points, TypeOK
    <3>2. {v} \in SUBSET Versions
      OBVIOUS
    <3> QED BY <3>1, <3>2 DEF Calls
  <2>3. call' \in [Threads -> Calls]
    BY <1>0, <2>1, <2>2 DEF Become
  <2>4. state' \in [Versions -> {"NONE", "PENDING", "ENABLED", "GENERATION_FAILED"}]
    BY <2>1 DEF TypeOK
  <2> QED BY <1>5, <2>3, <2>4 DEF CreateKeyVersion, TypeOK, Calls
<1>6. ASSUME NEW t \in Threads, Rotated(t) PROVE TypeOK'
  <2> DEFINE i == call[t].inst
  <2>1. i \in Instances /\ call[t].value \in SUBSET Versions
    BY <1>0 DEF Calls
  <2>2. call' \in [Threads -> Calls]
    BY <1>0, <1>b, <1>6 DEF Rotated, Stop, Become
  <2>3. cache' \in [Instances -> [Caches -> [value: SUBSET Versions, expiresAt: Nat]]]
    BY <1>6, <2>1 DEF Rotated, TypeOK
  <2>4. \A j \in Instances, q \in Caches : cache'[j][q].expiresAt <= now + Ttl[q]
    <3> TAKE j \in Instances, q \in Caches
    <3>1. cache'[j][q] = cache[j][q] \/ cache'[j][q].expiresAt = 0
      BY <1>6, <2>1 DEF Rotated, TypeOK
    <3> QED BY <3>1 DEF TypeOK
  <2>5. effective' \in [Instances -> Versions \cup {0}]
    BY <1>6, <2>1 DEF Rotated, TypeOK
  <2> QED BY <1>6, <2>2, <2>3, <2>4, <2>5 DEF Rotated, TypeOK, Calls
<1>7. ASSUME NEW v \in Versions, NEW outcome \in {"ENABLED", "GENERATION_FAILED"},
             GenerationEnds(v, outcome)
      PROVE  TypeOK'
  BY <1>7 DEF GenerationEnds, TypeOK
<1>8. ASSUME NEW i \in Instances, Reap(i) PROVE TypeOK'
  <2>1. call' \in [Threads -> Calls]
    BY <1>0, <1>b, <1>8 DEF Reap
  <2>2. cache' \in [Instances -> [Caches -> [value: SUBSET Versions, expiresAt: Nat]]]
    BY <1>8 DEF Reap, TypeOK
  <2>3. \A j \in Instances, q \in Caches : cache'[j][q].expiresAt <= now + Ttl[q]
    <3> TAKE j \in Instances, q \in Caches
    <3>1. cache'[j][q] = cache[j][q] \/ cache'[j][q].expiresAt = 0
      BY <1>8 DEF Reap, TypeOK
    <3> QED BY <3>1 DEF TypeOK
  <2> QED BY <1>8, <2>1, <2>2, <2>3 DEF Reap, TypeOK, Calls
<1>9. ASSUME Tick PROVE TypeOK'
  <2>1. now' \in 0..MaxTime /\ now <= now'
    BY <1>9 DEF Tick, TypeOK
  <2>2. enabledAt' \in [Versions -> 0..now']
    BY <1>9, <2>1 DEF Tick, TypeOK
  <2>3. \A i \in Instances, k \in Caches : cache'[i][k].expiresAt <= now' + Ttl[k]
    BY <1>9, <2>1 DEF Tick, TypeOK
  <2>4. call' \in [Threads -> Calls']
    <3>1. \A c \in Calls : c \in Calls'
      BY <1>9, <2>1 DEF Calls, TypeOK
    <3> QED BY <1>0, <1>9, <3>1 DEF Tick
  <2> QED BY <1>9, <2>1, <2>2, <2>3, <2>4 DEF Tick, TypeOK, Calls
<1>10. ASSUME UNCHANGED vars PROVE TypeOK'
  BY <1>10 DEF vars, TypeOK
<1> QED
  BY <1>1, <1>2, <1>3, <1>4, <1>5, <1>6, <1>7, <1>8, <1>9, <1>10, OpsAre
  DEF Next, GenerateClaims, SignClaims, GetPublicKey, GetJwks, PostRotate

\* Every variable keeps its shape, and no cache entry outlives its time to live.
THEOREM SigningKeysTypeOK == Spec => []TypeOK
<1> QED BY TypeInit, TypeStep, PTL DEF Spec

-----------------------------------------------------------------------------
(* The steps, as the invariants see them *)

\* What an execution is after it found the versions.
LEMMA FoundIs ==
    ASSUME TypeOK, NEW c \in Calls, NEW S \in SUBSET Versions
    PROVE  LET f == Found(c, S) IN
           \/ f = NoCall
           \/ /\ f.op = c.op /\ f.inst = c.inst /\ f.value = S
              /\ f.since = now /\ f.floor = c.floor
              /\ \/ f.pc = "sign" /\ c.op = "sign"
                 \/ f.pc = "keys" /\ c.op = "jwks"
                 \/ f.pc = "create" /\ c.op = "rotate"
  BY OpsAre DEF Found, Calls

LEMMA NoCallIs ==
    ASSUME TypeOK, NEW t \in Threads
    PROVE  /\ NoCall \in Calls
           /\ NoCall.pc = "idle" /\ NoCall.floor = 0
<1>1. call[t].inst \in Instances
  BY DEF TypeOK
<1> QED BY <1>1, NoCallType DEF NoCall

\* A step of one execution that changes nothing else: it starts by asking, or
\* with what the cache holds; or it is answered; or it goes on to create or to
\* wait, or ends.
LEMMA LocalSteps ==
    ASSUME TypeOK, NEW t \in Threads, NEW c, Become(t, c)
    PROVE  \A x \in Threads : call'[x] = IF x = t THEN c ELSE call[x]
  BY DEF Become, TypeOK

LEMMA BeginIs ==
    ASSUME TypeOK, NEW t \in Threads, NEW i \in Instances, NEW op \in Ops, Begin(t, op, i)
    PROVE  LET c == call'[t]
               entry == cache[i][CacheOf[op]]
           IN
           /\ \A x \in Threads : x # t => call'[x] = call[x]
           /\ UNCHANGED <<state, enabledAt, cache, now, effective>>
           /\ \/ c = NoCall
              \/ /\ c.pc = "ask" /\ c.op = op /\ c.inst = i /\ c.since = now
                 /\ c.floor = 0 \/ c.floor = effective[i]
              \/ /\ entry.expiresAt > now
                 /\ c.op = op /\ c.inst = i /\ c.value = entry.value /\ c.since = now
                 /\ c.floor = 0 \/ c.floor = effective[i]
                 /\ \/ c.pc = "sign" /\ op = "sign"
                    \/ c.pc = "keys" /\ op = "jwks"
                    \/ c.pc = "create" /\ op = "rotate"
<1> DEFINE d == [NoCall EXCEPT !.op = op, !.pc = "ask", !.inst = i, !.since = now,
                               !.floor = IF op = "sign" THEN effective[i] ELSE 0]
           entry == cache[i][CacheOf[op]]
<1>1. NoCall \in Calls
  BY NoCallIs
<1>2. d \in Calls
  <2>1. "ask" \in Points /\ now \in 0..now
    BY DEF Points, TypeOK
  <2>2. (IF op = "sign" THEN effective[i] ELSE 0) \in Versions \cup {0}
    BY DEF TypeOK
  <2> QED BY <1>1, <2>1, <2>2 DEF Calls
<1>3. /\ d.op = op /\ d.pc = "ask" /\ d.inst = i /\ d.since = now
      /\ d.floor = 0 \/ d.floor = effective[i]
  BY <1>1 DEF Calls
<1>4. entry.value \in SUBSET Versions
  BY OpsAre DEF TypeOK
<1>5. \A x \in Threads : call'[x] = IF x = t THEN IF Cached(entry) THEN Found(d, entry.value) ELSE d
                                    ELSE call[x]
  BY LocalSteps DEF Begin
<1>6. UNCHANGED <<state, enabledAt, cache, now, effective>>
  BY DEF Begin
<1>7. CASE Cached(entry)
  <2>1. call'[t] = Found(d, entry.value)
    BY <1>5, <1>7
  <2> HIDE DEF d
  <2> QED BY <2>1, <1>2, <1>3, <1>4, <1>5, <1>6, <1>7, FoundIs DEF Cached
<1>8. CASE ~Cached(entry)
  <2>1. call'[t] = d
    BY <1>5, <1>8
  <2> HIDE DEF d
  <2> QED BY <2>1, <1>3, <1>5, <1>6
<1> QED BY <1>7, <1>8

LEMMA StoreIs ==
    ASSUME TypeOK, NEW t \in Threads, StoreAnswer(t)
    PROVE  LET c == call[t]
               k == CacheOf[c.op]
               d == call'[t]
           IN
           /\ c.pc = "store" /\ k \in Caches /\ c.inst \in Instances
           /\ \A x \in Threads : x # t => call'[x] = call[x]
           /\ UNCHANGED <<state, enabledAt, now, effective>>
           /\ cache'[c.inst][k].value = c.value
           /\ cache'[c.inst][k].expiresAt = now + Ttl[k]
           /\ \A i \in Instances, q \in Caches :
                i # c.inst \/ q # k => cache'[i][q] = cache[i][q]
           /\ \/ d = NoCall
              \/ /\ d.op = c.op /\ d.inst = c.inst /\ d.value = c.value
                 /\ d.since = now /\ d.floor = c.floor
                 /\ \/ d.pc = "sign" /\ c.op = "sign"
                    \/ d.pc = "keys" /\ c.op = "jwks"
                    \/ d.pc = "create" /\ c.op = "rotate"
<1> DEFINE c == call[t]
           k == CacheOf[c.op]
<1>1. c \in Calls /\ k \in Caches /\ c.inst \in Instances /\ c.value \in SUBSET Versions
  BY OpsAre DEF TypeOK, Calls
<1>2. \A x \in Threads : call'[x] = IF x = t THEN Found(c, c.value) ELSE call[x]
  BY LocalSteps DEF StoreAnswer
<1>3. /\ cache'[c.inst][k] = [value |-> c.value, expiresAt |-> now + Ttl[k]]
      /\ \A i \in Instances, q \in Caches :
           i # c.inst \/ q # k => cache'[i][q] = cache[i][q]
  BY <1>1 DEF StoreAnswer, Expiry, TypeOK
<1>4. c.pc = "store" /\ UNCHANGED <<state, enabledAt, now, effective>>
  BY DEF StoreAnswer, At
<1>5. \/ call'[t] = NoCall
      \/ /\ call'[t].op = c.op /\ call'[t].inst = c.inst /\ call'[t].value = c.value
         /\ call'[t].since = now /\ call'[t].floor = c.floor
         /\ \/ call'[t].pc = "sign" /\ c.op = "sign"
            \/ call'[t].pc = "keys" /\ c.op = "jwks"
            \/ call'[t].pc = "create" /\ c.op = "rotate"
  <2>1. call'[t] = Found(c, c.value)
    BY <1>2
  <2> HIDE DEF c
  <2> QED BY <2>1, <1>1, FoundIs
<1> QED BY <1>1, <1>2, <1>3, <1>4, <1>5

\* KMS answers, or the execution goes on to wait, or ends; nothing else moves.
LEMMA OtherIs ==
    ASSUME TypeOK, NEW t \in Threads,
           \/ KmsAnswers(t) \/ AsymmetricSign(t) \/ ServeJwks(t)
           \/ CreateKeyVersion(t) \/ WaitFails(t) \/ KmsFails(t)
    PROVE  LET c == call[t]
               d == call'[t]
           IN
           /\ \A x \in Threads : x # t => call'[x] = call[x]
           /\ UNCHANGED <<enabledAt, cache, now, effective>>
           /\ \A v \in Versions : state'[v] = state[v] \/ (state[v] = "NONE" /\ state'[v] = "PENDING")
           /\ \/ d = NoCall
              \/ /\ c.pc = "ask" /\ d.pc = "store" /\ d.op = c.op /\ d.inst = c.inst
                 /\ d.since = c.since /\ d.floor = c.floor
                 /\ d.value = Answer(CacheOf[c.op])
                 /\ CacheOf[c.op] # "enabled" => Newest # {}
                 /\ state' = state
              \/ d.pc = "wait" /\ d.op = c.op /\ d.inst = c.inst /\ d.floor = c.floor
<1>1. call[t] \in Calls
  BY DEF TypeOK, Calls
<1>2. CASE KmsAnswers(t)
  <2>1. \A x \in Threads : call'[x] = IF x = t
          THEN [call[t] EXCEPT !.pc = "store", !.value = Answer(CacheOf[call[t].op])] ELSE call[x]
    BY <1>2, LocalSteps DEF KmsAnswers
  <2> QED BY <1>1, <1>2, <2>1 DEF KmsAnswers, At, Calls
<1>3. CASE AsymmetricSign(t) \/ ServeJwks(t) \/ WaitFails(t) \/ KmsFails(t)
  <2>1. Become(t, NoCall) /\ UNCHANGED <<state, enabledAt, cache, now, effective>>
    BY <1>3 DEF AsymmetricSign, ServeJwks, WaitFails, KmsFails, Stop
  <2>2. \A x \in Threads : call'[x] = IF x = t THEN NoCall ELSE call[x]
    BY <2>1, LocalSteps
  <2> QED BY <2>1, <2>2
<1>4. CASE CreateKeyVersion(t)
  <2>1. PICK v \in Versions :
          /\ state[v] = "NONE"
          /\ state' = [state EXCEPT ![v] = "PENDING"]
          /\ Become(t, [call[t] EXCEPT !.pc = "wait", !.value = {v}, !.since = 0])
    BY <1>4 DEF CreateKeyVersion
  <2>2. \A x \in Threads : call'[x] = IF x = t
          THEN [call[t] EXCEPT !.pc = "wait", !.value = {v}, !.since = 0] ELSE call[x]
    BY <2>1, LocalSteps
  <2>3. \A w \in Versions : state'[w] = state[w] \/ (state[w] = "NONE" /\ state'[w] = "PENDING")
    BY <2>1 DEF TypeOK
  <2> QED BY <1>1, <1>4, <2>2, <2>3 DEF CreateKeyVersion, Calls
<1> QED BY <1>2, <1>3, <1>4

LEMMA RotatedIs ==
    ASSUME TypeOK, NEW t \in Threads, Rotated(t)
    PROVE  LET i == call[t].inst IN
           /\ i \in Instances
           /\ \A x \in Threads : call'[x] = IF x = t THEN NoCall ELSE call[x]
           /\ UNCHANGED <<state, enabledAt, now>>
           /\ \A j \in Instances, k \in Caches :
                IF j = i THEN cache'[j][k].value = {} /\ cache'[j][k].expiresAt = 0
                ELSE cache'[j][k] = cache[j][k]
           /\ \A j \in Instances : j # i => effective'[j] = effective[j]
           /\ \/ effective'[i] = effective[i]
              \/ \E v \in Versions : /\ state[v] = "ENABLED" /\ effective[i] < v
                                     /\ ~OlderAnswerComing(i, v)
                                     /\ effective'[i] = v
<1> DEFINE i == call[t].inst
<1>1. i \in Instances /\ call[t].value \subseteq Versions
  BY DEF TypeOK
<1>2. \A x \in Threads : call'[x] = IF x = t THEN NoCall ELSE call[x]
  BY LocalSteps DEF Rotated, Stop
<1>3. \A j \in Instances, k \in Caches :
        IF j = i THEN cache'[j][k].value = {} /\ cache'[j][k].expiresAt = 0
        ELSE cache'[j][k] = cache[j][k]
  BY <1>1 DEF Rotated, Invalidated, TypeOK
<1>4. UNCHANGED <<state, enabledAt, now>>
  BY DEF Rotated
<1>5. PICK v \in call[t].value :
        effective' = IF effective[i] < v /\ ~OlderAnswerComing(i, v)
                     THEN [effective EXCEPT ![i] = v] ELSE effective
  BY DEF Rotated
<1>6. v \in Versions /\ state[v] = "ENABLED"
  BY <1>1, <1>5 DEF Rotated
<1>7. /\ \A j \in Instances : j # i => effective'[j] = effective[j]
      /\ \/ effective'[i] = effective[i]
         \/ effective[i] < v /\ ~OlderAnswerComing(i, v) /\ effective'[i] = v
  BY <1>1, <1>5 DEF TypeOK
<1> QED BY <1>1, <1>2, <1>3, <1>4, <1>6, <1>7

LEMMA ReapIs ==
    ASSUME TypeOK, NEW i \in Instances, Reap(i)
    PROVE  /\ \A x \in Threads : call'[x] = call[x] \/ call'[x] = NoCall
           /\ UNCHANGED <<state, enabledAt, now, effective>>
           /\ \A j \in Instances, k \in Caches :
                \/ cache'[j][k] = cache[j][k]
                \/ cache'[j][k].value = {} /\ cache'[j][k].expiresAt = 0
  BY DEF Reap, TypeOK

LEMMA GenerationIs ==
    ASSUME TypeOK, NEW v \in Versions, NEW outcome \in {"ENABLED", "GENERATION_FAILED"},
           GenerationEnds(v, outcome)
    PROVE  /\ UNCHANGED <<cache, call, now, effective>>
           /\ \A w \in Versions :
                \/ state'[w] = state[w] /\ enabledAt'[w] = enabledAt[w]
                \/ /\ state[w] = "PENDING"
                   /\ state'[w] = "ENABLED" => enabledAt'[w] = now
  BY DEF GenerationEnds, TypeOK

-----------------------------------------------------------------------------
(* The invariants are inductive *)

LEMMA InFlightStep ==
    ASSUME TypeOK, TypeOK', InFlight, [Next]_vars
    PROVE  InFlight'
<1> USE SigningKeysAssumption
<1>a. \A x \in Threads : call[x].since \in Nat /\ call'[x].since \in Nat
  BY DEF TypeOK
<1>b. now \in Nat /\ now' \in Nat /\ Latency \in Nat
  BY DEF TypeOK
<1>1. ASSUME NEW t \in Threads, NEW i \in Instances, NEW op \in Ops, Begin(t, op, i)
      PROVE  InFlight'
  BY <1>1, <1>a, <1>b, BeginIs, NoCallIs DEF InFlight, At, Waiting
<1>2. ASSUME NEW t \in Threads, StoreAnswer(t) PROVE InFlight'
  BY <1>2, <1>a, <1>b, StoreIs, NoCallIs DEF InFlight, At, Waiting
<1>3. ASSUME NEW t \in Threads,
             \/ KmsAnswers(t) \/ AsymmetricSign(t) \/ ServeJwks(t)
             \/ CreateKeyVersion(t) \/ WaitFails(t) \/ KmsFails(t)
      PROVE  InFlight'
  BY <1>3, <1>a, <1>b, OtherIs, NoCallIs DEF InFlight, At, Waiting
<1>4. ASSUME NEW t \in Threads, Rotated(t) PROVE InFlight'
  BY <1>4, RotatedIs, NoCallIs DEF InFlight, At, Waiting
<1>5. ASSUME NEW v \in Versions, NEW outcome \in {"ENABLED", "GENERATION_FAILED"},
             GenerationEnds(v, outcome)
      PROVE  InFlight'
  BY <1>5 DEF GenerationEnds, InFlight, At
<1>6. ASSUME NEW i \in Instances, Reap(i) PROVE InFlight'
  BY <1>6, ReapIs, NoCallIs DEF InFlight, At, Waiting
<1>7. ASSUME Tick PROVE InFlight'
  BY <1>7, <1>a, <1>b DEF Tick, InFlight, At, Waiting
<1>8. ASSUME UNCHANGED vars PROVE InFlight'
  BY <1>8 DEF vars, InFlight, At
<1> QED
  BY <1>1, <1>2, <1>3, <1>4, <1>5, <1>6, <1>7, <1>8, OpsAre
  DEF Next, GenerateClaims, SignClaims, GetPublicKey, GetJwks, PostRotate

\* An answer takes every version that is ENABLED when KMS gives it into account.
LEMMA AnswerCovers ==
    ASSUME NEW k \in Caches, NEW v \in Versions, state[v] = "ENABLED"
    PROVE  Covers(k, Answer(k), v)
  BY DEF Covers, Answer, Enabled, Newest

LEMMA AgedStep ==
    ASSUME TypeOK, TypeOK', InFlight, Aged, [Next]_vars
    PROVE  Aged'
<1> USE SigningKeysAssumption
<1>a. SUFFICES ASSUME NEW v \in Versions, state'[v] = "ENABLED"
               PROVE  AgedCaches(v)' /\ \A t \in Threads : AgedCall(t, v)'
  BY DEF Aged
<1>b. /\ \A x \in Threads : call[x].since \in Nat /\ call[x].since <= now
      /\ \A x \in Threads : call[x].op \in Ops /\ CacheOf[call[x].op] \in Caches
      /\ now \in Nat /\ Latency \in Nat
      /\ enabledAt[v] \in Nat
      /\ \A k \in Caches : Ttl[k] \in Nat /\ Ttl[k] > 0
      /\ \A i \in Instances, k \in Caches :
           cache[i][k].expiresAt \in Nat /\ cache[i][k].expiresAt <= now + Ttl[k]
  BY OpsAre DEF TypeOK
<1>c. state[v] = "ENABLED" => AgedCaches(v) /\ \A t \in Threads : AgedCall(t, v)
  BY DEF Aged
<1>1. ASSUME NEW t \in Threads, NEW i \in Instances, NEW op \in Ops, Begin(t, op, i)
      PROVE  AgedCaches(v)' /\ \A x \in Threads : AgedCall(x, v)'
  <2>1. state[v] = "ENABLED" /\ AgedCaches(v)'
    BY <1>1, <1>a, <1>c, BeginIs DEF AgedCaches
  <2>2. ASSUME NEW x \in Threads PROVE AgedCall(x, v)'
    <3>1. CASE x # t
      BY <1>1, <1>c, <2>1, <3>1, BeginIs DEF AgedCall
    <3>2. CASE x = t
      BY <1>1, <1>b, <1>c, <2>1, <3>2, BeginIs, NoCallIs, OpsAre DEF AgedCall, AgedCaches
    <3> QED BY <3>1, <3>2
  <2> QED BY <2>1, <2>2
<1>2. ASSUME NEW t \in Threads, StoreAnswer(t)
      PROVE  AgedCaches(v)' /\ \A x \in Threads : AgedCall(x, v)'
  <2> DEFINE c == call[t]
             k == CacheOf[c.op]
  <2>1. state[v] = "ENABLED" /\ enabledAt'[v] = enabledAt[v]
    BY <1>2, <1>a, StoreIs
  <2>2. Covers(k, c.value, v) \/ now <= enabledAt[v] + Latency
    BY <1>2, <1>b, <1>c, <2>1, StoreIs DEF AgedCall, InFlight, Waiting
  <2>3. AgedCaches(v)'
    <3> SUFFICES ASSUME NEW j \in Instances, NEW q \in Caches
                 PROVE  \/ Covers(q, cache'[j][q].value, v)
                        \/ cache'[j][q].expiresAt <= enabledAt[v] + Ttl[q] + Latency
      BY <2>1 DEF AgedCaches, Covers
    <3>1. CASE j = c.inst /\ q = k
      BY <1>2, <1>b, <2>2, <3>1, StoreIs
    <3>2. CASE ~(j = c.inst /\ q = k)
      BY <1>2, <1>c, <2>1, <3>2, StoreIs DEF AgedCaches
    <3> QED BY <3>1, <3>2
  <2>4. ASSUME NEW x \in Threads PROVE AgedCall(x, v)'
    <3>1. CASE x # t
      BY <1>2, <1>c, <2>1, <3>1, StoreIs DEF AgedCall
    <3>2. CASE x = t
      BY <1>2, <1>b, <2>1, <2>2, <3>2, StoreIs, NoCallIs DEF AgedCall
    <3> QED BY <3>1, <3>2
  <2> QED BY <2>3, <2>4
<1>3. ASSUME NEW t \in Threads,
             \/ KmsAnswers(t) \/ AsymmetricSign(t) \/ ServeJwks(t)
             \/ CreateKeyVersion(t) \/ WaitFails(t) \/ KmsFails(t)
      PROVE  AgedCaches(v)' /\ \A x \in Threads : AgedCall(x, v)'
  <2>1. state[v] = "ENABLED" /\ enabledAt'[v] = enabledAt[v] /\ AgedCaches(v)'
    BY <1>3, <1>a, <1>c, OtherIs DEF AgedCaches
  <2>2. ASSUME NEW x \in Threads PROVE AgedCall(x, v)'
    <3>1. CASE x # t
      BY <1>3, <1>c, <2>1, <3>1, OtherIs DEF AgedCall
    <3>2. CASE x = t
      BY <1>3, <1>b, <1>c, <2>1, <3>2, OtherIs, NoCallIs, AnswerCovers DEF AgedCall
    <3> QED BY <3>1, <3>2
  <2> QED BY <2>1, <2>2
<1>4. ASSUME NEW t \in Threads, Rotated(t)
      PROVE  AgedCaches(v)' /\ \A x \in Threads : AgedCall(x, v)'
  <2>1. state[v] = "ENABLED" /\ enabledAt'[v] = enabledAt[v]
    BY <1>4, <1>a, RotatedIs
  <2>2. AgedCaches(v)'
    BY <1>4, <1>b, <1>c, <2>1, RotatedIs DEF AgedCaches
  <2>3. \A x \in Threads : AgedCall(x, v)'
    BY <1>4, <1>c, <2>1, RotatedIs, NoCallIs DEF AgedCall
  <2> QED BY <2>2, <2>3
<1>5. ASSUME NEW u \in Versions, NEW outcome \in {"ENABLED", "GENERATION_FAILED"},
             GenerationEnds(u, outcome)
      PROVE  AgedCaches(v)' /\ \A x \in Threads : AgedCall(x, v)'
  <2>1. UNCHANGED <<cache, call, now>>
    BY <1>5, GenerationIs
  <2>2. CASE state'[v] = state[v] /\ enabledAt'[v] = enabledAt[v]
    BY <1>a, <1>c, <2>1, <2>2 DEF AgedCaches, AgedCall
  <2>3. CASE enabledAt'[v] = now
    BY <1>b, <2>1, <2>3 DEF AgedCaches, AgedCall
  <2> QED BY <1>5, <1>a, <2>2, <2>3, GenerationIs
<1>6. ASSUME NEW i \in Instances, Reap(i)
      PROVE  AgedCaches(v)' /\ \A x \in Threads : AgedCall(x, v)'
  <2>1. state[v] = "ENABLED" /\ enabledAt'[v] = enabledAt[v]
    BY <1>6, <1>a, ReapIs
  <2>2. AgedCaches(v)'
    BY <1>6, <1>b, <1>c, <2>1, ReapIs DEF AgedCaches
  <2>3. \A x \in Threads : AgedCall(x, v)'
    BY <1>6, <1>c, <2>1, ReapIs, NoCallIs DEF AgedCall
  <2> QED BY <2>2, <2>3
<1>7. ASSUME Tick \/ UNCHANGED vars
      PROVE  AgedCaches(v)' /\ \A x \in Threads : AgedCall(x, v)'
  BY <1>7, <1>a, <1>c DEF Tick, vars, AgedCaches, AgedCall
<1> QED
  BY <1>1, <1>2, <1>3, <1>4, <1>5, <1>6, <1>7, OpsAre
  DEF Next, GenerateClaims, SignClaims, GetPublicKey, GetJwks, PostRotate

LEMMA FlooredStep ==
    ASSUME TypeOK, TypeOK', InFlight, Floored, [Next]_vars
    PROVE  Floored'
<1> USE SigningKeysAssumption
<1>v. /\ \A w \in Versions : w \in Nat
      /\ \A w \in Versions \cup {0} : w \in Nat
      /\ "signer" \in Caches
  BY DEF Versions, Caches
<1>c. \A x \in Threads : /\ call[x].inst \in Instances /\ call[x].op \in Ops
                         /\ CacheOf[call[x].op] \in Caches
                         /\ \A w \in call[x].value : w \in Versions /\ w \in Nat
                         /\ call[x].floor \in Nat
  BY <1>v, OpsAre DEF TypeOK
<1>d. \A i \in Instances : /\ effective[i] \in Versions \cup {0} /\ effective[i] \in Nat
                           /\ effective'[i] \in Nat
                           /\ cache[i]["signer"].expiresAt \in Nat
                           /\ \A w \in cache[i]["signer"].value : w \in Versions /\ w \in Nat
  BY <1>v DEF TypeOK
<1>e. /\ now \in Nat
      /\ \A k \in Caches : Ttl[k] \in Nat /\ Ttl[k] > 0
  BY DEF TypeOK
<1>b. /\ \A i \in Instances : FlooredCache(i)
      /\ \A t \in Threads : FlooredCall(t)
  BY DEF Floored
<1>1. ASSUME NEW t \in Threads, NEW i \in Instances, NEW op \in Ops, Begin(t, op, i)
      PROVE  Floored'
  <2>1. \A j \in Instances : FlooredCache(j)'
    BY <1>1, <1>b, BeginIs DEF FlooredCache
  <2>2. ASSUME NEW x \in Threads PROVE FlooredCall(x)'
    <3>1. CASE x # t
      BY <1>1, <1>b, <3>1, BeginIs DEF FlooredCall
    <3>2. CASE x = t
      BY <1>1, <1>v, <1>c, <1>d, <1>e, <1>b, <3>2, BeginIs, NoCallIs, OpsAre DEF FlooredCall, FlooredCache
    <3> QED BY <3>1, <3>2
  <2> QED BY <2>1, <2>2 DEF Floored
<1>2. ASSUME NEW t \in Threads, StoreAnswer(t) PROVE Floored'
  <2> DEFINE c == call[t]
  <2>1. ASSUME NEW j \in Instances PROVE FlooredCache(j)'
    <3>1. CASE j = c.inst /\ CacheOf[c.op] = "signer"
      BY <1>2, <1>v, <1>c, <1>d, <1>e, <1>b, <3>1, StoreIs DEF FlooredCache, FlooredCall
    <3>2. CASE ~(j = c.inst /\ CacheOf[c.op] = "signer")
      BY <1>2, <1>v, <1>c, <1>d, <1>e, <1>b, <3>2, StoreIs DEF FlooredCache
    <3> QED BY <3>1, <3>2
  <2>2. ASSUME NEW x \in Threads PROVE FlooredCall(x)'
    <3>1. CASE x # t
      BY <1>2, <1>b, <3>1, StoreIs DEF FlooredCall
    <3>2. CASE x = t
      <4>1. c.floor <= effective[c.inst]
        BY <1>2, <1>b, StoreIs DEF FlooredCall
      <4>2. c.op = "sign" => c.value # {} /\ \A w \in c.value : effective[c.inst] <= w
        BY <1>2, <1>b, StoreIs, OpsAre DEF FlooredCall
      <4>3. c.op = "sign" => \A w \in c.value : c.floor <= w
        BY <1>v, <1>c, <1>d, <1>e, <4>1, <4>2
      <4> QED BY <1>2, <3>2, <4>2, <4>3, StoreIs, NoCallIs DEF FlooredCall
    <3> QED BY <3>1, <3>2
  <2> QED BY <2>1, <2>2 DEF Floored
<1>3. ASSUME NEW t \in Threads,
             \/ KmsAnswers(t) \/ AsymmetricSign(t) \/ ServeJwks(t)
             \/ CreateKeyVersion(t) \/ WaitFails(t) \/ KmsFails(t)
      PROVE  Floored'
  <2>1. ASSUME NEW j \in Instances PROVE FlooredCache(j)'
    <3>1. effective[j] # 0 => state'[effective[j]] = "ENABLED"
      BY <1>3, <1>v, <1>c, <1>d, <1>e, <1>b, OtherIs DEF FlooredCache
    <3> QED BY <1>3, <1>b, <3>1, OtherIs DEF FlooredCache
  <2>2. ASSUME NEW x \in Threads PROVE FlooredCall(x)'
    <3>1. CASE x # t
      BY <1>3, <1>b, <3>1, OtherIs DEF FlooredCall
    <3>2. CASE x = t
      <4>1. \A w \in Newest : effective[call[t].inst] <= w
        BY <1>v, <1>c, <1>d, <1>e, <1>b DEF FlooredCache, Newest, Enabled
      <4>2. Answer("signer") = Newest
        BY DEF Answer
      <4> QED BY <1>3, <1>b, <3>2, <4>1, <4>2, OtherIs, NoCallIs DEF FlooredCall
    <3> QED BY <3>1, <3>2
  <2> QED BY <2>1, <2>2 DEF Floored
<1>4. ASSUME NEW t \in Threads, Rotated(t) PROVE Floored'
  <2>1. \A j \in Instances : FlooredCache(j)'
    BY <1>4, <1>v, <1>c, <1>d, <1>e, <1>b, RotatedIs DEF FlooredCache
  <2>2. ASSUME NEW x \in Threads PROVE FlooredCall(x)'
    <3>1. \A j \in Instances : effective[j] <= effective'[j]
      BY <1>4, <1>v, <1>c, <1>d, <1>e, RotatedIs
    <3>2. call'[x] = NoCall \/ call'[x] = call[x]
      BY <1>4, RotatedIs
    <3>3. CASE call'[x] = NoCall
      BY <1>4, <3>3, NoCallIs DEF FlooredCall
    <3>4. CASE call'[x] = call[x]
      <4> DEFINE c == call[x]
      <4>1. c.pc = "ask" \/ c.pc = "store" => c.floor <= effective'[c.inst]
        <5>1. effective'[c.inst] \in Nat
          BY <1>c, <1>d
        <5> QED BY <1>v, <1>c, <1>d, <1>e, <1>b, <3>1, <5>1 DEF FlooredCall
      <4>2. c.pc = "store" /\ CacheOf[c.op] = "signer" =>
              c.value # {} /\ \A w \in c.value : effective'[c.inst] <= w
        <5> SUFFICES ASSUME c.pc = "store", CacheOf[c.op] = "signer"
                     PROVE  c.value # {} /\ \A w \in c.value : effective'[c.inst] <= w
          OBVIOUS
        <5>1. c.value # {} /\ \A w \in c.value : effective[c.inst] <= w
          BY <1>b DEF FlooredCall
        <5>2. \A i \in Instances, v \in Versions :
                c.inst = i /\ ~OlderAnswerComing(i, v) => \A w \in c.value : v <= w
          BY <1>v, <1>c, <1>d, <1>e DEF OlderAnswerComing, At
        <5> QED BY <1>4, <1>v, <1>c, <1>d, <1>e, <5>1, <5>2, RotatedIs
      <4> QED BY <1>b, <3>4, <4>1, <4>2 DEF FlooredCall
    <3> QED BY <3>2, <3>3, <3>4
  <2> QED BY <2>1, <2>2 DEF Floored
<1>5. ASSUME NEW v \in Versions, NEW outcome \in {"ENABLED", "GENERATION_FAILED"},
             GenerationEnds(v, outcome)
      PROVE  Floored'
  BY <1>5, <1>v, <1>c, <1>d, <1>e, <1>b, GenerationIs DEF Floored, FlooredCache, FlooredCall
<1>6. ASSUME NEW i \in Instances, Reap(i) PROVE Floored'
  <2>1. \A j \in Instances : FlooredCache(j)'
    BY <1>6, <1>v, <1>c, <1>d, <1>e, <1>b, ReapIs DEF FlooredCache
  <2>2. \A x \in Threads : FlooredCall(x)'
    BY <1>6, <1>b, ReapIs, NoCallIs DEF FlooredCall
  <2> QED BY <2>1, <2>2 DEF Floored
<1>7. ASSUME Tick \/ UNCHANGED vars PROVE Floored'
  BY <1>7, <1>b DEF Tick, vars, Floored, FlooredCache, FlooredCall
<1> QED
  BY <1>1, <1>2, <1>3, <1>4, <1>5, <1>6, <1>7, OpsAre
  DEF Next, GenerateClaims, SignClaims, GetPublicKey, GetJwks, PostRotate

-----------------------------------------------------------------------------
(* The properties *)

\* What the three properties follow from.
Safe == TypeOK /\ InFlight /\ Aged /\ Floored

LEMMA SafeInit == Init => Safe
<1> SUFFICES ASSUME Init PROVE Safe
  OBVIOUS
<1>1. TypeOK
  BY TypeInit
<1>2. /\ \A t \in Threads : call[t] = NoCall /\ NoCall.pc = "idle"
      /\ \A i \in Instances, k \in Caches : cache[i][k].value = {} /\ cache[i][k].expiresAt = 0
      /\ \A i \in Instances : effective[i] = 0
  BY DEF Init, NoCall
<1>3. InFlight
  BY <1>2 DEF InFlight, At, Waiting
<1>4. Aged
  <2>1. \A v \in Versions : enabledAt[v] \in Nat
    BY <1>1 DEF TypeOK
  <2>2. \A v \in Versions : AgedCaches(v)
    BY <1>2, <2>1, SigningKeysAssumption DEF AgedCaches
  <2>3. \A v \in Versions, t \in Threads : AgedCall(t, v)
    BY <1>2 DEF AgedCall
  <2> QED BY <2>2, <2>3 DEF Aged
<1>5. Floored
  <2>1. \A i \in Instances : FlooredCache(i)
    <3>1. "signer" \in Caches
      BY DEF Caches
    <3>2. ~(0 > 0)
      OBVIOUS
    <3>3. \A i \in Instances : effective[i] = 0 /\ ~(cache[i]["signer"].expiresAt > 0)
      BY <1>2, <3>1, <3>2
    <3> QED BY <3>3 DEF FlooredCache
  <2>2. \A t \in Threads : FlooredCall(t)
    BY <1>2 DEF FlooredCall
  <2> QED BY <2>1, <2>2 DEF Floored
<1> QED BY <1>1, <1>3, <1>4, <1>5 DEF Safe

LEMMA SafeAlways == Spec => []Safe
<1>1. Safe /\ [Next]_vars => Safe'
  BY TypeStep, InFlightStep, AgedStep, FlooredStep DEF Safe
<1> QED BY <1>1, SafeInit, PTL DEF Spec

\* What an execution that signs, or serves the JWKS, does not take into account
\* was ENABLED recently.
LEMMA UseIsFresh ==
    ASSUME Safe, NEW t \in Threads, NEW v \in Versions,
           call[t].pc \in {"sign", "keys"}, LongEnabled(v, CacheOf[call[t].op])
    PROVE  Covers(CacheOf[call[t].op], call[t].value, v)
<1> DEFINE k == CacheOf[call[t].op]
<1>1. /\ call[t].since \in Nat /\ now \in Nat /\ enabledAt[v] \in Nat
      /\ k \in Caches /\ Ttl[k] \in Nat /\ Latency \in Nat
  BY OpsAre, SigningKeysAssumption DEF Safe, TypeOK
<1>2. now <= call[t].since + Latency
  BY DEF Safe, InFlight, Waiting
<1>3. state[v] = "ENABLED" /\ enabledAt[v] + Ttl[k] + 2 * Latency <= now
  BY DEF LongEnabled
<1>4. ~(call[t].since < enabledAt[v] + Ttl[k] + Latency)
  BY <1>1, <1>2, <1>3
<1> QED BY <1>3, <1>4 DEF Safe, Aged, AgedCall

\* On every instance a rotation takes effect within the signer's time to live.
THEOREM RotationReachesEverySigner == Spec => []SigningLagBounded
<1>1. ASSUME Safe PROVE SigningLagBounded
  <2> SUFFICES ASSUME NEW t \in Threads, NEW v \in Versions, At(t, "sign"), LongEnabled(v, "signer")
               PROVE  \E w \in call[t].value : v <= w
    BY DEF SigningLagBounded
  <2>1. call[t].op = "sign" /\ CacheOf[call[t].op] = "signer"
    BY <1>1, OpsAre DEF Safe, InFlight
  <2>2. \A w \in call[t].value : v <= w
    BY <1>1, <2>1, UseIsFresh DEF At, Covers
  <2>3. call[t].value # {}
    BY <1>1 DEF Safe, Floored, FlooredCall, At
  <2> QED BY <2>2, <2>3
<1> QED BY <1>1, SafeAlways, PTL

\* A served JWKS lists every version enabled for longer than its time to live.
THEOREM JwksListsEveryVersion == Spec => []JwksComplete
<1>1. ASSUME Safe PROVE JwksComplete
  <2> SUFFICES ASSUME NEW t \in Threads, NEW v \in Versions, At(t, "keys"), LongEnabled(v, "enabled")
               PROVE  v \in call[t].value
    BY DEF JwksComplete
  <2>1. call[t].op = "jwks" /\ CacheOf[call[t].op] = "enabled"
    BY <1>1, OpsAre DEF Safe, InFlight
  <2> QED BY <1>1, <2>1, UseIsFresh DEF At, Covers
<1> QED BY <1>1, SafeAlways, PTL

\* On the instance that ran it a rotation takes effect at once, unless an older
\* answer was on its way to the signer.
THEOREM RotationIsImmediate == Spec => []RotationTakesEffect
<1>1. ASSUME Safe PROVE RotationTakesEffect
  BY <1>1 DEF Safe, Floored, FlooredCall, RotationTakesEffect, At
<1> QED BY <1>1, SafeAlways, PTL

=============================================================================
