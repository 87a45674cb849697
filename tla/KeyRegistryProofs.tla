------------------------- MODULE KeyRegistryProofs -------------------------
(***************************************************************************)
(* Proofs about KeyRegistry, for any number of users, executions and calls.*)
(*                                                                         *)
(* Whatever overlaps (DocumentInv, KeysInv): the answer of                 *)
(* hasActiveKeyMaterial is true, and documents, ciphertexts and executions *)
(* are well typed, because a DEK that is generated belongs to one write    *)
(* until that write and is never stored twice (Unshared).                  *)
(*                                                                         *)
(* And what overlapping writers can do to stored data (ShredInv): a        *)
(* ciphertext stays readable until its DEK is destroyed or a write that    *)
(* raced replaced the document it was in (Opens), and a document holds a   *)
(* destroyed DEK only if a rotation that raced wrote it back (Apart), so   *)
(* that only such a DEK opens anything after its shred.                    *)
(***************************************************************************)
EXTENDS KeyRegistry, FiniteSetTheorems, TLAPS

Dek == Nat \ {NoDek}

\* The deks maps: finitely many versions, a real DEK under each.
Deks == UNION {[S -> Dek] : S \in {S \in SUBSET Nat : IsFiniteSet(S)}}

\* The documents that may be stored: only an active one holds DEKs, and its
\* activeDekId is one of them.
Document ==
    {d \in [status: {"NONE", "ACTIVE", "SHREDDED"}, active: Nat, deks: Deks] :
        IF d.status = "ACTIVE" THEN d.active \in DOMAIN d.deks ELSE DOMAIN d.deks = {}}

Call ==
    [op: AllOps \cup {"none"}, pc: Points, user: Users, dek: Nat, version: Nat,
     read: Document, under: Nat, dead: SUBSET Nat]

\* The inductive invariant.  What a rotation read is a document too, so that
\* what it writes back is one, and an execution about to write has a DEK.
DocumentInv ==
    /\ minted \in Nat
    /\ doc \in [Users -> Document]
    /\ ciphertexts \subseteq [user: Users, version: Nat, dek: Nat]
    /\ destroyed \subseteq Nat
    /\ raced \in [generate: SUBSET Nat, rotate: SUBSET Nat]
    /\ call \in [Threads -> Call]
    /\ \A t \in Threads : call[t].pc \in {"set", "rotread", "rotset"} => call[t].dek \in Dek

-----------------------------------------------------------------------------
(* Documents *)

\* A finite map of versions to DEKs is a deks map.
LEMMA DeksMember ==
    ASSUME NEW S \in SUBSET Nat, IsFiniteSet(S), NEW f \in [S -> Dek]
    PROVE  f \in Deks
BY DEF Deks

\* The versions of a deks map are finitely many numbers.
LEMMA DeksShape ==
    ASSUME NEW f \in Deks
    PROVE  /\ DOMAIN f \in SUBSET Nat
           /\ IsFiniteSet(DOMAIN f)
           /\ f \in [DOMAIN f -> Dek]
BY DEF Deks

\* A missing document and what shredKeyForUser writes hold nothing.
LEMMA NothingStored == NoDocument \in Document /\ \A d : Shredded(d) \in Document
<1>1. Empty \in [{} -> Dek]
  BY DEF Empty
<1>2. Empty \in Deks /\ DOMAIN Empty = {}
  BY <1>1, DeksMember, FS_EmptySet
<1> QED
  BY <1>2 DEF NoDocument, Shredded, Document, NoDek

\* setKeyForUser stores a document.
LEMMA GeneratedDocument ==
    ASSUME NEW dek \in Dek
    PROVE  NewKeyMetadata(dek) \in Document
<1> DEFINE f == [v \in {1} |-> dek]
<1>1. f \in [{1} -> Dek] /\ DOMAIN f = {1}
  OBVIOUS
<1>2. f \in Deks
  BY <1>1, DeksMember, FS_Singleton
<1> HIDE DEF f
<1>3. [status |-> "ACTIVE", deks |-> f, active |-> 1] \in Document
  BY <1>1, <1>2 DEF Document
<1> QED
  BY <1>3 DEF f, NewKeyMetadata

\* What rotateKeyForUser computes from a document it read is a document.
LEMMA RotatedDocument ==
    ASSUME NEW read \in Document, NEW dek \in Dek
    PROVE  Rotated(read, dek) \in Document
<1> DEFINE new == NewVersionId(read.deks)
           S == DOMAIN read.deks \cup {new}
           f == [v \in S |-> IF v = new THEN dek ELSE read.deks[v]]
<1>1. read.deks \in Deks
  BY DEF Document
<1>2. /\ DOMAIN read.deks \in SUBSET Nat /\ IsFiniteSet(DOMAIN read.deks)
      /\ read.deks \in [DOMAIN read.deks -> Dek]
  BY <1>1, DeksShape
<1>3. new \in Nat
  BY <1>2, FS_CardinalityType DEF NewVersionId
<1> HIDE DEF new
<1>4. S \in SUBSET Nat /\ IsFiniteSet(S) /\ new \in S
  BY <1>2, <1>3, FS_AddElement
<1> HIDE DEF S
<1>5. f \in [S -> Dek] /\ DOMAIN f = S
  BY <1>2 DEF S
<1>6. f \in Deks
  BY <1>4, <1>5, DeksMember
<1> HIDE DEF f
<1>7. [status |-> "ACTIVE", active |-> new, deks |-> f] \in Document
  BY <1>3, <1>4, <1>5, <1>6 DEF Document
<1> QED
  BY <1>7 DEF f, S, new, Rotated

\* What getKeyForUser answers for a stored document.
LEMMA FetchedKey ==
    ASSUME NEW d \in Document, NEW version \in Nat
    PROVE  getKeyForUser(d, version) \in Nat
<1>1. d.deks \in Deks
  BY DEF Document
<1>2. d.deks \in [DOMAIN d.deks -> Dek]
  BY <1>1, DeksShape
<1> QED
  BY <1>2 DEF getKeyForUser, Dek, NoDek

\* activeDekId and the DEKs of a stored document are well typed.
LEMMA DocumentFields ==
    ASSUME NEW d \in Document
    PROVE  d.active \in Nat /\ Material(d.deks) \subseteq Nat
<1>1. d.deks \in Deks /\ d.active \in Nat
  BY DEF Document
<1>2. d.deks \in [DOMAIN d.deks -> Dek]
  BY <1>1, DeksShape
<1> QED
  BY <1>1, <1>2 DEF Material, Dek

\* A document tells the truth about its material.
LEMMA DocumentAgrees ==
    ASSUME NEW d \in Document
    PROVE  /\ hasActiveKeyMaterial(d) <=> Material(d.deks) # {}
           /\ hasActiveKeyMaterial(d) <=> getKeyForUser(d, d.active) # NoDek
<1>1. d.deks \in Deks
  BY DEF Document
<1>2. d.deks \in [DOMAIN d.deks -> Dek]
  BY <1>1, DeksShape
<1>3. CASE d.status = "ACTIVE"
  <2>1. d.active \in DOMAIN d.deks
    BY <1>3 DEF Document
  <2>2. d.deks[d.active] \in Material(d.deks) /\ d.deks[d.active] # NoDek
    BY <1>2, <2>1 DEF Material, Dek
  <2> QED
    BY <1>3, <2>1, <2>2 DEF hasActiveKeyMaterial, getKeyForUser
<1>4. CASE d.status # "ACTIVE"
  <2>1. DOMAIN d.deks = {} /\ d.status \in {"NONE", "SHREDDED"}
    BY <1>4 DEF Document
  <2>2. Material(d.deks) = {}
    BY <2>1 DEF Material
  <2> QED
    BY <1>4, <2>1, <2>2 DEF hasActiveKeyMaterial, getKeyForUser
<1> QED
  BY <1>3, <1>4

-----------------------------------------------------------------------------
(* Executions *)

\* A call that has just come in is well typed.
LEMMA FreshCall ==
    ASSUME NEW op \in AllOps \cup {"none"}, NEW pc \in Points, NEW u \in Users
    PROVE  Fresh(op, pc, u) \in Call
BY NothingStored DEF Fresh, Call, NoDek

\* So is the record of an execution at rest.
LEMMA NoCallIsCall == NoCall \in Call /\ NoCall.pc = "idle"
<1>1. (CHOOSE u \in Users : TRUE) \in Users
  BY KeyRegistryAssumption
<1>2. NoCall \in Call
  BY <1>1, FreshCall DEF NoCall, Points
<1> QED
  BY <1>2 DEF NoCall, Fresh

\* An execution that moves on keeps the invariant when its new record is typed
\* and has a DEK where it needs one.
LEMMA CallUpdate ==
    ASSUME DocumentInv, NEW t \in Threads, NEW c \in Call, Become(t, c),
           c.pc \in {"set", "rotread", "rotset"} => c.dek \in Dek
    PROVE  /\ call' \in [Threads -> Call]
           /\ \A x \in Threads :
                call'[x].pc \in {"set", "rotread", "rotset"} => call'[x].dek \in Dek
<1>1. call \in [Threads -> Call]
  BY DEF DocumentInv
<1>2. call' = [call EXCEPT ![t] = c]
  BY DEF Become
<1>3. call' \in [Threads -> Call]
  BY <1>1, <1>2
<1>4. \A x \in Threads : call'[x] = IF x = t THEN c ELSE call[x]
  BY <1>1, <1>2
<1> QED
  BY <1>3, <1>4 DEF DocumentInv

\* A step of execution t; u is the user of a new call.
Step(t, u) ==
    \/ PostKeyGenerate(t, u) \/ PostKeyRotate(t, u) \/ ShredRequested(t, u)
    \/ PostEncrypt(t, u) \/ GetEncryptionContext(t, u)
    \/ \E ct \in ciphertexts : PostDecrypt(t, ct)
    \/ GenerateCheck(t) \/ GenerateAndEncryptDek(t) \/ SetKeyForUser(t)
    \/ RotateRead(t) \/ RotateUpdate(t) \/ ShredKeyForUser(t)
    \/ ContextStatus(t) \/ ReadKey(t) \/ Produce(t) \/ Open(t)
    \/ Fails(t)

\* Every step of an execution leaves such a record.
LEMMA CallStep ==
    ASSUME DocumentInv, NEW t \in Threads, NEW u \in Users, Step(t, u)
    PROVE  \E c \in Call :
             /\ Become(t, c)
             /\ c.pc \in {"set", "rotread", "rotset"} => c.dek \in Dek
<1> DEFINE Goal == \E c \in Call :
             /\ Become(t, c)
             /\ c.pc \in {"set", "rotread", "rotset"} => c.dek \in Dek
           k == call[t]
<1> SUFFICES Goal
  OBVIOUS
<1>1. k \in Call /\ (k.pc \in {"set", "rotread", "rotset"} => k.dek \in Dek)
  BY DEF DocumentInv
<1>2. k.user \in Users /\ doc[k.user] \in Document /\ k.version \in Nat
  BY <1>1 DEF Call, DocumentInv
<1>3. Stop(t) => Goal
  BY NoCallIsCall DEF Stop
<1>4. \A p \in Points : [k EXCEPT !.pc = p] \in Call /\ [k EXCEPT !.pc = p].pc = p
  BY <1>1 DEF Call
<1>5. ASSUME NEW op \in AllOps, NEW pc \in Points \ {"set", "rotread", "rotset"},
             Become(t, Fresh(op, pc, u))
      PROVE  Goal
  <2>1. Fresh(op, pc, u) \in Call /\ Fresh(op, pc, u).pc = pc
    BY FreshCall DEF Fresh
  <2> QED
    BY <1>5, <2>1
<1>6. CASE PostKeyGenerate(t, u)
  BY <1>5, <1>6 DEF PostKeyGenerate, Begin, AllOps, Points
<1>7. CASE PostKeyRotate(t, u)
  BY <1>5, <1>7 DEF PostKeyRotate, Begin, AllOps, Points
<1>8. CASE ShredRequested(t, u)
  BY <1>5, <1>8 DEF ShredRequested, Begin, AllOps, Points
<1>9. CASE PostEncrypt(t, u)
  BY <1>5, <1>9 DEF PostEncrypt, Begin, AllOps, Points
<1>10. CASE GetEncryptionContext(t, u)
  BY <1>5, <1>10 DEF GetEncryptionContext, Begin, AllOps, Points
<1>11. ASSUME NEW ct \in ciphertexts, PostDecrypt(t, ct)
       PROVE  Goal
  <2>1. ct.user \in Users /\ ct.version \in Nat /\ ct.dek \in Nat /\ destroyed \in SUBSET Nat
    BY DEF DocumentInv
  <2> DEFINE f == Fresh("decrypt", "key", ct.user)
             c == [f EXCEPT !.version = ct.version, !.under = ct.dek, !.dead = destroyed]
  <2>2. f \in Call /\ f.pc = "key"
    BY <2>1, FreshCall DEF Fresh, AllOps, Points
  <2> HIDE DEF f
  <2>3. c \in Call /\ c.pc = "key"
    BY <2>1, <2>2 DEF Call
  <2>4. Become(t, c)
    BY <1>11 DEF f, PostDecrypt, Begin
  <2> QED
    BY <2>3, <2>4
<1>12. CASE GenerateCheck(t)
  <2> DEFINE c == [k EXCEPT !.pc = "mint", !.read = doc[k.user]]
  <2>1. Stop(t) \/ Become(t, c)
    BY <1>12 DEF GenerateCheck
  <2> HIDE DEF k
  <2>2. c \in Call /\ c.pc = "mint"
    BY <1>1, <1>2 DEF Call, Points
  <2> QED
    BY <1>3, <2>1, <2>2
<1>13. CASE GenerateAndEncryptDek(t)
  <2> DEFINE p == IF k.op = "rotate" THEN "rotread" ELSE "set"
             c == [k EXCEPT !.dek = NewDek, !.pc = p]
  <2>1. NewDek \in Dek
    BY DEF NewDek, Dek, NoDek, DocumentInv
  <2>2. p \in Points /\ NewDek \in Nat
    BY <2>1 DEF Points, Dek
  <2>3. Become(t, c)
    BY <1>13 DEF GenerateAndEncryptDek
  <2> HIDE DEF p, k
  <2>4. c \in Call /\ c.dek = NewDek
    BY <1>1, <2>2 DEF Call
  <2> QED
    BY <2>1, <2>3, <2>4
<1>14. CASE SetKeyForUser(t) \/ RotateUpdate(t) \/ ShredKeyForUser(t) \/ Produce(t) \/ Open(t)
            \/ Fails(t)
  BY <1>3, <1>14 DEF SetKeyForUser, RotateUpdate, ShredKeyForUser, Produce, Open, Fails
<1>15. CASE RotateRead(t)
  <2> DEFINE c == [k EXCEPT !.pc = "rotset", !.read = doc[k.user]]
  <2>1. Stop(t) \/ Become(t, c)
    BY <1>15 DEF RotateRead
  <2>2. k.pc = "rotread"
    BY <1>15 DEF RotateRead, At
  <2> HIDE DEF k
  <2>3. c \in Call /\ c.dek = k.dek
    BY <1>1, <1>2 DEF Call, Points
  <2> QED
    BY <1>1, <1>3, <2>1, <2>2, <2>3
<1>16. CASE ContextStatus(t)
  BY <1>3, <1>4, <1>16 DEF ContextStatus, Points
<1>17. CASE ReadKey(t)
  <2> DEFINE version == IF k.op = "decrypt" THEN k.version ELSE doc[k.user].active
             dek == getKeyForUser(doc[k.user], version)
             p == IF k.op = "decrypt" THEN "open" ELSE "produce"
             c == [k EXCEPT !.dek = dek, !.version = version, !.pc = p]
  <2>1. Stop(t) \/ Become(t, c)
    BY <1>17 DEF ReadKey
  <2>2. version \in Nat
    BY <1>2, DocumentFields
  <2> HIDE DEF k, version
  <2>3. dek \in Nat
    BY <1>2, <2>2, FetchedKey
  <2>4. p \in Points \ {"set", "rotread", "rotset"}
    BY DEF Points
  <2> HIDE DEF dek, p
  <2>5. c \in Call /\ c.pc = p
    BY <1>1, <2>2, <2>3, <2>4 DEF Call
  <2> QED
    BY <1>3, <2>1, <2>4, <2>5
<1> QED
  BY <1>6, <1>7, <1>8, <1>9, <1>10, <1>11, <1>12, <1>13, <1>14, <1>15, <1>16, <1>17
     DEF Step

-----------------------------------------------------------------------------
(* The invariant *)

\* What the steps of an execution do to the documents keeps them documents.
LEMMA WorldStep ==
    ASSUME DocumentInv, NEW t \in Threads, NEW u \in Users, Step(t, u)
    PROVE  /\ minted' \in Nat
           /\ doc' \in [Users -> Document]
           /\ ciphertexts' \subseteq [user: Users, version: Nat, dek: Nat]
           /\ destroyed' \subseteq Nat
<1> DEFINE World == /\ minted' \in Nat
                    /\ doc' \in [Users -> Document]
                    /\ ciphertexts' \subseteq [user: Users, version: Nat, dek: Nat]
                    /\ destroyed' \subseteq Nat
           k == call[t]
<1>1. /\ minted \in Nat /\ doc \in [Users -> Document]
      /\ ciphertexts \subseteq [user: Users, version: Nat, dek: Nat]
      /\ destroyed \subseteq Nat
  BY DEF DocumentInv
<1>2. k \in Call /\ (k.pc \in {"set", "rotread", "rotset"} => k.dek \in Dek)
  BY DEF DocumentInv
<1>3. /\ k.user \in Users /\ k.version \in Nat /\ k.dek \in Nat /\ k.read \in Document
      /\ doc[k.user] \in Document
  BY <1>1, <1>2 DEF Call
<1>4. UNCHANGED <<minted, doc, ciphertexts, destroyed>> => World
  BY <1>1
<1>5. CASE GenerateAndEncryptDek(t)
  BY <1>1, <1>5 DEF GenerateAndEncryptDek
<1>6. CASE SetKeyForUser(t)
  <2>1. NewKeyMetadata(k.dek) \in Document
    BY <1>2, <1>6, GeneratedDocument DEF SetKeyForUser, At
  <2> QED
    BY <1>1, <1>3, <1>6, <2>1 DEF SetKeyForUser
<1>7. CASE RotateUpdate(t)
  <2>1. Rotated(k.read, k.dek) \in Document
    BY <1>2, <1>3, <1>7, RotatedDocument DEF RotateUpdate, At
  <2> QED
    BY <1>1, <1>3, <1>7, <2>1 DEF RotateUpdate
<1>8. CASE ShredKeyForUser(t)
  <2>1. Shredded(doc[k.user]) \in Document
    BY NothingStored
  <2>2. Material(doc[k.user].deks) \subseteq Nat
    BY <1>3, DocumentFields
  <2> QED
    BY <1>1, <1>3, <1>8, <2>1, <2>2 DEF ShredKeyForUser
<1>9. CASE Produce(t)
  BY <1>1, <1>3, <1>9 DEF Produce
<1> QED
  BY <1>4, <1>5, <1>6, <1>7, <1>8, <1>9
     DEF Step, PostKeyGenerate, PostKeyRotate, ShredRequested, PostEncrypt, GetEncryptionContext,
         PostDecrypt, Begin, GenerateCheck, RotateRead, ContextStatus, ReadKey, Open, Fails

\* A write that races puts at stake the DEKs of the document it read and of the
\* one it replaces, and no others.
LEMMA RacedStep ==
    ASSUME DocumentInv, NEW t \in Threads, NEW u \in Users, Step(t, u)
    PROVE  /\ raced' \in [generate: SUBSET Nat, rotate: SUBSET Nat]
           /\ raced.generate \subseteq raced'.generate /\ raced.rotate \subseteq raced'.rotate
           /\ raced'.generate \cup raced'.rotate \subseteq
                raced.generate \cup raced.rotate \cup Material(call[t].read.deks)
                  \cup Material(doc[call[t].user].deks)
<1> DEFINE c == call[t]
           both == Material(c.read.deks) \cup Material(doc[c.user].deks)
<1>1. raced \in [generate: SUBSET Nat, rotate: SUBSET Nat]
  BY DEF DocumentInv
<1>2. both \subseteq Nat
  <2>1. c.read \in Document /\ doc[c.user] \in Document
    BY DEF DocumentInv, Call
  <2> QED
    BY <2>1, DocumentFields
<1>3. \/ raced' = raced
      \/ raced' = [raced EXCEPT !.generate = @ \cup both]
      \/ raced' = [raced EXCEPT !.rotate = @ \cup both]
  <2>1. Racing(c, "generate") \in {raced, [raced EXCEPT !.generate = @ \cup both]}
    BY <1>1 DEF Racing
  <2>2. Racing(c, "rotate") \in {raced, [raced EXCEPT !.rotate = @ \cup both]}
    BY <1>1 DEF Racing
  <2>3. raced' \in {raced, Racing(c, "generate"), Racing(c, "rotate")}
    BY DEF Step, PostKeyGenerate, PostKeyRotate, ShredRequested, PostEncrypt,
           GetEncryptionContext, PostDecrypt, Begin, GenerateCheck, RotateRead, ContextStatus,
           ReadKey, Open, Fails, GenerateAndEncryptDek, Produce, SetKeyForUser, RotateUpdate,
           ShredKeyForUser
  <2> QED
    BY <2>1, <2>2, <2>3
<1> HIDE DEF both
<1>4. /\ raced' \in [generate: SUBSET Nat, rotate: SUBSET Nat]
      /\ raced.generate \subseteq raced'.generate /\ raced.rotate \subseteq raced'.rotate
      /\ raced'.generate \cup raced'.rotate \subseteq raced.generate \cup raced.rotate \cup both
  BY <1>1, <1>2, <1>3
<1> QED
  BY <1>4 DEF both

\* DocumentInv is inductive.
LEMMA DocumentStep == DocumentInv /\ [Next]_vars => DocumentInv'
<1> SUFFICES ASSUME DocumentInv, [Next]_vars
             PROVE  DocumentInv'
  OBVIOUS
<1>1. CASE Next
  <2>1. PICK t \in Threads, u \in Users : Step(t, u)
    BY <1>1, KeyRegistryAssumption, Zenon DEF Next, Step
  <2>2. PICK c \in Call :
           /\ Become(t, c)
           /\ c.pc \in {"set", "rotread", "rotset"} => c.dek \in Dek
    BY <2>1, CallStep
  <2>3. /\ call' \in [Threads -> Call]
        /\ \A x \in Threads :
             call'[x].pc \in {"set", "rotread", "rotset"} => call'[x].dek \in Dek
    BY <2>2, CallUpdate
  <2>4. /\ minted' \in Nat
        /\ doc' \in [Users -> Document]
        /\ ciphertexts' \subseteq [user: Users, version: Nat, dek: Nat]
        /\ destroyed' \subseteq Nat
    BY <2>1, WorldStep
  <2>5. raced' \in [generate: SUBSET Nat, rotate: SUBSET Nat]
    BY <2>1, RacedStep
  <2> QED
    BY <2>3, <2>4, <2>5 DEF DocumentInv
<1>2. CASE UNCHANGED vars
  BY <1>2 DEF DocumentInv, vars
<1> QED
  BY <1>1, <1>2

\* At the start no user has a document.
LEMMA DocumentInit == Init => DocumentInv
BY NothingStored, NoCallIsCall DEF Init, DocumentInv

\* Under every interleaving of generates, rotations, shreds and failures the
\* answer of hasActiveKeyMaterial agrees with the DEKs the document holds and
\* with what getKeyForUser can fetch from it.
THEOREM MaterialAgreesHolds == Spec => []MaterialAgrees
<1>1. DocumentInv => MaterialAgrees
  BY DocumentAgrees DEF DocumentInv, MaterialAgrees
<1> QED
  BY <1>1, DocumentInit, DocumentStep, PTL DEF Spec

-----------------------------------------------------------------------------
(* DEKs are not reused *)

\* The versions of a document are v1 .. vn, with n different DEKs out of the
\* first m that were generated.
Numbered(deks, m) ==
    \E n \in Nat : /\ deks \in [1..n -> 1..m]
                   /\ \A v, w \in 1..n : deks[v] = deks[w] => v = w

\* There are no more versions than DEKs.
LEMMA NumberedBound ==
    ASSUME NEW m \in Nat, NEW deks, Numbered(deks, m)
    PROVE  \E n \in 0..m :
              /\ deks \in [1..n -> 1..m]
              /\ \A v, w \in 1..n : deks[v] = deks[w] => v = w
<1>1. PICK n \in Nat : /\ deks \in [1..n -> 1..m]
                       /\ \A v, w \in 1..n : deks[v] = deks[w] => v = w
  BY DEF Numbered
<1> DEFINE S == 1..n
           T == 1..m
<1>2. /\ IsFiniteSet(S) /\ Cardinality(S) = n
      /\ IsFiniteSet(T) /\ Cardinality(T) = m
  <2>1. 1 \in Int /\ n \in Int /\ m \in Int
    OBVIOUS
  <2>2. /\ IsFiniteSet(S) /\ Cardinality(S) = IF 1 > n THEN 0 ELSE n - 1 + 1
        /\ IsFiniteSet(T) /\ Cardinality(T) = IF 1 > m THEN 0 ELSE m - 1 + 1
    BY <2>1, FS_Interval, Zenon
  <2> HIDE DEF S, T
  <2> QED
    BY <2>2
<1>3. deks \in [S -> T] /\ \A v, w \in S : deks[v] = deks[w] => v = w
  BY <1>1
<1> HIDE DEF S, T
<1>4. ~(Cardinality(T) < Cardinality(S))
  <2> SUFFICES ASSUME Cardinality(T) < Cardinality(S) PROVE FALSE
    OBVIOUS
  <2>1. IsFiniteSet(S) /\ IsFiniteSet(T) /\ deks \in [S -> T]
    BY <1>2, <1>3
  <2>2. \E x, y \in S : x # y /\ deks[x] = deks[y]
    BY <2>1, FS_PigeonHole
  <2> QED
    BY <1>3, <2>2
<1>5. n \in 0..m
  BY <1>2, <1>4
<1> QED
  BY <1>1, <1>5

\* The versions and the DEKs of a numbered map.
LEMMA NumberedParts ==
    ASSUME NEW m \in Nat, NEW deks, Numbered(deks, m)
    PROVE  /\ DOMAIN deks \subseteq 1..m
           /\ \A v \in DOMAIN deks : deks[v] \in 1..m
           /\ Material(deks) \subseteq 1..m
<1>1. PICK n \in 0..m : deks \in [1..n -> 1..m]
  BY NumberedBound
<1>2. DOMAIN deks = 1..n /\ 1..n \subseteq 1..m /\ \A v \in 1..n : deks[v] \in 1..m
  BY <1>1
<1> QED
  BY <1>2 DEF Material

\* A map numbered when fewer DEKs were there still is.
LEMMA NumberedLater ==
    ASSUME NEW m \in Nat, NEW k \in Nat, m <= k, NEW deks, Numbered(deks, m)
    PROVE  Numbered(deks, k)
<1>1. 1..m \subseteq 1..k
  OBVIOUS
<1> QED
  BY <1>1 DEF Numbered

\* No DEK, and a first one.
LEMMA NumberedStart ==
    ASSUME NEW m \in Nat
    PROVE  /\ Numbered(Empty, m) /\ Material(Empty) = {}
           /\ \A dek \in 1..m :
                /\ Numbered(NewKeyMetadata(dek).deks, m)
                /\ Material(NewKeyMetadata(dek).deks) = {dek}
<1>1. Numbered(Empty, m) /\ Material(Empty) = {}
  <2>1. 1..0 = {}
    OBVIOUS
  <2>2. Empty \in [1..0 -> 1..m] /\ DOMAIN Empty = {}
    BY <2>1 DEF Empty
  <2> QED
    BY <2>1, <2>2 DEF Numbered, Material
<1>2. ASSUME NEW dek \in 1..m
      PROVE  /\ Numbered(NewKeyMetadata(dek).deks, m)
             /\ Material(NewKeyMetadata(dek).deks) = {dek}
  <2> DEFINE f == [v \in {1} |-> dek]
  <2>1. 1..1 = {1}
    OBVIOUS
  <2>2. f \in [1..1 -> 1..m] /\ DOMAIN f = {1} /\ f[1] = dek
    BY <2>1
  <2>3. NewKeyMetadata(dek).deks = f
    BY DEF NewKeyMetadata
  <2> HIDE DEF f
  <2>4. Numbered(f, m) /\ Material(f) = {dek}
    BY <2>1, <2>2 DEF Numbered, Material
  <2> QED
    BY <2>3, <2>4
<1> QED
  BY <1>1, <1>2

\* A rotation with a DEK the document does not hold adds one version and keeps
\* the others.
LEMMA NumberedRotated ==
    ASSUME NEW m \in Nat, NEW read, Numbered(read.deks, m),
           NEW dek \in 1..m, dek \notin Material(read.deks)
    PROVE  LET new == Rotated(read, dek) IN
           /\ Numbered(new.deks, m)
           /\ Material(new.deks) = Material(read.deks) \cup {dek}
           /\ DOMAIN read.deks \subseteq DOMAIN new.deks
           /\ \A v \in DOMAIN read.deks : new.deks[v] = read.deks[v]
           /\ new.status = "ACTIVE"
<1> DEFINE old == read.deks
<1>1. PICK n \in Nat : /\ old \in [1..n -> 1..m]
                       /\ \A v, w \in 1..n : old[v] = old[w] => v = w
  BY DEF Numbered
<1>2. NewVersionId(old) = n + 1
  <2>1. Cardinality(1..n) = IF 1 > n THEN 0 ELSE n - 1 + 1
    <3>1. 1 \in Int /\ n \in Int
      OBVIOUS
    <3> QED
      BY <3>1, FS_Interval, Zenon
  <2>2. DOMAIN old = 1..n /\ Cardinality(1..n) = n
    BY <1>1, <2>1
  <2> QED
    BY <2>2 DEF NewVersionId
<1>3. 1..n \cup {n + 1} = 1..(n + 1) /\ n + 1 \notin 1..n
  OBVIOUS
<1> DEFINE f == [v \in 1..(n + 1) |-> IF v = n + 1 THEN dek ELSE old[v]]
<1>4. Rotated(read, dek) = [status |-> "ACTIVE", active |-> n + 1, deks |-> f]
  BY <1>1, <1>2, <1>3 DEF Rotated
<1>5. \A v \in 1..n : old[v] # dek
  BY <1>1 DEF Material
<1> HIDE DEF old
<1>6. /\ f \in [1..(n + 1) -> 1..m] /\ DOMAIN f = 1..(n + 1)
      /\ f[n + 1] = dek /\ \A v \in 1..n : f[v] = old[v]
  <2>1. \A v \in 1..(n + 1) : (IF v = n + 1 THEN dek ELSE old[v]) \in 1..m
    BY <1>1, <1>3
  <2>2. n + 1 \in 1..(n + 1) /\ \A v \in 1..n : v \in 1..(n + 1) /\ v # n + 1
    BY <1>3
  <2> QED
    BY <2>1, <2>2
<1> HIDE DEF f
<1>7. \A v, w \in 1..(n + 1) : f[v] = f[w] => v = w
  BY <1>1, <1>3, <1>5, <1>6
<1>8. Numbered(f, m)
  <2>1. n + 1 \in Nat
    OBVIOUS
  <2> QED
    BY <1>6, <1>7, <2>1 DEF Numbered
<1>9. DOMAIN old = 1..n
  BY <1>1
<1>10. Material(f) = Material(old) \cup {dek}
  BY <1>3, <1>6, <1>9 DEF Material
<1> QED
  BY <1>3, <1>4, <1>6, <1>8, <1>9, <1>10 DEF old

-----------------------------------------------------------------------------
(* The invariant behind the types *)

\* Executions whose DEK is still to be generated: each was paid for by a call.
Minting == {t \in Threads : call[t].pc \in {"check", "mint"}}

\* An execution with a DEK it has not stored.
Pending(c) == c.pc \in {"set", "rotread", "rotset"}

\* A DEK some document held, holds, or held when a rotation read it.
Used(k) ==
    \/ k \in destroyed
    \/ \E u \in Users : k \in Material(doc[u].deks)
    \/ \E t \in Threads : k \in Material(call[t].read.deks)

\* What an execution knows of the m DEKs generated and of the destroyed ones.
Knows(c, m, gone) ==
    /\ c.op \in Ops \cup {"none"}
    /\ c.dek \in 0..m /\ c.under \in 0..m /\ c.version \in 0..m
    /\ c.dead \subseteq gone
    /\ Numbered(c.read.deks, m)
    /\ c.pc \in {"produce", "open"} => c.dek # NoDek /\ c.version # 0

Tag(m) == [user: Users, version: 1..m, dek: 1..m]

Counting ==
    /\ calls \in 0..MaxCalls /\ minted \in Nat
    /\ IsFiniteSet(Minting) /\ minted + Cardinality(Minting) <= calls

\* The DEK of a write to come is in no document, also not in the one a stale
\* rotation will write back, and belongs to that write alone.
Unshared ==
    /\ \A t \in Threads : Pending(call[t]) => ~Used(call[t].dek)
    /\ \A t, x \in Threads :
         Pending(call[t]) /\ Pending(call[x]) /\ call[t].dek = call[x].dek => t = x

KeysInv ==
    /\ Counting
    /\ \A u \in Users : Numbered(doc[u].deks, minted)
    /\ destroyed \cup raced.generate \cup raced.rotate \subseteq 1..minted
    /\ ciphertexts \subseteq Tag(minted) /\ leaked \subseteq Tag(minted)
    /\ \A t \in Threads : Knows(call[t], minted, destroyed)
    /\ Unshared

\* An execution at rest, or just called, knows nothing.
LEMMA KnowsNothing ==
    ASSUME NEW m \in Nat, NEW gone, NEW op \in Ops \cup {"none"}, NEW u,
           NEW pc \in Points \ {"produce", "open"}
    PROVE  Knows(Fresh(op, pc, u), m, gone)
<1>1. /\ Fresh(op, pc, u).op = op /\ Fresh(op, pc, u).pc = pc
      /\ Fresh(op, pc, u).dek = 0 /\ Fresh(op, pc, u).under = 0 /\ Fresh(op, pc, u).version = 0
      /\ Fresh(op, pc, u).dead = {} /\ Fresh(op, pc, u).read.deks = Empty
  BY DEF Fresh, NoDek, NoDocument
<1> QED
  BY <1>1, NumberedStart DEF Knows

LEMMA NoCallKnows ==
    ASSUME NEW m \in Nat, NEW gone
    PROVE  /\ Knows(NoCall, m, gone) /\ ~Pending(NoCall) /\ NoCall.pc = "idle"
           /\ NoCall.op = "none" /\ Material(NoCall.read.deks) = {}
<1>1. Knows(NoCall, m, gone)
  BY KnowsNothing DEF NoCall, Points
<1>2. NoCall.pc = "idle" /\ NoCall.op = "none" /\ NoCall.read.deks = Empty
  BY DEF NoCall, Fresh, NoDocument
<1> QED
  BY <1>1, <1>2, NumberedStart DEF Pending

\* What an execution knows stays true while others work.
LEMMA KnowsLater ==
    ASSUME NEW m \in Nat, NEW k \in Nat, m <= k, NEW gone, NEW more, gone \subseteq more,
           NEW c, Knows(c, m, gone)
    PROVE  Knows(c, k, more)
<1>1. 0..m \subseteq 0..k
  OBVIOUS
<1>2. Numbered(c.read.deks, k)
  BY NumberedLater DEF Knows
<1> QED
  BY <1>1, <1>2 DEF Knows

\* What getKeyForUser finds is a version and a DEK of the document.
LEMMA FetchedFrom ==
    ASSUME NEW m \in Nat, NEW d, Numbered(d.deks, m), NEW version,
           getKeyForUser(d, version) # NoDek
    PROVE  /\ version \in 1..m /\ getKeyForUser(d, version) \in 1..m
           /\ version \in DOMAIN d.deks /\ getKeyForUser(d, version) = d.deks[version]
           /\ getKeyForUser(d, version) \in Material(d.deks)
           /\ d.status \notin {"NONE", "SHREDDED"}
<1>1. /\ version \in DOMAIN d.deks /\ getKeyForUser(d, version) = d.deks[version]
      /\ d.status \notin {"NONE", "SHREDDED"}
  BY DEF getKeyForUser
<1>2. version \in 1..m /\ d.deks[version] \in 1..m
  BY <1>1, NumberedParts
<1> QED
  BY <1>1, <1>2 DEF Material

\* DEKs are only added, and destroyed for good.
LEMMA Grows ==
    ASSUME KeysInv, NEW t \in Threads, NEW u \in Users, Step(t, u)
    PROVE  /\ minted \in Nat /\ minted' \in Nat /\ minted <= minted'
           /\ destroyed \subseteq destroyed'
           /\ ~At(t, "mint") => minted' = minted
<1>1. minted \in Nat
  BY DEF KeysInv, Counting
<1>2. CASE GenerateAndEncryptDek(t)
  BY <1>1, <1>2 DEF GenerateAndEncryptDek
<1>3. CASE minted' = minted /\ (destroyed' = destroyed \/ ShredKeyForUser(t))
  BY <1>1, <1>3 DEF ShredKeyForUser
<1> QED
  BY <1>2, <1>3
     DEF Step, PostKeyGenerate, PostKeyRotate, ShredRequested, PostEncrypt, GetEncryptionContext,
         PostDecrypt, Begin, GenerateCheck, RotateRead, ContextStatus, ReadKey, Open, Fails,
         SetKeyForUser, RotateUpdate, ShredKeyForUser, Produce

\* The record c that execution t moves to: it has a DEK to store only if that
\* was generated now or is the one it had before its read, and it knows no
\* document but the one stored for its user.
Moves(t, c) ==
    /\ Knows(c, minted', destroyed')
    /\ Pending(c) => IF At(t, "mint") THEN c.dek = minted + 1 /\ minted' = minted + 1
                     ELSE At(t, "rotread") /\ c.dek = call[t].dek
    /\ Material(c.read.deks) \subseteq
         Material(call[t].read.deks) \cup Material(doc[call[t].user].deks)
    /\ Material(c.read.deks) = {} \/ c.user = call[t].user

LEMMA MovesStep ==
    ASSUME DocumentInv, KeysInv, NEW t \in Threads, NEW u \in Users, Step(t, u)
    PROVE  \E c : Become(t, c) /\ Moves(t, c)
<1> DEFINE Goal == \E c : Become(t, c) /\ Moves(t, c)
           k == call[t]
           data == doc[k.user]
<1> SUFFICES Goal
  OBVIOUS
<1>1. /\ minted \in Nat /\ minted' \in Nat /\ minted <= minted' /\ destroyed \subseteq destroyed'
      /\ ~At(t, "mint") => minted' = minted
  BY Grows
<1>2. k \in Call /\ Knows(k, minted, destroyed)
  BY DEF DocumentInv, KeysInv
<1>3. k.user \in Users /\ Numbered(data.deks, minted)
  BY <1>2 DEF Call, KeysInv
<1>4. Knows(k, minted', destroyed')
  BY <1>1, <1>2, KnowsLater
<1>5. Stop(t) => Goal
  BY <1>1, NoCallKnows DEF Stop, Moves
<1>6. ASSUME NEW op \in Ops, NEW pc \in {"check", "mint", "shred", "key", "status"},
             Become(t, Fresh(op, pc, u))
      PROVE  Goal
  <2> DEFINE c == Fresh(op, pc, u)
  <2>1. Knows(c, minted', destroyed')
    BY <1>1, KnowsNothing DEF Points
  <2>2. ~Pending(c) /\ c.read.deks = Empty
    BY DEF Fresh, Pending, NoDocument
  <2>3. Moves(t, c)
    BY <1>1, <2>1, <2>2, NumberedStart DEF Moves
  <2> QED
    BY <1>6, <2>3
<1>7. CASE PostKeyGenerate(t, u) \/ PostKeyRotate(t, u) \/ ShredRequested(t, u)
           \/ PostEncrypt(t, u) \/ GetEncryptionContext(t, u)
  BY <1>6, <1>7 DEF PostKeyGenerate, PostKeyRotate, ShredRequested, PostEncrypt,
                    GetEncryptionContext, Begin, Fresh
<1>8. ASSUME NEW ct \in ciphertexts, PostDecrypt(t, ct)
      PROVE  Goal
  <2>1. ct.version \in 1..minted /\ ct.dek \in 1..minted
    BY DEF KeysInv, Tag
  <2> DEFINE f == Fresh("decrypt", "key", ct.user)
             c == [f EXCEPT !.version = ct.version, !.under = ct.dek, !.dead = destroyed]
  <2>2. /\ c.op = "decrypt" /\ c.pc = "key" /\ c.dek = 0 /\ c.under = ct.dek
        /\ c.version = ct.version /\ c.dead = destroyed /\ c.read.deks = Empty
    BY DEF Fresh, NoDek, NoDocument
  <2>3. Become(t, c) /\ "decrypt" \in Ops
    BY <1>8, <2>2 DEF PostDecrypt, Begin
  <2> HIDE DEF c
  <2>4. ct.version \in 0..minted' /\ ct.dek \in 0..minted' /\ 0 \in 0..minted'
    BY <1>1, <2>1
  <2>5. Knows(c, minted', destroyed') /\ ~Pending(c)
    BY <1>1, <2>2, <2>3, <2>4, NumberedStart DEF Knows, Pending
  <2>6. Moves(t, c)
    BY <1>1, <2>2, <2>5, NumberedStart DEF Moves
  <2> QED
    BY <2>3, <2>6
<1>9. ASSUME Become(t, [k EXCEPT !.pc = "key"])
      PROVE  Goal
  <2> DEFINE c == [k EXCEPT !.pc = "key"]
  <2>1. /\ c.op = k.op /\ c.pc = "key" /\ c.dek = k.dek /\ c.under = k.under
        /\ c.version = k.version /\ c.dead = k.dead /\ c.read = k.read /\ c.user = k.user
    BY <1>2 DEF Call
  <2> HIDE DEF c
  <2>2. Knows(c, minted', destroyed') /\ ~Pending(c)
    BY <1>4, <2>1 DEF Knows, Pending
  <2>3. Moves(t, c)
    BY <2>1, <2>2 DEF Moves
  <2> QED
    BY <1>9, <2>3 DEF c
<1>10. CASE ContextStatus(t)
  BY <1>5, <1>9, <1>10 DEF ContextStatus
<1>15. CASE GenerateCheck(t)
  <2> DEFINE c == [k EXCEPT !.pc = "mint", !.read = data]
  <2>1. Stop(t) \/ Become(t, c)
    BY <1>15 DEF GenerateCheck
  <2>2. ~At(t, "mint")
    BY <1>15 DEF GenerateCheck, At
  <2>3. /\ c.op = k.op /\ c.pc = "mint" /\ c.dek = k.dek /\ c.under = k.under
        /\ c.version = k.version /\ c.dead = k.dead /\ c.read = data /\ c.user = k.user
    BY <1>2 DEF Call
  <2> HIDE DEF c
  <2>4. Numbered(c.read.deks, minted')
    BY <1>1, <1>3, <2>2, <2>3
  <2>5. Knows(c, minted', destroyed') /\ ~Pending(c)
    BY <1>4, <2>3, <2>4 DEF Knows, Pending
  <2>6. Moves(t, c)
    BY <2>3, <2>5 DEF Moves
  <2> QED
    BY <1>5, <2>1, <2>6
<1>11. CASE GenerateAndEncryptDek(t)
  <2> DEFINE p == IF k.op = "rotate" THEN "rotread" ELSE "set"
             c == [k EXCEPT !.dek = NewDek, !.pc = p]
  <2>1. /\ Become(t, c) /\ At(t, "mint") /\ minted' = minted + 1
    BY <1>11 DEF GenerateAndEncryptDek
  <2>2. p \in {"rotread", "set"}
    OBVIOUS
  <2> HIDE DEF p
  <2>3. /\ c.op = k.op /\ c.pc = p /\ c.dek = minted + 1 /\ c.under = k.under
        /\ c.version = k.version /\ c.dead = k.dead /\ c.read = k.read /\ c.user = k.user
    BY <1>2 DEF Call, NewDek
  <2> HIDE DEF c
  <2>4. minted + 1 \in 0..minted'
    BY <1>1, <2>1
  <2>5. Knows(c, minted', destroyed')
    BY <1>4, <2>2, <2>3, <2>4 DEF Knows
  <2>6. Moves(t, c)
    BY <2>1, <2>3, <2>5 DEF Moves
  <2> QED
    BY <2>1, <2>6
<1>12. CASE RotateRead(t)
  <2> DEFINE c == [k EXCEPT !.pc = "rotset", !.read = data]
  <2>1. Stop(t) \/ Become(t, c)
    BY <1>12 DEF RotateRead
  <2>2. At(t, "rotread") /\ ~At(t, "mint")
    BY <1>12 DEF RotateRead, At
  <2>3. /\ c.op = k.op /\ c.pc = "rotset" /\ c.dek = k.dek /\ c.under = k.under
        /\ c.version = k.version /\ c.dead = k.dead /\ c.read = data /\ c.user = k.user
    BY <1>2 DEF Call
  <2> HIDE DEF c
  <2>4. Numbered(c.read.deks, minted')
    BY <1>1, <1>3, <2>2, <2>3
  <2>5. Knows(c, minted', destroyed')
    BY <1>4, <2>3, <2>4 DEF Knows
  <2>6. Moves(t, c)
    BY <2>2, <2>3, <2>5 DEF Moves
  <2> QED
    BY <1>5, <2>1, <2>6
<1>13. CASE ReadKey(t)
  <2> DEFINE version == IF k.op = "decrypt" THEN k.version ELSE data.active
             dek == getKeyForUser(data, version)
             p == IF k.op = "decrypt" THEN "open" ELSE "produce"
             c == [k EXCEPT !.dek = dek, !.version = version, !.pc = p]
  <2>1. Stop(t) \/ (Become(t, c) /\ dek # NoDek)
    BY <1>13 DEF ReadKey
  <2>2. p \in {"produce", "open"}
    OBVIOUS
  <2> HIDE DEF p, version, dek
  <2>3. /\ c.op = k.op /\ c.pc = p /\ c.dek = dek /\ c.under = k.under
        /\ c.version = version /\ c.dead = k.dead /\ c.read = k.read /\ c.user = k.user
    BY <1>2 DEF Call
  <2> HIDE DEF c
  <2>4. ASSUME dek # NoDek
        PROVE  Moves(t, c)
    <3>1. dek \in 1..minted /\ version \in 1..minted
      BY <1>1, <1>3, <2>4, FetchedFrom DEF dek
    <3>2. dek \in 0..minted' /\ version \in 0..minted' /\ dek # NoDek /\ version # 0
      BY <1>1, <3>1 DEF NoDek
    <3>3. Knows(c, minted', destroyed')
      BY <1>4, <2>3, <3>2 DEF Knows
    <3>4. ~Pending(c)
      BY <2>2, <2>3 DEF Pending
    <3> QED
      BY <2>3, <3>3, <3>4 DEF Moves
  <2> QED
    BY <1>5, <2>1, <2>4
<1>14. CASE SetKeyForUser(t) \/ RotateUpdate(t) \/ ShredKeyForUser(t) \/ Produce(t) \/ Open(t)
            \/ Fails(t)
  BY <1>5, <1>14 DEF SetKeyForUser, RotateUpdate, ShredKeyForUser, Produce, Open, Fails
<1> QED
  BY <1>7, <1>8, <1>10, <1>11, <1>12, <1>13, <1>14, <1>15 DEF Step

\* The steps that write another document than a shredded one.
Stores(t) == At(t, "set") \/ At(t, "rotset")

\* What a step stores is numbered, and made of DEKs already in use but for the
\* one that was pending.
LEMMA StoredStep ==
    ASSUME DocumentInv, KeysInv, NEW t \in Threads, NEW u \in Users, Step(t, u), NEW w \in Users
    PROVE  /\ Numbered(doc'[w].deks, minted')
           /\ \A k \in Material(doc'[w].deks) :
                \/ k \in Material(doc[w].deks) \cup Material(call[t].read.deks)
                \/ Stores(t) /\ k = call[t].dek
<1> DEFINE c == call[t]
           Goal == /\ Numbered(doc'[w].deks, minted')
                   /\ \A k \in Material(doc'[w].deks) :
                        \/ k \in Material(doc[w].deks) \cup Material(c.read.deks)
                        \/ Stores(t) /\ k = c.dek
<1> SUFFICES Goal
  OBVIOUS
<1>1. /\ minted \in Nat /\ minted' \in Nat /\ minted <= minted'
      /\ ~At(t, "mint") => minted' = minted
  BY Grows
<1>2. /\ c \in Call /\ Knows(c, minted, destroyed)
      /\ Pending(c) => ~Used(c.dek)
      /\ doc \in [Users -> Document]
  BY DEF DocumentInv, KeysInv, Unshared
<1>3. Numbered(doc[w].deks, minted) /\ Numbered(doc[w].deks, minted')
  BY <1>1, NumberedLater DEF KeysInv
<1>4. CASE doc'[w] = doc[w]
  BY <1>3, <1>4
<1>5. ASSUME Stores(t)
      PROVE  /\ c.dek \in 1..minted /\ c.dek \notin Material(c.read.deks) /\ minted' = minted
             /\ Numbered(c.read.deks, minted)
  <2>1. Pending(c) /\ ~At(t, "mint")
    BY <1>5 DEF Stores, At, Pending
  <2>2. c.dek \in Dek
    BY <2>1 DEF DocumentInv, Pending
  <2>3. c.dek \in 1..minted
    BY <1>1, <1>2, <2>2 DEF Knows, Dek, NoDek
  <2>4. c.dek \notin Material(c.read.deks)
    BY <1>2, <2>1 DEF Used
  <2> QED
    BY <1>1, <1>2, <2>1, <2>3, <2>4 DEF Knows
<1>6. CASE SetKeyForUser(t)
  <2>1. Stores(t) /\ (doc'[w] = doc[w] \/ doc'[w] = NewKeyMetadata(c.dek))
    BY <1>2, <1>6 DEF SetKeyForUser, Stores
  <2>2. Numbered(NewKeyMetadata(c.dek).deks, minted) /\ Material(NewKeyMetadata(c.dek).deks) = {c.dek}
    BY <1>1, <1>5, <2>1, NumberedStart
  <2> QED
    BY <1>4, <1>5, <2>1, <2>2
<1>7. CASE RotateUpdate(t)
  <2>1. Stores(t) /\ (doc'[w] = doc[w] \/ doc'[w] = Rotated(c.read, c.dek))
    BY <1>2, <1>7 DEF RotateUpdate, Stores
  <2>2. /\ Numbered(Rotated(c.read, c.dek).deks, minted)
        /\ Material(Rotated(c.read, c.dek).deks) = Material(c.read.deks) \cup {c.dek}
    BY <1>1, <1>5, <2>1, NumberedRotated
  <2> QED
    BY <1>4, <1>5, <2>1, <2>2
<1>8. CASE ShredKeyForUser(t)
  <2>1. doc'[w] = doc[w] \/ doc'[w].deks = Empty
    BY <1>2, <1>8 DEF ShredKeyForUser, Shredded
  <2> QED
    BY <1>1, <1>4, <2>1, NumberedStart
<1> QED
  BY <1>4, <1>6, <1>7, <1>8
     DEF Step, PostKeyGenerate, PostKeyRotate, ShredRequested, PostEncrypt, GetEncryptionContext,
         PostDecrypt, Begin, GenerateCheck, RotateRead, ContextStatus, ReadKey, Open, Fails,
         GenerateAndEncryptDek, Produce

\* A step brings no DEK into use but the pending one it stores.
LEMMA UsedStep ==
    ASSUME DocumentInv, KeysInv, NEW t \in Threads, NEW u \in Users, Step(t, u),
           NEW k \in Nat, Used(k)'
    PROVE  Used(k) \/ (Stores(t) /\ k = call[t].dek)
<1>1. PICK c : Become(t, c) /\ Moves(t, c)
  BY MovesStep
<1>2. call \in [Threads -> Call] /\ call[t].user \in Users
  BY DEF DocumentInv, Call
<1>3. \A x \in Threads : call'[x] = IF x = t THEN c ELSE call[x]
  BY <1>1, <1>2 DEF Become
<1>4. CASE k \in destroyed'
  <2>1. destroyed' = destroyed \/ destroyed' = destroyed \cup Material(doc[call[t].user].deks)
    BY DEF Step, PostKeyGenerate, PostKeyRotate, ShredRequested, PostEncrypt,
           GetEncryptionContext, PostDecrypt, Begin, GenerateCheck, RotateRead, ContextStatus,
           ReadKey, Open, Fails, GenerateAndEncryptDek, Produce, SetKeyForUser, RotateUpdate,
           ShredKeyForUser
  <2> QED
    BY <1>2, <1>4, <2>1 DEF Used
<1>5. ASSUME NEW w \in Users, k \in Material(doc'[w].deks)
      PROVE  Used(k) \/ (Stores(t) /\ k = call[t].dek)
  BY <1>5, StoredStep DEF Used
<1>6. ASSUME NEW x \in Threads, k \in Material(call'[x].read.deks)
      PROVE  Used(k)
  BY <1>1, <1>2, <1>3, <1>6 DEF Used, Moves
<1> QED
  BY <1>4, <1>5, <1>6 DEF Used

\* No DEK in use is beyond those generated.
LEMMA UsedMinted ==
    ASSUME KeysInv, NEW k, Used(k)
    PROVE  k \in 1..minted
<1>1. minted \in Nat
  BY DEF KeysInv, Counting
<1>2. ASSUME NEW w \in Users, k \in Material(doc[w].deks) PROVE k \in 1..minted
  BY <1>1, <1>2, NumberedParts DEF KeysInv
<1>3. ASSUME NEW x \in Threads, k \in Material(call[x].read.deks) PROVE k \in 1..minted
  BY <1>1, <1>3, NumberedParts DEF KeysInv, Knows
<1>4. CASE k \in destroyed
  BY <1>4 DEF KeysInv
<1> QED
  BY <1>2, <1>3, <1>4 DEF Used

\* A pending DEK stays out of every document until its own write.
LEMMA UnsharedStep ==
    ASSUME DocumentInv, KeysInv, NEW t \in Threads, NEW u \in Users, Step(t, u)
    PROVE  Unshared'
<1>1. PICK c : Become(t, c) /\ Moves(t, c)
  BY MovesStep
<1>2. call \in [Threads -> Call]
  BY DEF DocumentInv
<1>3. \A x \in Threads : call'[x] = IF x = t THEN c ELSE call[x]
  BY <1>1, <1>2 DEF Become
<1>4. /\ minted \in Nat
      /\ \A x \in Threads : call[x].dek \in 0..minted
      /\ \A x \in Threads : Pending(call[x]) => ~Used(call[x].dek)
      /\ \A x, y \in Threads :
           Pending(call[x]) /\ Pending(call[y]) /\ call[x].dek = call[y].dek => x = y
  BY DEF KeysInv, Counting, Knows, Unshared
<1>5. CASE At(t, "mint")
  <2>1. Pending(c) => c.dek = minted + 1
    BY <1>1, <1>5 DEF Moves
  <2>2. ~Stores(t)
    BY <1>5 DEF Stores, At
  <2>3. \A k \in Nat : Used(k)' => Used(k)
    BY <2>2, UsedStep
  <2>4. ASSUME NEW x \in Threads, Pending(call'[x]) PROVE ~Used(call[x].dek)'
    <3>1. PICK k \in Nat : k = call'[x].dek
      BY <1>3, <1>4, <2>1, <2>4
    <3>2. ~Used(k)
      BY <1>3, <1>4, <2>1, <2>4, <3>1, UsedMinted
    <3>3. ~Used(k)'
      BY <2>3, <3>2
    <3> QED
      BY <3>1, <3>3 DEF Used
  <2>5. \A x, y \in Threads :
           Pending(call'[x]) /\ Pending(call'[y]) /\ call'[x].dek = call'[y].dek => x = y
    BY <1>3, <1>4, <2>1
  <2> QED
    BY <2>4, <2>5 DEF Unshared, Pending
<1>6. CASE ~At(t, "mint")
  <2>1. Pending(c) => At(t, "rotread") /\ Pending(call[t]) /\ c.dek = call[t].dek
    BY <1>1, <1>6 DEF Moves, At, Pending
  <2>2. ASSUME NEW x \in Threads, Pending(call'[x]) PROVE ~Used(call[x].dek)'
    <3>1. Pending(call[x]) /\ call'[x].dek = call[x].dek /\ (x = t => ~Stores(t))
      BY <1>3, <2>1, <2>2 DEF Stores, At
    <3>2. PICK k \in Nat : k = call'[x].dek
      BY <1>4, <3>1
    <3>3. ~Used(k) /\ ~(Stores(t) /\ k = call[t].dek)
      <4>1. Stores(t) => Pending(call[t])
        BY DEF Stores, At, Pending
      <4> QED
        BY <1>4, <3>1, <3>2, <4>1
    <3>4. ~Used(k)'
      BY <3>3, UsedStep
    <3> QED
      BY <3>2, <3>4 DEF Used
  <2>3. \A x, y \in Threads :
           Pending(call'[x]) /\ Pending(call'[y]) /\ call'[x].dek = call'[y].dek => x = y
    BY <1>3, <1>4, <2>1
  <2> QED
    BY <2>2, <2>3 DEF Unshared, Pending
<1> QED
  BY <1>5, <1>6

\* A call pays for the one DEK its execution may generate.
LEMMA CountingStep ==
    ASSUME DocumentInv, KeysInv, NEW t \in Threads, NEW u \in Users, Step(t, u)
    PROVE  Counting'
<1>1. PICK c : Become(t, c) /\ (\E k \in Call : Become(t, k))
  BY CallStep
<1>2. call \in [Threads -> Call]
  BY DEF DocumentInv
<1>3. \A x \in Threads : call'[x] = IF x = t THEN c ELSE call[x]
  BY <1>1, <1>2 DEF Become
<1>4. PICK n \in Nat, m \in Nat, k \in Nat :
        /\ n = Cardinality(Minting) /\ m = minted /\ k = calls /\ m + n <= k /\ k <= MaxCalls
        /\ IsFiniteSet(Minting) /\ MaxCalls \in Nat
  <2>1. /\ IsFiniteSet(Minting) /\ minted \in Nat /\ calls \in 0..MaxCalls /\ MaxCalls \in Nat
        /\ minted + Cardinality(Minting) <= calls
    BY KeyRegistryAssumption DEF KeysInv, Counting
  <2> QED
    BY <2>1, FS_CardinalityType
<1>5. Minting' \subseteq Minting \cup {t}
  BY <1>3 DEF Minting
<1>6. IsFiniteSet(Minting \cup {t}) /\ Cardinality(Minting \cup {t}) <= n + 1
  <2>1. /\ IsFiniteSet(Minting \cup {t})
        /\ \/ Cardinality(Minting \cup {t}) = Cardinality(Minting)
           \/ Cardinality(Minting \cup {t}) = Cardinality(Minting) + 1
    BY <1>4, FS_AddElement
  <2> QED
    BY <1>4, <2>1
<1>7. /\ IsFiniteSet(Minting') /\ Cardinality(Minting') \in Nat
      /\ Cardinality(Minting') <= Cardinality(Minting \cup {t})
      /\ Cardinality(Minting \cup {t}) \in Nat
  <2>1. IsFiniteSet(Minting') /\ Cardinality(Minting') <= Cardinality(Minting \cup {t})
    BY <1>5, <1>6, FS_Subset
  <2> QED
    BY <1>6, <2>1, FS_CardinalityType
<1>8. CASE calls' = calls + 1 /\ calls < MaxCalls /\ minted' = minted
  <2>1. k + 1 <= MaxCalls /\ Cardinality(Minting') <= n + 1 /\ calls' = k + 1 /\ minted' = m
    BY <1>4, <1>6, <1>7, <1>8
  <2>2. calls' \in 0..MaxCalls /\ minted' + Cardinality(Minting') <= calls'
    BY <1>4, <1>7, <2>1
  <2> QED
    BY <1>4, <1>7, <2>1, <2>2 DEF Counting
<1>9. CASE GenerateAndEncryptDek(t)
  <2>1. t \in Minting /\ minted' = m + 1 /\ calls' = k
    BY <1>4, <1>9 DEF GenerateAndEncryptDek, Minting, At
  <2>2. call'[t].pc \in {"rotread", "set"}
    BY <1>2, <1>9 DEF GenerateAndEncryptDek, Become, Call
  <2>3. Minting' = Minting \ {t}
    BY <1>3, <2>2 DEF Minting
  <2>4. Cardinality(Minting') = n - 1
    BY <1>4, <2>1, <2>3, FS_RemoveElement
  <2>5. calls' \in 0..MaxCalls /\ minted' \in Nat /\ minted' + Cardinality(Minting') <= calls'
    BY <1>4, <1>7, <2>1, <2>4
  <2> QED
    BY <1>7, <2>5 DEF Counting
<1>10. CASE calls' = calls /\ minted' = minted /\ Minting' \subseteq Minting
  <2>1. Cardinality(Minting') <= n
    BY <1>4, <1>10, FS_Subset
  <2>2. minted' + Cardinality(Minting') <= calls'
    BY <1>4, <1>7, <1>10, <2>1
  <2> QED
    BY <1>4, <1>7, <1>10, <2>2 DEF Counting
<1>11. ASSUME calls' = calls, minted' = minted,
              At(t, "check") \/ Stop(t) \/ Become(t, [call[t] EXCEPT !.pc = "key"])
                \/ RotateRead(t) \/ ReadKey(t)
       PROVE  Counting'
  <2>1. CASE At(t, "check")
    BY <1>5, <1>10, <1>11, <2>1 DEF At, Minting
  <2>2. ASSUME call'[t].pc \notin {"check", "mint"} PROVE Counting'
    BY <1>3, <1>10, <1>11, <2>2 DEF Minting
  <2>3. CASE Stop(t)
    BY <1>2, <2>2, <2>3, NoCallIsCall DEF Stop, Become
  <2>4. CASE Become(t, [call[t] EXCEPT !.pc = "key"])
    BY <1>2, <2>2, <2>4 DEF Become, Call
  <2>5. CASE RotateRead(t)
    BY <1>2, <2>2, <2>3, <2>5 DEF RotateRead, Become, Call
  <2>6. CASE ReadKey(t)
    BY <1>2, <2>2, <2>3, <2>6 DEF ReadKey, Become, Call
  <2> QED
    BY <1>11, <2>1, <2>3, <2>4, <2>5, <2>6
<1> QED
  BY <1>8, <1>9, <1>11
     DEF Step, PostKeyGenerate, PostKeyRotate, ShredRequested, PostEncrypt, GetEncryptionContext,
         PostDecrypt, Begin, GenerateCheck, RotateRead, ContextStatus, ReadKey, Open, Fails,
         SetKeyForUser, RotateUpdate, ShredKeyForUser, Produce

\* A ciphertext that is made or opened is tagged with a version and a DEK that
\* exist.
LEMMA TagStep ==
    ASSUME DocumentInv, KeysInv, NEW t \in Threads, NEW u \in Users, Step(t, u)
    PROVE  /\ destroyed' \cup raced'.generate \cup raced'.rotate \subseteq 1..minted'
           /\ ciphertexts' \subseteq Tag(minted') /\ leaked' \subseteq Tag(minted')
<1> DEFINE c == call[t]
           own == [user |-> c.user, version |-> c.version, dek |-> c.dek]
<1>1. minted \in Nat /\ minted' \in Nat /\ minted <= minted'
  BY Grows
<1>2. /\ c.user \in Users /\ Knows(c, minted, destroyed)
      /\ destroyed \cup raced.generate \cup raced.rotate \subseteq 1..minted
      /\ ciphertexts \subseteq Tag(minted) /\ leaked \subseteq Tag(minted)
  BY DEF DocumentInv, Call, KeysInv
<1>3. Tag(minted) \subseteq Tag(minted') /\ 1..minted \subseteq 1..minted'
  <2>1. 1..minted \subseteq 1..minted'
    BY <1>1
  <2> QED
    BY <2>1 DEF Tag
<1>4. c.pc \in {"produce", "open"} => own \in Tag(minted)
  BY <1>1, <1>2 DEF Knows, Tag, NoDek
<1>5. /\ Material(doc[c.user].deks) \subseteq 1..minted
      /\ Material(c.read.deks) \subseteq 1..minted
  BY <1>1, <1>2, NumberedParts DEF KeysInv, Knows
<1>a. raced'.generate \cup raced'.rotate \subseteq 1..minted
  BY <1>2, <1>5, RacedStep
<1>6. CASE UNCHANGED <<destroyed, ciphertexts, leaked>>
  BY <1>2, <1>3, <1>6, <1>a
<1>7. CASE ShredKeyForUser(t)
  BY <1>2, <1>3, <1>5, <1>7, <1>a DEF ShredKeyForUser
<1>8. CASE Produce(t)
  BY <1>2, <1>3, <1>4, <1>8, <1>a DEF Produce, At
<1>9. CASE Open(t)
  BY <1>2, <1>3, <1>4, <1>9, <1>a DEF Open, At
<1> QED
  BY <1>6, <1>7, <1>8, <1>9
     DEF Step, PostKeyGenerate, PostKeyRotate, ShredRequested, PostEncrypt, GetEncryptionContext,
         PostDecrypt, Begin, GenerateCheck, RotateRead, ContextStatus, ReadKey, Fails,
         GenerateAndEncryptDek, SetKeyForUser, RotateUpdate

\* KeysInv is inductive beside DocumentInv.
LEMMA KeysStep == DocumentInv /\ KeysInv /\ [Next]_vars => KeysInv'
<1> SUFFICES ASSUME DocumentInv, KeysInv, [Next]_vars
             PROVE  KeysInv'
  OBVIOUS
<1>1. CASE Next
  <2>1. PICK t \in Threads, u \in Users : Step(t, u)
    BY <1>1, KeyRegistryAssumption, Zenon DEF Next, Step
  <2>2. PICK c : Become(t, c) /\ Moves(t, c)
    BY <2>1, MovesStep
  <2>3. \A x \in Threads : Knows(call'[x], minted', destroyed')
    <3>1. \A x \in Threads : call'[x] = IF x = t THEN c ELSE call[x]
      BY <2>2 DEF Become, DocumentInv
    <3>2. \A x \in Threads : Knows(call[x], minted', destroyed')
      BY <2>1, Grows, KnowsLater DEF KeysInv
    <3> QED
      BY <2>2, <3>1, <3>2 DEF Moves
  <2>4. \A w \in Users : Numbered(doc'[w].deks, minted')
    BY <2>1, StoredStep
  <2> QED
    BY <2>1, <2>3, <2>4, CountingStep, TagStep, UnsharedStep DEF KeysInv
<1>2. CASE UNCHANGED vars
  <2>1. Minting' = Minting
    BY <1>2 DEF vars, Minting
  <2>2. Unshared'
    BY <1>2 DEF vars, Unshared, Used, KeysInv
  <2> QED
    BY <1>2, <2>1, <2>2 DEF vars, KeysInv, Counting
<1> QED
  BY <1>1, <1>2

\* At the start there is no DEK.
LEMMA KeysInit == Init => KeysInv
<1> SUFFICES ASSUME Init PROVE KeysInv
  OBVIOUS
<1>1. /\ minted = 0 /\ calls = 0 /\ destroyed = {} /\ ciphertexts = {} /\ leaked = {}
      /\ \A t \in Threads : call[t] = NoCall
      /\ \A u \in Users : doc[u].deks = Empty
      /\ raced = [generate |-> {}, rotate |-> {}]
  BY DEF Init, NoDocument
<1>2. \A t \in Threads : /\ Knows(call[t], minted, destroyed) /\ ~Pending(call[t])
                         /\ call[t].pc = "idle"
  BY <1>1, NoCallKnows
<1>3. Minting = {}
  BY <1>2 DEF Minting
<1>4. Counting
  BY <1>1, <1>3, FS_EmptySet, KeyRegistryAssumption DEF Counting
<1>5. Unshared
  BY <1>2 DEF Unshared
<1> QED
  BY <1>1, <1>2, <1>4, <1>5, NumberedStart DEF KeysInv

\* The two invariants say what is well typed.
LEMMA KeysTyped == DocumentInv /\ KeysInv => TypeOK
<1> SUFFICES ASSUME DocumentInv, KeysInv PROVE TypeOK
  OBVIOUS
<1>1. minted \in Nat /\ calls \in 0..MaxCalls /\ minted <= MaxCalls /\ MaxCalls \in Nat
  <2>1. PICK n \in Nat : n = Cardinality(Minting)
    BY FS_CardinalityType DEF KeysInv, Counting
  <2>2. /\ minted \in Nat /\ calls \in 0..MaxCalls /\ minted + n <= calls /\ MaxCalls \in Nat
    BY <2>1, KeyRegistryAssumption DEF KeysInv, Counting
  <2> QED
    BY <2>2
<1>2. 0..minted \subseteq 0..MaxCalls /\ 1..minted \subseteq 1..MaxCalls
  BY <1>1
<1>3. ASSUME NEW d \in Document, Numbered(d.deks, minted)
      PROVE  d \in KeyMetadata
  <2>1. PICK n \in 0..minted : d.deks \in [1..n -> 1..minted]
    BY <1>1, <1>3, NumberedBound
  <2>2. n \in 0..MaxCalls
    BY <1>2
  <2>3. d.deks \in UNION {[1..k -> 1..minted] : k \in 0..MaxCalls}
    BY <2>1, <2>2
  <2> QED
    BY <2>3 DEF Document, KeyMetadata
<1>4. doc \in [Users -> KeyMetadata]
  BY <1>3 DEF DocumentInv, KeysInv
<1>5. /\ ciphertexts \subseteq Ciphertext /\ leaked \subseteq Ciphertext
      /\ raced \in [generate: SUBSET (1..minted), rotate: SUBSET (1..minted)]
  BY <1>2 DEF KeysInv, Tag, Ciphertext, DocumentInv
<1>6. ASSUME NEW t \in Threads
      PROVE  call[t] \in [op: Ops \cup {"none"}, pc: Points, user: Users, dek: 0..minted,
                          version: 0..MaxCalls, read: KeyMetadata, under: 0..minted,
                          dead: SUBSET destroyed]
  <2>1. call[t] \in Call /\ Knows(call[t], minted, destroyed)
    BY DEF DocumentInv, KeysInv
  <2>2. call[t].read \in KeyMetadata
    BY <1>3, <2>1 DEF Call, Knows
  <2> QED
    BY <1>2, <2>1, <2>2 DEF Call, Knows
<1>7. call \in [Threads ->
         [op: Ops \cup {"none"}, pc: Points, user: Users, dek: 0..minted,
          version: 0..MaxCalls, read: KeyMetadata, under: 0..minted, dead: SUBSET destroyed]]
  BY <1>6 DEF DocumentInv
<1> QED
  BY <1>1, <1>4, <1>5, <1>7 DEF TypeOK, KeysInv

\* Whatever overlaps, the versions of a document are v1 .. vn without gaps and
\* with DEKs that were generated, at most one for each call: a rotation that
\* writes back a stale document cannot number or invent a DEK otherwise.
THEOREM KeysTypeCorrect == Spec => []TypeOK
<1> QED
  BY DocumentInit, DocumentStep, KeysInit, KeysStep, KeysTyped, PTL DEF Spec

-----------------------------------------------------------------------------
(* Data under overlapping writers *)

\* DEKs a ciphertext need not open under any more.
Gone == destroyed \cup raced.generate \cup raced.rotate

\* The operation behind each step of a writer.
WriterAt(c) ==
    /\ c.pc \in {"check", "set"} => c.op = "generate"
    /\ c.pc = "mint" => c.op \in {"generate", "rotate"}
    /\ c.pc \in {"rotread", "rotset"} => c.op = "rotate"

\* The DEK of a ciphertext, or of one about to be made, is gone or found under
\* its version.
Opens(c, docs, gone) ==
    c.dek \in gone \/ getKeyForUser(docs[c.user], c.version) = c.dek

\* What an execution holds: a generate saw no DEK; a ciphertext about to be made
\* will open; a plaintext about to be returned was not closed by a shred before,
\* unless a rotation wrote its DEK back.
Holds(c, docs, gone, back) ==
    /\ WriterAt(c)
    /\ c.op = "generate" /\ c.pc \in {"mint", "set"} => Material(c.read.deks) = {}
    /\ c.pc = "produce" => Opens(c, docs, gone)
    /\ c.pc = "open" /\ c.dek \in c.dead => c.dek \in back

\* The DEKs a write for the user may store: they are in the document, or in what
\* an execution read of it.
Has(u, k) ==
    \/ k \in Material(doc[u].deks)
    \/ \E t \in Threads : call[t].user = u /\ k \in Material(call[t].read.deks)

\* No two users have a DEK in common, and a document holds a destroyed one only
\* if a rotation wrote it back.
Apart ==
    /\ \A u, w \in Users : \A k : Has(u, k) /\ Has(w, k) => u = w
    /\ \A u \in Users : \A k \in Material(doc[u].deks) : k \in destroyed => k \in raced.rotate

ShredInv ==
    /\ Apart
    /\ \A t \in Threads : Holds(call[t], doc, Gone, raced.rotate)
    /\ \A ct \in ciphertexts : Opens(ct, doc, Gone)
    /\ \A ct \in leaked : ct.dek \in raced.rotate

\* A step leaves the documents alone, or is a writer's last: a shred, or the
\* write of a DEK nobody has yet beside DEKs that were read, which drops what
\* was in the document only if it raced.
LEMMA WriteKinds ==
    ASSUME DocumentInv, KeysInv, ShredInv, NEW t \in Threads, NEW u \in Users, Step(t, u)
    PROVE  LET c == call[t] IN
           \/ doc' = doc /\ destroyed' = destroyed
           \/ /\ Stop(t)
              /\ doc' = [doc EXCEPT ![c.user] = Shredded(doc[c.user])]
              /\ destroyed' = destroyed \cup Material(doc[c.user].deks)
           \/ /\ Stop(t) /\ destroyed' = destroyed /\ ~Used(c.dek)
              /\ \E new \in Document :
                   /\ doc' = [doc EXCEPT ![c.user] = new]
                   /\ Material(new.deks) \subseteq {c.dek} \cup Material(c.read.deks)
                   /\ Material(new.deks) \subseteq
                        {c.dek} \cup Material(doc[c.user].deks) \cup raced'.rotate
                   /\ \/ Material(doc[c.user].deks) \subseteq raced'.generate \cup raced'.rotate
                      \/ /\ \A v \in DOMAIN doc[c.user].deks :
                              v \in DOMAIN new.deks /\ new.deks[v] = doc[c.user].deks[v]
                         /\ new.status = "ACTIVE"
<1> DEFINE c == call[t]
           now == Material(doc[c.user].deks)
           Kept == doc' = doc /\ destroyed' = destroyed
           Goes == /\ Stop(t)
                   /\ doc' = [doc EXCEPT ![c.user] = Shredded(doc[c.user])]
                   /\ destroyed' = destroyed \cup now
           Adds(new) == /\ \A v \in DOMAIN doc[c.user].deks :
                             v \in DOMAIN new.deks /\ new.deks[v] = doc[c.user].deks[v]
                        /\ new.status = "ACTIVE"
           On(new) == /\ doc' = [doc EXCEPT ![c.user] = new]
                      /\ Material(new.deks) \subseteq {c.dek} \cup Material(c.read.deks)
                      /\ Material(new.deks) \subseteq {c.dek} \cup now \cup raced'.rotate
                      /\ now \subseteq raced'.generate \cup raced'.rotate \/ Adds(new)
           Comes == /\ Stop(t) /\ destroyed' = destroyed /\ ~Used(c.dek)
                    /\ \E new \in Document : On(new)
<1> SUFFICES Kept \/ Goes \/ Comes
  OBVIOUS
<1>1. /\ doc \in [Users -> Document] /\ c \in Call /\ c.user \in Users
      /\ Knows(c, minted, destroyed) /\ Holds(c, doc, Gone, raced.rotate) /\ minted \in Nat
      /\ raced \in [generate: SUBSET Nat, rotate: SUBSET Nat]
  BY DEF DocumentInv, Call, KeysInv, Counting, ShredInv
<1>2. ASSUME Stores(t)
      PROVE  c.dek \in 1..minted /\ c.dek \in Dek /\ ~Used(c.dek)
  <2>1. Pending(c)
    BY <1>2 DEF Stores, At, Pending
  <2>2. c.dek \in Dek /\ ~Used(c.dek)
    BY <2>1 DEF DocumentInv, KeysInv, Unshared, Pending
  <2>3. c.dek \in 1..minted
    BY <1>1, <2>2 DEF Knows, Dek, NoDek
  <2> QED
    BY <2>2, <2>3
<1>3. CASE SetKeyForUser(t)
  <2> DEFINE new == NewKeyMetadata(c.dek)
  <2>1. Stores(t) /\ c.pc = "set"
    BY <1>3 DEF SetKeyForUser, Stores, At
  <2>2. c.op = "generate" /\ Material(c.read.deks) = {}
    BY <1>1, <2>1 DEF Holds, WriterAt
  <2>3. /\ Stop(t) /\ doc' = [doc EXCEPT ![c.user] = new] /\ destroyed' = destroyed
        /\ raced' = Racing(c, "generate")
    BY <1>3 DEF SetKeyForUser
  <2>4. new \in Document /\ Material(new.deks) = {c.dek} /\ new.status = "ACTIVE"
    BY <1>1, <1>2, <2>1, GeneratedDocument, NumberedStart DEF NewKeyMetadata
  <2> HIDE DEF new
  <2>5. now \subseteq raced'.generate \/ Adds(new)
    <3>1. CASE c.read = doc[c.user]
      <4>1. DOMAIN doc[c.user].deks = {}
        BY <2>2, <3>1 DEF Material
      <4> QED
        BY <2>4, <4>1
    <3>2. CASE c.read # doc[c.user]
      BY <1>1, <2>3, <3>2 DEF Racing
    <3> QED
      BY <3>1, <3>2
  <2>6. On(new)
    BY <2>3, <2>4, <2>5
  <2>7. Comes
    BY <1>2, <2>1, <2>3, <2>4, <2>6
  <2> QED
    BY <2>7
<1>4. CASE RotateUpdate(t)
  <2> DEFINE new == Rotated(c.read, c.dek)
  <2>1. Stores(t) /\ c.pc = "rotset"
    BY <1>4 DEF RotateUpdate, Stores, At
  <2>2. /\ Stop(t) /\ doc' = [doc EXCEPT ![c.user] = new] /\ destroyed' = destroyed
        /\ raced' = Racing(c, "rotate")
    BY <1>4 DEF RotateUpdate
  <2>3. new \in Document
    BY <1>1, <1>2, <2>1, RotatedDocument DEF Call
  <2>4. c.dek \notin Material(c.read.deks) /\ Numbered(c.read.deks, minted)
    BY <1>1, <1>2, <2>1 DEF Used, Knows
  <2>5. /\ Material(new.deks) = Material(c.read.deks) \cup {c.dek}
        /\ DOMAIN c.read.deks \subseteq DOMAIN new.deks
        /\ \A v \in DOMAIN c.read.deks : new.deks[v] = c.read.deks[v]
        /\ new.status = "ACTIVE"
    BY <1>1, <1>2, <2>1, <2>4, NumberedRotated
  <2> HIDE DEF new
  <2>6. On(new)
    <3>1. CASE c.read = doc[c.user]
      BY <2>2, <2>5, <3>1
    <3>2. CASE c.read # doc[c.user]
      <4>1. now \subseteq raced'.rotate /\ Material(c.read.deks) \subseteq raced'.rotate
        BY <1>1, <2>2, <3>2 DEF Racing
      <4> QED
        BY <2>2, <2>5, <4>1
    <3> QED
      BY <3>1, <3>2
  <2>7. Comes
    BY <1>2, <2>1, <2>2, <2>3, <2>6
  <2> QED
    BY <2>7
<1>5. CASE ShredKeyForUser(t)
  BY <1>5 DEF ShredKeyForUser
<1> QED
  BY <1>3, <1>4, <1>5
     DEF Step, PostKeyGenerate, PostKeyRotate, ShredRequested, PostEncrypt, GetEncryptionContext,
         PostDecrypt, Begin, GenerateCheck, RotateRead, ContextStatus, ReadKey, Open, Fails,
         GenerateAndEncryptDek, Produce

\* A DEK that is found under its version stays there until it is gone.
LEMMA OpensStep ==
    ASSUME DocumentInv, KeysInv, ShredInv, NEW t \in Threads, NEW u \in Users, Step(t, u),
           NEW c, c.user \in Users, c.dek # NoDek, Opens(c, doc, Gone)
    PROVE  Opens(c, doc', Gone')
<1> DEFINE w == call[t].user
<1>1. doc \in [Users -> Document] /\ w \in Users /\ Gone \subseteq Gone'
  BY Grows, RacedStep DEF DocumentInv, Call, Gone
<1>2. CASE c.dek \in Gone \/ doc'[c.user] = doc[c.user]
  BY <1>1, <1>2 DEF Opens
<1>3. CASE c.dek \notin Gone /\ doc'[c.user] # doc[c.user]
  <2>1. /\ getKeyForUser(doc[c.user], c.version) = c.dek
        /\ Numbered(doc[c.user].deks, minted) /\ minted \in Nat
    BY <1>3 DEF Opens, KeysInv, Counting
  <2>2. /\ c.version \in DOMAIN doc[c.user].deks /\ doc[c.user].deks[c.version] = c.dek
        /\ c.dek \in Material(doc[c.user].deks)
    BY <2>1, FetchedFrom
  <2>3. CASE /\ doc' = [doc EXCEPT ![w] = Shredded(doc[w])]
             /\ destroyed' = destroyed \cup Material(doc[w].deks)
    <3>1. c.user = w
      BY <1>1, <1>3, <2>3
    <3> QED
      BY <2>2, <2>3, <3>1 DEF Opens, Gone
  <2>4. ASSUME NEW new \in Document, doc' = [doc EXCEPT ![w] = new],
               Material(doc[w].deks) \subseteq raced'.generate \cup raced'.rotate
        PROVE  Opens(c, doc', Gone')
    <3>1. c.user = w
      BY <1>1, <1>3, <2>4
    <3> QED
      BY <2>2, <2>4, <3>1 DEF Opens, Gone
  <2>5. ASSUME NEW new \in Document, doc' = [doc EXCEPT ![w] = new],
               \A v \in DOMAIN doc[w].deks : v \in DOMAIN new.deks /\ new.deks[v] = doc[w].deks[v],
               new.status = "ACTIVE"
        PROVE  Opens(c, doc', Gone')
    <3>1. c.user = w /\ doc'[w] = new
      BY <1>1, <1>3, <2>5
    <3>2. getKeyForUser(new, c.version) = c.dek
      BY <2>2, <2>5, <3>1 DEF getKeyForUser
    <3> QED
      BY <3>1, <3>2 DEF Opens
  <2> QED
    BY <1>3, <2>3, <2>4, <2>5, WriteKinds
<1> QED
  BY <1>2, <1>3

\* A user has no DEK that was another's, and a destroyed DEK comes back only
\* with a rotation that raced.
LEMMA ApartStep ==
    ASSUME DocumentInv, KeysInv, ShredInv, NEW t \in Threads, NEW u \in Users, Step(t, u)
    PROVE  Apart'
<1> DEFINE c == call[t]
           w == c.user
<1>1. /\ doc \in [Users -> Document] /\ w \in Users /\ Apart
      /\ raced.rotate \subseteq raced'.rotate
  BY RacedStep DEF DocumentInv, Call, ShredInv
<1>2. PICK d : Become(t, d) /\ Moves(t, d)
  BY MovesStep
<1>3. \A x \in Threads : call'[x] = IF x = t THEN d ELSE call[x]
  BY <1>2 DEF Become, DocumentInv
<1>4. Material(Shredded(doc[w]).deks) = {}
  BY DEF Shredded, Empty, Material
<1>5. ASSUME NEW a \in Users, NEW k, k \in Material(doc'[a].deks)
      PROVE  Has(a, k) \/ (a = w /\ k = c.dek /\ ~Used(k))
  <2>1. CASE doc'[a] = doc[a]
    BY <1>5, <2>1 DEF Has
  <2>2. CASE doc' = [doc EXCEPT ![w] = Shredded(doc[w])]
    BY <1>1, <1>4, <1>5, <2>1, <2>2
  <2>3. ASSUME NEW new \in Document, doc' = [doc EXCEPT ![w] = new], ~Used(c.dek),
               Material(new.deks) \subseteq {c.dek} \cup Material(c.read.deks)
        PROVE  Has(a, k) \/ (a = w /\ k = c.dek /\ ~Used(k))
    <3>1. a = w => k \in {c.dek} \cup Material(c.read.deks)
      BY <1>1, <1>5, <2>3
    <3>2. a # w => doc'[a] = doc[a]
      BY <1>1, <2>3
    <3> QED
      BY <2>1, <2>3, <3>1, <3>2 DEF Has
  <2> QED
    BY <2>1, <2>2, <2>3, WriteKinds
<1>6. ASSUME NEW a \in Users, NEW k, Has(a, k)'
      PROVE  Has(a, k) \/ (a = w /\ k = c.dek /\ ~Used(k))
  <2>1. ASSUME NEW x \in Threads, call'[x].user = a, k \in Material(call'[x].read.deks)
        PROVE  Has(a, k)
    BY <1>2, <1>3, <2>1 DEF Has, Moves
  <2> QED
    BY <1>5, <1>6, <2>1 DEF Has
<1>7. \A a \in Users : \A k : Has(a, k) => Used(k)
  BY DEF Has, Used
<1>8. ASSUME NEW a \in Users, NEW b \in Users, NEW k, Has(a, k)', Has(b, k)'
      PROVE  a = b
  BY <1>1, <1>6, <1>7, <1>8 DEF Apart
<1>9. ASSUME NEW a \in Users, NEW k, k \in Material(doc'[a].deks), k \in destroyed'
      PROVE  k \in raced'.rotate
  <2>1. \A b \in Users : \A j \in Material(doc[b].deks) : j \in destroyed => j \in raced'.rotate
    BY <1>1 DEF Apart
  <2>2. CASE doc' = doc /\ destroyed' = destroyed
    BY <1>9, <2>1, <2>2
  <2>3. CASE /\ doc' = [doc EXCEPT ![w] = Shredded(doc[w])]
             /\ destroyed' = destroyed \cup Material(doc[w].deks)
    <3>1. a # w /\ k \in Material(doc[a].deks)
      BY <1>1, <1>4, <1>9, <2>3
    <3>2. k \notin Material(doc[w].deks)
      BY <1>1, <3>1 DEF Apart, Has
    <3> QED
      BY <1>9, <2>1, <2>3, <3>1, <3>2
  <2>4. ASSUME NEW new \in Document, doc' = [doc EXCEPT ![w] = new], ~Used(c.dek),
               destroyed' = destroyed,
               Material(new.deks) \subseteq {c.dek} \cup Material(doc[w].deks) \cup raced'.rotate
        PROVE  k \in raced'.rotate
    <3>1. k \in Material(doc[a].deks) \/ k = c.dek \/ k \in raced'.rotate
      BY <1>1, <1>9, <2>4
    <3>2. c.dek \notin destroyed
      BY <2>4 DEF Used
    <3> QED
      BY <1>9, <2>1, <2>4, <3>1, <3>2
  <2> QED
    BY <2>2, <2>3, <2>4, WriteKinds
<1> QED
  BY <1>8, <1>9 DEF Apart

\* An execution that goes on leaves the documents as they are.
LEMMA HoldsMoves ==
    ASSUME DocumentInv, KeysInv, ShredInv, NEW t \in Threads, NEW u \in Users, Step(t, u)
    PROVE  \E c : Become(t, c) /\ Holds(c, doc', Gone', raced'.rotate)
<1> DEFINE k == call[t]
           data == doc[k.user]
           Goal == \E c : Become(t, c) /\ Holds(c, doc', Gone', raced'.rotate)
           Still == UNCHANGED <<doc, destroyed, raced>>
<1> SUFFICES Goal
  OBVIOUS
<1>1. /\ k \in Call /\ k.user \in Users /\ Holds(k, doc, Gone, raced.rotate)
      /\ Knows(k, minted, destroyed) /\ minted \in Nat /\ data \in Document
      /\ Numbered(data.deks, minted) /\ Apart
  BY DEF DocumentInv, Call, KeysInv, Counting, ShredInv
<1>2. Stop(t) => Goal
  <2>1. NoCall.op = "none" /\ NoCall.pc = "idle"
    BY NoCallKnows
  <2>2. Holds(NoCall, doc', Gone', raced'.rotate)
    BY <2>1 DEF Holds, WriterAt
  <2> QED
    BY <2>2 DEF Stop
<1>3. ASSUME NEW c, Begin(t, c), WriterAt(c),
             c.pc \notin {"set", "produce", "open"}, c.pc = "mint" => c.op # "generate"
      PROVE  Goal
  <2>1. Become(t, c)
    BY <1>3 DEF Begin
  <2>2. Holds(c, doc', Gone', raced'.rotate)
    BY <1>3 DEF Holds
  <2> QED
    BY <2>1, <2>2
<1>4. CASE PostKeyGenerate(t, u) \/ PostKeyRotate(t, u) \/ ShredRequested(t, u)
           \/ PostEncrypt(t, u) \/ GetEncryptionContext(t, u)
  BY <1>3, <1>4 DEF PostKeyGenerate, PostKeyRotate, ShredRequested, PostEncrypt,
                    GetEncryptionContext, Fresh, WriterAt
<1>5. ASSUME NEW ct \in ciphertexts, PostDecrypt(t, ct)
      PROVE  Goal
  <2> DEFINE c == [Fresh("decrypt", "key", ct.user) EXCEPT !.version = ct.version,
                                                           !.under = ct.dek, !.dead = destroyed]
  <2>1. c.op = "decrypt" /\ c.pc = "key"
    BY DEF Fresh
  <2>2. Begin(t, c)
    BY <1>5 DEF PostDecrypt
  <2> HIDE DEF c
  <2> QED
    BY <1>3, <2>1, <2>2 DEF WriterAt
<1>6. CASE GenerateCheck(t)
  <2> DEFINE c == [k EXCEPT !.pc = "mint", !.read = data]
  <2>1. /\ k.pc = "check"
        /\ Stop(t) \/ (Become(t, c) /\ NothingToKeep(data))
    BY <1>6 DEF GenerateCheck, At
  <2>2. c.op = k.op /\ c.pc = "mint" /\ k.op = "generate" /\ c.read = data
    BY <1>1, <2>1 DEF Call, Holds, WriterAt
  <2> HIDE DEF c
  <2>3. NothingToKeep(data) => Material(data.deks) = {}
    BY <1>1, DocumentAgrees DEF NothingToKeep
  <2>4. NothingToKeep(data) => Holds(c, doc', Gone', raced'.rotate)
    BY <2>2, <2>3 DEF Holds, WriterAt
  <2> QED
    BY <1>2, <2>1, <2>4
<1>7. CASE GenerateAndEncryptDek(t)
  <2> DEFINE p == IF k.op = "rotate" THEN "rotread" ELSE "set"
             c == [k EXCEPT !.dek = NewDek, !.pc = p]
  <2>1. Become(t, c) /\ k.pc = "mint"
    BY <1>7 DEF GenerateAndEncryptDek, At
  <2>2. k.op \in {"generate", "rotate"} /\ (k.op = "generate" => Material(k.read.deks) = {})
    BY <1>1, <2>1 DEF Holds, WriterAt
  <2>3. c.op = k.op /\ c.pc = p /\ c.read = k.read
    BY <1>1 DEF Call
  <2>4. (k.op = "rotate" => p = "rotread") /\ (k.op # "rotate" => p = "set")
    OBVIOUS
  <2> HIDE DEF c, p
  <2>5. Holds(c, doc', Gone', raced'.rotate)
    BY <2>2, <2>3, <2>4 DEF Holds, WriterAt
  <2> QED
    BY <2>1, <2>5
<1>8. CASE RotateRead(t)
  <2> DEFINE c == [k EXCEPT !.pc = "rotset", !.read = data]
  <2>1. k.pc = "rotread" /\ (Stop(t) \/ Become(t, c))
    BY <1>8 DEF RotateRead, At
  <2>2. c.op = k.op /\ c.pc = "rotset" /\ k.op = "rotate"
    BY <1>1, <2>1 DEF Call, Holds, WriterAt
  <2> HIDE DEF c
  <2>3. Holds(c, doc', Gone', raced'.rotate)
    BY <2>2 DEF Holds, WriterAt
  <2> QED
    BY <1>2, <2>1, <2>3
<1>9. CASE ContextStatus(t)
  <2> DEFINE c == [k EXCEPT !.pc = "key"]
  <2>1. Stop(t) \/ Become(t, c)
    BY <1>9 DEF ContextStatus
  <2>2. c.pc = "key"
    BY <1>1 DEF Call
  <2> HIDE DEF c
  <2>3. Holds(c, doc', Gone', raced'.rotate)
    BY <2>2 DEF Holds, WriterAt
  <2> QED
    BY <1>2, <2>1, <2>3
<1>10. CASE ReadKey(t)
  <2> DEFINE version == IF k.op = "decrypt" THEN k.version ELSE data.active
             dek == getKeyForUser(data, version)
             p == IF k.op = "decrypt" THEN "open" ELSE "produce"
             c == [k EXCEPT !.dek = dek, !.version = version, !.pc = p]
  <2>1. /\ Still
        /\ Stop(t) \/ (Become(t, c) /\ dek # NoDek)
    BY <1>10 DEF ReadKey
  <2>2. p \in {"produce", "open"}
    OBVIOUS
  <2> HIDE DEF p, version, dek
  <2>3. /\ c.pc = p /\ c.user = k.user /\ c.dek = dek /\ c.version = version /\ c.dead = k.dead
    BY <1>1 DEF Call
  <2> HIDE DEF c
  <2>4. ASSUME dek # NoDek PROVE Holds(c, doc', Gone', raced'.rotate)
    <3>1. dek \in Material(data.deks)
      BY <1>1, <2>4, FetchedFrom DEF dek
    <3>2. dek \in k.dead => dek \in raced'.rotate
      BY <1>1, <2>1, <3>1 DEF Apart, Knows
    <3>3. Opens(c, doc', Gone')
      BY <2>1, <2>3 DEF Opens, dek
    <3> QED
      BY <2>2, <2>3, <3>2, <3>3 DEF Holds, WriterAt
  <2> QED
    BY <1>2, <2>1, <2>4
<1>11. CASE SetKeyForUser(t) \/ RotateUpdate(t) \/ ShredKeyForUser(t) \/ Produce(t) \/ Open(t)
            \/ Fails(t)
  BY <1>2, <1>11 DEF SetKeyForUser, RotateUpdate, ShredKeyForUser, Produce, Open, Fails
<1> QED
  BY <1>4, <1>5, <1>6, <1>7, <1>8, <1>9, <1>10, <1>11 DEF Step

\* What the others hold depends on no writer: a DEK that was found is kept or
\* gone.
LEMMA HoldsOthers ==
    ASSUME DocumentInv, KeysInv, ShredInv, NEW t \in Threads, NEW u \in Users, Step(t, u),
           NEW x \in Threads
    PROVE  Holds(call[x], doc', Gone', raced'.rotate)
<1> DEFINE c == call[x]
<1>1. /\ c.user \in Users /\ Holds(c, doc, Gone, raced.rotate) /\ Knows(c, minted, destroyed)
      /\ raced.rotate \subseteq raced'.rotate
  BY RacedStep DEF DocumentInv, Call, ShredInv, KeysInv
<1>2. c.pc = "produce" => Opens(c, doc', Gone')
  BY <1>1, OpensStep DEF Holds, Knows
<1> QED
  BY <1>1, <1>2 DEF Holds

\* ShredInv is inductive beside the other two.
LEMMA ShredStep == DocumentInv /\ KeysInv /\ ShredInv /\ [Next]_vars => ShredInv'
<1> SUFFICES ASSUME DocumentInv, KeysInv, ShredInv, [Next]_vars
             PROVE  ShredInv'
  OBVIOUS
<1>1. CASE Next
  <2>1. PICK t \in Threads, u \in Users : Step(t, u)
    BY <1>1, KeyRegistryAssumption, Zenon DEF Next, Step
  <2>2. PICK c : Become(t, c) /\ Holds(c, doc', Gone', raced'.rotate)
    BY <2>1, HoldsMoves
  <2>3. \A x \in Threads : call'[x] = IF x = t THEN c ELSE call[x]
    BY <2>2 DEF Become, DocumentInv
  <2>4. \A x \in Threads : Holds(call'[x], doc', Gone', raced'.rotate)
    BY <2>1, <2>2, <2>3, HoldsOthers
  <2>5. /\ call[t].user \in Users /\ Knows(call[t], minted, destroyed)
        /\ Holds(call[t], doc, Gone, raced.rotate) /\ minted \in Nat
        /\ raced.rotate \subseteq raced'.rotate
    BY <2>1, RacedStep DEF DocumentInv, Call, KeysInv, Counting, ShredInv
  <2>6. \A ct \in ciphertexts : Opens(ct, doc', Gone')
    <3>1. \A ct \in ciphertexts : ct.user \in Users /\ ct.dek # NoDek /\ Opens(ct, doc, Gone)
      BY <2>5 DEF KeysInv, Tag, ShredInv, NoDek
    <3> QED
      BY <2>1, <3>1, OpensStep
  <2>7. \A ct \in ciphertexts' : Opens(ct, doc', Gone')
    <3>1. CASE Produce(t)
      <4> DEFINE ct == [user |-> call[t].user, version |-> call[t].version, dek |-> call[t].dek]
      <4>1. /\ ciphertexts' = ciphertexts \cup {ct} /\ call[t].pc = "produce"
            /\ UNCHANGED <<doc, destroyed, raced>>
        BY <3>1 DEF Produce, At
      <4>2. Opens(call[t], doc, Gone)
        BY <2>5, <4>1 DEF Holds
      <4>3. Opens(ct, doc', Gone')
        BY <4>1, <4>2 DEF Opens, Gone
      <4> QED
        BY <2>6, <4>1, <4>3
    <3>2. CASE ciphertexts' = ciphertexts
      BY <2>6, <3>2
    <3> QED
      BY <2>1, <3>1, <3>2
         DEF Step, PostKeyGenerate, PostKeyRotate, ShredRequested, PostEncrypt,
             GetEncryptionContext, PostDecrypt, Begin, GenerateCheck, RotateRead, ContextStatus,
             ReadKey, Open, Fails, GenerateAndEncryptDek, SetKeyForUser, RotateUpdate,
             ShredKeyForUser
  <2>8. \A ct \in leaked' : ct.dek \in raced'.rotate
    <3>1. \A ct \in leaked : ct.dek \in raced'.rotate
      BY <2>5 DEF ShredInv
    <3>2. CASE Open(t)
      BY <2>5, <3>1, <3>2 DEF Open, At, Holds
    <3> QED
      BY <2>1, <3>1, <3>2
         DEF Step, PostKeyGenerate, PostKeyRotate, ShredRequested, PostEncrypt,
             GetEncryptionContext, PostDecrypt, Begin, GenerateCheck, RotateRead, ContextStatus,
             ReadKey, Fails, GenerateAndEncryptDek, SetKeyForUser, RotateUpdate,
             ShredKeyForUser, Produce
  <2> QED
    BY <2>1, <2>4, <2>7, <2>8, ApartStep DEF ShredInv
<1>2. CASE UNCHANGED vars
  <2>1. Apart'
    BY <1>2 DEF vars, ShredInv, Apart, Has
  <2> QED
    BY <1>2, <2>1 DEF vars, ShredInv, Gone
<1> QED
  BY <1>1, <1>2

\* At the start nothing is written or read.
LEMMA ShredInit == Init => ShredInv
<1> SUFFICES ASSUME Init PROVE ShredInv
  OBVIOUS
<1>1. /\ destroyed = {} /\ ciphertexts = {} /\ leaked = {}
      /\ \A t \in Threads : call[t] = NoCall
      /\ \A u \in Users : doc[u].deks = Empty
  BY DEF Init, NoDocument
<1>2. Material(Empty) = {}
  BY DEF Material, Empty
<1>3. /\ NoCall.op = "none" /\ NoCall.pc = "idle"
      /\ Material(NoCall.read.deks) = {}
  BY NoCallKnows
<1>4. Apart
  BY <1>1, <1>2, <1>3 DEF Apart, Has
<1>5. \A t \in Threads : Holds(call[t], doc, Gone, raced.rotate)
  BY <1>1, <1>3 DEF Holds, WriterAt
<1> QED
  BY <1>1, <1>4, <1>5 DEF ShredInv

\* The inductive invariant of a vault whose writers may overlap in any way.
LEMMA ShredInvHolds == Spec => [](DocumentInv /\ KeysInv /\ ShredInv)
<1> QED
  BY DocumentInit, DocumentStep, KeysInit, KeysStep, ShredInit, ShredStep, PTL DEF Spec

\* However generates, rotations, shreds, encryptions and ingestion workers
\* overlap, what was encrypted is found under the version it is tagged with,
\* unless its DEK was destroyed or was in a document that a generate or a
\* rotation replaced without having read it.
THEOREM CiphertextsReadableHolds == Spec => []CiphertextsReadable
<1>1. ShredInv => CiphertextsReadable
  BY DEF ShredInv, CiphertextsReadable, Opens, Gone
<1> QED
  BY <1>1, ShredInvHolds, PTL

\* However they overlap, a decryption that begins after a shred returns what the
\* shredded DEK protects only if a rotation wrote that DEK back onto a document
\* that had changed since the rotation read it: not for a racing generate, nor
\* for another shred, a rotation of another user or a new key of the same one.
THEOREM DestroyedStaysClosedHolds == Spec => []DestroyedStaysClosed
<1>1. ShredInv => DestroyedStaysClosed
  BY DEF ShredInv, DestroyedStaysClosed
<1> QED
  BY <1>1, ShredInvHolds, PTL

=============================================================================
