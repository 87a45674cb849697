---------------------------- MODULE KeyRegistry ----------------------------
(***************************************************************************)
(* The key document of each user in Firestore and the routes that work on  *)
(* it: /key/generate, /keys/batch-generate, /key/rotate, the shred of a    *)
(* deletion request, /encrypt, /decrypt and the encryption context handed  *)
(* to ingestion workers.                                                   *)
(*                                                                         *)
(* No route uses a transaction: generate and rotate read, await, and write *)
(* what they computed, so every await is a step of its own.  A DEK is a    *)
(* number, fresh whenever KMS wraps a new one; a ciphertext is the version *)
(* tag in front of it and the DEK under it.                                *)
(***************************************************************************)
EXTENDS Naturals, FiniteSets

CONSTANTS
    Threads,        \* executions that may be in flight at once
    Users,
    Ops,            \* the operations clients perform
    MaxCalls        \* bound on the calls clients make

AllOps == {"generate", "rotate", "shred", "encrypt", "context", "decrypt"}

ASSUME KeyRegistryAssumption ==
    /\ Users # {}
    /\ Ops \subseteq AllOps
    /\ MaxCalls \in Nat

VARIABLES
    doc,            \* the KeyMetadata of each user
    minted,         \* DEKs generated so far
    ciphertexts,    \* what /encrypt and the ingestion workers produced
    call,           \* the executions in flight
    calls,          \* calls made so far
    destroyed,      \* history: DEKs a shred removed from a document
    raced,          \* history: DEKs of the documents a generate or a rotation
                    \* had read and replaced, when these were not the same
    leaked          \* history: ciphertexts opened by a decryption that began
                    \* when their DEK was already destroyed

vars == <<doc, minted, ciphertexts, call, calls, destroyed, raced, leaked>>

-----------------------------------------------------------------------------
(* KeyMetadata *)

NoDek == 0      \* activeDekId is null
Empty == [v \in {} |-> NoDek]
\* The DEKs of a document.
Material(deks) == {deks[v] : v \in DOMAIN deks}

\* status NONE stands for a document that does not exist.
NoDocument == [status |-> "NONE", deks |-> Empty, active |-> NoDek]

\* setKeyForUser overwrites the whole document.
NewKeyMetadata(dek) == [status |-> "ACTIVE", deks |-> [v \in {1} |-> dek], active |-> 1]

\* mutant: the count of versions as the next one
NewVersionIdFromCount(deks) == Cardinality(DOMAIN deks)

\* mutant: a version skipped
NewVersionIdSkipping(deks) == Cardinality(DOMAIN deks) + 2

NewVersionId(deks) == Cardinality(DOMAIN deks) + 1

\* What rotateKeyForUser writes, from the document it read.
Rotated(read, dek) ==
    LET new == NewVersionId(read.deks) IN
    [status |-> "ACTIVE", active |-> new,
     deks |-> [v \in DOMAIN read.deks \cup {new} |-> IF v = new THEN dek ELSE read.deks[v]]]

\* mutant: a shred that only marks the document
ShreddedInName(data) == [data EXCEPT !.status = "SHREDDED"]

\* shredKeyForUser: the DEK material goes, whatever the document held.
Shredded(data) == [status |-> "SHREDDED", deks |-> Empty, active |-> NoDek]

\* getKeyForUser with a version, or the active one: the DEK, or NoDek for null.
getKeyForUser(data, version) ==
    IF data.status \in {"NONE", "SHREDDED"} \/ version \notin DOMAIN data.deks
    THEN NoDek ELSE data.deks[version]

hasActiveKeyMaterial(data) == data.status = "ACTIVE" /\ DOMAIN data.deks # {}

-----------------------------------------------------------------------------
(* Executions *)

Points == {"idle", "check", "mint", "set", "rotread", "rotset", "shred",
           "status", "key", "produce", "open"}

Fresh(op, pc, u) ==
    [op |-> op, pc |-> pc, user |-> u, dek |-> NoDek, version |-> 0,
     read |-> NoDocument, under |-> NoDek, dead |-> {}]

NoCall == Fresh("none", "idle", CHOOSE u \in Users : TRUE)

At(t, p) == call[t].pc = p
Become(t, c) == call' = [call EXCEPT ![t] = c]
Stop(t) == Become(t, NoCall)

Init ==
    /\ doc = [u \in Users |-> NoDocument]
    /\ minted = 0
    /\ ciphertexts = {}
    /\ call = [t \in Threads |-> NoCall]
    /\ calls = 0
    /\ destroyed = {}
    /\ raced = [generate |-> {}, rotate |-> {}]
    /\ leaked = {}

Begin(t, c) ==
    /\ c.op \in Ops
    /\ calls < MaxCalls
    /\ At(t, "idle")
    /\ calls' = calls + 1
    /\ Become(t, c)
    /\ UNCHANGED <<doc, minted, ciphertexts, destroyed, raced, leaked>>

PostKeyGenerate(t, u) == Begin(t, Fresh("generate", "check", u))
PostKeyRotate(t, u) == Begin(t, Fresh("rotate", "mint", u))
ShredRequested(t, u) == Begin(t, Fresh("shred", "shred", u))
PostEncrypt(t, u) == Begin(t, Fresh("encrypt", "key", u))
GetEncryptionContext(t, u) == Begin(t, Fresh("context", "status", u))

\* POST /decrypt of a ciphertext made earlier.
PostDecrypt(t, ct) ==
    Begin(t, [Fresh("decrypt", "key", ct.user) EXCEPT !.version = ct.version,
                                                      !.under = ct.dek,
                                                      !.dead = destroyed])

-----------------------------------------------------------------------------
(* Writers *)

\* mutant: a key that is there already is replaced
NothingToKeepAlways(data) == TRUE

\* A key that getKeyForUser finds is left alone.
NothingToKeep(data) == getKeyForUser(data, data.active) = NoDek

\* read remembers the document for raced: the route keeps nothing of it.
GenerateCheck(t) ==
    LET data == doc[call[t].user] IN
    /\ At(t, "check")
    /\ IF NothingToKeep(data)
       THEN Become(t, [call[t] EXCEPT !.pc = "mint", !.read = data])
       ELSE Stop(t)
    /\ UNCHANGED <<doc, minted, ciphertexts, calls, destroyed, raced, leaked>>

\* mutant: a DEK that is the same each time
NewDekDerived == 1

\* generateRandomDEK: random bytes, so never one seen before.
NewDek == minted + 1

\* ensureTenantKey and generateAndEncryptDek; a rotation mints before it reads.
GenerateAndEncryptDek(t) ==
    /\ At(t, "mint")
    /\ minted' = minted + 1
    /\ Become(t, [call[t] EXCEPT !.dek = NewDek,
                                  !.pc = IF call[t].op = "rotate" THEN "rotread" ELSE "set"])
    /\ UNCHANGED <<doc, ciphertexts, calls, destroyed, raced, leaked>>

\* A write that lands on another document than the one it was decided on: all
\* DEKs of both are at stake.
Racing(c, kind) ==
    IF c.read = doc[c.user] THEN raced
    ELSE [raced EXCEPT ![kind] = @ \cup Material(c.read.deks) \cup Material(doc[c.user].deks)]

SetKeyForUser(t) ==
    /\ At(t, "set")
    /\ raced' = Racing(call[t], "generate")
    /\ doc' = [doc EXCEPT ![call[t].user] = NewKeyMetadata(call[t].dek)]
    /\ Stop(t)
    /\ UNCHANGED <<minted, ciphertexts, calls, destroyed, leaked>>

\* rotateKeyForUser reads the document and refuses a missing or shredded key ...
RotateRead(t) ==
    LET data == doc[call[t].user] IN
    /\ At(t, "rotread")
    /\ IF data.status \in {"NONE", "SHREDDED"} \/ data.active = NoDek
       THEN Stop(t)
       ELSE Become(t, [call[t] EXCEPT !.pc = "rotset", !.read = data])
    /\ UNCHANGED <<doc, minted, ciphertexts, calls, destroyed, raced, leaked>>

\* ... then writes deks, activeDekId and status as computed from that read.
RotateUpdate(t) ==
    /\ At(t, "rotset")
    /\ raced' = Racing(call[t], "rotate")
    /\ doc' = [doc EXCEPT ![call[t].user] = Rotated(call[t].read, call[t].dek)]
    /\ Stop(t)
    /\ UNCHANGED <<minted, ciphertexts, calls, destroyed, leaked>>

ShredKeyForUser(t) ==
    LET u == call[t].user IN
    /\ At(t, "shred")
    /\ doc' = [doc EXCEPT ![u] = Shredded(@)]
    /\ destroyed' = destroyed \cup Material(doc[u].deks)
    /\ Stop(t)
    /\ UNCHANGED <<minted, ciphertexts, calls, raced, leaked>>

-----------------------------------------------------------------------------
(* Readers *)

\* The encryption context reads the status first, the key in a second read.
ContextStatus(t) ==
    /\ At(t, "status")
    /\ IF doc[call[t].user].status \in {"NONE", "SHREDDED"}
       THEN Stop(t)
       ELSE Become(t, [call[t] EXCEPT !.pc = "key"])
    /\ UNCHANGED <<doc, minted, ciphertexts, calls, destroyed, raced, leaked>>

\* /encrypt and the context read the active DEK, /decrypt that of the tag.
ReadKey(t) ==
    LET c == call[t]
        data == doc[c.user]
        version == IF c.op = "decrypt" THEN c.version ELSE data.active
        dek == getKeyForUser(data, version)
    IN
    /\ At(t, "key")
    /\ IF dek = NoDek
       THEN Stop(t)
       ELSE Become(t, [c EXCEPT !.dek = dek, !.version = version,
                                !.pc = IF c.op = "decrypt" THEN "open" ELSE "produce"])
    /\ UNCHANGED <<doc, minted, ciphertexts, calls, destroyed, raced, leaked>>

\* The DEK is unwrapped by KMS (by the vault, or by the worker that got the
\* context) and a ciphertext tagged with its version leaves the system.
Produce(t) ==
    LET c == call[t] IN
    /\ At(t, "produce")
    /\ ciphertexts' = ciphertexts \cup {[user |-> c.user, version |-> c.version, dek |-> c.dek]}
    /\ Stop(t)
    /\ UNCHANGED <<doc, minted, calls, destroyed, raced, leaked>>

\* GCM authenticates: the plaintext comes back only under the DEK that made the
\* ciphertext, any other one is answered "invalid or tampered".
Open(t) ==
    LET c == call[t] IN
    /\ At(t, "open")
    /\ leaked' = IF c.dek = c.under /\ c.dek \in c.dead
                 THEN leaked \cup {[user |-> c.user, version |-> c.version, dek |-> c.dek]}
                 ELSE leaked
    /\ Stop(t)
    /\ UNCHANGED <<doc, minted, ciphertexts, calls, destroyed, raced>>

\* A call to Firestore or KMS throws: the route answers 500 and undoes nothing.
Fails(t) ==
    /\ ~At(t, "idle")
    /\ Stop(t)
    /\ UNCHANGED <<doc, minted, ciphertexts, calls, destroyed, raced, leaked>>

-----------------------------------------------------------------------------
Next ==
    \E t \in Threads :
        \/ \E u \in Users :
             \/ PostKeyGenerate(t, u) \/ PostKeyRotate(t, u) \/ ShredRequested(t, u)
             \/ PostEncrypt(t, u) \/ GetEncryptionContext(t, u)
        \/ \E ct \in ciphertexts : PostDecrypt(t, ct)
        \/ GenerateCheck(t) \/ GenerateAndEncryptDek(t) \/ SetKeyForUser(t)
        \/ RotateRead(t) \/ RotateUpdate(t) \/ ShredKeyForUser(t)
        \/ ContextStatus(t) \/ ReadKey(t) \/ Produce(t) \/ Open(t)
        \/ Fails(t)

Spec == Init /\ [][Next]_vars

-----------------------------------------------------------------------------
(* Properties *)

KeyMetadata ==
    [status: {"NONE", "ACTIVE", "SHREDDED"}, active: Nat,
     deks: UNION {[1..n -> 1..minted] : n \in 0..MaxCalls}]

Ciphertext == [user: Users, version: 1..MaxCalls, dek: 1..minted]

\* The versions of a document are v1 .. vn without gaps, each with a DEK KMS
\* really generated.
TypeOK ==
    /\ minted \in 0..MaxCalls
    /\ calls \in 0..MaxCalls
    /\ doc \in [Users -> KeyMetadata]
    /\ ciphertexts \subseteq Ciphertext
    /\ destroyed \subseteq 1..minted
    /\ raced \in [generate: SUBSET (1..minted), rotate: SUBSET (1..minted)]
    /\ leaked \subseteq Ciphertext
    /\ call \in [Threads ->
         [op: Ops \cup {"none"}, pc: Points, user: Users, dek: 0..minted,
          version: 0..MaxCalls, read: KeyMetadata, under: 0..minted, dead: SUBSET destroyed]]

\* hasActiveKeyMaterial, the one answer an auditor relies on, agrees with what
\* is in the document and with what the routes can fetch from it: no DEK is
\* left behind a document that reports none, under every interleaving.
MaterialAgrees ==
    \A u \in Users :
        /\ hasActiveKeyMaterial(doc[u]) <=> Material(doc[u].deks) # {}
        /\ hasActiveKeyMaterial(doc[u]) <=> getKeyForUser(doc[u], doc[u].active) # NoDek

\* Rotation keeps old data readable and nothing but a shred loses it: every
\* ciphertext still opens under the version it is tagged with, unless its DEK
\* was destroyed, or was in the document when a generate or a rotation that had
\* read another one replaced it.
CiphertextsReadable ==
    \A ct \in ciphertexts :
        \/ ct.dek \in destroyed \cup raced.generate \cup raced.rotate
        \/ getKeyForUser(doc[ct.user], ct.version) = ct.dek

\* Crypto-shredding, and what a rotation can undo of it: a decryption that begins
\* after the DEK of its ciphertext was destroyed never returns the plaintext,
\* whatever generates, encryptions and shreds were in flight then and whatever
\* key the user was given since, unless a rotation wrote a document back that
\* had changed since it read it.
DestroyedStaysClosed == \A ct \in leaked : ct.dek \in raced.rotate

\* "The DEK is destroyed": no decryption that begins after a shred returns what
\* it protected, rotations included.
NoDecryptAfterShred == leaked = {}

=============================================================================
