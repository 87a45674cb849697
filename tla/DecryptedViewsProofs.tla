------------------------ MODULE DecryptedViewsProofs ------------------------
(***************************************************************************)
(* Proofs about DecryptedViews, for any number of views, declarations and  *)
(* revocations in flight, and whatever the keys under them do.             *)
(*                                                                         *)
(* The composition adds nothing to what KeyRegistry allows, so what is     *)
(* proved of the keys holds under the views too.  The two properties of    *)
(* the views rest on what is known of a view in the middle of a call that  *)
(* is alone on it (Midway).                                                *)
(***************************************************************************)
EXTENDS DecryptedViews, KeyRegistryProofs

-----------------------------------------------------------------------------
(* The keys *)

\* Every step of the composition is a step of the keys, or leaves them alone.
LEMMA KeysMapped == [DVNext]_allVars => [Next]_vars
<1> SUFFICES ASSUME [DVNext]_allVars PROVE [Next]_vars
  OBVIOUS
<1>1. CASE KeyStep
  BY <1>1 DEF KeyStep
<1>2. CASE ViewStep /\ UNCHANGED vars
  BY <1>2
<1>3. ASSUME NEW t \in Threads, NEW ct \in ciphertexts, DecryptPiiVaultValue(t, ct)
      PROVE  Next
  BY <1>3 DEF DecryptPiiVaultValue, Next
<1>4. CASE UNCHANGED allVars
  BY <1>4 DEF allVars
<1> QED BY <1>1, <1>2, <1>3, <1>4 DEF DVNext, BatchDecrypt, PostPiiVaultDecrypt

\* The composition implements KeyRegistry.
THEOREM ViewsImplementKeys == DVSpec => Spec
<1>1. DVInit => Init
  BY DEF DVInit
<1> QED BY <1>1, KeysMapped, PTL DEF DVSpec, Spec

\* Queries of views included, the routes' answer about key material is right.
THEOREM MaterialAgreesUnderViews == DVSpec => []MaterialAgrees
<1> QED BY ViewsImplementKeys, MaterialAgreesHolds, PTL

\* A view's query is one more decryption: what is shredded stays closed to
\* views and their managers too, and what was not stays readable by them,
\* but for the DEKs the keys' own writes put at stake.
THEOREM ShredHoldsUnderViews == DVSpec => [](DestroyedStaysClosed /\ CiphertextsReadable)
<1> QED
  BY ViewsImplementKeys, DestroyedStaysClosedHolds, CiphertextsReadableHolds, PTL

-----------------------------------------------------------------------------
(* The views *)

Disturbances == {"overlap", "declare", "revoke"}

ManagerCall ==
    {c \in [op: {"none", "declare", "revoke"}, at: 0..5, view: Views, fields: Fields,
            alone: BOOLEAN] :
        /\ c.op = "declare" => c.at \in 1..5
        /\ c.op = "revoke" => c.at \in 1..3}

ViewTypes ==
    /\ view \in [Views -> [live: BOOLEAN, fields: Fields, granted: BOOLEAN]]
    /\ record \in [Views -> [status: {"none", "active", "revoked"}, fields: Fields]]
    /\ mcall \in [Managers -> ManagerCall]
    /\ disturbed \in [Views -> SUBSET Disturbances]

\* A call that is not alone on its view knows, and so does the history.
Overlaps ==
    \A m, x \in Managers :
        m # x /\ mcall[m].op # "none" /\ mcall[x].op # "none" /\ mcall[m].view = mcall[x].view
            => ~mcall[m].alone /\ "overlap" \in disturbed[mcall[m].view]

Declaring(m) == mcall[m].op = "declare" /\ mcall[m].at \in 3..5
Marking(m) == mcall[m].op = "revoke" /\ mcall[m].at = 3

\* What a call alone on its view knows of it after its first effect.
Midway(m) ==
    LET c == mcall[m]
        v == c.view
    IN
    /\ c.op # "none" /\ ~c.alone => "overlap" \in disturbed[v]
    /\ Marking(m) /\ c.alone => ~view[v].live
    /\ Declaring(m) /\ disturbed[v] = {} =>
         /\ view[v].live /\ view[v].fields = c.fields
         /\ record[v].status # "active"
         /\ c.at > 3 => view[v].granted

\* What is known of a view no call has begun to change.
Matches(v) ==
    /\ view[v].live <=> record[v].status = "active"
    /\ view[v].live => view[v].fields = record[v].fields /\ view[v].granted

Settled(v) ==
    /\ /\ disturbed[v] \subseteq {"revoke"} /\ view[v].live
       /\ \A m \in Managers : mcall[m].view = v => ~Declaring(m)
       => record[v].status = "active"
    /\ /\ disturbed[v] = {}
       /\ \A m \in Managers : mcall[m].view = v => ~Declaring(m) /\ ~Marking(m)
       => Matches(v)

ViewInv ==
    /\ ViewTypes
    /\ Overlaps
    /\ \A m \in Managers : Midway(m)
    /\ \A v \in Views : Settled(v)

-----------------------------------------------------------------------------
(* The steps *)

LEMMA Defaults ==
    /\ NoView \in [live: BOOLEAN, fields: Fields, granted: BOOLEAN] /\ ~NoView.live
    /\ NoRecord \in [status: {"none", "active", "revoked"}, fields: Fields]
    /\ NoRecord.status = "none"
    /\ NoManager \in ManagerCall /\ NoManager.op = "none"
<1>1. (CHOOSE f \in Fields : TRUE) \in Fields /\ (CHOOSE v \in Views : TRUE) \in Views
  BY DecryptedViewsAssumption
<1> QED BY <1>1 DEF NoView, NoRecord, NoManager, ManagerCall

\* Where a call is, by number.
LEMMA PointIs ==
    ASSUME ViewTypes, NEW m \in Managers
    PROVE  LET c == mcall[m] IN
           /\ Awaits(m, "available") <=> c.op = "declare" /\ c.at = 1
           /\ Awaits(m, "create") <=> c.op = "declare" /\ c.at = 2
           /\ Awaits(m, "grant") <=> c.op = "declare" /\ c.at = 3
           /\ Awaits(m, "lookup") <=> c.op = "declare" /\ c.at = 4
           /\ Awaits(m, "set") <=> c.op = "declare" /\ c.at = 5
           /\ Awaits(m, "read") <=> c.op = "revoke" /\ c.at = 1
           /\ Awaits(m, "drop") <=> c.op = "revoke" /\ c.at = 2
           /\ Awaits(m, "mark") <=> c.op = "revoke" /\ c.at = 3
<1> DEFINE c == mcall[m]
<1>1. c \in ManagerCall
  BY DEF ViewTypes
<1>2. CASE c.op = "none"
  BY <1>2 DEF Awaits
<1>3. CASE c.op = "declare"
  <2>1. c.at \in {1, 2, 3, 4, 5}
    BY <1>1, <1>3 DEF ManagerCall
  <2>2. Steps[c.op] = <<"available", "create", "grant", "lookup", "set">>
    BY <1>3 DEF Steps
  <2> QED BY <1>3, <2>1, <2>2 DEF Awaits
<1>4. CASE c.op = "revoke"
  <2>1. c.at \in {1, 2, 3}
    BY <1>1, <1>4 DEF ManagerCall
  <2>2. Steps[c.op] = <<"read", "drop", "mark">>
    BY <1>4 DEF Steps
  <2> QED BY <1>4, <2>1, <2>2 DEF Awaits
<1> QED BY <1>1, <1>2, <1>3, <1>4 DEF ManagerCall

\* Going on to the next await, or returning.
LEMMA ProceedIs ==
    ASSUME ViewTypes, NEW m \in Managers, mcall[m].op # "none", Proceed(m)
    PROVE  LET c == mcall[m] IN
           /\ mcall' \in [Managers -> ManagerCall]
           /\ \A x \in Managers : x # m => mcall'[x] = mcall[x]
           /\ IF (c.op = "declare" /\ c.at = 5) \/ (c.op = "revoke" /\ c.at = 3)
              THEN mcall'[m].op = "none"
              ELSE mcall'[m] = [c EXCEPT !.at = c.at + 1]
<1> DEFINE c == mcall[m]
<1>1. c \in ManagerCall
  BY DEF ViewTypes
<1>2. (c.op = "declare" /\ Len(Steps[c.op]) = 5) \/ (c.op = "revoke" /\ Len(Steps[c.op]) = 3)
  <2>1. Len(Steps["declare"]) = 5
    BY DEF Steps
  <2>2. Len(Steps["revoke"]) = 3
    BY DEF Steps
  <2> QED BY <1>1, <2>1, <2>2 DEF ManagerCall
<1>3. CASE c.at = Len(Steps[c.op])
  BY <1>1, <1>2, <1>3, Defaults DEF Proceed, Return, ViewTypes
<1>4. CASE c.at # Len(Steps[c.op])
  <2>1. mcall' = [mcall EXCEPT ![m] = [c EXCEPT !.at = c.at + 1]]
    BY <1>4 DEF Proceed
  <2>2. [c EXCEPT !.at = c.at + 1] \in ManagerCall
    <3>1. c.at + 1 \in 0..5 /\ (c.op = "declare" => c.at + 1 \in 1..5)
          /\ (c.op = "revoke" => c.at + 1 \in 1..3)
      <4>1. CASE c.op = "declare"
        <5>1. c.at \in 1..5 /\ c.at # 5
          BY <1>1, <1>2, <1>4, <4>1 DEF ManagerCall
        <5> QED BY <4>1, <5>1
      <4>2. CASE c.op = "revoke"
        <5>1. c.at \in 1..3 /\ c.at # 3
          BY <1>1, <1>2, <1>4, <4>2 DEF ManagerCall
        <5> QED BY <4>2, <5>1
      <4> QED BY <1>2, <4>1, <4>2
    <3> HIDE DEF c
    <3> QED BY <1>1, <3>1 DEF ManagerCall
  <2>3. /\ mcall' \in [Managers -> ManagerCall]
        /\ \A x \in Managers : x # m => mcall'[x] = mcall[x]
        /\ mcall'[m] = [c EXCEPT !.at = c.at + 1]
    BY <2>1, <2>2 DEF ViewTypes
  <2>4. ~((c.op = "declare" /\ c.at = 5) \/ (c.op = "revoke" /\ c.at = 3))
    BY <1>2, <1>4
  <2> QED BY <2>3, <2>4
<1> QED BY <1>3, <1>4

LEMMA ReturnIs ==
    ASSUME ViewTypes, NEW m \in Managers, Return(m)
    PROVE  /\ mcall' \in [Managers -> ManagerCall]
           /\ \A x \in Managers : x # m => mcall'[x] = mcall[x]
           /\ mcall'[m].op = "none"
  BY Defaults DEF Return, ViewTypes

\* A step of a call touches its own view only, and the calls on it know that
\* they overlap.  What is left to show concerns the call and its view.
LEMMA OwnView ==
    ASSUME ViewInv, ViewTypes', NEW m \in Managers, mcall[m].op # "none",
           NEW v \in Views, mcall[m].view = v,
           \A w \in Views : w # v =>
               view'[w] = view[w] /\ record'[w] = record[w] /\ disturbed'[w] = disturbed[w],
           \A x \in Managers : x # m => mcall'[x] = mcall[x],
           \/ mcall'[m].op = "none"
           \/ mcall'[m].view = v /\ mcall'[m].alone = mcall[m].alone,
           \/ disturbed[v] \subseteq disturbed'[v]
           \/ mcall[m].alone /\ mcall'[m].op = "none",
           (\A x \in Managers : x # m /\ mcall[x].op # "none" => mcall[x].view # v) =>
               Midway(m)' /\ Settled(v)'
    PROVE  ViewInv'
<1>a. v \in Views /\ mcall[m] \in ManagerCall /\ mcall'[m] \in ManagerCall
  BY DEF ViewInv, ViewTypes, ManagerCall
<1>b. ASSUME NEW x \in Managers, x # m, mcall[x].op # "none", mcall[x].view = v
      PROVE  /\ ~mcall[x].alone /\ ~mcall[m].alone
             /\ "overlap" \in disturbed[v] /\ "overlap" \in disturbed'[v]
  BY <1>b DEF ViewInv, Overlaps
<1>1. Overlaps'
  <2> SUFFICES ASSUME NEW y \in Managers, NEW x \in Managers,
                      y # x, mcall'[y].op # "none", mcall'[x].op # "none",
                      mcall'[y].view = mcall'[x].view
               PROVE  ~mcall'[y].alone /\ "overlap" \in disturbed'[mcall'[y].view]
    BY DEF Overlaps
  <2>1. CASE y = m
    BY <2>1, <1>b
  <2>2. CASE x = m
    BY <2>2, <1>b
  <2>3. CASE y # m /\ x # m
    <3>1. ~mcall[y].alone /\ "overlap" \in disturbed[mcall[y].view]
      BY <2>3 DEF ViewInv, Overlaps
    <3>2. CASE mcall[y].view = v
      BY <2>3, <3>1, <3>2, <1>b
    <3>3. CASE mcall[y].view # v
      BY <2>3, <3>1, <3>3 DEF ViewInv, ViewTypes, ManagerCall
    <3> QED BY <3>2, <3>3
  <2> QED BY <2>1, <2>2, <2>3
<1>2. ASSUME NEW x \in Managers, x # m PROVE Midway(x)'
  <2>1. mcall'[x] = mcall[x] /\ Midway(x) /\ mcall[x] \in ManagerCall
    BY <1>2 DEF ViewInv, ViewTypes
  <2>2. CASE mcall[x].op = "none"
    BY <2>1, <2>2 DEF Midway, Declaring, Marking
  <2>3. CASE mcall[x].op # "none" /\ mcall[x].view = v
    BY <1>2, <1>b, <2>1, <2>3 DEF Midway
  <2>4. CASE mcall[x].view # v
    BY <2>1, <2>4 DEF Midway, Declaring, Marking, ManagerCall
  <2> QED BY <2>2, <2>3, <2>4
<1>3. ASSUME NEW w \in Views, w # v PROVE Settled(w)'
  <2>1. \A x \in Managers : mcall'[x].view = w /\ x # m => mcall[x].view = w /\ mcall'[x] = mcall[x]
    OBVIOUS
  <2>2. mcall[m].view # w
    BY <1>3
  <2>3. \A x \in Managers : mcall[x].view = w => mcall'[x].view = w
    BY <2>2
  <2>4. \A x \in Managers : mcall[x].view = w =>
          (Declaring(x)' <=> Declaring(x)) /\ (Marking(x)' <=> Marking(x))
    BY <2>2 DEF Declaring, Marking
  <2>5. view'[w] = view[w] /\ record'[w] = record[w] /\ disturbed'[w] = disturbed[w] /\ Settled(w)
    BY <1>3 DEF ViewInv
  <2> QED BY <2>3, <2>4, <2>5 DEF Settled, Matches
<1>4. Midway(m)' /\ Settled(v)'
  <2>1. CASE \A x \in Managers : x # m /\ mcall[x].op # "none" => mcall[x].view # v
    BY <2>1
  <2>2. CASE \E x \in Managers : x # m /\ mcall[x].op # "none" /\ mcall[x].view = v
    <3>1. ~mcall[m].alone /\ "overlap" \in disturbed'[v]
      BY <2>2, <1>b
    <3>2. Settled(v)'
      BY <3>1 DEF Settled
    <3>3. Midway(m)'
      BY <3>1 DEF Midway, Declaring, Marking
    <3> QED BY <3>2, <3>3
  <2> QED BY <2>1, <2>2
<1> QED BY <1>1, <1>2, <1>3, <1>4 DEF ViewInv

LEMMA BeginKeeps ==
    ASSUME ViewInv, NEW m \in Managers, NEW op \in {"declare", "revoke"}, NEW v \in Views,
           NEW f \in Fields, Manage(m, op, v, f)
    PROVE  ViewInv'
<1>1. /\ view' = view /\ record' = record /\ mcall[m].op = "none"
      /\ mcall' = [x \in Managers |->
                     IF x = m THEN [op |-> op, at |-> 1, view |-> v, fields |-> f,
                                    alone |-> InFlight(v) = {}]
                     ELSE [mcall[x] EXCEPT !.alone = @ /\ x \notin InFlight(v)]]
      /\ disturbed' = IF InFlight(v) = {} THEN disturbed
                      ELSE [disturbed EXCEPT ![v] = @ \cup {"overlap"}]
  BY DEF Manage
<1>2. \A x \in Managers : mcall[x] \in ManagerCall
  BY DEF ViewInv, ViewTypes
<1>3. /\ mcall'[m].op = op /\ mcall'[m].at = 1 /\ mcall'[m].view = v
      /\ mcall'[m].alone <=> InFlight(v) = {}
      /\ mcall'[m] \in ManagerCall
  <2> DEFINE alone == InFlight(v) = {}
  <2>1. mcall'[m] = [op |-> op, at |-> 1, view |-> v, fields |-> f, alone |-> alone]
    BY <1>1
  <2>2. alone \in BOOLEAN
    OBVIOUS
  <2>3. alone <=> InFlight(v) = {}
    OBVIOUS
  <2> HIDE DEF alone
  <2>4. mcall'[m].alone = alone
    BY <2>1
  <2>5. mcall'[m] \in ManagerCall
    <3>1. 1 \in 0..5 /\ 1 \in 1..5 /\ 1 \in 1..3
      OBVIOUS
    <3> QED BY <2>1, <2>2, <3>1 DEF ManagerCall
  <2> QED BY <2>1, <2>3, <2>4, <2>5
<1>4. ASSUME NEW x \in Managers, x # m
      PROVE  /\ mcall'[x].op = mcall[x].op /\ mcall'[x].at = mcall[x].at
             /\ mcall'[x].view = mcall[x].view /\ mcall'[x].fields = mcall[x].fields
             /\ mcall'[x].alone <=> (mcall[x].alone /\ x \notin InFlight(v))
             /\ mcall'[x] \in ManagerCall
  <2>1. mcall'[x] = [mcall[x] EXCEPT !.alone = mcall[x].alone /\ x \notin InFlight(v)]
    BY <1>1, <1>4
  <2>2. (mcall[x].alone /\ x \notin InFlight(v)) \in BOOLEAN
    OBVIOUS
  <2> QED BY <1>2, <2>1, <2>2 DEF ManagerCall
<1>5. /\ \A w \in Views : w # v => disturbed'[w] = disturbed[w]
      /\ disturbed[v] \subseteq disturbed'[v]
      /\ InFlight(v) = {} => disturbed' = disturbed
      /\ InFlight(v) # {} => "overlap" \in disturbed'[v]
      /\ disturbed' \in [Views -> SUBSET Disturbances]
  BY <1>1 DEF ViewInv, ViewTypes, Disturbances
<1>6. ViewTypes'
  <2>1. mcall' \in [Managers -> ManagerCall]
    BY <1>1, <1>3, <1>4
  <2> QED BY <1>1, <1>5, <2>1 DEF ViewInv, ViewTypes, ManagerCall
<1>7. Overlaps'
  <2> SUFFICES ASSUME NEW y \in Managers, NEW x \in Managers,
                      y # x, mcall'[y].op # "none", mcall'[x].op # "none",
                      mcall'[y].view = mcall'[x].view
               PROVE  ~mcall'[y].alone /\ "overlap" \in disturbed'[mcall'[y].view]
    BY DEF Overlaps
  <2>1. CASE y = m
    <3>1. x \in InFlight(v)
      BY <1>3, <1>4, <2>1 DEF InFlight
    <3> QED BY <1>3, <1>5, <2>1, <3>1
  <2>2. CASE x = m
    <3>1. y \in InFlight(v)
      BY <1>3, <1>4, <2>2 DEF InFlight
    <3> QED BY <1>3, <1>4, <1>5, <2>2, <3>1
  <2>3. CASE y # m /\ x # m
    <3>1. ~mcall[y].alone /\ "overlap" \in disturbed[mcall[y].view] /\ mcall[y].view \in Views
      BY <1>2, <1>4, <2>3 DEF ViewInv, Overlaps, ManagerCall
    <3> QED BY <1>4, <1>5, <2>3, <3>1
  <2> QED BY <2>1, <2>2, <2>3
<1>8. ASSUME NEW x \in Managers PROVE Midway(x)'
  <2>1. CASE x = m
    BY <1>3, <1>5, <2>1 DEF Midway, Declaring, Marking
  <2>2. CASE x # m
    <3>1. mcall[x].view \in Views /\ Midway(x)
      BY <1>2 DEF ViewInv, ManagerCall
    <3>2. disturbed[mcall[x].view] \subseteq disturbed'[mcall[x].view]
      BY <1>5, <3>1
    <3>3. x \in InFlight(v) => "overlap" \in disturbed'[mcall[x].view]
      BY <1>5 DEF InFlight
    <3> QED BY <1>1, <1>4, <2>2, <3>1, <3>2, <3>3 DEF Midway, Declaring, Marking
  <2> QED BY <2>1, <2>2
<1>9. ASSUME NEW w \in Views PROVE Settled(w)'
  <2>1. Settled(w) /\ disturbed[w] \subseteq disturbed'[w]
    BY <1>5 DEF ViewInv
  <2>2. \A x \in Managers : Declaring(x)' <=> Declaring(x)
    BY <1>1, <1>3, <1>4 DEF Declaring
  <2>3. \A x \in Managers : Marking(x)' <=> Marking(x)
    BY <1>1, <1>3, <1>4 DEF Marking
  <2>4. ~Declaring(m) /\ ~Marking(m)
    BY <1>1 DEF Declaring, Marking
  <2> QED BY <1>1, <1>4, <2>1, <2>2, <2>3, <2>4 DEF Settled, Matches
<1> QED BY <1>6, <1>7, <1>8, <1>9 DEF ViewInv

\* The view of a call that no other call is on.
SettledBut(m, v) ==
    /\ disturbed[v] \subseteq {"revoke"} /\ view[v].live /\ ~Declaring(m) =>
         record[v].status = "active"
    /\ disturbed[v] = {} /\ ~Declaring(m) /\ ~Marking(m) => Matches(v)

Alone(m, v) == \A x \in Managers : x # m /\ mcall[x].op # "none" => mcall[x].view # v

LEMMA AloneSettled ==
    ASSUME NEW m \in Managers, NEW v \in Views, mcall[m].op = "none" \/ mcall[m].view = v,
           Alone(m, v)
    PROVE  Settled(v) <=> SettledBut(m, v)
<1>1. /\ \A x \in Managers : x # m /\ mcall[x].view = v => ~Declaring(x) /\ ~Marking(x)
      /\ mcall[m].view # v => ~Declaring(m) /\ ~Marking(m)
  BY DEF Alone, Declaring, Marking
<1>2. /\ (\A x \in Managers : mcall[x].view = v => ~Declaring(x)) <=> ~Declaring(m)
      /\ (\A x \in Managers : mcall[x].view = v => ~Declaring(x) /\ ~Marking(x))
           <=> ~Declaring(m) /\ ~Marking(m)
  BY <1>1
<1> QED BY <1>2 DEF Settled, SettledBut

\* OwnView, with what is left to show put in terms of the call alone.
LEMMA OwnViewAlone ==
    ASSUME ViewInv, ViewTypes', NEW m \in Managers, mcall[m].op # "none",
           NEW v \in Views, mcall[m].view = v,
           \A w \in Views : w # v =>
               view'[w] = view[w] /\ record'[w] = record[w] /\ disturbed'[w] = disturbed[w],
           \A x \in Managers : x # m => mcall'[x] = mcall[x],
           \/ mcall'[m].op = "none"
           \/ mcall'[m].view = v /\ mcall'[m].alone = mcall[m].alone,
           \/ disturbed[v] \subseteq disturbed'[v]
           \/ mcall[m].alone /\ mcall'[m].op = "none",
           Midway(m) /\ SettledBut(m, v) => Midway(m)' /\ SettledBut(m, v)'
    PROVE  ViewInv'
<1>1. ASSUME Alone(m, v) PROVE Midway(m)' /\ Settled(v)'
  <2>1. Midway(m) /\ SettledBut(m, v)
    BY <1>1, AloneSettled DEF ViewInv
  <2>2. Midway(m)' /\ SettledBut(m, v)'
    BY <2>1
  <2>3. Alone(m, v)'
    BY <1>1 DEF Alone
  <2>4. Settled(v)' <=> SettledBut(m, v)'
    <3>1. /\ \A x \in Managers : x # m /\ mcall'[x].view = v => ~Declaring(x)' /\ ~Marking(x)'
          /\ mcall'[m].view # v => ~Declaring(m)' /\ ~Marking(m)'
      BY <2>3 DEF Alone, Declaring, Marking
    <3>2. /\ (\A x \in Managers : mcall'[x].view = v => ~Declaring(x)') <=> ~Declaring(m)'
          /\ (\A x \in Managers : mcall'[x].view = v => ~Declaring(x)' /\ ~Marking(x)')
               <=> ~Declaring(m)' /\ ~Marking(m)'
      BY <3>1
    <3> QED BY <3>2 DEF Settled, SettledBut
  <2> QED BY <2>2, <2>4
<1> QED BY <1>1, OwnView DEF Alone

\* The calls' own steps: what each changes, then what it keeps.
LEMMA StepKeeps ==
    ASSUME ViewInv, NEW m \in Managers,
           \/ GetAvailableFields(m) \/ CreateTable(m) \/ GrantViewerOnView(m)
           \/ CreateLookup(m) \/ CreateSet(m)
           \/ RevokeRead(m) \/ DropView(m) \/ MarkRevoked(m) \/ Dies(m)
    PROVE  ViewInv'
<1> DEFINE c == mcall[m]
           d == mcall'[m]
<1>a. /\ ViewTypes /\ c \in ManagerCall /\ c.view \in Views
      /\ c.op \in {"none", "declare", "revoke"} /\ c.at \in 0..5
  BY DEF ViewInv, ViewTypes, ManagerCall
<1>b. PICK v \in Views : v = c.view
  BY <1>a
<1>c. /\ view[v] \in [live: BOOLEAN, fields: Fields, granted: BOOLEAN]
      /\ record[v] \in [status: {"none", "active", "revoked"}, fields: Fields]
      /\ disturbed[v] \in SUBSET Disturbances
  BY <1>a DEF ViewTypes
<1>1. CASE GetAvailableFields(m)
  <2>1. view' = view /\ record' = record /\ disturbed' = disturbed /\ c.op = "declare" /\ c.at = 1
    BY <1>1, <1>a, PointIs DEF GetAvailableFields
  <2>2. Return(m) \/ Proceed(m)
    BY <1>1 DEF GetAvailableFields
  <2>3. /\ mcall' \in [Managers -> ManagerCall] /\ \A x \in Managers : x # m => mcall'[x] = mcall[x]
        /\ d.op = "none" \/ d = [c EXCEPT !.at = 2]
    BY <1>a, <2>1, <2>2, ReturnIs, ProceedIs
  <2>4. d.op = "none" \/ (d.op = "declare" /\ d.at = 2 /\ d.view = v /\ d.alone = c.alone)
    BY <1>a, <1>b, <2>1, <2>3 DEF ManagerCall
  <2>5. ViewTypes'
    BY <1>a, <2>1, <2>3 DEF ViewTypes
  <2>6. (Midway(m) => Midway(m)') /\ (SettledBut(m, v) => SettledBut(m, v)')
    BY <1>b, <2>1, <2>4 DEF Midway, SettledBut, Matches, Declaring, Marking
  <2> QED BY <1>b, <2>1, <2>3, <2>4, <2>5, <2>6, OwnViewAlone
<1>2. CASE RevokeRead(m)
  <2>1. view' = view /\ record' = record /\ disturbed' = disturbed /\ c.op = "revoke" /\ c.at = 1
    BY <1>2, <1>a, PointIs DEF RevokeRead
  <2>2. Return(m) \/ Proceed(m)
    BY <1>2 DEF RevokeRead
  <2>3. /\ mcall' \in [Managers -> ManagerCall] /\ \A x \in Managers : x # m => mcall'[x] = mcall[x]
        /\ d.op = "none" \/ d = [c EXCEPT !.at = 2]
    BY <1>a, <2>1, <2>2, ReturnIs, ProceedIs
  <2>4. d.op = "none" \/ (d.op = "revoke" /\ d.at = 2 /\ d.view = v /\ d.alone = c.alone)
    BY <1>a, <1>b, <2>1, <2>3 DEF ManagerCall
  <2>5. ViewTypes'
    BY <1>a, <2>1, <2>3 DEF ViewTypes
  <2>6. (Midway(m) => Midway(m)') /\ (SettledBut(m, v) => SettledBut(m, v)')
    BY <1>b, <2>1, <2>4 DEF Midway, SettledBut, Matches, Declaring, Marking
  <2> QED BY <1>b, <2>1, <2>3, <2>4, <2>5, <2>6, OwnViewAlone
<1>3. CASE CreateTable(m)
  <2>1. record' = record /\ disturbed' = disturbed /\ c.op = "declare" /\ c.at = 2
    BY <1>3, <1>a, PointIs DEF CreateTable
  <2>2. CASE view[v].live
    <3>1. view' = view /\ Return(m)
      BY <1>3, <1>b, <2>2 DEF CreateTable, Creatable
    <3>2. /\ mcall' \in [Managers -> ManagerCall] /\ d.op = "none"
          /\ \A x \in Managers : x # m => mcall'[x] = mcall[x]
      BY <1>a, <3>1, ReturnIs
    <3>3. ViewTypes'
      BY <1>a, <2>1, <3>1, <3>2 DEF ViewTypes
    <3>4. Midway(m)' /\ (SettledBut(m, v) => SettledBut(m, v)')
      BY <2>1, <3>1, <3>2 DEF Midway, SettledBut, Matches, Declaring, Marking
    <3> QED BY <1>b, <2>1, <3>1, <3>2, <3>3, <3>4, OwnViewAlone
  <2>3. CASE ~view[v].live
    <3>1. /\ view' = [view EXCEPT ![v] = [live |-> TRUE, fields |-> c.fields, granted |-> FALSE]]
          /\ Proceed(m)
      BY <1>3, <1>b, <2>3 DEF CreateTable, Creatable
    <3>2. /\ mcall' \in [Managers -> ManagerCall] /\ d = [c EXCEPT !.at = 3]
          /\ \A x \in Managers : x # m => mcall'[x] = mcall[x]
      BY <1>a, <2>1, <3>1, ProceedIs
    <3>3. d.op = "declare" /\ d.at = 3 /\ d.view = v /\ d.alone = c.alone /\ d.fields = c.fields
          /\ c.fields \in Fields
      BY <1>a, <1>b, <2>1, <3>2 DEF ManagerCall
    <3>4. ViewTypes'
      BY <1>a, <2>1, <3>1, <3>2, <3>3 DEF ViewTypes
    <3>5. /\ view'[v].live /\ view'[v].fields = c.fields
          /\ \A w \in Views : w # v => view'[w] = view[w]
      BY <1>a, <3>1 DEF ViewTypes
    <3>6. Midway(m) /\ SettledBut(m, v) => Midway(m)' /\ SettledBut(m, v)'
      BY <1>b, <2>1, <2>3, <3>3, <3>5 DEF Midway, SettledBut, Matches, Declaring, Marking
    <3>7. /\ \A w \in Views : w # v =>
               view'[w] = view[w] /\ record'[w] = record[w] /\ disturbed'[w] = disturbed[w]
          /\ disturbed[v] \subseteq disturbed'[v]
          /\ mcall[m].op # "none" /\ mcall[m].view = v
          /\ mcall'[m].view = v /\ mcall'[m].alone = mcall[m].alone
      BY <1>b, <2>1, <3>3, <3>5
    <3> QED BY <3>2, <3>4, <3>6, <3>7, OwnViewAlone
  <2> QED BY <2>2, <2>3
<1>4. CASE GrantViewerOnView(m)
  <2>1. /\ record' = record /\ disturbed' = disturbed /\ c.op = "declare" /\ c.at = 3
        /\ Proceed(m) /\ view[v].live /\ view' = [view EXCEPT ![v].granted = TRUE]
    BY <1>4, <1>a, <1>b, PointIs DEF GrantViewerOnView
  <2>2. /\ mcall' \in [Managers -> ManagerCall] /\ d = [c EXCEPT !.at = 4]
        /\ \A x \in Managers : x # m => mcall'[x] = mcall[x]
    BY <1>a, <2>1, ProceedIs
  <2>3. d.op = "declare" /\ d.at = 4 /\ d.view = v /\ d.alone = c.alone /\ d.fields = c.fields
    BY <1>a, <1>b, <2>1, <2>2 DEF ManagerCall
  <2>4. /\ view'[v].live /\ view'[v].fields = view[v].fields /\ view'[v].granted
        /\ \A w \in Views : w # v => view'[w] = view[w]
        /\ view' \in [Views -> [live: BOOLEAN, fields: Fields, granted: BOOLEAN]]
    BY <1>a, <2>1 DEF ViewTypes
  <2>5. ViewTypes'
    BY <1>a, <2>1, <2>2, <2>4 DEF ViewTypes
  <2>6. Midway(m) => Midway(m)'
    BY <1>b, <2>1, <2>3, <2>4 DEF Midway, Declaring, Marking
  <2>7. SettledBut(m, v)'
    BY <2>3 DEF SettledBut, Declaring
  <2>8. /\ \A w \in Views : w # v =>
             view'[w] = view[w] /\ record'[w] = record[w] /\ disturbed'[w] = disturbed[w]
        /\ disturbed[v] \subseteq disturbed'[v]
        /\ mcall[m].op # "none" /\ mcall[m].view = v
        /\ mcall'[m].view = v /\ mcall'[m].alone = mcall[m].alone
    BY <1>b, <2>1, <2>3, <2>4
  <2> QED BY <2>2, <2>5, <2>6, <2>7, <2>8, OwnViewAlone
<1>5. CASE CreateLookup(m)
  <2>1. view' = view /\ record' = record /\ disturbed' = disturbed /\ c.op = "declare" /\ c.at = 4
    BY <1>5, <1>a, PointIs DEF CreateLookup
  <2>2. CASE record[v].status = "active"
    <3>1. Return(m)
      BY <1>5, <1>b, <2>2 DEF CreateLookup
    <3>2. /\ mcall' \in [Managers -> ManagerCall] /\ d.op = "none"
          /\ \A x \in Managers : x # m => mcall'[x] = mcall[x]
      BY <1>a, <3>1, ReturnIs
    <3>3. ViewTypes'
      BY <1>a, <2>1, <3>2 DEF ViewTypes
    <3>4. Midway(m) => disturbed[v] # {}
      BY <1>b, <2>1, <2>2 DEF Midway, Declaring
    <3>5. Midway(m) => Midway(m)' /\ SettledBut(m, v)'
      BY <2>1, <2>2, <3>2, <3>4 DEF Midway, SettledBut, Declaring, Marking
    <3> QED BY <1>b, <2>1, <3>2, <3>3, <3>5, OwnViewAlone
  <2>3. CASE record[v].status # "active"
    <3>1. Proceed(m)
      BY <1>5, <1>b, <2>3 DEF CreateLookup
    <3>2. /\ mcall' \in [Managers -> ManagerCall] /\ d = [c EXCEPT !.at = 5]
          /\ \A x \in Managers : x # m => mcall'[x] = mcall[x]
      BY <1>a, <2>1, <3>1, ProceedIs
    <3>3. d.op = "declare" /\ d.at = 5 /\ d.view = v /\ d.alone = c.alone /\ d.fields = c.fields
      BY <1>a, <1>b, <2>1, <3>2 DEF ManagerCall
    <3>4. ViewTypes'
      BY <1>a, <2>1, <3>2 DEF ViewTypes
    <3>5. Midway(m) => Midway(m)' /\ SettledBut(m, v)'
      BY <1>b, <2>1, <3>3 DEF Midway, SettledBut, Declaring, Marking
    <3> QED BY <1>b, <2>1, <3>2, <3>3, <3>4, <3>5, OwnViewAlone
  <2> QED BY <2>2, <2>3
<1>6. CASE CreateSet(m)
  <2>1. /\ view' = view /\ disturbed' = disturbed /\ c.op = "declare" /\ c.at = 5 /\ Proceed(m)
        /\ record' = [record EXCEPT ![v] = [status |-> "active", fields |-> c.fields]]
    BY <1>6, <1>a, <1>b, PointIs DEF CreateSet
  <2>2. /\ mcall' \in [Managers -> ManagerCall] /\ d.op = "none"
        /\ \A x \in Managers : x # m => mcall'[x] = mcall[x]
    BY <1>a, <2>1, ProceedIs
  <2>3. /\ record'[v].status = "active" /\ record'[v].fields = c.fields
        /\ \A w \in Views : w # v => record'[w] = record[w]
        /\ record' \in [Views -> [status: {"none", "active", "revoked"}, fields: Fields]]
    BY <1>a, <2>1 DEF ViewTypes, ManagerCall
  <2>4. ViewTypes'
    BY <1>a, <2>1, <2>2, <2>3 DEF ViewTypes
  <2>5. Midway(m) => Midway(m)' /\ SettledBut(m, v)'
    BY <1>b, <2>1, <2>2, <2>3 DEF Midway, SettledBut, Matches, Declaring, Marking
  <2> QED BY <1>b, <2>1, <2>2, <2>3, <2>4, <2>5, OwnViewAlone
<1>7. CASE DropView(m)
  <2>1. /\ record' = record /\ disturbed' = disturbed /\ c.op = "revoke" /\ c.at = 2 /\ Proceed(m)
        /\ view' = [view EXCEPT ![v] = NoView]
    BY <1>7, <1>a, <1>b, PointIs DEF DropView
  <2>2. /\ mcall' \in [Managers -> ManagerCall] /\ d = [c EXCEPT !.at = 3]
        /\ \A x \in Managers : x # m => mcall'[x] = mcall[x]
    BY <1>a, <2>1, ProceedIs
  <2>3. d.op = "revoke" /\ d.at = 3 /\ d.view = v /\ d.alone = c.alone
    BY <1>a, <1>b, <2>1, <2>2 DEF ManagerCall
  <2>4. /\ ~view'[v].live
        /\ \A w \in Views : w # v => view'[w] = view[w]
        /\ view' \in [Views -> [live: BOOLEAN, fields: Fields, granted: BOOLEAN]]
    BY <1>a, <2>1, Defaults DEF ViewTypes
  <2>5. ViewTypes'
    BY <1>a, <2>1, <2>2, <2>4 DEF ViewTypes
  <2>6. Midway(m) => Midway(m)' /\ SettledBut(m, v)'
    BY <1>b, <2>1, <2>3, <2>4 DEF Midway, SettledBut, Declaring, Marking
  <2> QED BY <1>b, <2>1, <2>2, <2>3, <2>4, <2>5, <2>6, OwnViewAlone
<1>8. CASE MarkRevoked(m)
  <2>1. /\ view' = view /\ c.op = "revoke" /\ c.at = 3 /\ Proceed(m)
        /\ record' = [record EXCEPT ![v].status = "revoked"]
        /\ disturbed' = IF c.alone THEN [disturbed EXCEPT ![v] = {}] ELSE disturbed
    BY <1>8, <1>a, <1>b, PointIs DEF MarkRevoked
  <2>2. /\ mcall' \in [Managers -> ManagerCall] /\ d.op = "none"
        /\ \A x \in Managers : x # m => mcall'[x] = mcall[x]
    BY <1>a, <2>1, ProceedIs
  <2>3. /\ record'[v].status = "revoked"
        /\ \A w \in Views : w # v => record'[w] = record[w]
        /\ record' \in [Views -> [status: {"none", "active", "revoked"}, fields: Fields]]
    BY <1>a, <2>1 DEF ViewTypes
  <2>4. /\ \A w \in Views : w # v => disturbed'[w] = disturbed[w]
        /\ disturbed' \in [Views -> SUBSET Disturbances]
        /\ c.alone \/ disturbed'[v] = disturbed[v]
    BY <1>a, <2>1 DEF ViewTypes
  <2>5. ViewTypes'
    BY <1>a, <2>1, <2>2, <2>3, <2>4 DEF ViewTypes
  <2>6. CASE c.alone
    <3>1. Midway(m) => Midway(m)' /\ SettledBut(m, v)'
      BY <1>b, <2>1, <2>2, <2>3, <2>6 DEF Midway, SettledBut, Matches, Declaring, Marking
    <3> QED BY <1>b, <2>1, <2>2, <2>3, <2>4, <2>5, <2>6, <3>1, OwnViewAlone
  <2>7. CASE ~c.alone
    <3>1. disturbed' = disturbed
      BY <2>1, <2>7
    <3>2. Midway(m) => "overlap" \in disturbed[v]
      BY <1>b, <2>1, <2>7 DEF Midway
    <3>3. Midway(m) => Midway(m)' /\ SettledBut(m, v)'
      BY <2>2, <3>1, <3>2 DEF Midway, SettledBut, Declaring, Marking
    <3> QED BY <1>b, <2>1, <2>2, <2>3, <2>4, <2>5, <3>1, <3>3, OwnViewAlone
  <2> QED BY <2>6, <2>7
<1>9. CASE Dies(m)
  <2>1. view' = view /\ record' = record /\ c.op # "none" /\ Return(m)
    BY <1>9 DEF Dies
  <2>2. /\ mcall' \in [Managers -> ManagerCall] /\ d.op = "none"
        /\ \A x \in Managers : x # m => mcall'[x] = mcall[x]
    BY <1>a, <2>1, ReturnIs
  <2>3. disturbed' = IF Declaring(m) \/ Marking(m)
                     THEN [disturbed EXCEPT ![v] = @ \cup {c.op}] ELSE disturbed
    <3>1. (\E p \in {"grant", "lookup", "set", "mark"} : Awaits(m, p)) <=> Declaring(m) \/ Marking(m)
      BY <1>a, PointIs DEF Declaring, Marking
    <3> QED BY <1>9, <1>b, <3>1 DEF Dies
  <2>4. /\ \A w \in Views : w # v => disturbed'[w] = disturbed[w]
        /\ disturbed[v] \subseteq disturbed'[v]
        /\ Declaring(m) \/ Marking(m) => c.op \in disturbed'[v]
        /\ ~Declaring(m) /\ ~Marking(m) => disturbed'[v] = disturbed[v]
        /\ disturbed' \in [Views -> SUBSET Disturbances]
    BY <1>a, <2>1, <2>3 DEF ViewTypes, Disturbances
  <2>5. ViewTypes'
    BY <1>a, <2>1, <2>2, <2>4 DEF ViewTypes
  <2>6. Midway(m)'
    BY <2>2 DEF Midway, Declaring, Marking
  <2>7. ASSUME Midway(m), SettledBut(m, v) PROVE SettledBut(m, v)'
    <3>1. CASE Declaring(m)
      <4>1. "declare" \in disturbed'[v]
        BY <2>4, <3>1 DEF Declaring
      <4> QED BY <4>1 DEF SettledBut
    <3>2. CASE Marking(m)
      <4>1. "revoke" \in disturbed'[v]
        BY <2>4, <3>2 DEF Marking
      <4>2. c.alone \/ "overlap" \in disturbed'[v]
        BY <1>b, <2>1, <2>4, <2>7 DEF Midway
      <4>3. c.alone => ~view'[v].live
        BY <1>b, <2>1, <2>7, <3>2 DEF Midway
      <4> QED BY <4>1, <4>2, <4>3 DEF SettledBut
    <3>3. CASE ~Declaring(m) /\ ~Marking(m)
      BY <2>1, <2>4, <2>7, <3>3 DEF SettledBut, Matches
    <3> QED BY <3>1, <3>2, <3>3
  <2> QED BY <1>b, <2>1, <2>2, <2>4, <2>5, <2>6, <2>7, OwnViewAlone
<1> QED BY <1>1, <1>2, <1>3, <1>4, <1>5, <1>6, <1>7, <1>8, <1>9

LEMMA ViewInvInit == DVInit => ViewInv
<1> SUFFICES ASSUME DVInit PROVE ViewInv
  OBVIOUS
<1>1. ViewTypes
  BY Defaults DEF DVInit, ViewTypes, Disturbances
<1>2. /\ \A m \in Managers : mcall[m].op = "none"
      /\ \A v \in Views : ~view[v].live /\ record[v].status = "none"
  BY Defaults DEF DVInit
<1> QED
  BY <1>1, <1>2 DEF ViewInv, Overlaps, Midway, Settled, Matches, Declaring, Marking

LEMMA ViewInvStep ==
    ASSUME ViewInv, [DVNext]_allVars
    PROVE  ViewInv'
<1>0. (CHOOSE f \in Fields : TRUE) \in Fields
  BY DecryptedViewsAssumption
<1>1. CASE UNCHANGED viewVars
  BY <1>1 DEF viewVars, ViewInv, ViewTypes, Overlaps, Midway, Settled, Matches, Declaring, Marking
<1>2. CASE ViewStep
  <2>1. PICK m \in Managers :
          \/ \E v \in Views :
               \/ \E f \in Fields : PostDecryptedViews(m, v, f)
               \/ DeleteDecryptedViews(m, v)
          \/ GetAvailableFields(m) \/ CreateTable(m) \/ GrantViewerOnView(m)
          \/ CreateLookup(m) \/ CreateSet(m)
          \/ RevokeRead(m) \/ DropView(m) \/ MarkRevoked(m) \/ Dies(m)
    BY <1>2 DEF ViewStep
  <2>2. ASSUME NEW v \in Views, NEW f \in Fields, PostDecryptedViews(m, v, f) PROVE ViewInv'
    BY <2>2, BeginKeeps DEF PostDecryptedViews
  <2>3. ASSUME NEW v \in Views, DeleteDecryptedViews(m, v) PROVE ViewInv'
    BY <1>0, <2>3, BeginKeeps DEF DeleteDecryptedViews
  <2> QED BY <2>1, <2>2, <2>3, StepKeeps
<1> QED BY <1>1, <1>2 DEF DVNext, KeyStep, BatchDecrypt, PostPiiVaultDecrypt,
                       DecryptPiiVaultValue, allVars

LEMMA ViewInvAlways == DVSpec => []ViewInv
  BY ViewInvInit, ViewInvStep, PTL DEF DVSpec

\* A live view no declaration accounts for is left only by a declaration that
\* died midway, or by calls that overlapped.
THEOREM NoUnrecordedViewHolds == DVSpec => []NoUnrecordedView
<1>1. ASSUME ViewInv PROVE NoUnrecordedView
  <2> SUFFICES ASSUME NEW v \in Views, InFlight(v) = {}, disturbed[v] \subseteq {"revoke"},
                      view[v].live
               PROVE  record[v].status = "active"
    BY DEF NoUnrecordedView
  <2>1. \A m \in Managers : mcall[m].view = v => ~Declaring(m)
    BY DEF InFlight, Declaring
  <2> QED BY <1>1, <2>1 DEF ViewInv, Settled
<1> QED BY <1>1, ViewInvAlways, PTL

\* Undisturbed, the declaration and the view say the same.
THEOREM RecordMatchesViewHolds == DVSpec => []RecordMatchesView
<1>1. ASSUME ViewInv PROVE RecordMatchesView
  <2> SUFFICES ASSUME NEW v \in Views, InFlight(v) = {}, disturbed[v] = {}
               PROVE  Matches(v)
    BY DEF RecordMatchesView, Matches
  <2>1. \A m \in Managers : mcall[m].view = v => ~Declaring(m) /\ ~Marking(m)
    BY DEF InFlight, Declaring, Marking
  <2> QED BY <1>1, <2>1 DEF ViewInv, Settled
<1> QED BY <1>1, ViewInvAlways, PTL

=============================================================================
