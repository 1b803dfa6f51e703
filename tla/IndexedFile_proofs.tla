-------------------------- MODULE IndexedFile_proofs --------------------------
(***************************************************************************)
(* Proofs about IndexedFile for any run units, values, alternate keys and  *)
(* modes of access: record locks exclude, the indexes agree with the       *)
(* records at every step of an update that nobody has overtaken, and READ  *)
(* NEXT and READ PREVIOUS deliver the nearest entry.                       *)
(***************************************************************************)
EXTENDS IndexedFile, FiniteSetTheorems, WellFoundedInduction, TLAPS

-----------------------------------------------------------------------------
(* The inductive invariant: the updates under way. *)

Fields == {"step", "kind", "key", "new", "rec", "old", "todo", "upd", "lock"}

\* An update o is one that a program can be in.
OpOK(o) ==
  /\ Fields \subseteq DOMAIN o
  /\ o.step \in Steps
  /\ o.step # "idle" => o.new \in Values
  /\ o.todo \subseteq Alternates /\ o.upd \subseteq Alternates
  /\ o.step \in {"checked", "tested", "del"} => o.kind \in {"REWRITE", "DELETE"}
  /\ o.step = "gone" => o.kind = "REWRITE"
  /\ o.step = "del" => o.todo \subseteq o.upd /\ (o.kind = "DELETE" => o.upd = Alternates)
  /\ o.step = "put" => \A i \in o.todo : o.rec[i] \notin Suppressed[i]
  /\ o.step \in {"del", "gone"} /\ o.kind = "REWRITE" => \A i \in Alternates \ o.upd : o.old[i] = o.rec[i]

OpInv == op = [p \in Procs |-> op[p]] /\ \A p \in Procs : OpOK(op[p])

-----------------------------------------------------------------------------
(* The locks. *)

PastTestSteps == {"tested", "del", "gone"}

LockTypes ==
  /\ locks \in [Procs -> [Values -> Nat]] /\ latch \in [Procs -> Values \cup {NONE}]
  /\ race \in [Procs -> SUBSET Procs] /\ mode \in [Procs -> OpenModes \cup {"CLOSED"}]

\* The lock that a run unit remembers is one that it has, and without LOCK ON MULTIPLE
\* RECORDS its only one.
LockPart(p) ==
  /\ latch[p] # NONE => locks[p][latch[p]] > 0
  /\ p \notin Multiple => \A k \in Values : locks[p][k] = IF k = latch[p] THEN 1 ELSE 0

\* What is remembered within a statement.
OpPart(p) ==
  /\ mode[p] = "CLOSED" => latch[p] = NONE /\ op[p] = Idle
  /\ op[p].step # "idle" /\ p \notin Multiple => latch[p] = NONE
  /\ op[p].step \in {"checked"} \cup PastTestSteps => latch[p] = NONE

Exclusive == \A p, q \in Procs, k \in Values : locks[p][k] > 0 /\ locks[q][k] > 0 => p = q

\* Who can still change a locked record is known to be in the race.
Raced ==
  \A p \in Procs : \A q \in Procs \ {p} :
    latch[p] # NONE /\ op[q].key = latch[p] /\ op[q].step \in PastTestSteps => q \in race[p]

LockInv == LockTypes /\ Exclusive /\ Raced /\ \A p \in Procs : LockPart(p) /\ OpPart(p)

-----------------------------------------------------------------------------
(* What a step of run unit p leaves alone, and what it may do to locks. *)

OthersLocks(p) == \A q \in Procs \ {p} : locks'[q] = locks[q] /\ latch'[q] = latch[q] /\ race'[q] = race[q]
OthersOps(p) == \A q \in Procs \ {p} : op'[q] = op[q] /\ mode'[q] = mode[q]
GrantOK(p) == \A k \in Values : locks'[p][k] > 0 => locks[p][k] > 0 \/ Free(p, k)
RaceOK(p) == \/ latch'[p] = NONE \/ (latch'[p] = latch[p] /\ race'[p] = race[p])
             \/ race'[p] = PastTest(p, latch'[p])
TestOK(p) == op'[p].step \in PastTestSteps =>
               (op[p].step \in PastTestSteps /\ op'[p].key = op[p].key) \/ Free(p, op'[p].key)

LockEffect(p) ==
  /\ locks' \in [Procs -> [Values -> Nat]] /\ latch' \in [Procs -> Values \cup {NONE}]
  /\ race' \in [Procs -> SUBSET Procs]
  /\ OthersLocks(p) /\ GrantOK(p) /\ RaceOK(p) /\ LockPart(p)'

LEMMA SameEffect ==
  ASSUME LockInv, NEW p \in Procs, UNCHANGED lockVars
  PROVE  LockEffect(p) /\ latch'[p] = latch[p]
  BY DEF LockInv, LockTypes, LockEffect, lockVars, OthersLocks, GrantOK, RaceOK, LockPart

LEMMA UnlockEffect ==
  ASSUME LockInv, NEW p \in Procs, UnlockRecord(p)
  PROVE  LockEffect(p) /\ latch'[p] = NONE
  <1>1. /\ locks \in [Procs -> [Values -> Nat]] /\ latch \in [Procs -> Values \cup {NONE}]
        /\ race \in [Procs -> SUBSET Procs] /\ LockPart(p) /\ NONE \notin Values
    BY NoneAssumption DEF LockInv, LockTypes
  <1>2. /\ latch' = [latch EXCEPT ![p] = NONE] /\ race' = [race EXCEPT ![p] = {}]
        /\ locks' = IF latch[p] = NONE THEN locks ELSE [locks EXCEPT ![p][latch[p]] = @ - 1]
    BY DEF UnlockRecord
  <1>3. /\ latch' \in [Procs -> Values \cup {NONE}] /\ latch'[p] = NONE /\ race' \in [Procs -> SUBSET Procs]
        /\ \A q \in Procs \ {p} : latch'[q] = latch[q] /\ race'[q] = race[q]
    BY <1>1, <1>2
  <1>4. CASE latch[p] = NONE
    BY <1>1, <1>2, <1>3, <1>4 DEF LockEffect, OthersLocks, GrantOK, RaceOK, LockPart
  <1>5. CASE latch[p] # NONE
    <2>1. PICK k \in Values : k = latch[p]
      BY <1>1, <1>5
    <2>2. locks[p][k] \in Nat /\ locks[p][k] > 0 /\ locks[p][k] - 1 \in Nat /\ locks[p] \in [Values -> Nat]
      BY <1>1, <1>5, <2>1 DEF LockPart
    <2>3. PICK f \in [Values -> Nat] : f = [locks[p] EXCEPT ![k] = locks[p][k] - 1]
      BY <2>2
    <2>4. locks' = [locks EXCEPT ![p] = f]
      BY <1>2, <1>5, <2>1, <2>3
    <2>5. f[k] = locks[p][k] - 1 /\ \A j \in Values \ {k} : f[j] = locks[p][j]
      BY <2>2, <2>3
    <2>6. locks' \in [Procs -> [Values -> Nat]] /\ locks'[p] = f /\ \A q \in Procs \ {p} : locks'[q] = locks[q]
      BY <1>1, <2>3, <2>4
    <2>7. GrantOK(p)
      BY <2>1, <2>2, <2>5, <2>6 DEF GrantOK
    <2>8. LockPart(p)'
      <3>1. p \notin Multiple => \A j \in Values : f[j] = 0
        BY <1>1, <2>1, <2>2, <2>5 DEF LockPart
      <3>2. p \notin Multiple => \A j \in Values : locks'[p][j] = IF j = latch'[p] THEN 1 ELSE 0
        BY <1>1, <1>3, <2>6, <3>1
      <3> QED BY <1>3, <3>2 DEF LockPart
    <2> QED BY <1>3, <2>6, <2>7, <2>8 DEF LockEffect, OthersLocks, RaceOK
  <1> QED BY <1>4, <1>5

\* A lock on k is granted; no other lock is remembered, or others are.
LEMMA GrantEffect ==
  ASSUME LockInv, NEW p \in Procs, NEW k \in Values, LockRecord(p, k), Free(p, k), latch[p] = NONE \/ p \in Multiple
  PROVE  LockEffect(p) /\ latch'[p] = k
  <1>1. /\ locks \in [Procs -> [Values -> Nat]] /\ latch \in [Procs -> Values \cup {NONE}]
        /\ race \in [Procs -> SUBSET Procs] /\ LockPart(p) /\ NONE \notin Values
    BY NoneAssumption DEF LockInv, LockTypes
  <1>2. /\ latch' = [latch EXCEPT ![p] = k] /\ race' = [race EXCEPT ![p] = PastTest(p, k)]
        /\ locks' = [locks EXCEPT ![p][k] = @ + 1]
    BY DEF LockRecord
  <1>3. /\ latch' \in [Procs -> Values \cup {NONE}] /\ latch'[p] = k /\ race' \in [Procs -> SUBSET Procs]
        /\ \A q \in Procs \ {p} : latch'[q] = latch[q] /\ race'[q] = race[q]
        /\ race'[p] = PastTest(p, k)
    BY <1>1, <1>2 DEF PastTest
  <1>a. locks[p][k] \in Nat /\ locks[p][k] + 1 \in Nat /\ locks[p] \in [Values -> Nat]
    BY <1>1
  <1>4. PICK f \in [Values -> Nat] : f = [locks[p] EXCEPT ![k] = locks[p][k] + 1]
    BY <1>a
  <1>5. locks' = [locks EXCEPT ![p] = f]
    BY <1>2, <1>4
  <1>6. f[k] = locks[p][k] + 1 /\ locks[p][k] \in Nat /\ \A j \in Values \ {k} : f[j] = locks[p][j]
    BY <1>a, <1>4
  <1>7. locks' \in [Procs -> [Values -> Nat]] /\ locks'[p] = f /\ \A q \in Procs \ {p} : locks'[q] = locks[q]
    BY <1>1, <1>4, <1>5
  <1>8. GrantOK(p)
    BY <1>6, <1>7 DEF GrantOK
  <1>9. LockPart(p)'
    <2>1. p \notin Multiple => \A j \in Values : f[j] = IF j = k THEN 1 ELSE 0
      BY <1>1, <1>6 DEF LockPart
    <2>2. f[k] > 0
      BY <1>6
    <2> QED BY <1>3, <1>7, <2>1, <2>2 DEF LockPart
  <1> QED BY <1>3, <1>7, <1>8, <1>9 DEF LockEffect, OthersLocks, RaceOK

LEMMA RelockEffect ==
  ASSUME LockInv, NEW p \in Procs, NEW k \in Values, NEW want \in BOOLEAN, Relock(p, k, want), want => Free(p, k)
  PROVE  LockEffect(p)
  <1>1. CASE want = FALSE
    BY <1>1, UnlockEffect DEF Relock
  <1>2. CASE want = TRUE
    <2>1. /\ locks \in [Procs -> [Values -> Nat]] /\ latch \in [Procs -> Values \cup {NONE}]
          /\ race \in [Procs -> SUBSET Procs] /\ LockPart(p) /\ NONE \notin Values
      BY NoneAssumption DEF LockInv, LockTypes
    <2>2. PICK f : f = [j \in Values |-> locks[p][j] + (IF j = k THEN 1 ELSE 0) - (IF j = latch[p] THEN 1 ELSE 0)]
      OBVIOUS
    <2>3. /\ latch' = [latch EXCEPT ![p] = k] /\ race' = [race EXCEPT ![p] = PastTest(p, k)]
          /\ locks' = [locks EXCEPT ![p] = f]
      BY <1>2, <2>2 DEF Relock
    <2>4. /\ latch' \in [Procs -> Values \cup {NONE}] /\ latch'[p] = k /\ race' \in [Procs -> SUBSET Procs]
          /\ \A q \in Procs \ {p} : latch'[q] = latch[q] /\ race'[q] = race[q]
          /\ race'[p] = PastTest(p, k)
      BY <2>1, <2>3 DEF PastTest
    <2>5. \A j \in Values : locks[p][j] \in Nat /\ (j = latch[p] => locks[p][j] > 0)
      BY <2>1 DEF LockPart
    <2>6. \A j \in Values : f[j] \in Nat /\ (j # k /\ f[j] > 0 => locks[p][j] > 0) /\ (j = k => f[j] > 0)
      <3> SUFFICES ASSUME NEW j \in Values
                   PROVE  f[j] \in Nat /\ (j # k /\ f[j] > 0 => locks[p][j] > 0) /\ (j = k => f[j] > 0)
        OBVIOUS
      <3>1. f[j] = locks[p][j] + (IF j = k THEN 1 ELSE 0) - (IF j = latch[p] THEN 1 ELSE 0)
        BY <2>2
      <3>2. locks[p][j] \in Nat /\ (j = latch[p] => locks[p][j] > 0)
        BY <2>5
      <3> QED BY <3>1, <3>2
    <2>7. f \in [Values -> Nat]
      BY <2>2, <2>6
    <2>8. locks' \in [Procs -> [Values -> Nat]] /\ locks'[p] = f /\ \A q \in Procs \ {p} : locks'[q] = locks[q]
      BY <2>1, <2>3, <2>7
    <2>9. GrantOK(p)
      BY <1>2, <2>6, <2>8 DEF GrantOK
    <2>10. LockPart(p)'
      <3>1. ASSUME p \notin Multiple, NEW j \in Values PROVE f[j] = IF j = k THEN 1 ELSE 0
        <4>1. locks[p][j] = IF j = latch[p] THEN 1 ELSE 0
          BY <2>1, <3>1 DEF LockPart
        <4> QED BY <2>2, <4>1
      <3>2. f[k] > 0
        BY <2>6
      <3> QED BY <2>4, <2>8, <3>1, <3>2 DEF LockPart
    <2> QED BY <2>4, <2>8, <2>9, <2>10 DEF LockEffect, OthersLocks, RaceOK
  <1> QED BY <1>1, <1>2

\* A lock is forgotten by the program, not by the lock manager.
LEMMA ForgetEffect ==
  ASSUME LockInv, NEW p \in Procs, latch' = [latch EXCEPT ![p] = NONE], UNCHANGED <<locks, race>>,
         latch[p] = NONE \/ p \in Multiple
  PROVE  LockEffect(p) /\ latch'[p] = NONE
  <1>1. /\ locks \in [Procs -> [Values -> Nat]] /\ latch \in [Procs -> Values \cup {NONE}]
        /\ race \in [Procs -> SUBSET Procs] /\ LockPart(p)
    BY DEF LockInv, LockTypes
  <1>2. latch' \in [Procs -> Values \cup {NONE}] /\ latch'[p] = NONE /\ \A q \in Procs \ {p} : latch'[q] = latch[q]
    BY <1>1
  <1> QED BY <1>1, <1>2 DEF LockEffect, OthersLocks, GrantOK, RaceOK, LockPart

\* The locks stay exclusive, and the races known.
LEMMA LockStep ==
  ASSUME LockInv, NEW p \in Procs, LockEffect(p), OthersOps(p), TestOK(p), OpPart(p)',
         mode' \in [Procs -> OpenModes \cup {"CLOSED"}]
  PROVE  LockInv'
  <1>1. LockTypes'
    BY DEF LockTypes, LockEffect
  <1>2. \A q \in Procs, k \in Values : locks[q][k] \in Nat
    BY DEF LockInv, LockTypes
  <1>3. Exclusive'
    <2> SUFFICES ASSUME NEW a \in Procs, NEW b \in Procs, a # b, NEW k \in Values, locks'[a][k] > 0, locks'[b][k] > 0
                 PROVE  FALSE
      BY DEF Exclusive
    <2>1. ASSUME NEW q \in Procs \ {p}, locks'[q][k] > 0 PROVE locks[q][k] > 0 /\ locks[q][k] # 0
      <3>1. locks[q][k] > 0
        BY <2>1 DEF LockEffect, OthersLocks
      <3> QED BY <1>2, <3>1
    <2>2. ASSUME NEW q \in Procs \ {p}, locks'[q][k] > 0, locks'[p][k] > 0 PROVE FALSE
      <3>1. locks[q][k] > 0 /\ locks[q][k] # 0
        BY <2>1, <2>2
      <3>2. locks[p][k] > 0 \/ Free(p, k)
        BY <2>2 DEF LockEffect, GrantOK
      <3> QED BY <3>1, <3>2 DEF Free, LockInv, Exclusive
    <2>3. CASE a = p \/ b = p
      BY <2>2, <2>3
    <2>4. CASE a # p /\ b # p
      BY <2>1, <2>4 DEF LockInv, Exclusive
    <2> QED BY <2>3, <2>4
  <1>4. Raced'
    <2> SUFFICES ASSUME NEW a \in Procs, NEW b \in Procs \ {a}, latch'[a] # NONE, op'[b].key = latch'[a],
                        op'[b].step \in PastTestSteps
                 PROVE  b \in race'[a]
      BY DEF Raced
    <2>1. CASE a = p
      <3>1. op'[b] = op[b]
        BY <2>1 DEF OthersOps
      <3>2. b \in PastTest(p, latch'[p])
        BY <2>1, <3>1 DEF PastTest, PastTestSteps
      <3>3. latch'[p] = latch[p] => b \in race[p]
        BY <2>1, <3>1 DEF LockInv, Raced
      <3> QED BY <2>1, <3>2, <3>3 DEF LockEffect, RaceOK
    <2>2. CASE a # p /\ b = p
      <3>1. latch'[a] = latch[a] /\ race'[a] = race[a]
        BY <2>2 DEF LockEffect, OthersLocks
      <3>2. latch[a] \in Values /\ locks[a][latch[a]] > 0 /\ locks[a][latch[a]] # 0
        <4>1. latch[a] \in Values /\ locks[a][latch[a]] > 0
          BY <3>1 DEF LockInv, LockTypes, LockPart
        <4> QED BY <1>2, <4>1
      <3>3. ~Free(p, op'[p].key)
        BY <2>2, <3>1, <3>2 DEF Free
      <3>4. op[p].step \in PastTestSteps /\ op'[p].key = op[p].key
        BY <2>2, <3>3 DEF TestOK
      <3> QED BY <2>2, <3>1, <3>4 DEF LockInv, Raced
    <2>3. CASE a # p /\ b # p
      BY <2>3 DEF LockEffect, OthersLocks, OthersOps, LockInv, Raced
    <2> QED BY <2>1, <2>2, <2>3
  <1>5. \A q \in Procs \ {p} : LockPart(q)' /\ OpPart(q)'
    BY DEF LockEffect, OthersLocks, OthersOps, LockInv, LockPart, OpPart
  <1> QED BY <1>1, <1>3, <1>4, <1>5 DEF LockInv, LockEffect

-----------------------------------------------------------------------------
(* The data: what holds whatever has been torn. *)

CursorOnce == \A p, q \in Procs : HasCursor(p) /\ HasCursor(q) => p = q

\* A key without duplicates is in its index once.
SecUnique == \A i \in Alternates \ Dups : \A d, e \in sec[i] : d.key = e.key => d.prim = e.prim

\* Keys that are suppressed are in no index.
NoneSuppressed == \A i \in Alternates : \A e \in sec[i] : e.key \notin Suppressed[i]

DataTypes == torn \in BOOLEAN /\ DOMAIN pri \subseteq Values /\ sec = [i \in Alternates |-> sec[i]]

-----------------------------------------------------------------------------
(* The locks and the updates under way: every action. *)

LEMMA OpSet ==
  ASSUME OpInv, NEW p \in Procs, NEW o, op' = [op EXCEPT ![p] = o], OpOK(o)
  PROVE  OpInv' /\ op'[p] = o /\ \A q \in Procs \ {p} : op'[q] = op[q]
  <1>1. op = [q \in Procs |-> op[q]] /\ \A q \in Procs : OpOK(op[q])
    BY DEF OpInv
  <1>2. op'[p] = o /\ \A q \in Procs \ {p} : op'[q] = op[q]
    BY <1>1
  <1>3. op' = [q \in Procs |-> op'[q]]
    BY <1>1
  <1>4. \A q \in Procs : OpOK(op'[q])
    BY <1>1, <1>2
  <1> QED BY <1>2, <1>3, <1>4 DEF OpInv, OpOK

LEMMA IdleOK == OpOK(Idle) /\ Idle.step = "idle"
  BY DEF OpOK, Idle, Fields, Steps

\* A statement ends.
LEMMA EndsStep ==
  ASSUME LockInv, OpInv, NEW p \in Procs, NEW st, NEW stmt, Ends(p, st, stmt), LockEffect(p),
         mode' \in [Procs -> OpenModes \cup {"CLOSED"}], \A q \in Procs \ {p} : mode'[q] = mode[q],
         mode'[p] = "CLOSED" => latch'[p] = NONE
  PROVE  LockInv' /\ OpInv' /\ op'[p] = Idle
  <1>1. op' = [op EXCEPT ![p] = Idle]
    BY DEF Ends
  <1>2. OpInv' /\ op'[p] = Idle /\ \A q \in Procs \ {p} : op'[q] = op[q]
    BY <1>1, IdleOK, OpSet
  <1>3. OthersOps(p)
    BY <1>2 DEF OthersOps
  <1>4. TestOK(p) /\ OpPart(p)'
    BY <1>2, IdleOK DEF TestOK, OpPart, PastTestSteps
  <1>5. LockInv'
    BY <1>3, <1>4, LockStep
  <1> QED BY <1>2, <1>5

\* A statement goes on, with the update o.
LEMMA GoesStep ==
  ASSUME LockInv, OpInv, NEW p \in Procs, NEW o, op' = [op EXCEPT ![p] = o], OpOK(o), LockEffect(p),
         UNCHANGED mode, mode[p] # "CLOSED",
         p \notin Multiple \/ o.step \in {"checked"} \cup PastTestSteps => latch'[p] = NONE,
         o.step \in PastTestSteps => (op[p].step \in PastTestSteps /\ o.key = op[p].key) \/ Free(p, o.key)
  PROVE  LockInv' /\ OpInv' /\ op'[p] = o
  <1>1. OpInv' /\ op'[p] = o /\ \A q \in Procs \ {p} : op'[q] = op[q]
    BY OpSet
  <1>2. OthersOps(p) /\ TestOK(p) /\ OpPart(p)'
    BY <1>1 DEF OthersOps, TestOK, OpPart
  <1>3. mode' \in [Procs -> OpenModes \cup {"CLOSED"}]
    BY DEF LockInv, LockTypes
  <1>4. LockInv'
    BY <1>2, <1>3, LockStep
  <1> QED BY <1>1, <1>4

LEMMA FinishStep ==
  ASSUME LockInv, OpInv, NEW p \in Procs, NEW st, Finish(p, st), UNCHANGED mode, op[p].step # "idle"
  PROVE  LockInv' /\ OpInv' /\ op'[p] = Idle
  <1>1. mode \in [Procs -> OpenModes \cup {"CLOSED"}] /\ mode[p] # "CLOSED"
    BY IdleOK DEF LockInv, LockTypes, OpPart
  <1>2. UnlockRecord(p) \/ UNCHANGED lockVars
    BY DEF Finish
  <1>3. LockEffect(p)
    BY <1>2, UnlockEffect, SameEffect
  <1>4. Ends(p, st, op[p].kind)
    BY DEF Finish
  <1> QED BY <1>1, <1>3, <1>4, EndsStep

\* Within a statement the file is open.
LEMMA OpenWithin ==
  ASSUME LockInv, NEW p \in Procs, op[p].step # "idle"
  PROVE  mode[p] # "CLOSED" /\ mode \in [Procs -> OpenModes \cup {"CLOSED"}]
  BY IdleOK DEF LockInv, LockTypes, OpPart

LEMMA LockCheckAlternates ==
  ASSUME LockInv, OpInv, NEW p \in Procs, CheckAlternates(p)
  PROVE  LockInv' /\ OpInv'
  <1>1. op[p].step = "ready" /\ op[p].kind = "REWRITE" /\ OpOK(op[p]) /\ UNCHANGED mode
    BY DEF CheckAlternates, OpInv
  <1>2. mode[p] # "CLOSED" /\ mode \in [Procs -> OpenModes \cup {"CLOSED"}]
    BY <1>1, OpenWithin
  <1>3. CASE Ends(p, "22", "REWRITE") /\ UNCHANGED lockVars
    <2>1. LockEffect(p)
      BY <1>3, SameEffect
    <2> QED BY <1>1, <1>2, <1>3, <2>1, EndsStep
  <1>4. CASE op' = [op EXCEPT ![p].step = "checked"] /\ UnlockRecord(p)
    <2>1. LockEffect(p) /\ latch'[p] = NONE
      BY <1>4, UnlockEffect
    <2>2. PICK o : o = [op[p] EXCEPT !.step = "checked"]
      OBVIOUS
    <2>3. op' = [op EXCEPT ![p] = o]
      BY <1>4, <2>2
    <2>4. o.step = "checked" /\ OpOK(o)
      BY <1>1, <2>2 DEF OpOK, Fields, Steps
    <2> QED BY <1>1, <1>2, <2>1, <2>3, <2>4, GoesStep DEF PastTestSteps
  <1> QED BY <1>3, <1>4 DEF CheckAlternates

LEMMA LockTestLock ==
  ASSUME LockInv, OpInv, NEW p \in Procs, TestLock(p)
  PROVE  LockInv' /\ OpInv'
  <1>1. op[p].step = "checked" /\ OpOK(op[p]) /\ UNCHANGED mode /\ UNCHANGED lockVars
    BY DEF TestLock, OpInv
  <1>2. mode[p] # "CLOSED" /\ mode \in [Procs -> OpenModes \cup {"CLOSED"}] /\ latch[p] = NONE
    BY <1>1, OpenWithin DEF LockInv, OpPart
  <1>3. LockEffect(p) /\ latch'[p] = NONE
    BY <1>1, <1>2, SameEffect
  <1>4. CASE Ends(p, "51", op[p].kind)
    BY <1>1, <1>2, <1>3, <1>4, EndsStep
  <1>5. CASE Free(p, op[p].key) /\ op' = [op EXCEPT ![p].step = "tested"]
    <2>1. PICK o : o = [op[p] EXCEPT !.step = "tested"]
      OBVIOUS
    <2>2. op' = [op EXCEPT ![p] = o]
      BY <1>5, <2>1
    <2>3. o.step = "tested" /\ o.key = op[p].key /\ OpOK(o)
      BY <1>1, <2>1 DEF OpOK, Fields, Steps
    <2> QED BY <1>1, <1>2, <1>3, <1>5, <2>2, <2>3, GoesStep
  <1> QED BY <1>4, <1>5 DEF TestLock

\* What the update becomes when the old record is found.
FoundOp(p, old, o) ==
  /\ op' = [op EXCEPT ![p] = o]
  /\ Fields \subseteq DOMAIN o
  /\ o.step = "del" /\ o.kind = op[p].kind /\ o.key = op[p].key /\ o.new = op[p].new /\ o.rec = op[p].rec
  /\ o.old = old /\ o.todo = o.upd
  /\ o.upd = IF op[p].kind = "DELETE" THEN Alternates ELSE {i \in Alternates : old[i] # op[p].rec[i]}

\* The alternate keys to be deleted.
Changed(p, old) ==
  IF op[p].kind = "DELETE" THEN Alternates ELSE {i \in Alternates : old[i] # op[p].rec[i]}

FindFound(p) ==
  \E old, o : /\ FoundOp(p, old, o)
              /\ \/ op[p].key \in DOMAIN pri /\ old = pri[op[p].key] /\ torn' = torn
                 \/ op[p].key \notin DOMAIN pri /\ torn' = TRUE

LEMMA FindCases ==
  ASSUME OpInv, NEW p \in Procs, Find(p)
  PROVE  \/ FindFound(p)
         \/ op[p].key \notin DOMAIN pri /\ torn' = torn /\ \E st : Ends(p, st, op[p].kind)
  <1>1. OpOK(op[p])
    BY DEF OpInv
  <1>2. ASSUME NEW old, NEW upd, upd = IF op[p].kind = "DELETE" THEN Alternates
                                       ELSE {i \in Alternates : old[i] # op[p].rec[i]},
               op' = [op EXCEPT ![p].step = "del", ![p].old = old, ![p].upd = upd, ![p].todo = upd]
        PROVE  \E o : FoundOp(p, old, o)
    <2>1. PICK o : o = [op[p] EXCEPT !.step = "del", !.old = old, !.upd = upd, !.todo = upd]
      OBVIOUS
    <2>2. op' = [op EXCEPT ![p] = o]
      BY <1>2, <2>1 DEF OpInv
    <2>3. Fields \subseteq DOMAIN op[p] /\ DOMAIN o = DOMAIN op[p]
      BY <1>1, <2>1 DEF OpOK
    <2>4. /\ o.step = "del" /\ o.kind = op[p].kind /\ o.key = op[p].key /\ o.new = op[p].new /\ o.rec = op[p].rec
          /\ o.old = old /\ o.upd = upd /\ o.todo = upd
      BY <2>1, <2>3 DEF Fields
    <2>5. FoundOp(p, old, o)
      BY <1>2, <2>2, <2>3, <2>4 DEF FoundOp
    <2> QED BY <2>5
  <1>3. CASE op[p].key \in DOMAIN pri
    BY <1>2, <1>3 DEF Find, FindFound
  <1>4. CASE op[p].key \notin DOMAIN pri /\ Access[p] # "SEQUENTIAL"
    BY <1>4 DEF Find
  <1>5. CASE op[p].key \notin DOMAIN pri /\ Access[p] = "SEQUENTIAL"
    <2>1. PICK image : op' = [op EXCEPT ![p].step = "del", ![p].old = image, ![p].upd = Changed(p, image),
                                        ![p].todo = Changed(p, image)]
      BY <1>5 DEF Find, Changed
    <2>2. torn' = TRUE
      BY <1>5 DEF Find
    <2>3. PICK o : FoundOp(p, image, o)
      BY <1>2, <2>1 DEF Changed
    <2> QED BY <1>5, <2>2, <2>3 DEF FindFound
  <1> QED BY <1>3, <1>4, <1>5

LEMMA LockFind ==
  ASSUME LockInv, OpInv, NEW p \in Procs, Find(p)
  PROVE  LockInv' /\ OpInv'
  <1>1. op[p].step = "tested" /\ OpOK(op[p]) /\ UNCHANGED mode /\ UNCHANGED lockVars
    BY DEF Find, OpInv
  <1>2. mode[p] # "CLOSED" /\ mode \in [Procs -> OpenModes \cup {"CLOSED"}] /\ latch[p] = NONE
    BY <1>1, OpenWithin DEF LockInv, OpPart, PastTestSteps
  <1>3. LockEffect(p) /\ latch'[p] = NONE
    BY <1>1, <1>2, SameEffect
  <1>4. CASE \E st : Ends(p, st, op[p].kind)
    BY <1>1, <1>2, <1>3, <1>4, EndsStep
  <1>5. ASSUME NEW old, NEW o, FoundOp(p, old, o) PROVE LockInv' /\ OpInv'
    <2>1. OpOK(o)
      BY <1>1, <1>5 DEF FoundOp, OpOK, Steps
    <2> QED BY <1>1, <1>2, <1>3, <1>5, <2>1, GoesStep DEF FoundOp, PastTestSteps
  <1> QED BY <1>4, <1>5, FindCases DEF FindFound

\* The update once the alternate key i is dealt with.
LEMMA TodoLess ==
  ASSUME OpInv, NEW p \in Procs, NEW i, op' = [op EXCEPT ![p].todo = @ \ {i}], op[p].step \in {"del", "put"}
  PROVE  \E o : /\ op' = [op EXCEPT ![p] = o] /\ OpOK(o) /\ o.step = op[p].step /\ o.kind = op[p].kind
                /\ o.key = op[p].key /\ o.new = op[p].new /\ o.rec = op[p].rec /\ o.old = op[p].old
                /\ o.upd = op[p].upd /\ o.todo = op[p].todo \ {i}
  <1>1. OpOK(op[p]) /\ Fields \subseteq DOMAIN op[p]
    BY DEF OpInv, OpOK
  <1>2. PICK o : o = [op[p] EXCEPT !.todo = @ \ {i}]
    OBVIOUS
  <1>3. op' = [op EXCEPT ![p] = o]
    BY <1>2 DEF OpInv
  <1>4. /\ o.step = op[p].step /\ o.kind = op[p].kind /\ o.key = op[p].key /\ o.new = op[p].new /\ o.rec = op[p].rec
        /\ o.old = op[p].old /\ o.upd = op[p].upd /\ o.todo = op[p].todo \ {i} /\ DOMAIN o = DOMAIN op[p]
    BY <1>1, <1>2 DEF Fields
  <1>5. OpOK(o)
    BY <1>1, <1>4 DEF OpOK
  <1> QED BY <1>3, <1>4, <1>5

LEMMA LockDeleteAlternate ==
  ASSUME LockInv, OpInv, NEW p \in Procs, DeleteAlternate(p)
  PROVE  LockInv' /\ OpInv'
  <1>1. op[p].step = "del" /\ UNCHANGED mode /\ UNCHANGED lockVars
        /\ op' = [op EXCEPT ![p].todo = @ \ {First(op[p].todo)}]
    BY DEF DeleteAlternate
  <1>2. mode[p] # "CLOSED" /\ latch[p] = NONE
    BY <1>1, OpenWithin DEF LockInv, OpPart, PastTestSteps
  <1>3. LockEffect(p) /\ latch'[p] = NONE
    BY <1>1, <1>2, SameEffect
  <1>a. PICK i : i = First(op[p].todo)
    OBVIOUS
  <1>b. op' = [op EXCEPT ![p].todo = @ \ {i}] /\ op[p].step \in {"del", "put"}
    BY <1>1, <1>a
  <1>c. PICK o : /\ op' = [op EXCEPT ![p] = o] /\ OpOK(o) /\ o.step = op[p].step /\ o.kind = op[p].kind
                 /\ o.key = op[p].key /\ o.new = op[p].new /\ o.rec = op[p].rec /\ o.old = op[p].old
                 /\ o.upd = op[p].upd /\ o.todo = op[p].todo \ {i}
    BY <1>b, TodoLess
  <1>4. op' = [op EXCEPT ![p] = o] /\ OpOK(o) /\ o.step = "del" /\ o.key = op[p].key
    BY <1>1, <1>c
  <1> QED BY <1>1, <1>2, <1>3, <1>4, GoesStep DEF PastTestSteps

LEMMA LockDeletePrimary ==
  ASSUME LockInv, OpInv, NEW p \in Procs, DeletePrimary(p)
  PROVE  LockInv' /\ OpInv'
  <1>1. op[p].step = "del" /\ UNCHANGED mode /\ UNCHANGED lockVars /\ OpOK(op[p])
    BY DEF DeletePrimary, OpInv
  <1>2. mode[p] # "CLOSED" /\ mode \in [Procs -> OpenModes \cup {"CLOSED"}] /\ latch[p] = NONE
    BY <1>1, OpenWithin DEF LockInv, OpPart, PastTestSteps
  <1>3. LockEffect(p) /\ latch'[p] = NONE
    BY <1>1, <1>2, SameEffect
  <1>4. CASE Ends(p, "00", "DELETE")
    BY <1>1, <1>2, <1>3, <1>4, EndsStep
  <1>5. CASE op[p].kind # "DELETE" /\ op' = [op EXCEPT ![p].step = "gone"]
    <2>1. PICK o : o = [op[p] EXCEPT !.step = "gone"]
      OBVIOUS
    <2>2. op' = [op EXCEPT ![p] = o]
      BY <1>5, <2>1 DEF OpInv
    <2>3. o.step = "gone" /\ o.key = op[p].key /\ OpOK(o)
      BY <1>1, <1>5, <2>1 DEF OpOK, Fields, Steps
    <2> QED BY <1>1, <1>2, <1>3, <2>2, <2>3, GoesStep DEF PastTestSteps
  <1> QED BY <1>4, <1>5 DEF DeletePrimary

\* What the update becomes when the record is written.
WrittenOp(p, o) ==
  /\ op' = [op EXCEPT ![p] = o] /\ OpOK(o)
  /\ o.step = "put" /\ o.kind = op[p].kind /\ o.new = op[p].new /\ o.rec = op[p].rec /\ o.upd = op[p].upd
  /\ o.todo = {i \in Alternates : (op[p].kind = "REWRITE" => i \in op[p].upd) /\ op[p].rec[i] \notin Suppressed[i]}

Written(p) ==
  /\ op[p].kind = "REWRITE" \/ ~AlternateTaken(op[p].rec, NONE)
  /\ op[p].new \notin DOMAIN pri
  /\ pri' = [k \in DOMAIN pri \cup {op[p].new} |-> IF k = op[p].new THEN op[p].rec ELSE pri[k]]
  /\ \E o : WrittenOp(p, o)
  /\ torn' = (torn \/ Collides(p)) /\ UNCHANGED lockVars

NotWritten(p) ==
  /\ \E st : Finish(p, st)
  /\ torn' = (torn \/ (op[p].kind = "REWRITE")) /\ UNCHANGED pri

LEMMA WriteCases ==
  ASSUME OpInv, NEW p \in Procs, WriteRecord(p)
  PROVE  Written(p) \/ NotWritten(p)
  <1>1. OpOK(op[p]) /\ Fields \subseteq DOMAIN op[p]
    BY DEF OpInv, OpOK
  <1>2. CASE (op[p].kind # "REWRITE" /\ AlternateTaken(op[p].rec, NONE)) \/ op[p].new \in DOMAIN pri
    BY <1>2 DEF WriteRecord, NotWritten
  <1>3. CASE ~((op[p].kind # "REWRITE" /\ AlternateTaken(op[p].rec, NONE)) \/ op[p].new \in DOMAIN pri)
    <2>1. PICK T : T = {i \in Alternates : (op[p].kind = "REWRITE" => i \in op[p].upd) /\ op[p].rec[i] \notin Suppressed[i]}
      OBVIOUS
    <2>2. /\ pri' = [k \in DOMAIN pri \cup {op[p].new} |-> IF k = op[p].new THEN op[p].rec ELSE pri[k]]
          /\ op' = [op EXCEPT ![p].step = "put", ![p].todo = T]
          /\ torn' = (torn \/ Collides(p)) /\ UNCHANGED lockVars
          /\ op[p].step \in {"ready", "gone"}
      BY <1>3, <2>1 DEF WriteRecord
    <2>3. PICK o : o = [op[p] EXCEPT !.step = "put", !.todo = T]
      OBVIOUS
    <2>4. op' = [op EXCEPT ![p] = o]
      BY <2>2, <2>3 DEF OpInv
    <2>5. /\ o.step = "put" /\ o.kind = op[p].kind /\ o.new = op[p].new /\ o.rec = op[p].rec
          /\ o.upd = op[p].upd /\ o.todo = T /\ DOMAIN o = DOMAIN op[p]
      BY <1>1, <2>3 DEF Fields
    <2>6. OpOK(o)
      BY <1>1, <2>1, <2>2, <2>5 DEF OpOK, Steps
    <2>7. WrittenOp(p, o)
      BY <2>1, <2>4, <2>5, <2>6 DEF WrittenOp
    <2> QED BY <1>3, <2>2, <2>7 DEF Written
  <1> QED BY <1>2, <1>3

LEMMA LockWriteRecord ==
  ASSUME LockInv, OpInv, NEW p \in Procs, WriteRecord(p)
  PROVE  LockInv' /\ OpInv'
  <1>1. op[p].step \in {"ready", "gone"} /\ op[p].step # "idle" /\ UNCHANGED mode
    BY DEF WriteRecord
  <1>2. CASE NotWritten(p)
    BY <1>1, <1>2, FinishStep DEF NotWritten
  <1>3. CASE Written(p)
    <2>1. PICK o : WrittenOp(p, o)
      BY <1>3 DEF Written
    <2>2. mode[p] # "CLOSED" /\ (p \notin Multiple => latch[p] = NONE)
      BY <1>1, OpenWithin DEF LockInv, OpPart
    <2>3. LockEffect(p) /\ latch'[p] = latch[p]
      BY <1>3, SameEffect DEF Written
    <2> QED BY <1>1, <2>1, <2>2, <2>3, GoesStep DEF WrittenOp, PastTestSteps
  <1> QED BY <1>2, <1>3, WriteCases

LEMMA LockWriteAlternate ==
  ASSUME LockInv, OpInv, NEW p \in Procs, WriteAlternate(p)
  PROVE  LockInv' /\ OpInv'
  <1>1. op[p].step = "put" /\ op[p].step # "idle" /\ UNCHANGED mode
    BY DEF WriteAlternate
  <1>2. CASE \E st : Finish(p, st)
    BY <1>1, <1>2, FinishStep
  <1>3. CASE op' = [op EXCEPT ![p].todo = @ \ {First(op[p].todo)}] /\ UNCHANGED lockVars
    <2>a. PICK i : i = First(op[p].todo)
      OBVIOUS
    <2>b. op' = [op EXCEPT ![p].todo = @ \ {i}] /\ op[p].step \in {"del", "put"}
      BY <1>1, <1>3, <2>a
    <2>c. PICK o : /\ op' = [op EXCEPT ![p] = o] /\ OpOK(o) /\ o.step = op[p].step /\ o.kind = op[p].kind
                   /\ o.key = op[p].key /\ o.new = op[p].new /\ o.rec = op[p].rec /\ o.old = op[p].old
                   /\ o.upd = op[p].upd /\ o.todo = op[p].todo \ {i}
      BY <2>b, TodoLess
    <2>1. op' = [op EXCEPT ![p] = o] /\ OpOK(o) /\ o.step = "put"
      BY <1>1, <2>c
    <2>2. mode[p] # "CLOSED" /\ (p \notin Multiple => latch[p] = NONE)
      BY <1>1, OpenWithin DEF LockInv, OpPart
    <2>3. LockEffect(p) /\ latch'[p] = latch[p]
      BY <1>3, SameEffect
    <2> QED BY <1>1, <2>1, <2>2, <2>3, GoesStep DEF PastTestSteps
  <1> QED BY <1>2, <1>3 DEF WriteAlternate

LEMMA LockCloseCursor ==
  ASSUME LockInv, OpInv, NEW p \in Procs, CloseCursor(p)
  PROVE  LockInv' /\ OpInv'
  <1>1. op[p].step = "put" /\ op[p].step # "idle" /\ UNCHANGED mode /\ OpOK(op[p])
    BY DEF CloseCursor, OpInv
  <1>2. CASE Finish(p, "00")
    BY <1>1, <1>2, FinishStep
  <1>3. CASE op' = [op EXCEPT ![p].step = "written"] /\ UNCHANGED lockVars
    <2>1. PICK o : o = [op[p] EXCEPT !.step = "written"]
      OBVIOUS
    <2>2. op' = [op EXCEPT ![p] = o]
      BY <1>3, <2>1 DEF OpInv
    <2>3. o.step = "written" /\ OpOK(o)
      BY <1>1, <2>1 DEF OpOK, Fields, Steps
    <2>4. mode[p] # "CLOSED" /\ (p \notin Multiple => latch[p] = NONE)
      BY <1>1, OpenWithin DEF LockInv, OpPart
    <2>5. LockEffect(p) /\ latch'[p] = latch[p]
      BY <1>3, SameEffect
    <2> QED BY <1>1, <2>2, <2>3, <2>4, <2>5, GoesStep DEF PastTestSteps
  <1> QED BY <1>2, <1>3 DEF CloseCursor

LEMMA LockLockNew ==
  ASSUME LockInv, OpInv, NEW p \in Procs, LockNew(p)
  PROVE  LockInv' /\ OpInv'
  <1>1. op[p].step = "written" /\ op[p].step # "idle" /\ UNCHANGED mode /\ op[p].new \in Values
    BY DEF LockNew, OpInv, OpOK
  <1>2. /\ mode[p] # "CLOSED" /\ mode \in [Procs -> OpenModes \cup {"CLOSED"}]
        /\ latch[p] = NONE \/ p \in Multiple
    BY <1>1, OpenWithin DEF LockInv, OpPart
  <1>3. CASE Finish(p, "51")
    BY <1>1, <1>3, FinishStep
  <1>4. CASE Ends(p, "00", op[p].kind) /\ latch' = [latch EXCEPT ![p] = NONE] /\ UNCHANGED <<locks, race>>
    <2>1. LockEffect(p)
      BY <1>2, <1>4, ForgetEffect
    <2> QED BY <1>1, <1>2, <1>4, <2>1, EndsStep
  <1>5. CASE Ends(p, "00", op[p].kind) /\ LockRecord(p, op[p].new) /\ Free(p, op[p].new)
    <2>1. LockEffect(p)
      BY <1>1, <1>2, <1>5, GrantEffect
    <2> QED BY <1>1, <1>2, <1>5, <2>1, EndsStep
  <1> QED BY <1>3, <1>4, <1>5 DEF LockNew

BeginSteps == {"idle", "ready", "checked"}

\* What a statement of p, but OPEN, is to the data: its update is at most begun.
Begun(p) == /\ op[p] = Idle /\ op'[p].step \in BeginSteps /\ \A q \in Procs \ {p} : op'[q] = op[q]
            /\ UNCHANGED <<pri, sec, torn>>

\* A statement that is done at once and changes no data.
LEMMA LockStatement ==
  ASSUME LockInv, OpInv, NEW p \in Procs, NEW st, NEW stmt, op[p] = Idle, Ends(p, st, stmt), LockEffect(p),
         UNCHANGED mode, mode[p] # "CLOSED" \/ latch' = latch, UNCHANGED <<pri, sec, torn>>
  PROVE  LockInv' /\ OpInv' /\ Begun(p)
  <1>1. mode \in [Procs -> OpenModes \cup {"CLOSED"}] /\ (mode'[p] = "CLOSED" => latch'[p] = NONE)
    BY DEF LockInv, LockTypes, OpPart
  <1>2. LockInv' /\ OpInv' /\ op'[p] = Idle
    BY <1>1, EndsStep
  <1>3. \A q \in Procs \ {p} : op'[q] = op[q]
    BY DEF Ends, OpInv
  <1> QED BY <1>2, <1>3, IdleOK DEF Begun, BeginSteps

LEMMA LockOpen ==
  ASSUME LockInv, OpInv, NEW p \in Procs, NEW m \in OpenModes, Open(p, m)
  PROVE  /\ LockInv' /\ OpInv' /\ op[p] = Idle /\ op'[p] = Idle /\ \A q \in Procs \ {p} : op'[q] = op[q]
         /\ UNCHANGED lockVars
  <1>1. /\ mode \in [Procs -> OpenModes \cup {"CLOSED"}] /\ mode[p] = "CLOSED" /\ op[p] = Idle
        /\ UNCHANGED lockVars /\ mode' = [mode EXCEPT ![p] = m] /\ Ends(p, "00", "OPEN")
    BY DEF Open, LockInv, LockTypes, OpPart
  <1>2. mode' \in [Procs -> OpenModes \cup {"CLOSED"}] /\ mode'[p] # "CLOSED" /\ \A q \in Procs \ {p} : mode'[q] = mode[q]
    BY <1>1 DEF OpenModes
  <1>3. LockEffect(p)
    BY <1>1, SameEffect
  <1>4. LockInv' /\ OpInv' /\ op'[p] = Idle
    BY <1>1, <1>2, <1>3, EndsStep
  <1>5. \A q \in Procs \ {p} : op'[q] = op[q]
    BY <1>1 DEF Ends, OpInv
  <1> QED BY <1>1, <1>4, <1>5

LEMMA LockOpenFails ==
  ASSUME LockInv, OpInv, NEW p \in Procs, NEW m \in OpenModes, OpenFails(p, m)
  PROVE  LockInv' /\ OpInv' /\ Begun(p)
  <1>1. /\ op[p] = Idle /\ UNCHANGED mode /\ UNCHANGED lockVars /\ latch' = latch /\ UNCHANGED <<pri, sec, torn>>
    BY DEF OpenFails, LockInv, OpPart, lockVars, file
  <1>2. PICK st : Ends(p, st, "OPEN")
    BY DEF OpenFails
  <1>3. LockEffect(p)
    BY <1>1, SameEffect
  <1> QED BY <1>1, <1>2, <1>3, LockStatement

LEMMA LockClose ==
  ASSUME LockInv, OpInv, NEW p \in Procs, Close(p)
  PROVE  LockInv' /\ OpInv' /\ Begun(p)
  <1>1. /\ op[p] = Idle /\ mode' = [mode EXCEPT ![p] = "CLOSED"] /\ UnlockRecord(p) /\ Ends(p, "00", "CLOSE")
        /\ UNCHANGED <<pri, sec, torn>> /\ mode \in [Procs -> OpenModes \cup {"CLOSED"}]
    BY DEF Close, file, LockInv, LockTypes
  <1>2. mode' \in [Procs -> OpenModes \cup {"CLOSED"}] /\ \A q \in Procs \ {p} : mode'[q] = mode[q]
    BY <1>1
  <1>3. LockEffect(p) /\ latch'[p] = NONE
    BY <1>1, UnlockEffect
  <1>4. LockInv' /\ OpInv' /\ op'[p] = Idle
    BY <1>1, <1>2, <1>3, EndsStep
  <1>5. \A q \in Procs \ {p} : op'[q] = op[q]
    BY <1>1 DEF Ends, OpInv
  <1> QED BY <1>1, <1>4, <1>5, IdleOK DEF Begun, BeginSteps

LEMMA LockUnlockFile ==
  ASSUME LockInv, OpInv, NEW p \in Procs, UnlockFile(p)
  PROVE  LockInv' /\ OpInv' /\ Begun(p)
  <1>1. /\ op[p] = Idle /\ UNCHANGED mode /\ mode[p] # "CLOSED" /\ UnlockRecord(p) /\ Ends(p, "00", "UNLOCK")
        /\ UNCHANGED <<pri, sec, torn>>
    BY DEF UnlockFile, file
  <1>2. LockEffect(p)
    BY <1>1, UnlockEffect
  <1> QED BY <1>1, <1>2, LockStatement

LEMMA LockRefusedStatement ==
  ASSUME LockInv, OpInv, NEW p \in Procs, Refused(p)
  PROVE  LockInv' /\ OpInv' /\ Begun(p)
  <1>1. /\ op[p] = Idle /\ UNCHANGED mode /\ UNCHANGED lockVars /\ latch' = latch /\ UNCHANGED <<pri, sec, torn>>
    BY DEF Refused, lockVars, file
  <1>2. \E st, stmt : Ends(p, st, stmt)
    BY DEF Refused
  <1>3. LockEffect(p)
    BY <1>1, SameEffect
  <1> QED BY <1>1, <1>2, <1>3, LockStatement

LEMMA LockCobStart ==
  ASSUME LockInv, OpInv, NEW p \in Procs, NEW i, NEW cond, NEW v, CobStart(p, i, cond, v)
  PROVE  LockInv' /\ OpInv' /\ Begun(p)
  <1>1. /\ op[p] = Idle /\ UNCHANGED mode /\ UNCHANGED lockVars /\ latch' = latch /\ UNCHANGED <<pri, sec, torn>>
    BY DEF CobStart, lockVars, file
  <1>2. \E st : Ends(p, st, "START")
    BY DEF CobStart
  <1>3. LockEffect(p)
    BY <1>1, SameEffect
  <1> QED BY <1>1, <1>2, <1>3, LockStatement

\* An entry that leads to a record leads to a key of the file.
LEMMA ReachesValues ==
  ASSUME DataTypes, NEW i \in Indexes, NEW cond, NEW v, NEW e \in Reaches(i, StartEntry(i, cond, v)), cond = "EQ"
  PROVE  e.prim \in Values
  <1>1. i = 0 \/ e.prim \in DOMAIN pri
    BY DEF Reaches
  <1>2. e \in Entries(i)
    BY DEF Reaches, StartEntry, LeastOf
  <1>3. i = 0 => e.prim \in DOMAIN pri
    BY <1>2 DEF Entries
  <1> QED BY <1>1, <1>3 DEF DataTypes

LEMMA LockCobRead ==
  ASSUME LockInv, OpInv, DataTypes, NEW p \in Procs, NEW i \in Indexes, NEW v, NEW opt, CobRead(p, i, v, opt)
  PROVE  LockInv' /\ OpInv' /\ Begun(p)
  <1>1. /\ op[p] = Idle /\ UNCHANGED mode /\ mode[p] # "CLOSED" /\ UNCHANGED <<pri, sec, torn>>
    BY DEF CobRead, MayRead, file
  <1>2. \E st : Ends(p, st, "READ")
    BY DEF CobRead
  <1>3. LockEffect(p)
    <2>1. CASE UnlockRecord(p)
      BY <2>1, UnlockEffect
    <2>2. ASSUME NEW e \in Reaches(i, StartEntry(i, "EQ", v)), Relock(p, e.prim, WantsLock(p, opt)),
                 opt # "IGNORE" \/ WantsLock(p, opt) => Free(p, e.prim)
          PROVE  LockEffect(p)
      <3>1. e.prim \in Values
        BY ReachesValues
      <3>2. PICK want \in BOOLEAN : want = WantsLock(p, opt)
        BY DEF WantsLock
      <3>3. Relock(p, e.prim, want) /\ (want => Free(p, e.prim))
        BY <2>2, <3>2
      <3> QED BY <3>1, <3>3, RelockEffect
    <2> QED BY <2>1, <2>2 DEF CobRead
  <1> QED BY <1>1, <1>2, <1>3, LockStatement

LEMMA LockCobReadNext ==
  ASSUME LockInv, OpInv, NEW p \in Procs, NEW stmt, NEW opt, CobReadNext(p, stmt, opt)
  PROVE  LockInv' /\ OpInv' /\ Begun(p)
  <1>1. /\ op[p] = Idle /\ UNCHANGED mode /\ mode[p] # "CLOSED" /\ UNCHANGED <<pri, sec, torn>> /\ UnlockRecord(p)
    BY DEF CobReadNext, MayRead, file
  <1>2. \E st : Ends(p, st, stmt)
    BY DEF CobReadNext
  <1>3. LockEffect(p)
    BY <1>1, UnlockEffect
  <1> QED BY <1>1, <1>2, <1>3, LockStatement

\* WRITE, REWRITE and DELETE begin an update.
LEMMA LockBegin ==
  ASSUME LockInv, OpInv, NEW p \in Procs, NEW kind, NEW key \in Values, NEW rec, NEW lock, NEW step,
         Begin(p, kind, key, rec, lock, step), UNCHANGED mode, mode[p] # "CLOSED", LockEffect(p),
         \/ step = "ready" /\ (p \notin Multiple => latch'[p] = NONE)
         \/ step = "checked" /\ kind = "DELETE" /\ latch'[p] = NONE,
         UNCHANGED <<pri, sec, torn>>
  PROVE  LockInv' /\ OpInv' /\ Begun(p)
  <1>1. PICK o : o = [Idle EXCEPT !.step = step, !.kind = kind, !.new = key, !.rec = rec,
                                  !.key = Sought(p, kind, key, rec), !.lock = lock]
    OBVIOUS
  <1>2. op' = [op EXCEPT ![p] = o] /\ op[p] = Idle
    BY <1>1 DEF Begin
  <1>3. /\ o.step = step /\ o.kind = kind /\ o.new = key /\ o.todo = {} /\ o.upd = {}
        /\ Fields \subseteq DOMAIN o
    BY <1>1 DEF Idle, Fields
  <1>4. OpOK(o)
    BY <1>3 DEF OpOK, Steps
  <1>5. LockInv' /\ OpInv' /\ op'[p] = o
    BY <1>2, <1>3, <1>4, GoesStep DEF PastTestSteps
  <1>6. \A q \in Procs \ {p} : op'[q] = op[q]
    BY <1>2 DEF OpInv
  <1> QED BY <1>2, <1>3, <1>5, <1>6 DEF Begun, BeginSteps

LEMMA UnlockUnlessMultipleEffect ==
  ASSUME LockInv, NEW p \in Procs, UnlockUnlessMultiple(p)
  PROVE  LockEffect(p) /\ (p \notin Multiple => latch'[p] = NONE)
  <1>1. CASE p \in Multiple
    BY <1>1, SameEffect DEF UnlockUnlessMultiple
  <1>2. CASE p \notin Multiple
    BY <1>2, UnlockEffect DEF UnlockUnlessMultiple
  <1> QED BY <1>1, <1>2

LEMMA LockCobWrite ==
  ASSUME LockInv, OpInv, NEW p \in Procs, NEW key \in Values, NEW rec, NEW lock, CobWrite(p, key, rec, lock)
  PROVE  LockInv' /\ OpInv' /\ Begun(p)
  <1>1. /\ UNCHANGED mode /\ mode[p] # "CLOSED" /\ UNCHANGED <<pri, sec, torn>> /\ UnlockUnlessMultiple(p)
    BY DEF CobWrite, MayWrite, file
  <1>2. LockEffect(p) /\ (p \notin Multiple => latch'[p] = NONE)
    BY <1>1, UnlockUnlessMultipleEffect
  <1>3. CASE op[p] = Idle /\ Ends(p, "21", "WRITE")
    BY <1>1, <1>2, <1>3, LockStatement
  <1>4. CASE Begin(p, "WRITE", key, rec, lock, "ready")
    BY <1>1, <1>2, <1>4, LockBegin
  <1> QED BY <1>3, <1>4 DEF CobWrite

LEMMA LockCobRewrite ==
  ASSUME LockInv, OpInv, NEW p \in Procs, NEW key \in Values, NEW rec, NEW lock, CobRewrite(p, key, rec, lock)
  PROVE  LockInv' /\ OpInv' /\ Begun(p)
  <1>1. /\ UNCHANGED mode /\ mode[p] # "CLOSED" /\ UNCHANGED <<pri, sec, torn>> /\ UnlockUnlessMultiple(p)
        /\ Begin(p, "REWRITE", key, rec, lock, "ready")
    BY DEF CobRewrite, MayUpdate, file
  <1>2. LockEffect(p) /\ (p \notin Multiple => latch'[p] = NONE)
    BY <1>1, UnlockUnlessMultipleEffect
  <1> QED BY <1>1, <1>2, LockBegin

LEMMA LockCobDelete ==
  ASSUME LockInv, OpInv, NEW p \in Procs, NEW key \in Values, CobDelete(p, key)
  PROVE  LockInv' /\ OpInv' /\ Begun(p)
  <1>1. /\ UNCHANGED mode /\ mode[p] # "CLOSED" /\ UNCHANGED <<pri, sec, torn>> /\ UnlockRecord(p)
        /\ Begin(p, "DELETE", key, NONE, FALSE, "checked")
    BY DEF CobDelete, MayUpdate, file
  <1>2. LockEffect(p) /\ latch'[p] = NONE
    BY <1>1, UnlockEffect
  <1> QED BY <1>1, <1>2, LockBegin

\* Every statement but OPEN.
LEMMA BegunStatement ==
  ASSUME LockInv, OpInv, DataTypes, NEW p \in Procs, Statement(p), ~\E m \in Modes[p] : Open(p, m)
  PROVE  LockInv' /\ OpInv' /\ Begun(p)
  <1>1. Modes[p] \subseteq OpenModes
    BY ModesAssumption
  <1>2. CASE \E m \in Modes[p] : OpenFails(p, m)
    BY <1>1, <1>2, LockOpenFails
  <1>3. CASE Close(p) \/ UnlockFile(p) \/ Refused(p)
    BY <1>3, LockClose, LockUnlockFile, LockRefusedStatement
  <1>4. CASE \E i \in Indexes, cond \in Conditions, v \in Values : CobStart(p, i, cond, v)
    BY <1>4, LockCobStart
  <1>5. CASE \E i \in Indexes, v \in Values, opt \in {"NONE", "LOCK", "IGNORE"} : CobRead(p, i, v, opt)
    BY <1>5, LockCobRead
  <1>6. CASE \E stmt \in {"NEXT", "PREVIOUS"}, opt \in {"NONE", "LOCK", "IGNORE"} : CobReadNext(p, stmt, opt)
    BY <1>6, LockCobReadNext
  <1>7. CASE \E key \in Values, rec \in Record, lock \in BOOLEAN :
               CobWrite(p, key, rec, lock) \/ CobRewrite(p, key, rec, lock)
    BY <1>7, LockCobWrite, LockCobRewrite
  <1>8. CASE \E key \in Values : CobDelete(p, key)
    BY <1>8, LockCobDelete
  <1> QED BY <1>2, <1>3, <1>4, <1>5, <1>6, <1>7, <1>8 DEF Statement

-----------------------------------------------------------------------------
(* The data: records and indexes agree unless torn. *)

\* The record k is gone until the REWRITE of p writes it, its key i is not changed.
Absent(p, k, i) == op[p].step = "gone" /\ op[p].key = k /\ i \notin op[p].upd

\* The update of p is at work on the key i of record k.
InWork(p, k, i) == \/ op[p].step = "del" /\ op[p].key = k /\ i \in op[p].upd \ op[p].todo
                   \/ op[p].step = "put" /\ op[p].new = k /\ i \in op[p].todo

Leads == \A i \in Alternates : \A e \in sec[i] :
           \/ e.prim \in DOMAIN pri /\ pri[e.prim][i] = e.key
           \/ \E p \in Procs : Absent(p, e.prim, i)

HasEntry(k, i, v) == v \in Suppressed[i] \/ \E e \in sec[i] : e.prim = k /\ e.key = v

Indexed == \A k \in DOMAIN pri, i \in Alternates :
             HasEntry(k, i, pri[k][i]) \/ \E p \in Procs : InWork(p, k, i)

Uniques == \A k, l \in DOMAIN pri, i \in Alternates \ Dups :
             \/ k = l \/ pri[k][i] # pri[l][i] \/ pri[k][i] \in Suppressed[i]
             \/ \E p \in Procs : op[p].step = "put" /\ op[p].new \in {k, l} /\ i \in op[p].todo

\* What the steps of an update leave for the next one.
Deleting(p) == op[p].step = "del" =>
  /\ op[p].key \in DOMAIN pri /\ op[p].old = pri[op[p].key]
  /\ \A i \in op[p].upd \ op[p].todo : \A e \in sec[i] : e.prim # op[p].key
Deleted(p) == op[p].step = "gone" =>
  /\ op[p].key \notin DOMAIN pri
  /\ \A i \in Alternates : \A e \in sec[i] : e.prim = op[p].key => i \notin op[p].upd /\ e.key = op[p].old[i]
  /\ \A i \in Alternates : i \notin op[p].upd => HasEntry(op[p].key, i, op[p].old[i])
Writing(p) == op[p].step = "put" => op[p].new \in DOMAIN pri /\ pri[op[p].new] = op[p].rec

Agree == Leads /\ Indexed /\ Uniques /\ \A p \in Procs : Deleting(p) /\ Deleted(p) /\ Writing(p)

DataInv == DataTypes /\ CursorOnce /\ SecUnique /\ NoneSuppressed /\ (torn \/ Agree)

OthersKeep(p) == \A q \in Procs \ {p} : op'[q] = op[q]

\* The write cursor stays with one run unit.
LEMMA CursorStep ==
  ASSUME CursorOnce, NEW p \in Procs, OthersKeep(p), HasCursor(p)' => HasCursor(p) \/ CursorFree
  PROVE  CursorOnce'
  BY DEF CursorOnce, CursorFree, HasCursor, OthersKeep

\* A step that touches neither records nor indexes, outside of the changes.
LEMMA QuietData ==
  ASSUME DataInv, NEW p \in Procs, UNCHANGED <<pri, sec, torn>>, OthersKeep(p),
         op[p].step \notin {"del", "gone"}, op[p].step = "put" => op[p].todo = {},
         op'[p].step \notin {"del", "gone", "put"}
  PROVE  DataInv'
  <1>1. DataTypes' /\ SecUnique' /\ NoneSuppressed'
    BY DEF DataInv, DataTypes, SecUnique, NoneSuppressed
  <1>2. CursorOnce'
    BY CursorStep DEF DataInv, HasCursor
  <1>3. ASSUME Agree PROVE Agree'
    <2>1. \A q \in Procs : Deleting(q)' /\ Deleted(q)' /\ Writing(q)'
      <3> SUFFICES ASSUME NEW q \in Procs PROVE Deleting(q)' /\ Deleted(q)' /\ Writing(q)'
        OBVIOUS
      <3>1. CASE q = p
        BY <3>1 DEF Deleting, Deleted, Writing
      <3>2. CASE q # p
        BY <1>3, <3>2 DEF Agree, OthersKeep, Deleting, Deleted, Writing, HasEntry
      <3> QED BY <3>1, <3>2
    <2>2. Leads'
      <3>1. \A q \in Procs : \A k, i : Absent(q, k, i) => Absent(q, k, i)'
        BY DEF Absent, OthersKeep
      <3> QED BY <1>3, <3>1 DEF Agree, Leads
    <2>3. Indexed'
      <3>1. \A q \in Procs : \A k, i : InWork(q, k, i) => InWork(q, k, i)'
        BY DEF InWork, OthersKeep
      <3> QED BY <1>3, <3>1 DEF Agree, Indexed, HasEntry
    <2>4. Uniques'
      <3>1. \A q \in Procs : \A i : op[q].step = "put" /\ i \in op[q].todo => op'[q] = op[q]
        BY DEF OthersKeep
      <3> QED BY <1>3, <3>1 DEF Agree, Uniques
    <2> QED BY <2>1, <2>2, <2>3, <2>4 DEF Agree
  <1> QED BY <1>1, <1>2, <1>3 DEF DataInv

LEMMA DataBegun ==
  ASSUME DataInv, NEW p \in Procs, Begun(p)
  PROVE  DataInv'
  <1>1. op[p].step = "idle" /\ op'[p].step \notin {"del", "gone", "put"} /\ OthersKeep(p)
    BY IdleOK DEF Begun, BeginSteps, OthersKeep
  <1>2. UNCHANGED <<pri, sec, torn>>
    BY DEF Begun
  <1> QED BY <1>1, <1>2, QuietData

\* The databases are made anew.
LEMMA DataOutput ==
  ASSUME DataTypes, \A q \in Procs : op'[q] = Idle, pri' = [k \in {} |-> NONE], sec' = [i \in Alternates |-> {}],
         torn' = FALSE
  PROVE  DataInv'
  <1>1. DOMAIN pri' = {} /\ \A i \in Alternates : sec'[i] = {}
    OBVIOUS
  <1>2. \A q \in Procs : op'[q].step = "idle"
    BY IdleOK
  <1>3. DataTypes' /\ CursorOnce' /\ SecUnique' /\ NoneSuppressed'
    BY <1>1, <1>2 DEF DataTypes, CursorOnce, HasCursor, SecUnique, NoneSuppressed
  <1>4. Leads' /\ Indexed' /\ Uniques'
    BY <1>1 DEF Leads, Indexed, Uniques
  <1>5. \A q \in Procs : Deleting(q)' /\ Deleted(q)' /\ Writing(q)'
    BY <1>2 DEF Deleting, Deleted, Writing
  <1> QED BY <1>3, <1>4, <1>5 DEF DataInv, Agree

LEMMA DataOpen ==
  ASSUME DataInv, LockInv, OpInv, NEW p \in Procs, NEW m \in OpenModes, Open(p, m)
  PROVE  DataInv'
  <1>1. op[p] = Idle /\ op'[p] = Idle /\ OthersKeep(p)
    BY LockOpen DEF OthersKeep
  <1>2. CASE m # "OUTPUT"
    <2>1. UNCHANGED <<pri, sec, torn>>
      BY <1>2 DEF Open
    <2> QED BY <1>1, <2>1, IdleOK, QuietData
  <1>3. CASE m = "OUTPUT"
    <2>1. \A q \in Procs \ {p} : op[q] = Idle
      BY <1>3 DEF Open, Removable, LockInv, OpPart
    <2>2. \A q \in Procs : op'[q] = Idle
      BY <1>1, <2>1 DEF OthersKeep
    <2>3. pri' = [k \in {} |-> NONE] /\ sec' = [i \in Alternates |-> {}] /\ torn' = FALSE
      BY <1>3 DEF Open
    <2> QED BY <2>2, <2>3, DataOutput DEF DataInv
  <1> QED BY <1>2, <1>3

\* Steps of an update that touch neither records nor indexes.
LEMMA DataQuietSteps ==
  ASSUME DataInv, LockInv, OpInv, NEW p \in Procs, CheckAlternates(p) \/ TestLock(p) \/ CloseCursor(p) \/ LockNew(p)
  PROVE  DataInv'
  <1>1. UNCHANGED <<pri, sec, torn>>
    BY DEF CheckAlternates, TestLock, CloseCursor, LockNew, file
  <1>2. op[p].step \notin {"del", "gone"} /\ (op[p].step = "put" => op[p].todo = {}) /\ Fields \subseteq DOMAIN op[p]
    BY DEF CheckAlternates, TestLock, CloseCursor, LockNew, OpInv, OpOK
  <1>3. \/ op' = [op EXCEPT ![p] = Idle]
        \/ \E s \in {"checked", "tested", "written"} : op' = [op EXCEPT ![p].step = s]
    BY DEF CheckAlternates, TestLock, CloseCursor, LockNew, Finish, Ends
  <1>4. OthersKeep(p)
    BY <1>3 DEF OthersKeep, OpInv
  <1>5. op'[p].step \notin {"del", "gone", "put"}
    BY <1>2, <1>3, IdleOK DEF OpInv, Fields
  <1> QED BY <1>1, <1>2, <1>4, <1>5, QuietData

\* The old record is found: the update is about to delete its alternate keys.
LEMMA DataFind ==
  ASSUME DataInv, LockInv, OpInv, NEW p \in Procs, Find(p)
  PROVE  DataInv'
  <1>1. op[p].step = "tested" /\ CursorFree /\ UNCHANGED <<pri, sec>>
    BY DEF Find, file
  <1>2. CASE torn' = torn /\ \E st : Ends(p, st, op[p].kind)
    <2>1. op' = [op EXCEPT ![p] = Idle]
      BY <1>2 DEF Ends
    <2>2. op'[p].step = "idle" /\ OthersKeep(p)
      BY <2>1, IdleOK DEF OthersKeep, OpInv
    <2> QED BY <1>1, <1>2, <2>2, QuietData
  <1>3. ASSUME NEW old, NEW o, FoundOp(p, old, o),
               torn' \in {torn, TRUE}, torn' = TRUE \/ (op[p].key \in DOMAIN pri /\ old = pri[op[p].key])
        PROVE  DataInv'
    <2>1. /\ OthersKeep(p) /\ op'[p] = o /\ o.step = "del" /\ o.key = op[p].key /\ o.old = old /\ o.todo = o.upd
      BY <1>3 DEF FoundOp, OthersKeep, OpInv
    <2>2. DataTypes' /\ SecUnique' /\ NoneSuppressed'
      BY <1>1, <1>3 DEF DataInv, DataTypes, SecUnique, NoneSuppressed
    <2>3. CursorOnce'
      BY <1>1, CursorStep, <2>1 DEF DataInv
    <2>4. ASSUME Agree, op[p].key \in DOMAIN pri, old = pri[op[p].key] PROVE Agree'
      <3>1. \A q \in Procs : Deleting(q)' /\ Deleted(q)' /\ Writing(q)'
        <4> SUFFICES ASSUME NEW q \in Procs PROVE Deleting(q)' /\ Deleted(q)' /\ Writing(q)'
          OBVIOUS
        <4>1. CASE q = p
          BY <1>1, <2>1, <2>4, <4>1 DEF Deleting, Deleted, Writing
        <4>2. CASE q # p
          BY <1>1, <2>1, <2>4, <4>2 DEF Agree, OthersKeep, Deleting, Deleted, Writing, HasEntry
        <4> QED BY <4>1, <4>2
      <3>2. Leads'
        <4>1. \A q \in Procs : \A k, i : Absent(q, k, i) => Absent(q, k, i)'
          BY <1>1, <2>1 DEF Absent, OthersKeep
        <4> QED BY <1>1, <2>4, <4>1 DEF Agree, Leads
      <3>3. Indexed'
        <4>1. \A q \in Procs : \A k, i : InWork(q, k, i) => InWork(q, k, i)'
          BY <1>1, <2>1 DEF InWork, OthersKeep
        <4> QED BY <1>1, <2>4, <4>1 DEF Agree, Indexed, HasEntry
      <3>4. Uniques'
        <4>1. \A q \in Procs : \A i : op[q].step = "put" /\ i \in op[q].todo => op'[q] = op[q]
          BY <1>1, <2>1 DEF OthersKeep
        <4> QED BY <1>1, <2>4, <4>1 DEF Agree, Uniques
      <3> QED BY <3>1, <3>2, <3>3, <3>4 DEF Agree
    <2>5. torn = TRUE \/ (torn = FALSE /\ Agree)
      BY DEF DataInv, DataTypes
    <2>6. torn' = TRUE \/ Agree'
      BY <1>3, <2>4, <2>5
    <2> QED BY <2>2, <2>3, <2>6 DEF DataInv
  <1> QED BY <1>2, <1>3, FindCases DEF FindFound

\* The least alternate key that is left.
LEMMA Smallest ==
  ASSUME NEW T \in SUBSET (SUBSET Alternates), T # {}
  PROVE  \E x \in T : \A y \in T : y \subseteq x => y = x
  <1>1. IsFiniteSet(Alternates)
    BY NAssumption, FS_Interval DEF Alternates
  <1>2. IsWellFoundedOn(StrictSubsetOrdering(Alternates), SUBSET Alternates)
    BY <1>1, FS_StrictSubsetOrderingWellFounded, FS_FiniteSubsetsOfFinite
  <1>3. PICK x \in T : \A y \in T : ~(<<y, x>> \in StrictSubsetOrdering(Alternates))
    BY <1>2, WFMin
  <1> QED BY <1>3 DEF StrictSubsetOrdering

LEMMA FirstIn ==
  ASSUME NEW S, S \subseteq Alternates, S # {}
  PROVE  First(S) \in S
  <1>1. S \subseteq Int /\ \A i \in S : 1 <= i /\ 1..i \subseteq Alternates
    BY NAssumption DEF Alternates
  <1>2. PICK T : T = {1..i : i \in S}
    OBVIOUS
  <1>3. PICK x \in T : \A y \in T : y \subseteq x => y = x
    <2>1. T \in SUBSET (SUBSET Alternates) /\ T # {}
      BY <1>1, <1>2
    <2> QED BY <2>1, Smallest
  <1>4. PICK i \in S : x = 1..i
    BY <1>2, <1>3
  <1>5. ASSUME NEW j \in S PROVE i <= j
    <2>1. 1..j \subseteq 1..i => 1..j = 1..i
      BY <1>2, <1>3, <1>4
    <2> QED BY <1>1, <2>1
  <1> QED BY <1>5 DEF First

\* An entry of a record that is there is of its key.
LEMMA EntryOf ==
  ASSUME Agree, NEW i \in Alternates, NEW e \in sec[i], e.prim \in DOMAIN pri
  PROVE  pri[e.prim][i] = e.key
  <1>1. \A q \in Procs : ~Absent(q, e.prim, i)
    BY DEF Agree, Deleted, Absent
  <1> QED BY <1>1 DEF Agree, Leads

\* What DELETE takes out of an index is the record's own.
LEMMA OwnEntry ==
  ASSUME DataInv, Agree, NEW p \in Procs, op[p].step = "del", NEW i \in op[p].todo, i \in Alternates,
         NEW e \in sec[i], e.key = op[p].old[i], i \in Dups => e.prim = op[p].key
  PROVE  e.prim = op[p].key
  <1>1. CASE i \in Dups
    BY <1>1
  <1>2. CASE i \notin Dups
    <2>1. op[p].key \in DOMAIN pri /\ pri[op[p].key][i] = e.key
      BY DEF Agree, Deleting
    <2>2. e.key \notin Suppressed[i]
      BY DEF DataInv, NoneSuppressed
    <2>3. \A q \in Procs : ~InWork(q, op[p].key, i)
      BY DEF DataInv, CursorOnce, HasCursor, InWork
    <2>4. PICK d \in sec[i] : d.prim = op[p].key /\ d.key = e.key
      BY <2>1, <2>2, <2>3 DEF Agree, Indexed, HasEntry
    <2> QED BY <1>2, <2>4 DEF DataInv, SecUnique
  <1> QED BY <1>1, <1>2

LEMMA DataDeleteAlternate ==
  ASSUME DataInv, LockInv, OpInv, NEW p \in Procs, DeleteAlternate(p)
  PROVE  DataInv'
  <1>1. PICK i : i = First(op[p].todo)
    OBVIOUS
  <1>2. PICK gone : gone = {e \in sec[i] : e.key = op[p].old[i] /\ (i \in Dups => e.prim = op[p].key)}
    OBVIOUS
  <1>3. /\ op[p].step = "del" /\ op[p].todo # {} /\ OpOK(op[p])
        /\ sec' = [sec EXCEPT ![i] = @ \ gone] /\ op' = [op EXCEPT ![p].todo = @ \ {i}]
        /\ UNCHANGED <<pri, torn>>
    BY <1>1, <1>2 DEF DeleteAlternate, OpInv
  <1>4. i \in op[p].todo /\ i \in Alternates /\ i \in op[p].upd
    BY <1>1, <1>3, FirstIn DEF OpOK
  <1>5. PICK o : /\ op' = [op EXCEPT ![p] = o] /\ OpOK(o) /\ o.step = op[p].step /\ o.kind = op[p].kind
                 /\ o.key = op[p].key /\ o.new = op[p].new /\ o.rec = op[p].rec /\ o.old = op[p].old
                 /\ o.upd = op[p].upd /\ o.todo = op[p].todo \ {i}
    BY <1>3, TodoLess
  <1>6. op'[p] = o /\ OthersKeep(p)
    BY <1>5 DEF OpInv, OthersKeep
  <1>7. sec'[i] = sec[i] \ gone /\ \A j \in Alternates \ {i} : sec'[j] = sec[j]
    BY <1>3, <1>4 DEF DataInv, DataTypes
  <1>8. \A j \in Alternates : sec'[j] \subseteq sec[j]
    BY <1>7
  <1>9. DataTypes' /\ SecUnique' /\ NoneSuppressed'
    <2>1. sec' = [j \in Alternates |-> sec'[j]]
      BY <1>3 DEF DataInv, DataTypes
    <2> QED BY <1>3, <1>8, <2>1 DEF DataInv, DataTypes, SecUnique, NoneSuppressed
  <1>10. CursorOnce'
    BY <1>3, <1>6, CursorStep DEF DataInv, HasCursor
  <1>11. ASSUME Agree PROVE Agree'
    <2>1. \A e \in gone : e.prim = op[p].key
      BY <1>2, <1>3, <1>4, <1>11, OwnEntry
    <2>2. \A j \in Alternates : \A e \in sec[j] : e.prim # op[p].key => e \in sec'[j]
      BY <1>7, <2>1
    <2>3. op[p].key \in DOMAIN pri /\ op[p].old = pri[op[p].key]
      BY <1>3, <1>11 DEF Agree, Deleting
    <2>4. \A e \in sec'[i] : e.prim # op[p].key
      <3> SUFFICES ASSUME NEW e \in sec[i], e.prim = op[p].key PROVE e \in gone
        BY <1>7
      <3>1. e.key = op[p].old[i]
        BY <1>4, <1>11, <2>3, EntryOf
      <3> QED BY <1>2, <3>1
    <2>5. \A q \in Procs : Deleting(q)' /\ Deleted(q)' /\ Writing(q)'
      <3> SUFFICES ASSUME NEW q \in Procs PROVE Deleting(q)' /\ Deleted(q)' /\ Writing(q)'
        OBVIOUS
      <3>1. CASE q = p
        <4>1. \A j \in op[p].upd \ (op[p].todo \ {i}) : \A e \in sec'[j] : e.prim # op[p].key
          BY <1>3, <1>7, <1>11, <2>4 DEF Agree, Deleting, OpOK
        <4> QED BY <1>3, <1>5, <1>6, <2>3, <3>1, <4>1 DEF Deleting, Deleted, Writing
      <3>2. CASE q # p
        <4>1. op'[q] = op[q] /\ op[q].step \notin {"del", "put"}
          BY <1>3, <1>6, <3>2 DEF OthersKeep, DataInv, CursorOnce, HasCursor
        <4>2. CASE op[q].step = "gone"
          <5>1. op[q].key # op[p].key
            BY <1>11, <2>3, <4>2 DEF Agree, Deleted
          <5>2. \A j \in Alternates : \A v : HasEntry(op[q].key, j, v) => HasEntry(op[q].key, j, v)'
            BY <1>8, <2>2, <4>1, <5>1 DEF HasEntry
          <5> QED BY <1>3, <1>8, <1>11, <4>1, <4>2, <5>2 DEF Agree, Deleting, Deleted, Writing
        <4>3. CASE op[q].step # "gone"
          BY <4>1, <4>3 DEF Deleting, Deleted, Writing
        <4> QED BY <4>2, <4>3
      <3> QED BY <3>1, <3>2
    <2>6. Leads'
      <3>1. \A q \in Procs : \A k, j : Absent(q, k, j) => Absent(q, k, j)'
        BY <1>3, <1>6 DEF Absent, OthersKeep
      <3> QED BY <1>3, <1>8, <1>11, <3>1 DEF Agree, Leads
    <2>7. Indexed'
      <3> SUFFICES ASSUME NEW k \in DOMAIN pri, NEW j \in Alternates
                   PROVE  HasEntry(k, j, pri[k][j])' \/ \E q \in Procs : InWork(q, k, j)'
        BY <1>3 DEF Indexed
      <3>1. CASE HasEntry(k, j, pri[k][j])
        <4>1. CASE k # op[p].key \/ j # i
          BY <1>3, <1>7, <2>2, <3>1, <4>1 DEF HasEntry
        <4>2. CASE k = op[p].key /\ j = i
          BY <1>3, <1>4, <1>5, <1>6, <4>2 DEF InWork
        <4> QED BY <4>1, <4>2
      <3>2. CASE \E q \in Procs : InWork(q, k, j)
        <4>1. \A q \in Procs : InWork(q, k, j) => q = p
          BY <1>3 DEF InWork, DataInv, CursorOnce, HasCursor
        <4>2. InWork(p, k, j)'
          BY <1>3, <1>5, <1>6, <3>2, <4>1 DEF InWork
        <4> QED BY <4>2
      <3> QED BY <1>11, <3>1, <3>2 DEF Agree, Indexed
    <2>8. Uniques'
      <3>1. \A q \in Procs : op[q].step # "put"
        BY <1>3 DEF DataInv, CursorOnce, HasCursor
      <3> QED BY <1>3, <1>11, <3>1 DEF Agree, Uniques
    <2> QED BY <2>5, <2>6, <2>7, <2>8 DEF Agree
  <1> QED BY <1>3, <1>9, <1>10, <1>11 DEF DataInv

LEMMA DataDeletePrimary ==
  ASSUME DataInv, LockInv, OpInv, NEW p \in Procs, DeletePrimary(p)
  PROVE  DataInv'
  <1>1. PICK key : key = op[p].key
    OBVIOUS
  <1>2. /\ op[p].step = "del" /\ op[p].todo = {} /\ OpOK(op[p])
        /\ pri' = [k \in DOMAIN pri \ {key} |-> pri[k]] /\ UNCHANGED <<sec, torn>>
    BY <1>1 DEF DeletePrimary, OpInv
  <1>3. DOMAIN pri' = DOMAIN pri \ {key} /\ \A k \in DOMAIN pri' : pri'[k] = pri[k]
    BY <1>2
  <1>4. \/ op' = [op EXCEPT ![p] = Idle] /\ op[p].kind = "DELETE"
        \/ op' = [op EXCEPT ![p].step = "gone"] /\ op[p].kind = "REWRITE"
    BY <1>2 DEF DeletePrimary, Ends, OpOK
  <1>5. OthersKeep(p)
    BY <1>4 DEF OthersKeep, OpInv
  <1>6. \/ op[p].kind = "DELETE" /\ op'[p].step = "idle"
        \/ /\ op'[p].step = "gone" /\ op'[p].key = key /\ op'[p].upd = op[p].upd
           /\ op'[p].old = op[p].old
    BY <1>1, <1>2, <1>4, IdleOK DEF OpInv, OpOK, Fields
  <1>7. DataTypes' /\ SecUnique' /\ NoneSuppressed'
    BY <1>2, <1>3 DEF DataInv, DataTypes, SecUnique, NoneSuppressed
  <1>8. CursorOnce'
    BY <1>2, <1>5, CursorStep DEF DataInv, HasCursor
  <1>9. ASSUME Agree PROVE Agree'
    <2>1. key \in DOMAIN pri /\ op[p].old = pri[key] /\ \A i \in op[p].upd : \A e \in sec[i] : e.prim # key
      BY <1>1, <1>2, <1>9 DEF Agree, Deleting
    <2>2. op[p].kind = "DELETE" => op[p].upd = Alternates
      BY <1>2 DEF OpOK
    <2>3. \A q \in Procs \ {p} : op'[q] = op[q] /\ op[q].step \notin {"del", "put"}
      BY <1>2, <1>5 DEF OthersKeep, DataInv, CursorOnce, HasCursor
    <2>4. \A i \in Alternates \ op[p].upd : HasEntry(key, i, pri[key][i])
      <3> SUFFICES ASSUME NEW i \in Alternates \ op[p].upd PROVE HasEntry(key, i, pri[key][i])
        OBVIOUS
      <3>1. \A q \in Procs : ~InWork(q, key, i)
        BY <1>2, <2>3 DEF InWork
      <3> QED BY <1>9, <2>1, <3>1 DEF Agree, Indexed
    <2>5. \A q \in Procs : Deleting(q)' /\ Deleted(q)' /\ Writing(q)'
      <3> SUFFICES ASSUME NEW q \in Procs PROVE Deleting(q)' /\ Deleted(q)' /\ Writing(q)'
        OBVIOUS
      <3>1. CASE q = p
        <4>1. CASE op'[p].step = "idle"
          BY <3>1, <4>1 DEF Deleting, Deleted, Writing
        <4>2. CASE /\ op'[p].step = "gone" /\ op'[p].key = key /\ op'[p].upd = op[p].upd
                   /\ op'[p].old = op[p].old
          <5>1. key \notin DOMAIN pri'
            BY <1>3
          <5>2. ASSUME NEW i \in Alternates, NEW e \in sec[i], e.prim = key
                PROVE  i \notin op[p].upd /\ e.key = op[p].old[i]
            BY <1>9, <2>1, <5>2, EntryOf
          <5>3. \A i \in Alternates \ op[p].upd : HasEntry(key, i, op[p].old[i])'
            BY <1>2, <2>1, <2>4, <4>2 DEF HasEntry
          <5>4. Deleted(p)'
            BY <1>2, <4>2, <5>1, <5>2, <5>3 DEF Deleted, HasEntry
          <5> QED BY <3>1, <4>2, <5>4 DEF Deleting, Writing
        <4> QED BY <1>6, <4>1, <4>2
      <3>2. CASE q # p
        BY <1>2, <1>3, <1>9, <2>3, <3>2 DEF Agree, Deleting, Deleted, Writing, HasEntry
      <3> QED BY <3>1, <3>2
    <2>6. Leads'
      <3> SUFFICES ASSUME NEW i \in Alternates, NEW e \in sec[i]
                   PROVE  (e.prim \in DOMAIN pri' /\ pri'[e.prim][i] = e.key) \/ \E q \in Procs : Absent(q, e.prim, i)'
        BY <1>2 DEF Leads
      <3>1. CASE e.prim = key
        <4>1. i \notin op[p].upd
          BY <2>1, <3>1
        <4>2. Absent(p, e.prim, i)'
          BY <1>6, <2>2, <3>1, <4>1 DEF Absent
        <4> QED BY <4>2
      <3>2. CASE e.prim # key
        <4>1. \A q \in Procs : Absent(q, e.prim, i) => Absent(q, e.prim, i)'
          BY <1>2, <1>5 DEF Absent, OthersKeep
        <4> QED BY <1>3, <1>9, <3>2, <4>1 DEF Agree, Leads
      <3> QED BY <3>1, <3>2
    <2>7. Indexed'
      <3> SUFFICES ASSUME NEW k \in DOMAIN pri, k # key, NEW i \in Alternates
                   PROVE  HasEntry(k, i, pri[k][i])'
        BY <1>3 DEF Indexed
      <3>1. \A q \in Procs : ~InWork(q, k, i)
        BY <1>1, <1>2, <2>3 DEF InWork
      <3> QED BY <1>2, <1>3, <1>9, <3>1 DEF Agree, Indexed, HasEntry
    <2>8. Uniques'
      <3>1. \A q \in Procs : op[q].step # "put"
        BY <1>2, <2>3
      <3> QED BY <1>3, <1>9, <3>1 DEF Agree, Uniques
    <2> QED BY <2>5, <2>6, <2>7, <2>8 DEF Agree
  <1> QED BY <1>2, <1>7, <1>8, <1>9 DEF DataInv

\* An update that ends with the indexes torn.
LEMMA DataTorn ==
  ASSUME DataInv, NEW p \in Procs, UNCHANGED <<pri, sec>>, torn' = TRUE, OthersKeep(p), op'[p].step = "idle"
  PROVE  DataInv'
  <1>1. DataTypes' /\ SecUnique' /\ NoneSuppressed'
    BY DEF DataInv, DataTypes, SecUnique, NoneSuppressed
  <1>2. CursorOnce'
    BY CursorStep DEF DataInv, HasCursor
  <1> QED BY <1>1, <1>2 DEF DataInv

LEMMA DataWriteRecord ==
  ASSUME DataInv, LockInv, OpInv, NEW p \in Procs, WriteRecord(p)
  PROVE  DataInv'
  <1>1. /\ \/ op[p].step = "ready" /\ op[p].kind = "WRITE"
           \/ op[p].step = "gone" /\ op[p].kind = "REWRITE"
        /\ CursorFree /\ UNCHANGED sec /\ OpOK(op[p])
    BY DEF WriteRecord, OpInv, OpOK
  <1>2. CASE NotWritten(p)
    <2>1. op' = [op EXCEPT ![p] = Idle] /\ UNCHANGED <<pri, sec>> /\ torn' = (torn \/ (op[p].kind = "REWRITE"))
      BY <1>1, <1>2 DEF NotWritten, Finish, Ends
    <2>2. op'[p].step = "idle" /\ OthersKeep(p)
      BY <2>1, IdleOK DEF OthersKeep, OpInv
    <2>3. CASE op[p].kind = "REWRITE"
      BY <2>1, <2>2, <2>3, DataTorn
    <2>4. CASE op[p].kind = "WRITE"
      <3>1. torn' = torn
        BY <2>1, <2>4 DEF DataInv, DataTypes
      <3> QED BY <1>1, <2>1, <2>2, <2>4, <3>1, QuietData
    <2> QED BY <1>1, <2>3, <2>4
  <1>3. CASE Written(p)
    <2>1. PICK o : WrittenOp(p, o)
      BY <1>3 DEF Written
    <2>2. op'[p] = o /\ OthersKeep(p)
      BY <2>1 DEF WrittenOp, OpInv, OthersKeep
    <2>3. PICK new, rec : new = op[p].new /\ rec = op[p].rec /\ new \in Values
      BY <1>1 DEF OpOK
    <2>4. /\ new \notin DOMAIN pri /\ DOMAIN pri' = DOMAIN pri \cup {new} /\ pri'[new] = rec
          /\ \A k \in DOMAIN pri : pri'[k] = pri[k] /\ k # new
      BY <1>3, <2>3 DEF Written
    <2>5. /\ o.step = "put" /\ o.new = new /\ o.rec = rec
          /\ o.todo = {i \in Alternates : (op[p].kind = "REWRITE" => i \in op[p].upd) /\ rec[i] \notin Suppressed[i]}
      BY <2>1, <2>3 DEF WrittenOp
    <2>6. torn \in BOOLEAN /\ torn' = (torn \/ Collides(p)) /\ torn' \in BOOLEAN
      BY <1>3 DEF Written, Collides, DataInv, DataTypes
    <2>7. DataTypes' /\ SecUnique' /\ NoneSuppressed'
      BY <1>1, <2>3, <2>4, <2>6 DEF DataInv, DataTypes, SecUnique, NoneSuppressed
    <2>8. CursorOnce'
      BY <1>1, <2>2, CursorStep DEF DataInv
    <2>9. ASSUME Agree, ~Collides(p) PROVE Agree'
      <3>1. \A q \in Procs \ {p} : op'[q] = op[q]
        BY <2>2 DEF OthersKeep
      <3>2. \A q \in Procs : op[q].step \notin {"del", "put"}
        BY <1>1 DEF CursorFree, HasCursor
      <3>3. \A q \in Procs \ {p} : op[q].step = "gone" => op[q].key # new
        BY <2>3, <2>9 DEF Collides
      <3>4. op[p].kind = "REWRITE" => op[p].key = new /\ op[p].step = "gone"
        BY <1>1, <2>3, <2>9 DEF Collides
      <3>5. ASSUME NEW i \in Alternates, NEW e \in sec[i], e.prim = new
            PROVE  rec[i] = e.key
        <4>1. PICK q \in Procs : Absent(q, new, i)
          BY <2>4, <2>9, <3>5 DEF Agree, Leads
        <4>2. q = p /\ op[p].kind = "REWRITE" /\ i \notin op[p].upd
          BY <1>1, <3>3, <4>1 DEF Absent
        <4>3. e.key = op[p].old[i]
          BY <2>9, <3>4, <3>5, <4>2 DEF Agree, Deleted
        <4> QED BY <1>1, <2>3, <3>4, <4>2, <4>3 DEF OpOK
      <3>6. ASSUME NEW i \in Alternates \ o.todo PROVE HasEntry(new, i, rec[i])
        <4>1. CASE rec[i] \in Suppressed[i]
          BY <4>1 DEF HasEntry
        <4>2. CASE rec[i] \notin Suppressed[i]
          <5>1. op[p].kind = "REWRITE" /\ i \notin op[p].upd
            BY <2>5, <3>6, <4>2
          <5>2. op[p].old[i] = rec[i]
            BY <1>1, <2>3, <3>4, <5>1 DEF OpOK
          <5> QED BY <2>9, <3>4, <5>1, <5>2 DEF Agree, Deleted
        <4> QED BY <4>1, <4>2
      <3>7. \A q \in Procs : Deleting(q)' /\ Deleted(q)' /\ Writing(q)'
        <4> SUFFICES ASSUME NEW q \in Procs PROVE Deleting(q)' /\ Deleted(q)' /\ Writing(q)'
          OBVIOUS
        <4>1. CASE q = p
          BY <2>2, <2>4, <2>5, <4>1 DEF Deleting, Deleted, Writing
        <4>2. CASE q # p
          BY <1>1, <2>4, <2>9, <3>1, <3>2, <3>3, <4>2 DEF Agree, Deleting, Deleted, Writing, HasEntry
        <4> QED BY <4>1, <4>2
      <3>8. Leads'
        <4> SUFFICES ASSUME NEW i \in Alternates, NEW e \in sec[i]
                     PROVE  (e.prim \in DOMAIN pri' /\ pri'[e.prim][i] = e.key) \/ \E q \in Procs : Absent(q, e.prim, i)'
          BY <1>1 DEF Leads
        <4>1. CASE e.prim = new
          BY <2>4, <3>5, <4>1
        <4>2. CASE e.prim # new
          <5>1. \A q \in Procs : Absent(q, e.prim, i) => Absent(q, e.prim, i)'
            BY <1>1, <3>1, <3>4, <4>2 DEF Absent
          <5> QED BY <2>4, <2>9, <5>1 DEF Agree, Leads
        <4> QED BY <4>1, <4>2
      <3>9. Indexed'
        <4> SUFFICES ASSUME NEW k \in DOMAIN pri', NEW i \in Alternates
                     PROVE  HasEntry(k, i, pri[k][i])' \/ \E q \in Procs : InWork(q, k, i)'
          BY DEF Indexed, HasEntry
        <4>1. CASE k = new
          <5>1. i \in o.todo => InWork(p, k, i)'
            BY <2>2, <2>5, <4>1 DEF InWork
          <5> QED BY <1>1, <2>4, <3>6, <4>1, <5>1 DEF HasEntry
        <4>2. CASE k # new
          <5>1. k \in DOMAIN pri /\ pri'[k] = pri[k] /\ \A q \in Procs : ~InWork(q, k, i)
            BY <2>4, <3>2, <4>2 DEF InWork
          <5> QED BY <1>1, <2>9, <5>1 DEF Agree, Indexed, HasEntry
        <4> QED BY <4>1, <4>2
      <3>10. Uniques'
        <4>1. ASSUME NEW l \in DOMAIN pri, NEW i \in Alternates \ Dups, rec[i] = pri[l][i], rec[i] \notin Suppressed[i]
              PROVE  i \in o.todo
          <5> SUFFICES ASSUME i \notin o.todo PROVE FALSE
            OBVIOUS
          <5>1. PICK d \in sec[i] : d.prim = new /\ d.key = rec[i]
            BY <3>6, <4>1 DEF HasEntry
          <5>2. \A q \in Procs : ~InWork(q, l, i)
            BY <3>2 DEF InWork
          <5>3. PICK e \in sec[i] : e.prim = l /\ e.key = rec[i]
            BY <2>9, <4>1, <5>2 DEF Agree, Indexed, HasEntry
          <5>4. d.prim = e.prim
            BY <5>1, <5>3 DEF DataInv, SecUnique
          <5> QED BY <2>4, <5>1, <5>3, <5>4
        <4>2. op'[p].step = "put" /\ op'[p].new = new /\ op'[p].todo = o.todo
          BY <2>2, <2>5
        <4> SUFFICES ASSUME NEW k \in DOMAIN pri', NEW l \in DOMAIN pri', NEW i \in Alternates \ Dups,
                            k # l, pri'[k][i] = pri'[l][i], pri'[k][i] \notin Suppressed[i]
                     PROVE  \E q \in Procs : op'[q].step = "put" /\ op'[q].new \in {k, l} /\ i \in op'[q].todo
          BY DEF Uniques
        <4>3. CASE k = new \/ l = new
          BY <2>4, <4>1, <4>2, <4>3
        <4>4. CASE k # new /\ l # new
          <5>1. k \in DOMAIN pri /\ l \in DOMAIN pri /\ pri'[k] = pri[k] /\ pri'[l] = pri[l]
            BY <2>4, <4>4
          <5> QED BY <2>9, <3>2, <5>1 DEF Agree, Uniques
        <4> QED BY <4>3, <4>4
      <3> QED BY <3>7, <3>8, <3>9, <3>10 DEF Agree
    <2>10. torn' \/ Agree'
      BY <2>6, <2>9 DEF DataInv
    <2> QED BY <2>7, <2>8, <2>10 DEF DataInv
  <1> QED BY <1>2, <1>3, WriteCases

LEMMA DataWriteAlternate ==
  ASSUME DataInv, LockInv, OpInv, NEW p \in Procs, WriteAlternate(p)
  PROVE  DataInv'
  <1>1. PICK i, v, new : i = First(op[p].todo) /\ v = op[p].rec[i] /\ new = op[p].new
    OBVIOUS
  <1>2. op[p].step = "put" /\ op[p].todo # {} /\ OpOK(op[p]) /\ UNCHANGED pri
    BY DEF WriteAlternate, OpInv
  <1>3. i \in op[p].todo /\ i \in Alternates /\ v \notin Suppressed[i]
    BY <1>1, <1>2, FirstIn DEF OpOK
  <1>4. CASE (\E st : Finish(p, st)) /\ torn' = TRUE /\ UNCHANGED sec
    <2>1. op' = [op EXCEPT ![p] = Idle]
      BY <1>4 DEF Finish, Ends
    <2>2. op'[p].step = "idle" /\ OthersKeep(p)
      BY <2>1, IdleOK DEF OthersKeep, OpInv
    <2> QED BY <1>2, <1>4, <2>2, DataTorn
  <1>5. ASSUME NEW entry, entry.key = v, entry.prim = new, sec' = [sec EXCEPT ![i] = @ \cup {entry}],
               i \in Dups \/ \A e \in sec[i] : e.key # v, op' = [op EXCEPT ![p].todo = @ \ {i}], UNCHANGED torn
        PROVE  DataInv'
    <2>1. PICK o : /\ op' = [op EXCEPT ![p] = o] /\ OpOK(o) /\ o.step = op[p].step /\ o.kind = op[p].kind
                   /\ o.key = op[p].key /\ o.new = op[p].new /\ o.rec = op[p].rec /\ o.old = op[p].old
                   /\ o.upd = op[p].upd /\ o.todo = op[p].todo \ {i}
      BY <1>2, <1>5, TodoLess
    <2>2. op'[p] = o /\ OthersKeep(p)
      BY <2>1 DEF OpInv, OthersKeep
    <2>3. sec'[i] = sec[i] \cup {entry} /\ \A j \in Alternates \ {i} : sec'[j] = sec[j]
      BY <1>3, <1>5 DEF DataInv, DataTypes
    <2>4. \A j \in Alternates : sec[j] \subseteq sec'[j] /\ \A e \in sec'[j] : e \in sec[j] \/ (j = i /\ e = entry)
      BY <2>3
    <2>5. DataTypes'
      BY <1>2, <1>5 DEF DataInv, DataTypes
    <2>6. SecUnique'
      <3> SUFFICES ASSUME NEW j \in Alternates \ Dups, NEW d \in sec'[j], NEW e \in sec'[j], d.key = e.key
                   PROVE  d.prim = e.prim
        BY DEF SecUnique
      <3>1. CASE j = i
        BY <1>5, <2>3, <3>1 DEF DataInv, SecUnique
      <3>2. CASE j # i
        BY <2>3, <3>2 DEF DataInv, SecUnique
      <3> QED BY <3>1, <3>2
    <2>7. NoneSuppressed'
      BY <1>3, <1>5, <2>4 DEF DataInv, NoneSuppressed
    <2>8. CursorOnce'
      BY <1>2, <2>2, CursorStep DEF DataInv, HasCursor
    <2>9. ASSUME Agree PROVE Agree'
      <3>1. new \in DOMAIN pri /\ pri[new] = op[p].rec /\ pri[new][i] = v
        BY <1>1, <1>2, <2>9 DEF Agree, Writing
      <3>2. \A q \in Procs \ {p} : op'[q] = op[q] /\ op[q].step \notin {"del", "put"}
        BY <1>2, <2>2 DEF OthersKeep, DataInv, CursorOnce, HasCursor
      <3>3. \A j \in Alternates : \A k, w : HasEntry(k, j, w) => HasEntry(k, j, w)'
        BY <2>4 DEF HasEntry
      <3>4. \A q \in Procs : Deleting(q)' /\ Deleted(q)' /\ Writing(q)'
        <4> SUFFICES ASSUME NEW q \in Procs PROVE Deleting(q)' /\ Deleted(q)' /\ Writing(q)'
          OBVIOUS
        <4>1. CASE q = p
          BY <1>1, <1>2, <2>1, <2>2, <3>1, <4>1 DEF Deleting, Deleted, Writing
        <4>2. CASE q # p
          <5>1. CASE op[q].step = "gone"
            <6>1. op[q].key \notin DOMAIN pri /\ op[q].key # new
              BY <2>9, <3>1, <5>1 DEF Agree, Deleted
            <6>2. \A j \in Alternates : \A e \in sec'[j] : e.prim = op[q].key => e \in sec[j]
              BY <1>5, <2>4, <6>1
            <6>3. Deleted(q)'
              BY <1>2, <2>9, <3>2, <3>3, <4>2, <5>1, <6>1, <6>2 DEF Agree, Deleted
            <6> QED BY <3>2, <4>2, <5>1, <6>3 DEF Deleting, Writing
          <5>2. CASE op[q].step # "gone"
            BY <3>2, <4>2, <5>2 DEF Deleting, Deleted, Writing
          <5> QED BY <5>1, <5>2
        <4> QED BY <4>1, <4>2
      <3>5. Leads'
        <4>1. \A q \in Procs : \A k, j : Absent(q, k, j) => Absent(q, k, j)'
          BY <1>2, <2>2 DEF Absent, OthersKeep
        <4> QED BY <1>2, <1>5, <2>4, <2>9, <3>1, <4>1 DEF Agree, Leads
      <3>6. Indexed'
        <4> SUFFICES ASSUME NEW k \in DOMAIN pri, NEW j \in Alternates
                     PROVE  HasEntry(k, j, pri[k][j])' \/ \E q \in Procs : InWork(q, k, j)'
          BY <1>2 DEF Indexed
        <4>1. CASE k = new /\ j = i
          BY <1>2, <1>5, <2>3, <3>1, <4>1 DEF HasEntry
        <4>2. CASE k # new \/ j # i
          <5>1. \A q \in Procs : InWork(q, k, j) => InWork(q, k, j)'
            BY <1>1, <1>2, <2>1, <2>2, <3>2, <4>2 DEF InWork
          <5> QED BY <1>2, <2>9, <3>3, <5>1 DEF Agree, Indexed, HasEntry
        <4> QED BY <4>1, <4>2
      <3>7. Uniques'
        <4> SUFFICES ASSUME NEW k \in DOMAIN pri, NEW l \in DOMAIN pri, NEW j \in Alternates \ Dups,
                            k # l, pri[k][j] = pri[l][j], pri[k][j] \notin Suppressed[j]
                     PROVE  \E q \in Procs : op'[q].step = "put" /\ op'[q].new \in {k, l} /\ j \in op'[q].todo
          BY <1>2 DEF Uniques
        <4>1. op[p].new \in {k, l} /\ j \in op[p].todo
          BY <1>2, <2>9, <3>2 DEF Agree, Uniques
        <4>2. ASSUME j = i PROVE FALSE
          <5>1. PICK m \in {k, l} : m # new
            OBVIOUS
          <5>2. m \in DOMAIN pri /\ pri[m][i] = v
            BY <1>1, <3>1, <4>1, <4>2, <5>1
          <5>3. \A q \in Procs : ~InWork(q, m, i)
            BY <1>1, <1>2, <3>2, <5>1 DEF InWork
          <5>4. PICK e \in sec[i] : e.prim = m /\ e.key = v
            BY <1>3, <2>9, <5>2, <5>3 DEF Agree, Indexed, HasEntry
          <5> QED BY <1>5, <4>2, <5>4
        <4> QED BY <1>2, <2>1, <2>2, <4>1, <4>2
      <3> QED BY <3>4, <3>5, <3>6, <3>7 DEF Agree
    <2>10. torn' \/ Agree'
      BY <1>5, <2>9 DEF DataInv
    <2> QED BY <2>5, <2>6, <2>7, <2>8, <2>10 DEF DataInv
  <1>6. CASE i \in Dups \/ ~\E e \in sec[i] : e.key = v
    <2>1. PICK entry : entry = [key |-> v, prim |-> new, dup |-> IF i \in Dups THEN NextDup(i, v) ELSE 0]
      OBVIOUS
    <2>2. entry.key = v /\ entry.prim = new
      BY <2>1
    <2>3. sec' = [sec EXCEPT ![i] = @ \cup {entry}] /\ op' = [op EXCEPT ![p].todo = @ \ {i}] /\ UNCHANGED torn
      BY <1>1, <1>6, <2>1 DEF WriteAlternate
    <2> QED BY <1>5, <1>6, <2>2, <2>3
  <1>7. CASE ~(i \in Dups \/ ~\E e \in sec[i] : e.key = v)
    <2>1. (\E st : Finish(p, st)) /\ torn' = TRUE /\ UNCHANGED sec
      BY <1>1, <1>7 DEF WriteAlternate
    <2> QED BY <1>4, <2>1
  <1> QED BY <1>6, <1>7

-----------------------------------------------------------------------------
(* The invariant, and what follows. *)

IInv == LockInv /\ OpInv /\ DataInv

LEMMA StepKeeps ==
  ASSUME IInv, NEW p \in Procs, Step(p)
  PROVE  IInv'
  <1>1. LockInv /\ OpInv /\ DataInv
    BY DEF IInv
  <1>2. CASE CheckAlternates(p) \/ TestLock(p) \/ CloseCursor(p) \/ LockNew(p)
    BY <1>1, <1>2, DataQuietSteps, LockCheckAlternates, LockTestLock, LockCloseCursor, LockLockNew DEF IInv
  <1>3. CASE Find(p)
    BY <1>1, <1>3, DataFind, LockFind DEF IInv
  <1>4. CASE DeleteAlternate(p)
    BY <1>1, <1>4, DataDeleteAlternate, LockDeleteAlternate DEF IInv
  <1>5. CASE DeletePrimary(p)
    BY <1>1, <1>5, DataDeletePrimary, LockDeletePrimary DEF IInv
  <1>6. CASE WriteRecord(p)
    BY <1>1, <1>6, DataWriteRecord, LockWriteRecord DEF IInv
  <1>7. CASE WriteAlternate(p)
    BY <1>1, <1>7, DataWriteAlternate, LockWriteAlternate DEF IInv
  <1> QED BY <1>2, <1>3, <1>4, <1>5, <1>6, <1>7 DEF Step

LEMMA StatementKeeps ==
  ASSUME IInv, NEW p \in Procs, Statement(p)
  PROVE  IInv'
  <1>1. LockInv /\ OpInv /\ DataInv /\ DataTypes
    BY DEF IInv, DataInv
  <1>2. CASE \E m \in Modes[p] : Open(p, m)
    <2>1. PICK m \in OpenModes : Open(p, m)
      BY <1>2, ModesAssumption
    <2>2. DataInv'
      BY <1>1, <2>1, DataOpen
    <2>3. LockInv' /\ OpInv'
      BY <1>1, <2>1, LockOpen
    <2> QED BY <2>2, <2>3 DEF IInv
  <1>3. CASE ~\E m \in Modes[p] : Open(p, m)
    <2>1. LockInv' /\ OpInv' /\ Begun(p)
      BY <1>1, <1>3, BegunStatement
    <2> QED BY <1>1, <2>1, DataBegun DEF IInv
  <1> QED BY <1>2, <1>3

LEMMA InitInv == Init => IInv
  <1> SUFFICES ASSUME Init PROVE IInv
    OBVIOUS
  <1>1. /\ pri = [k \in {} |-> NONE] /\ sec = [i \in Alternates |-> {}] /\ torn = FALSE
        /\ locks = [p \in Procs |-> [k \in Values |-> 0]] /\ latch = [p \in Procs |-> NONE]
        /\ op = [p \in Procs |-> Idle] /\ mode = [p \in Procs |-> "CLOSED"] /\ race = [p \in Procs |-> {}]
    BY DEF Init
  <1>2. \A p \in Procs : op[p] = Idle /\ op[p].step = "idle"
    BY <1>1, IdleOK
  <1>3. OpInv
    BY <1>1, IdleOK DEF OpInv, OpOK
  <1>4. LockTypes
    BY <1>1 DEF LockTypes
  <1>5. \A p \in Procs : LockPart(p) /\ OpPart(p)
    BY <1>1, <1>2, NoneAssumption DEF LockPart, OpPart, PastTestSteps
  <1>6. Exclusive /\ Raced
    BY <1>1 DEF Exclusive, Raced
  <1>7. DOMAIN pri = {} /\ \A i \in Alternates : sec[i] = {}
    BY <1>1
  <1>8. DataTypes /\ CursorOnce /\ SecUnique /\ NoneSuppressed
    BY <1>1, <1>2, <1>7 DEF DataTypes, CursorOnce, HasCursor, SecUnique, NoneSuppressed
  <1>9. Leads /\ Indexed /\ Uniques /\ \A p \in Procs : Deleting(p) /\ Deleted(p) /\ Writing(p)
    BY <1>2, <1>7 DEF Leads, Indexed, Uniques, Deleting, Deleted, Writing
  <1> QED BY <1>3, <1>4, <1>5, <1>6, <1>8, <1>9 DEF IInv, LockInv, DataInv, Agree

LEMMA NextInv == IInv /\ [Next]_vars => IInv'
  <1> SUFFICES ASSUME IInv, [Next]_vars PROVE IInv'
    OBVIOUS
  <1>1. CASE Next
    BY <1>1, StepKeeps, StatementKeeps DEF Next
  <1>2. CASE UNCHANGED vars
    <2>1. UNCHANGED <<pri, sec, locks, latch, race, mode, op, torn>>
      BY <1>2 DEF vars, file, lockVars, hist
    <2>2. LockInv'
      BY <2>1 DEF IInv, LockInv, LockTypes, Exclusive, Raced, LockPart, OpPart
    <2>3. OpInv'
      BY <2>1 DEF IInv, OpInv
    <2>4. Leads' <=> Leads
      BY <2>1 DEF Leads, Absent
    <2>5. Indexed' <=> Indexed
      BY <2>1 DEF Indexed, HasEntry, InWork
    <2>6. Uniques' <=> Uniques
      BY <2>1 DEF Uniques
    <2>7. \A p \in Procs : (Deleting(p) <=> Deleting(p)') /\ (Deleted(p) <=> Deleted(p)') /\ (Writing(p) <=> Writing(p)')
      BY <2>1 DEF Deleting, Deleted, Writing, HasEntry
    <2>8. Agree => Agree'
      BY <2>4, <2>5, <2>6, <2>7 DEF Agree
    <2>9. DataTypes' /\ CursorOnce' /\ SecUnique' /\ NoneSuppressed'
      BY <2>1 DEF IInv, DataInv, DataTypes, CursorOnce, HasCursor, SecUnique, NoneSuppressed
    <2> QED BY <2>1, <2>2, <2>3, <2>8, <2>9 DEF IInv, DataInv
  <1> QED BY <1>1, <1>2

\* Locks exclude, every update is one that a program can be in, and records and
\* indexes agree unless an update was overtaken.
THEOREM Inductive == Spec => []IInv
  BY InitInv, NextInv, PTL DEF Spec

\* LocksTracked: a record is locked by one run unit, and without LOCK ON MULTIPLE
\* RECORDS no lock outlives what unlock_record can release.
THEOREM LocksAreTracked == Spec => []LocksTracked
  <1>1. IInv => LocksTracked
    BY DEF IInv, LockInv, Exclusive, LockPart, OpPart, LocksTracked
  <1> QED BY <1>1, Inductive, PTL

\* EntriesLeadBack: an entry of an alternate key leads to a record with the key.
THEOREM AlternatesLeadBack == Spec => []EntriesLeadBack
  <1>1. IInv => EntriesLeadBack
    BY DEF IInv, DataInv, Agree, Leads, Absent, EntriesLeadBack
  <1> QED BY <1>1, Inductive, PTL

\* RecordsIndexed: every record can be found by each of its alternate keys.
THEOREM AllIndexed == Spec => []RecordsIndexed
  <1>1. IInv => RecordsIndexed
    BY DEF IInv, DataInv, Agree, Indexed, HasEntry, InWork, RecordsIndexed
  <1> QED BY <1>1, Inductive, PTL

\* UniqueAlternates: two records share a key without duplicates only while a
\* REWRITE is about to find out.
THEOREM AlternatesUnique == Spec => []UniqueAlternates
  <1>1. IInv => UniqueAlternates
    BY DEF IInv, DataInv, Agree, Uniques, UniqueAlternates
  <1> QED BY <1>1, Inductive, PTL

\* What LockedRecordStays says of p.
LockedStays(p) ==
  LET k == latch[p] IN
  k # NONE /\ latch'[p] = k /\ k \in DOMAIN pri /\ (k \notin DOMAIN pri' \/ pri'[k] # pri[k])
  => \E q \in race[p] : op'[q] # op[q]

LEMMA StepKeepsLocked ==
  ASSUME IInv, NEW a \in Procs, Step(a), NEW p \in Procs
  PROVE  LockedStays(p)
  <1>1. LockInv /\ OpInv
    BY DEF IInv
  <1>2. CASE UNCHANGED pri
    BY <1>2 DEF LockedStays
  <1>3. CASE DeletePrimary(a)
    <2> SUFFICES ASSUME latch[p] # NONE, latch[p] \in DOMAIN pri,
                        latch[p] \notin DOMAIN pri' \/ pri'[latch[p]] # pri[latch[p]]
                 PROVE  \E q \in race[p] : op'[q] # op[q]
      BY DEF LockedStays
    <2>1. op[a].step = "del" /\ pri' = [k \in DOMAIN pri \ {op[a].key} |-> pri[k]]
      BY <1>3 DEF DeletePrimary
    <2>2. latch[p] = op[a].key
      BY <2>1
    <2>3. latch[a] = NONE
      BY <1>1, <2>1 DEF LockInv, OpPart, PastTestSteps
    <2>4. a \in race[p]
      BY <1>1, <2>1, <2>2, <2>3 DEF LockInv, Raced, PastTestSteps
    <2>5. op' = [op EXCEPT ![a] = Idle] \/ op' = [op EXCEPT ![a].step = "gone"]
      BY <1>3 DEF DeletePrimary, Ends
    <2>6. op'[a].step # "del"
      BY <1>1, <2>5, IdleOK DEF OpInv, OpOK, Fields
    <2> QED BY <2>1, <2>4, <2>6
  <1>4. CASE WriteRecord(a)
    <2>1. CASE NotWritten(a)
      BY <1>2, <2>1 DEF NotWritten
    <2>2. CASE Written(a)
      <3>1. \A k \in DOMAIN pri : k \in DOMAIN pri' /\ pri'[k] = pri[k]
        BY <2>2 DEF Written
      <3> QED BY <3>1 DEF LockedStays
    <2> QED BY <1>1, <1>4, <2>1, <2>2, WriteCases
  <1>5. CASE CheckAlternates(a) \/ TestLock(a) \/ Find(a) \/ DeleteAlternate(a) \/ WriteAlternate(a)
             \/ CloseCursor(a) \/ LockNew(a)
    <2>1. UNCHANGED pri
      BY <1>5 DEF CheckAlternates, TestLock, Find, DeleteAlternate, WriteAlternate, CloseCursor, LockNew, file
    <2> QED BY <1>2, <2>1
  <1> QED BY <1>3, <1>4, <1>5 DEF Step

LEMMA StatementKeepsLocked ==
  ASSUME IInv, NEW a \in Procs, Statement(a), NEW p \in Procs
  PROVE  LockedStays(p)
  <1>1. LockInv /\ OpInv /\ DataTypes
    BY DEF IInv, DataInv
  <1>2. ASSUME UNCHANGED pri PROVE LockedStays(p)
    BY <1>2 DEF LockedStays
  <1>3. CASE \E m \in Modes[a] : Open(a, m)
    <2>1. PICK m \in OpenModes : Open(a, m)
      BY <1>3, ModesAssumption
    <2>2. CASE m # "OUTPUT"
      <3>1. UNCHANGED pri
        BY <2>1, <2>2 DEF Open
      <3> QED BY <1>2, <3>1
    <2>3. CASE m = "OUTPUT"
      <3>1. mode[p] = "CLOSED"
        BY <2>1, <2>3 DEF Open, Removable
      <3>2. latch[p] = NONE
        BY <1>1, <3>1 DEF LockInv, OpPart
      <3> QED BY <3>2 DEF LockedStays
    <2> QED BY <2>2, <2>3
  <1>4. CASE ~\E m \in Modes[a] : Open(a, m)
    <2>1. UNCHANGED pri
      BY <1>1, <1>4, BegunStatement DEF Begun
    <2> QED BY <1>2, <2>1
  <1> QED BY <1>3, <1>4

\* LockedRecordStays: who holds the lock of a record sees it changed only by an
\* update that had tested the lock before it was granted.
THEOREM LockedRecordsStay == Spec => LockedRecordStays
  <1>1. IInv /\ [Next]_vars => [\A p \in Procs : LockedStays(p)]_vars
    <2> SUFFICES ASSUME IInv, Next, NEW p \in Procs PROVE LockedStays(p)
      OBVIOUS
    <2> QED BY StepKeepsLocked, StatementKeepsLocked DEF Next
  <1>2. [\A p \in Procs : LockedStays(p)]_vars =>
          [\A p \in Procs : LET k == latch[p] IN
             k # NONE /\ latch'[p] = k /\ k \in DOMAIN pri /\ (k \notin DOMAIN pri' \/ pri'[k] # pri[k])
             => \E q \in race[p] : op'[q] # op[q]]_vars
    BY DEF LockedStays
  <1> QED BY <1>1, <1>2, Inductive, PTL DEF Spec, LockedRecordStays

-----------------------------------------------------------------------------
(* The order of the entries.                                               *)

LEMMA LeastNumber ==
  ASSUME NEW T \in SUBSET Nat, T # {}
  PROVE  \E i \in T : \A j \in T : i <= j
  <1>1. PICK n \in T : TRUE
    OBVIOUS
  <1>2. n \in Nat /\ \A j \in T : j \in Nat
    BY <1>1
  <1>3. IsFiniteSet(0..n)
    BY <1>2, FS_Interval
  <1>4. IsWellFoundedOn(StrictSubsetOrdering(0..n), SUBSET (0..n))
    BY <1>3, FS_StrictSubsetOrderingWellFounded, FS_FiniteSubsetsOfFinite
  <1>5. PICK D : D = {0..i : i \in {j \in T : j <= n}}
    OBVIOUS
  <1>6. D \in SUBSET SUBSET (0..n) /\ D # {}
    BY <1>1, <1>2, <1>5
  <1>7. PICK x \in D : \A y \in D : ~(<<y, x>> \in StrictSubsetOrdering(0..n))
    BY <1>4, <1>6, WFMin
  <1>8. \A y \in D : y \subseteq x => y = x
    BY <1>6, <1>7 DEF StrictSubsetOrdering
  <1>9. PICK i \in T : i <= n /\ x = 0..i
    BY <1>5, <1>7
  <1>10. ASSUME NEW j \in T, ~(i <= j) PROVE FALSE
    <2>1. i \in Nat /\ j \in Nat /\ j < i /\ j <= n
      BY <1>2, <1>9, <1>10
    <2>2. 0..j \in D
      BY <1>5, <2>1
    <2>3. 0..j \subseteq 0..i
      BY <2>1
    <2>4. 0..j = 0..i
      BY <1>8, <1>9, <2>2, <2>3
    <2>5. i \in 0..i /\ i \notin 0..j
      BY <2>1
    <2> QED BY <2>4, <2>5
  <1> QED BY <1>10

LEMMA GreatestNumber ==
  ASSUME NEW T \in SUBSET Nat, T # {}, NEW b \in Nat, \A j \in T : j <= b
  PROVE  \E i \in T : \A j \in T : j <= i
  <1>1. PICK U : U = {n \in Nat : \A j \in T : j <= n}
    OBVIOUS
  <1>2. U \in SUBSET Nat /\ U # {}
    BY <1>1
  <1>3. PICK m \in U : \A n \in U : m <= n
    BY <1>2, LeastNumber
  <1>4. m \in Nat /\ \A j \in T : j \in Nat /\ j <= m
    BY <1>1, <1>3
  <1>5. ASSUME m \notin T PROVE FALSE
    <2>1. PICK t \in T : TRUE
      OBVIOUS
    <2>2. \A j \in T : j <= m - 1
      BY <1>4, <1>5
    <2>3. m - 1 \in Nat /\ ~(m <= m - 1)
      BY <1>4, <2>1, <2>2
    <2>4. m - 1 \in U
      BY <1>1, <2>2, <2>3
    <2> QED BY <1>3, <2>3, <2>4
  <1> QED BY <1>4, <1>5

\* The entries of keys and records of the file.
KeyEntry == [key: Values, prim: Values, dup: Nat]

\* A set of entries that has a first and a last one.
Bounded(S) == S \subseteq KeyEntry /\ \E b \in Nat : \A e \in S : e.dup <= b

LEMMA KeyFacts ==
  /\ \A v \in Values : v \in Nat /\ v > 0
  /\ \E v \in Nat : /\ Top.key = v + 1 /\ \A w \in Values : w <= v
  <1>1. PICK v \in Values : \A w \in Values : w <= v
    BY ValuesAssumption
  <1>2. PICK m : m = CHOOSE u \in Values : \A w \in Values : w <= u
    OBVIOUS
  <1>3. m \in Values /\ \A w \in Values : w <= m
    BY <1>1, <1>2
  <1>4. m \in Nat
    BY <1>3, ValuesAssumption
  <1>5. Top.key = 1 + m
    BY <1>2 DEF Top
  <1>6. Top.key = m + 1
    BY <1>4, <1>5
  <1> QED BY <1>3, <1>4, <1>6, ValuesAssumption

LEMMA EntryFacts ==
  ASSUME NEW e \in KeyEntry
  PROVE  e.key \in Values /\ e.key \in Nat /\ e.key > 0 /\ e.dup \in Nat /\ e.prim \in Values /\ e \in Entry
  BY KeyFacts DEF KeyEntry, Entry

LEMMA LeastEntry ==
  ASSUME NEW S, S \subseteq KeyEntry, S # {}
  PROVE  LeastOf(S) # {}
  <1>1. PICK K : K = {e.key : e \in S}
    OBVIOUS
  <1>2. K \in SUBSET Nat /\ K # {}
    BY <1>1, EntryFacts
  <1>3. PICK k \in K : \A j \in K : k <= j
    BY <1>2, LeastNumber
  <1>4. PICK D : D = {e.dup : e \in {d \in S : d.key = k}}
    OBVIOUS
  <1>5. D \in SUBSET Nat /\ D # {}
    BY <1>1, <1>3, <1>4, EntryFacts
  <1>6. PICK n \in D : \A j \in D : n <= j
    BY <1>5, LeastNumber
  <1>7. PICK e \in S : e.key = k /\ e.dup = n
    BY <1>4, <1>6
  <1>8. ASSUME NEW d \in S PROVE ~Before(d, e)
    <2>1. k \in Nat /\ n \in Nat /\ d.key \in Nat /\ d.dup \in Nat
      BY <1>2, <1>3, <1>5, <1>6, EntryFacts
    <2>2. k <= d.key
      BY <1>1, <1>3
    <2>3. d.key = k => n <= d.dup
      BY <1>4, <1>6
    <2> QED BY <1>7, <2>1, <2>2, <2>3 DEF Before
  <1> QED BY <1>7, <1>8 DEF LeastOf

LEMMA GreatestEntry ==
  ASSUME NEW S, Bounded(S), S # {}
  PROVE  GreatestOf(S) # {}
  <1>1. PICK K : K = {e.key : e \in S}
    OBVIOUS
  <1>a. S \subseteq KeyEntry
    BY DEF Bounded
  <1>2. K \in SUBSET Nat /\ K # {}
    BY <1>1, <1>a, EntryFacts
  <1>b. PICK top \in Nat : \A w \in Values : w <= top
    BY KeyFacts
  <1>c. \A j \in K : j <= top
    BY <1>1, <1>a, <1>b, EntryFacts
  <1>3. PICK k \in K : \A j \in K : j <= k
    BY <1>2, <1>c, GreatestNumber
  <1>4. PICK D : D = {e.dup : e \in {d \in S : d.key = k}}
    OBVIOUS
  <1>5. D \in SUBSET Nat /\ D # {}
    BY <1>1, <1>3, <1>4, <1>a, EntryFacts
  <1>d. PICK b \in Nat : \A e \in S : e.dup <= b
    BY DEF Bounded
  <1>e. \A j \in D : j <= b
    BY <1>4, <1>d
  <1>6. PICK n \in D : \A j \in D : j <= n
    BY <1>5, <1>e, GreatestNumber
  <1>7. PICK e \in S : e.key = k /\ e.dup = n
    BY <1>4, <1>6
  <1>8. ASSUME NEW d \in S PROVE ~Before(e, d)
    <2>1. k \in Nat /\ n \in Nat /\ d.key \in Nat /\ d.dup \in Nat
      BY <1>2, <1>3, <1>5, <1>6, <1>a, EntryFacts
    <2>2. d.key <= k
      BY <1>1, <1>3
    <2>3. d.key = k => d.dup <= n
      BY <1>4, <1>6
    <2> QED BY <1>7, <2>1, <2>2, <2>3 DEF Before
  <1> QED BY <1>7, <1>8 DEF GreatestOf

LEMMA BoundedPart ==
  ASSUME NEW S, Bounded(S), NEW T, T \subseteq S
  PROVE  Bounded(T)
  BY DEF Bounded

Keyed(e) == e.key \in Nat /\ e.dup \in Nat

LEMMA Order ==
  ASSUME NEW d, NEW e, NEW f, Keyed(d), Keyed(e), Keyed(f)
  PROVE  /\ ~Before(d, d)
         /\ Before(d, e) => ~Before(e, d)
         /\ Before(d, e) /\ Before(e, f) => Before(d, f)
         /\ Before(d, f) => Before(d, e) \/ Before(e, f)
         /\ ~Before(d, e) <=> d.key > e.key \/ (d.key = e.key /\ d.dup >= e.dup)
         /\ d.key = e.key /\ d.dup = e.dup <=> ~Before(d, e) /\ ~Before(e, d)
  BY DEF Keyed, Before

LEMMA EndFacts ==
  ASSUME NEW e \in KeyEntry
  PROVE  /\ Keyed(e) /\ Keyed(Zero) /\ Keyed(Top) /\ Before(Zero, e) /\ Before(e, Top)
  <1>1. PICK v \in Nat : Top.key = v + 1 /\ \A w \in Values : w <= v
    BY KeyFacts
  <1>2. e.key \in Nat /\ e.key > 0 /\ e.dup \in Nat /\ e.key <= v
    BY <1>1, EntryFacts
  <1>3. Top.dup = 0 /\ Zero.key = 0 /\ Zero.dup = 0
    BY DEF Top, Zero
  <1> QED BY <1>1, <1>2, <1>3 DEF Keyed, Before

LEMMA ZeroTop == Keyed(Zero) /\ Keyed(Top) /\ Before(Zero, Top)
  <1>1. PICK v \in Nat : Top.key = v + 1
    BY KeyFacts
  <1>2. Top.dup = 0 /\ Zero.key = 0 /\ Zero.dup = 0
    BY DEF Top, Zero
  <1> QED BY <1>1, <1>2 DEF Keyed, Before

\* e is farther than d in the direction of READ NEXT or READ PREVIOUS.
Farther(stmt, d, e) == IF stmt = "NEXT" THEN Before(d, e) ELSE Before(e, d)

\* got is what comes after from among the entries E.
Nearest(E, stmt, from, got) ==
  Farther(stmt, from, got) /\ ~\E e \in E : Farther(stmt, from, e) /\ Farther(stmt, e, got)

\* What a READ that comes to an end leaves behind.
EndOf(stmt) == IF stmt = "NEXT" THEN Top ELSE Zero

\* F holds the entries of E that come next, and is empty at the end only.
Delivers(E, stmt, from, F) ==
  /\ F \subseteq E
  /\ \A e \in F : Nearest(E, stmt, from, e)
  /\ F = {} => Nearest(E, stmt, from, EndOf(stmt))

LEMMA FirstDelivered ==
  ASSUME NEW E, Bounded(E)
  PROVE  Delivers(E, "NEXT", Zero, LeastOf(E))
  <1>1. E \subseteq KeyEntry
    BY DEF Bounded
  <1>2. ASSUME NEW e \in LeastOf(E) PROVE e \in E /\ Nearest(E, "NEXT", Zero, e)
    BY <1>1, EndFacts DEF LeastOf, Nearest, Farther
  <1>3. LeastOf(E) = {} => Nearest(E, "NEXT", Zero, Top)
    <2>1. LeastOf(E) = {} => E = {}
      BY <1>1, LeastEntry
    <2> QED BY <2>1, ZeroTop DEF Nearest, Farther
  <1> QED BY <1>2, <1>3 DEF Delivers, EndOf

LEMMA LastDelivered ==
  ASSUME NEW E, Bounded(E)
  PROVE  Delivers(E, "PREVIOUS", Top, GreatestOf(E))
  <1>1. E \subseteq KeyEntry
    BY DEF Bounded
  <1>2. ASSUME NEW e \in GreatestOf(E) PROVE e \in E /\ Nearest(E, "PREVIOUS", Top, e)
    BY <1>1, EndFacts DEF GreatestOf, Nearest, Farther
  <1>3. GreatestOf(E) = {} => Nearest(E, "PREVIOUS", Top, Zero)
    <2>1. GreatestOf(E) = {} => E = {}
      BY GreatestEntry
    <2> QED BY <2>1, ZeroTop DEF Nearest, Farther
  <1> QED BY <1>2, <1>3 DEF Delivers, EndOf

\* The entries from place on, as DB_SET_RANGE and the walk over the duplicates see them.
Onward(E, place) == {e \in E : e.key > place.key \/ (e.key = place.key /\ e.dup >= place.dup)}

LEMMA OnwardIs ==
  ASSUME NEW E, E \subseteq KeyEntry, NEW place, Keyed(place)
  PROVE  Onward(E, place) = {e \in E : ~Before(e, place)}
  <1>1. ASSUME NEW e \in E
        PROVE  ~Before(e, place) <=> (e.key > place.key \/ (e.key = place.key /\ e.dup >= place.dup))
    <2>1. Keyed(e)
      BY EntryFacts DEF Keyed
    <2> QED BY <2>1, Order
  <1> QED BY <1>1 DEF Onward

LEMMA LandingIs ==
  ASSUME NEW i, Entries(i) \subseteq KeyEntry, NEW place, Keyed(place)
  PROVE  /\ Landing(i, place) \subseteq Entries(i)
         /\ \A l \in Landing(i, place) : /\ ~Before(l, place)
                                         /\ \A e \in Entries(i) : ~Before(e, place) => ~Before(e, l)
         /\ Landing(i, place) = {} => \A e \in Entries(i) : Before(e, place)
  <1>1. PICK E : E = Entries(i)
    OBVIOUS
  <1>2. PICK R : R = {e \in E : ~Before(e, place)}
    OBVIOUS
  <1>3. Landing(i, place) = LeastOf(R)
    BY <1>1, <1>2, OnwardIs DEF Landing, Onward
  <1>4. R \subseteq KeyEntry /\ R \subseteq E
    BY <1>1, <1>2
  <1>5. LeastOf(R) = {} => R = {}
    BY <1>4, LeastEntry
  <1>6. \A l \in LeastOf(R) : l \in R /\ \A e \in R : ~Before(e, l)
    BY DEF LeastOf
  <1> QED BY <1>1, <1>2, <1>3, <1>4, <1>5, <1>6

LEMMA NextDelivered ==
  ASSUME NEW i, Bounded(Entries(i)), NEW place, Keyed(place), Before(place, Top)
  PROVE  Delivers(Entries(i), "NEXT", place, NextEntry(i, place, "NEXT"))
  <1>1. PICK E : E = Entries(i)
    OBVIOUS
  <1>2. PICK land : land = Landing(i, place)
    OBVIOUS
  <1>3. E \subseteq KeyEntry /\ land \subseteq E /\ \A e \in E : Keyed(e)
    BY <1>1, <1>2, LandingIs, EntryFacts DEF Bounded, Keyed
  <1>4. /\ \A l \in land : ~Before(l, place) /\ \A e \in E : ~Before(e, place) => ~Before(e, l)
        /\ land = {} => \A e \in E : Before(e, place)
    BY <1>1, <1>2, <1>3, LandingIs
  <1>5. CASE \E e \in land : e.key = place.key /\ e.dup = place.dup
    <2>1. PICK e \in land : e.key = place.key /\ e.dup = place.dup
      BY <1>5
    <2>2. ~Before(e, place) /\ ~Before(place, e) /\ e \in E
      BY <1>3, <2>1, Order
    <2>3. PICK A : A = {d \in E : \A l \in land : Before(l, d)}
      OBVIOUS
    <2>4. NextEntry(i, place, "NEXT") = LeastOf(A)
      BY <1>1, <1>2, <1>5, <2>3 DEF NextEntry
    <2>5. \A d \in E : d \in A <=> Before(place, d)
      <3>1. ASSUME NEW d \in E, d \in A PROVE Before(place, d)
        <4>1. Before(e, d)
          BY <2>1, <2>3, <3>1
        <4> QED BY <1>3, <2>2, <4>1, Order
      <3>2. ASSUME NEW d \in E, Before(place, d), NEW l \in land PROVE Before(l, d)
        <4>1. ~Before(e, l)
          BY <1>4, <2>2
        <4>2. ~Before(place, l)
          BY <1>3, <1>4, <2>1, <2>2, <3>2, <4>1, Order
        <4> QED BY <1>3, <3>2, <4>2, Order
      <3> QED BY <2>3, <3>1, <3>2
    <2>6. ASSUME NEW d \in LeastOf(A) PROVE d \in E /\ Nearest(E, "NEXT", place, d)
      BY <2>3, <2>5 DEF LeastOf, Nearest, Farther
    <2>7. LeastOf(A) = {} => A = {}
      <3>1. A \subseteq KeyEntry
        BY <1>3, <2>3
      <3> QED BY <3>1, LeastEntry
    <2>8. LeastOf(A) = {} => Nearest(E, "NEXT", place, Top)
      BY <2>5, <2>7 DEF Nearest, Farther
    <2>9. LeastOf(A) \subseteq E
      BY <2>6
    <2> QED BY <1>1, <2>4, <2>6, <2>8, <2>9 DEF Delivers, EndOf
  <1>6. CASE ~\E e \in land : e.key = place.key /\ e.dup = place.dup
    <2>1. NextEntry(i, place, "NEXT") = land
      BY <1>1, <1>2, <1>6 DEF NextEntry
    <2>2. ASSUME NEW l \in land PROVE l \in E /\ Nearest(E, "NEXT", place, l)
      <3>1. l \in E /\ Keyed(l) /\ ~Before(l, place) /\ ~(l.key = place.key /\ l.dup = place.dup)
        BY <1>3, <1>4, <1>6, <2>2
      <3>2. Before(place, l)
        BY <3>1, Order
      <3>3. ASSUME NEW e \in E, Before(place, e) PROVE ~Before(e, l)
        <4>1. ~Before(e, place)
          BY <1>3, <3>3, Order
        <4> QED BY <1>4, <2>2, <4>1
      <3> QED BY <3>1, <3>2, <3>3 DEF Nearest, Farther
    <2>3. land = {} => Nearest(E, "NEXT", place, Top)
      <3>1. ASSUME land = {}, NEW e \in E PROVE ~Before(place, e)
        BY <1>3, <1>4, <3>1, Order
      <3> QED BY <3>1 DEF Nearest, Farther
    <2> QED BY <1>1, <1>3, <2>1, <2>2, <2>3 DEF Delivers, EndOf
  <1> QED BY <1>5, <1>6

LEMMA PreviousDelivered ==
  ASSUME NEW i, Bounded(Entries(i)), NEW place, Keyed(place), Before(Zero, place)
  PROVE  Delivers(Entries(i), "PREVIOUS", place, NextEntry(i, place, "PREV"))
  <1>1. PICK E : E = Entries(i)
    OBVIOUS
  <1>2. PICK land : land = Landing(i, place)
    OBVIOUS
  <1>3. E \subseteq KeyEntry /\ land \subseteq E /\ \A e \in E : Keyed(e)
    BY <1>1, <1>2, LandingIs, EntryFacts DEF Bounded, Keyed
  <1>4. /\ \A l \in land : ~Before(l, place) /\ \A e \in E : ~Before(e, place) => ~Before(e, l)
        /\ land = {} => \A e \in E : Before(e, place)
    BY <1>1, <1>2, <1>3, LandingIs
  <1>5. PICK B : B = IF land = {} THEN E ELSE {d \in E : \A l \in land : Before(d, l)}
    OBVIOUS
  <1>6. NextEntry(i, place, "PREV") = GreatestOf(B)
    <2>1. CASE land = {}
      BY <1>1, <1>2, <1>5, <2>1 DEF NextEntry
    <2>2. CASE land # {}
      BY <1>1, <1>2, <1>5, <2>2 DEF NextEntry
    <2> QED BY <2>1, <2>2
  <1>7. B \subseteq E /\ \A d \in E : d \in B <=> Before(d, place)
    <2>1. CASE land = {}
      BY <1>4, <1>5, <2>1
    <2>2. CASE land # {}
      <3>1. PICK l \in land : TRUE
        BY <2>2
      <3>2. ASSUME NEW d \in E, d \in B PROVE Before(d, place)
        <4>1. Before(d, l)
          BY <1>5, <2>2, <3>1, <3>2
        <4> QED BY <1>4, <3>1, <4>1
      <3>3. ASSUME NEW d \in E, Before(d, place), NEW m \in land PROVE Before(d, m)
        <4>1. ~Before(m, place) /\ Keyed(m)
          BY <1>3, <1>4
        <4> QED BY <1>3, <3>3, <4>1, Order
      <3> QED BY <1>5, <2>2, <3>2, <3>3
    <2> QED BY <2>1, <2>2
  <1>8. \A d \in GreatestOf(B) : d \in E /\ Nearest(E, "PREVIOUS", place, d)
    BY <1>7 DEF GreatestOf, Nearest, Farther
  <1>9. GreatestOf(B) = {} => B = {}
    <2>1. Bounded(B)
      BY <1>1, <1>7, BoundedPart
    <2> QED BY <2>1, GreatestEntry
  <1>10. GreatestOf(B) = {} => Nearest(E, "PREVIOUS", place, Zero)
    BY <1>7, <1>9 DEF Nearest, Farther
  <1> QED BY <1>1, <1>6, <1>8, <1>10 DEF Delivers, EndOf

-----------------------------------------------------------------------------
(* The inductive invariant: where READ NEXT and READ PREVIOUS go on from.  *)

Updates == [step: Steps, kind: {"WRITE", "REWRITE", "DELETE", NONE}, key: Nat \cup {NONE},
            new: Values \cup {NONE}, rec: Record \cup {NONE}, old: Record \cup {NONE},
            todo: SUBSET Alternates, upd: SUBSET Alternates, lock: BOOLEAN]
Cursors == [idx: Indexes, place: [Indexes -> Entry], data: BOOLEAN]

\* What an update writes is a record.
WritesRecord(o) ==
  o.step # "idle" => /\ o.kind \in {"WRITE", "REWRITE", "DELETE"}
                     /\ (o.kind # "DELETE" => o.rec \in Record)
                     /\ (o.step \in {"put", "written"} => o.kind # "DELETE")

PlaceOf(p) == at[p].place[at[p].idx]
Within(p) == ~flags[p].eof /\ ~flags[p].bof

\* What the program knows is what the flags and the place say: the end that a
\* READ has come to, the record found by OPEN or START that is still to be
\* delivered, or the record last delivered.
Known(p) ==
  /\ known[p].idx = at[p].idx
  /\ flags[p].eof /\ ~flags[p].bof => known[p].e = Top
  /\ flags[p].bof /\ ~flags[p].eof => known[p].e = Zero
  /\ Within(p) => known[p].e = PlaceOf(p)
  /\ flags[p].first = 0 => known[p].due = FALSE /\ (Within(p) => known[p].e \in KeyEntry)
  /\ flags[p].first # 0 /\ Within(p) => \/ known[p].due = TRUE /\ known[p].e \in KeyEntry
                                        \/ flags[p].first = 2 /\ known[p].e = Zero
Where(p) == (mode[p] = "CLOSED" => known[p] = NONE) /\ (known[p] # NONE => Known(p))

PriOK == DOMAIN pri \subseteq Values /\ \A k \in DOMAIN pri : pri[k] \in Record
SecOK == \A i \in Alternates : Bounded(sec[i])
Misc == exists \in BOOLEAN /\ flock \in [Procs -> {"none", "read", "write"}] /\ high \in [Procs -> Nat]
OpsOK == op \in [Procs -> Updates] /\ \A p \in Procs : WritesRecord(op[p])
CursorOK == /\ flags \in [Procs -> Flags] /\ at \in [Procs -> Cursors] /\ known = [p \in Procs |-> known[p]]
            /\ \A p \in Procs : Where(p)

CInv == PriOK /\ SecOK /\ Misc /\ OpsOK /\ CursorOK

-----------------------------------------------------------------------------
(* The entries of the file.                                                *)

LEMMA IndexFacts == 0 \in Indexes /\ \A i \in Indexes : i = 0 \/ i \in Alternates
  BY NAssumption DEF Indexes, Alternates

LEMMA EntriesBounded ==
  ASSUME PriOK, SecOK, NEW i \in Indexes
  PROVE  Bounded(Entries(i))
  <1>1. CASE i = 0
    <2>1. ASSUME NEW e \in Entries(i) PROVE e \in KeyEntry /\ e.dup <= 0
      <3>1. PICK k \in DOMAIN pri : e = [key |-> k, prim |-> k, dup |-> 0]
        BY <1>1, <2>1 DEF Entries
      <3> QED BY <3>1 DEF PriOK, KeyEntry
    <2> QED BY <2>1 DEF Bounded
  <1>2. CASE i # 0
    <2>1. Entries(i) = sec[i] /\ i \in Alternates
      BY <1>2, IndexFacts DEF Entries
    <2> QED BY <2>1 DEF SecOK
  <1> QED BY <1>1, <1>2

LEMMA NextDupNat ==
  ASSUME SecOK, NEW i \in Alternates, NEW v
  PROVE  NextDup(i, v) \in Nat
  <1>1. PICK S : S = {d \in sec[i] : d.key = v}
    OBVIOUS
  <1>2. CASE S = {}
    <2>1. NextDup(i, v) = 1 + 0
      BY <1>1, <1>2 DEF NextDup
    <2> QED BY <2>1
  <1>3. CASE S # {}
    <2>1. Bounded(S) /\ S \subseteq KeyEntry
      BY <1>1, BoundedPart DEF SecOK, Bounded
    <2>2. GreatestOf(S) # {} /\ GreatestOf(S) \subseteq S
      BY <1>3, <2>1, GreatestEntry DEF GreatestOf
    <2>3. PICK e : e = CHOOSE x \in GreatestOf(S) : TRUE
      OBVIOUS
    <2>4. e \in KeyEntry
      BY <2>1, <2>2, <2>3
    <2>5. NextDup(i, v) = 1 + e.dup
      BY <1>1, <1>3, <2>3 DEF NextDup
    <2> QED BY <2>4, <2>5, EntryFacts
  <1> QED BY <1>2, <1>3

\* An entry is added.
LEMMA BoundedMore ==
  ASSUME NEW S, Bounded(S), NEW e \in KeyEntry
  PROVE  Bounded(S \cup {e})
  <1>1. S \subseteq KeyEntry
    BY DEF Bounded
  <1>2. PICK b \in Nat : \A d \in S : d.dup <= b
    BY DEF Bounded
  <1>3. e.dup \in Nat /\ \A d \in S : d.dup \in Nat
    BY <1>1, EntryFacts
  <1>4. PICK c : c = b + e.dup
    OBVIOUS
  <1>5. c \in Nat /\ \A d \in S \cup {e} : d.dup <= c
    BY <1>2, <1>3, <1>4
  <1> QED BY <1>1, <1>5 DEF Bounded

LEMMA BoundedEmpty == Bounded({})
  BY DEF Bounded

-----------------------------------------------------------------------------
(* The updates.                                                            *)

\* Run unit p has the update o now.
Becomes(p, o) == op' = [op EXCEPT ![p] = o] /\ o \in Updates /\ WritesRecord(o)

LEMMA IdleUpdate == Idle \in Updates /\ WritesRecord(Idle) /\ Idle.step = "idle"
  BY DEF Idle, Updates, WritesRecord, Steps

LEMMA OpsKept ==
  ASSUME OpsOK, NEW p \in Procs, NEW o, Becomes(p, o)
  PROVE  OpsOK'
  <1>1. op' \in [Procs -> Updates] /\ op'[p] = o /\ \A q \in Procs \ {p} : op'[q] = op[q]
    BY DEF Becomes, OpsOK
  <1> QED BY <1>1 DEF OpsOK, Becomes, WritesRecord

LEMMA EndsOps ==
  ASSUME OpsOK, NEW p \in Procs, NEW st, NEW stmt, Ends(p, st, stmt)
  PROVE  OpsOK'
  <1>1. Becomes(p, Idle)
    BY IdleUpdate DEF Ends, Becomes
  <1> QED BY <1>1, OpsKept

\* The next step of the update.
LEMMA StepSet ==
  ASSUME OpsOK, NEW p \in Procs, op[p].step # "idle", NEW s \in Steps, op' = [op EXCEPT ![p].step = s],
         s \in {"put", "written"} => op[p].kind # "DELETE"
  PROVE  OpsOK'
  <1>1. op[p] \in Updates /\ WritesRecord(op[p]) /\ op \in [Procs -> Updates]
    BY DEF OpsOK
  <1>2. PICK o : o = [op[p] EXCEPT !.step = s]
    OBVIOUS
  <1>3. o \in Updates /\ o.step = s /\ o.kind = op[p].kind /\ o.rec = op[p].rec
    BY <1>1, <1>2 DEF Updates
  <1>4. op' = [op EXCEPT ![p] = o]
    BY <1>1, <1>2
  <1>5. Becomes(p, o)
    BY <1>1, <1>3, <1>4 DEF Becomes, WritesRecord
  <1> QED BY <1>5, OpsKept

LEMMA TodoSet ==
  ASSUME OpsOK, NEW p \in Procs, NEW i, op' = [op EXCEPT ![p].todo = @ \ {i}]
  PROVE  OpsOK'
  <1>1. op[p] \in Updates /\ WritesRecord(op[p]) /\ op \in [Procs -> Updates]
    BY DEF OpsOK
  <1>2. PICK o : o = [op[p] EXCEPT !.todo = @ \ {i}]
    OBVIOUS
  <1>3. o \in Updates /\ o.step = op[p].step /\ o.kind = op[p].kind /\ o.rec = op[p].rec
    BY <1>1, <1>2 DEF Updates
  <1>4. op' = [op EXCEPT ![p] = o]
    BY <1>1, <1>2
  <1>5. Becomes(p, o)
    BY <1>1, <1>3, <1>4 DEF Becomes, WritesRecord
  <1> QED BY <1>5, OpsKept

LEMMA OpsFind ==
  ASSUME OpInv, OpsOK, PriOK, NEW p \in Procs, Find(p)
  PROVE  OpsOK'
  <1>1. op[p] \in Updates /\ WritesRecord(op[p]) /\ op \in [Procs -> Updates] /\ op[p].step = "tested"
    BY DEF OpsOK, Find
  <1>2. ASSUME NEW old \in Record, NEW upd, upd = Changed(p, old),
               op' = [op EXCEPT ![p].step = "del", ![p].old = old, ![p].upd = upd, ![p].todo = upd]
        PROVE  OpsOK'
    <2>1. upd \in SUBSET Alternates
      BY <1>2 DEF Changed
    <2>2. PICK o : o = [op[p] EXCEPT !.step = "del", !.old = old, !.upd = upd, !.todo = upd]
      OBVIOUS
    <2>3. o \in Updates /\ o.step = "del" /\ o.kind = op[p].kind /\ o.rec = op[p].rec
      BY <1>1, <2>1, <2>2 DEF Updates, Steps
    <2>4. op' = [op EXCEPT ![p] = o]
      BY <1>1, <1>2, <2>2
    <2>5. Becomes(p, o)
      BY <1>1, <2>3, <2>4 DEF Becomes, WritesRecord
    <2> QED BY <2>5, OpsKept
  <1>3. CASE op[p].key \in DOMAIN pri
    <2>1. PICK old : old = pri[op[p].key]
      OBVIOUS
    <2>2. old \in Record
      BY <1>3, <2>1 DEF PriOK
    <2>3. op' = [op EXCEPT ![p].step = "del", ![p].old = old, ![p].upd = Changed(p, old), ![p].todo = Changed(p, old)]
      BY <1>3, <2>1 DEF Find, Changed
    <2> QED BY <1>2, <2>2, <2>3
  <1>4. CASE op[p].key \notin DOMAIN pri /\ Access[p] # "SEQUENTIAL"
    <2>1. \E st : Ends(p, st, op[p].kind)
      BY <1>4 DEF Find
    <2> QED BY <2>1, EndsOps
  <1>5. CASE op[p].key \notin DOMAIN pri /\ Access[p] = "SEQUENTIAL"
    <2>1. PICK old \in Record : op' = [op EXCEPT ![p].step = "del", ![p].old = old, ![p].upd = Changed(p, old),
                                                 ![p].todo = Changed(p, old)]
      BY <1>5 DEF Find, Changed
    <2> QED BY <1>2, <2>1
  <1> QED BY <1>3, <1>4, <1>5

LEMMA OpsWriteRecord ==
  ASSUME OpInv, OpsOK, NEW p \in Procs, WriteRecord(p)
  PROVE  OpsOK' /\ op[p].rec \in Record /\ op[p].new \in Values
  <1>1. op[p] \in Updates /\ WritesRecord(op[p]) /\ op \in [Procs -> Updates] /\ OpOK(op[p])
    BY DEF OpsOK, OpInv
  <1>2. op[p].step \in {"ready", "gone"} /\ op[p].kind \in {"WRITE", "REWRITE"}
    BY <1>1 DEF WriteRecord, OpOK
  <1>3. op[p].rec \in Record /\ op[p].new \in Values
    BY <1>1, <1>2 DEF WritesRecord, OpOK
  <1>4. PICK T : T = {i \in Alternates : (op[p].kind = "REWRITE" => i \in op[p].upd) /\ op[p].rec[i] \notin Suppressed[i]}
    OBVIOUS
  <1>5. \/ \E st : Ends(p, st, op[p].kind)
        \/ op' = [op EXCEPT ![p].step = "put", ![p].todo = T]
    BY <1>4 DEF WriteRecord, Finish
  <1>6. CASE op' = [op EXCEPT ![p].step = "put", ![p].todo = T]
    <2>1. PICK o : o = [op[p] EXCEPT !.step = "put", !.todo = T]
      OBVIOUS
    <2>2. T \in SUBSET Alternates
      BY <1>4
    <2>3. o \in Updates /\ o.step = "put" /\ o.kind = op[p].kind /\ o.rec = op[p].rec
      BY <1>1, <2>1, <2>2 DEF Updates, Steps
    <2>4. op' = [op EXCEPT ![p] = o]
      BY <1>1, <1>6, <2>1
    <2>5. Becomes(p, o)
      BY <1>1, <1>2, <2>3, <2>4 DEF Becomes, WritesRecord
    <2> QED BY <1>3, <2>5, OpsKept
  <1> QED BY <1>3, <1>5, <1>6, EndsOps

LEMMA OpsStep ==
  ASSUME OpInv, OpsOK, PriOK, NEW p \in Procs, Step(p)
  PROVE  OpsOK'
  <1>1. CASE CheckAlternates(p)
    <2>1. op[p].step = "ready"
      BY <1>1 DEF CheckAlternates
    <2>2. (\E st, stmt : Ends(p, st, stmt)) \/ op' = [op EXCEPT ![p].step = "checked"]
      BY <1>1 DEF CheckAlternates
    <2>3. "checked" \in Steps
      BY DEF Steps
    <2> QED BY <2>1, <2>2, <2>3, EndsOps, StepSet
  <1>2. CASE TestLock(p)
    <2>1. op[p].step = "checked"
      BY <1>2 DEF TestLock
    <2>2. (\E st, stmt : Ends(p, st, stmt)) \/ op' = [op EXCEPT ![p].step = "tested"]
      BY <1>2 DEF TestLock
    <2>3. "tested" \in Steps
      BY DEF Steps
    <2> QED BY <2>1, <2>2, <2>3, EndsOps, StepSet
  <1>3. CASE Find(p)
    BY <1>3, OpsFind
  <1>4. CASE DeleteAlternate(p)
    <2>1. \E i : op' = [op EXCEPT ![p].todo = @ \ {i}]
      BY <1>4 DEF DeleteAlternate
    <2> QED BY <2>1, TodoSet
  <1>5. CASE DeletePrimary(p)
    <2>1. op[p].step = "del"
      BY <1>5 DEF DeletePrimary
    <2>2. (\E st, stmt : Ends(p, st, stmt)) \/ op' = [op EXCEPT ![p].step = "gone"]
      BY <1>5 DEF DeletePrimary
    <2>3. "gone" \in Steps
      BY DEF Steps
    <2> QED BY <2>1, <2>2, <2>3, EndsOps, StepSet
  <1>6. CASE WriteRecord(p)
    BY <1>6, OpsWriteRecord
  <1>7. CASE WriteAlternate(p)
    <2>1. (\E st, stmt : Ends(p, st, stmt)) \/ \E i : op' = [op EXCEPT ![p].todo = @ \ {i}]
      BY <1>7 DEF WriteAlternate, Finish
    <2> QED BY <2>1, EndsOps, TodoSet
  <1>8. CASE CloseCursor(p)
    <2>1. op[p].step = "put" /\ op[p].kind # "DELETE"
      BY <1>8 DEF CloseCursor, OpsOK, WritesRecord
    <2>2. (\E st, stmt : Ends(p, st, stmt)) \/ op' = [op EXCEPT ![p].step = "written"]
      BY <1>8 DEF CloseCursor, Finish
    <2>3. "written" \in Steps
      BY DEF Steps
    <2> QED BY <2>1, <2>2, <2>3, EndsOps, StepSet
  <1>9. CASE LockNew(p)
    <2>1. \E st, stmt : Ends(p, st, stmt)
      BY <1>9 DEF LockNew, Finish
    <2> QED BY <2>1, EndsOps
  <1> QED BY <1>1, <1>2, <1>3, <1>4, <1>5, <1>6, <1>7, <1>8, <1>9 DEF Step

-----------------------------------------------------------------------------
(* The records and entries.                                                *)

LEMMA DataStep ==
  ASSUME OpInv, DataTypes, OpsOK, PriOK, SecOK, NEW p \in Procs, Step(p)
  PROVE  PriOK' /\ SecOK'
  <1>1. CASE CheckAlternates(p) \/ TestLock(p) \/ Find(p) \/ CloseCursor(p) \/ LockNew(p)
    <2>1. UNCHANGED <<pri, sec>>
      BY <1>1 DEF CheckAlternates, TestLock, Find, CloseCursor, LockNew, file
    <2> QED BY <2>1 DEF PriOK, SecOK, Bounded
  <1>2. CASE DeletePrimary(p)
    <2>1. UNCHANGED sec /\ pri' = [k \in DOMAIN pri \ {op[p].key} |-> pri[k]]
      BY <1>2 DEF DeletePrimary
    <2> QED BY <2>1 DEF PriOK, SecOK, Bounded
  <1>3. CASE WriteRecord(p)
    <2>1. UNCHANGED sec
      BY <1>3 DEF WriteRecord
    <2>2. op[p].rec \in Record /\ op[p].new \in Values
      BY <1>3, OpsWriteRecord
    <2>3. PriOK'
      <3>1. CASE NotWritten(p)
        BY <3>1 DEF NotWritten, PriOK
      <3>2. CASE Written(p)
        BY <2>2, <3>2 DEF Written, PriOK
      <3> QED BY <1>3, <3>1, <3>2, WriteCases
    <2> QED BY <2>1, <2>3 DEF SecOK, Bounded
  <1>4. CASE DeleteAlternate(p)
    <2>1. UNCHANGED pri /\ \E i, gone : sec' = [sec EXCEPT ![i] = @ \ gone]
      BY <1>4 DEF DeleteAlternate
    <2>2. \A j \in Alternates : sec'[j] \subseteq sec[j]
      BY <2>1 DEF DataTypes
    <2>3. \A j \in Alternates : Bounded(sec'[j])
      BY <2>2, BoundedPart DEF SecOK
    <2> QED BY <2>1, <2>3 DEF PriOK, SecOK, Bounded
  <1>5. CASE WriteAlternate(p)
    <2>1. PICK i, v, new : i = First(op[p].todo) /\ v = op[p].rec[i] /\ new = op[p].new
      OBVIOUS
    <2>2. op[p].step = "put" /\ op[p].todo # {} /\ OpOK(op[p]) /\ UNCHANGED pri /\ WritesRecord(op[p])
      BY <1>5 DEF WriteAlternate, OpInv, OpsOK
    <2>3. i \in Alternates /\ new \in Values /\ v \in Values
      <3>1. i \in Alternates
        BY <2>1, <2>2, FirstIn DEF OpOK
      <3>2. op[p].rec \in Record /\ new \in Values
        BY <2>1, <2>2 DEF WritesRecord, OpOK
      <3> QED BY <2>1, <3>1, <3>2 DEF Record
    <2>4. PICK d : d = IF i \in Dups THEN NextDup(i, v) ELSE 0
      OBVIOUS
    <2>5. d \in Nat
      BY <2>3, <2>4, NextDupNat
    <2>6. PICK entry : entry = [key |-> v, prim |-> new, dup |-> d]
      OBVIOUS
    <2>7. entry \in KeyEntry
      BY <2>3, <2>5, <2>6 DEF KeyEntry
    <2>8. UNCHANGED sec \/ sec' = [sec EXCEPT ![i] = @ \cup {entry}]
      BY <1>5, <2>1, <2>4, <2>6 DEF WriteAlternate
    <2>9. \A j \in Alternates : sec'[j] = sec[j] \/ sec'[j] = sec[j] \cup {entry}
      BY <2>8 DEF DataTypes
    <2>10. \A j \in Alternates : Bounded(sec'[j])
      BY <2>7, <2>9, BoundedMore DEF SecOK
    <2> QED BY <2>2, <2>10 DEF PriOK, SecOK, Bounded
  <1> QED BY <1>1, <1>2, <1>3, <1>4, <1>5 DEF Step

LEMMA DataStatement ==
  ASSUME LockInv, OpInv, DataTypes, PriOK, SecOK, NEW p \in Procs, Statement(p)
  PROVE  PriOK' /\ SecOK'
  <1>1. CASE UNCHANGED <<pri, sec>>
    BY <1>1 DEF PriOK, SecOK, Bounded
  <1>2. CASE \E m \in Modes[p] : Open(p, m)
    <2>1. \/ UNCHANGED <<pri, sec>>
          \/ pri' = [k \in {} |-> NONE] /\ sec' = [i \in Alternates |-> {}]
      BY <1>2 DEF Open
    <2>2. ASSUME pri' = [k \in {} |-> NONE], sec' = [i \in Alternates |-> {}] PROVE PriOK' /\ SecOK'
      <3>1. DOMAIN pri' = {} /\ \A i \in Alternates : sec'[i] = {}
        BY <2>2
      <3>2. PriOK'
        BY <3>1 DEF PriOK
      <3>3. SecOK'
        BY <3>1 DEF SecOK, Bounded
      <3> QED BY <3>2, <3>3
    <2> QED BY <1>1, <2>1, <2>2
  <1>3. CASE ~\E m \in Modes[p] : Open(p, m)
    <2>1. UNCHANGED <<pri, sec>>
      BY <1>3, BegunStatement DEF Begun
    <2> QED BY <1>1, <2>1
  <1> QED BY <1>2, <1>3

-----------------------------------------------------------------------------
(* The statements, one by one.                                             *)

\* What a statement leaves of the cursor of run unit q.
WhereSame(q) ==
  /\ mode'[q] = mode[q] /\ known'[q] = known[q] /\ at'[q].idx = at[q].idx /\ at'[q].place = at[q].place
  /\ flags'[q].first = flags[q].first /\ flags'[q].eof = flags[q].eof /\ flags'[q].bof = flags[q].bof

LEMMA WhereKept ==
  ASSUME NEW q, Where(q), WhereSame(q)
  PROVE  Where(q)'
  <1>1. Known(q) => Known(q)'
    BY DEF WhereSame, Known, Within, PlaceOf, Zero, Top
  <1> QED BY <1>1 DEF Where, WhereSame

\* The cursor of p is where it should be, those of the others stay.
LEMMA CursorSet ==
  ASSUME CursorOK, LockTypes, NEW p \in Procs, NEW m, NEW f \in Flags, NEW a \in Cursors, NEW k,
         mode' = [mode EXCEPT ![p] = m], flags' = [flags EXCEPT ![p] = f], at' = [at EXCEPT ![p] = a],
         known' = [known EXCEPT ![p] = k], Where(p)'
  PROVE  CursorOK'
  <1>1. /\ flags \in [Procs -> Flags] /\ at \in [Procs -> Cursors] /\ known = [q \in Procs |-> known[q]]
        /\ mode \in [Procs -> OpenModes \cup {"CLOSED"}]
    BY DEF CursorOK, LockTypes
  <1>2. flags' \in [Procs -> Flags] /\ at' \in [Procs -> Cursors] /\ known' = [q \in Procs |-> known'[q]]
    BY <1>1
  <1>3. \A q \in Procs \ {p} : WhereSame(q)
    BY <1>1 DEF WhereSame
  <1>4. \A q \in Procs : Where(q)'
    BY <1>3, WhereKept DEF CursorOK
  <1> QED BY <1>2, <1>4 DEF CursorOK

\* The cursor of p stays, but for what p->data points to and whether the last
\* statement was a READ.
LEMMA CursorKept ==
  ASSUME CursorOK, LockTypes, NEW p \in Procs, UNCHANGED <<mode, known>>,
         UNCHANGED flags \/ flags' = [flags EXCEPT ![p].readDone = FALSE],
         UNCHANGED at \/ at' = [at EXCEPT ![p].data = TRUE]
  PROVE  CursorOK'
  <1>1. /\ flags \in [Procs -> Flags] /\ at \in [Procs -> Cursors] /\ known = [q \in Procs |-> known[q]]
    BY DEF CursorOK
  <1>2. flags' \in [Procs -> Flags] /\ at' \in [Procs -> Cursors]
    <2>1. flags' \in [Procs -> Flags]
      BY <1>1, ZenonT(60) DEF Flags
    <2>2. at' \in [Procs -> Cursors]
      BY <1>1, ZenonT(60) DEF Cursors
    <2> QED BY <2>1, <2>2
  <1>3. ASSUME NEW q \in Procs PROVE WhereSame(q)
    <2>1. at'[q].idx = at[q].idx /\ at'[q].place = at[q].place
      BY <1>1 DEF Cursors
    <2>2. flags'[q].first = flags[q].first /\ flags'[q].eof = flags[q].eof /\ flags'[q].bof = flags[q].bof
      BY <1>1 DEF Flags
    <2> QED BY <2>1, <2>2 DEF WhereSame
  <1>4. \A q \in Procs : Where(q)'
    BY <1>3, WhereKept DEF CursorOK
  <1> QED BY <1>1, <1>2, <1>4 DEF CursorOK

\* The cursor is moved to an entry.
MovedPlace(p, i, e, a) == a \in Cursors /\ a.idx = i /\ a.place[i] = e /\ a.data = TRUE

LEMMA Moved ==
  ASSUME CursorOK, NEW p \in Procs, NEW i \in Indexes, NEW e \in Entry
  PROVE  \E a : MovedPlace(p, i, e, a) /\ MovedTo(p, i, e) = [at EXCEPT ![p] = a]
  <1>1. at \in [Procs -> Cursors]
    BY DEF CursorOK
  <1>2. PICK c \in Cursors : c = at[p]
    BY <1>1
  <1>3. PICK a : a = [c EXCEPT !.idx = i, !.data = TRUE, !.place[i] = e]
    OBVIOUS
  <1>4. PICK pl : pl = [c.place EXCEPT ![i] = e]
    OBVIOUS
  <1>5. pl \in [Indexes -> Entry] /\ pl[i] = e
    BY <1>4 DEF Cursors
  <1>6. a.idx = i /\ a.data = TRUE /\ a.place = pl
    BY <1>3, <1>4 DEF Cursors
  <1>7. a = [c EXCEPT !.idx = i, !.data = TRUE, !.place = pl]
    BY <1>3, <1>4 DEF Cursors
  <1>8. a \in Cursors
    BY <1>5, <1>7 DEF Cursors
  <1>9. MovedTo(p, i, e) = [at EXCEPT ![p] = a]
    BY <1>1, <1>2, <1>3 DEF MovedTo
  <1> QED BY <1>5, <1>6, <1>8, <1>9 DEF MovedPlace

\* The key of reference is switched.
LEMMA SwitchedIs ==
  ASSUME CursorOK, NEW p \in Procs, NEW i \in Indexes, NEW cond, NEW v
  PROVE  \E a \in Cursors : Switched(p, i, cond, v) = [at EXCEPT ![p] = a] /\ a.idx = i /\ a.place = at[p].place
  <1>1. at \in [Procs -> Cursors]
    BY DEF CursorOK
  <1>2. PICK c \in Cursors : c = at[p]
    BY <1>1
  <1>3. PICK S : S = IF cond \in {"EQ", "GE", "GT"} THEN {e \in Entries(i) : e.key >= v} ELSE Entries(i)
    OBVIOUS
  <1>4. PICK a : a = [c EXCEPT !.idx = i, !.data = @ \/ S # {}]
    OBVIOUS
  <1>5. PICK dt \in BOOLEAN : dt = (c.data \/ S # {})
    OBVIOUS
  <1>6. a = [c EXCEPT !.idx = i, !.data = dt]
    BY <1>4, <1>5
  <1>7. a \in Cursors /\ a.idx = i /\ a.place = c.place
    BY <1>6 DEF Cursors
  <1>8. Switched(p, i, cond, v) = [at EXCEPT ![p] = a]
    BY <1>1, <1>2, <1>3, <1>4 DEF Switched
  <1> QED BY <1>2, <1>7, <1>8

LEMMA StartEntryIn ==
  ASSUME NEW i, NEW cond \in Conditions, NEW v
  PROVE  Reaches(i, StartEntry(i, cond, v)) \subseteq Entries(i)
  <1>1. StartEntry(i, cond, v) \subseteq Entries(i)
    <2>1. CASE cond = "EQ"
      BY <2>1 DEF StartEntry, LeastOf
    <2>2. CASE cond = "GE"
      BY <2>2 DEF StartEntry, LeastOf
    <2>3. CASE cond = "GT"
      BY <2>3 DEF StartEntry, LeastOf
    <2>4. CASE cond = "LT"
      BY <2>4 DEF StartEntry, GreatestOf
    <2>5. CASE cond = "LE"
      BY <2>5 DEF StartEntry, LeastOf, GreatestOf
    <2>6. CASE cond = "FI"
      BY <2>6 DEF StartEntry, LeastOf
    <2>7. CASE cond = "LA"
      BY <2>7 DEF StartEntry, GreatestOf
    <2> QED BY <2>1, <2>2, <2>3, <2>4, <2>5, <2>6, <2>7 DEF Conditions
  <1> QED BY <1>1 DEF Reaches

LEMMA NextEntryIn ==
  ASSUME NEW i, NEW place, NEW move \in {"FIRST", "LAST", "PREV", "NEXT"}
  PROVE  NextEntry(i, place, move) \subseteq Entries(i)
  <1>1. PICK E : E = Entries(i)
    OBVIOUS
  <1>2. PICK land : land = Landing(i, place)
    OBVIOUS
  <1>3. land \subseteq E
    BY <1>1, <1>2 DEF Landing, LeastOf
  <1>4. \A S \in SUBSET E : LeastOf(S) \subseteq E /\ GreatestOf(S) \subseteq E
    BY DEF LeastOf, GreatestOf
  <1>5. CASE move = "FIRST"
    BY <1>1, <1>4, <1>5 DEF NextEntry
  <1>6. CASE move = "LAST"
    BY <1>1, <1>4, <1>6 DEF NextEntry
  <1>7. CASE move = "PREV" /\ land = {}
    BY <1>1, <1>2, <1>4, <1>7 DEF NextEntry
  <1>8. CASE move = "PREV" /\ land # {}
    <2>1. PICK S : S = {e \in E : \A d \in land : Before(e, d)}
      OBVIOUS
    <2>2. NextEntry(i, place, move) = GreatestOf(S)
      BY <1>1, <1>2, <1>8, <2>1 DEF NextEntry
    <2>3. S \in SUBSET E
      BY <2>1
    <2> QED BY <1>1, <1>4, <2>2, <2>3
  <1>9. CASE move = "NEXT" /\ \E e \in land : e.key = place.key /\ e.dup = place.dup
    <2>1. PICK S : S = {e \in E : \A d \in land : Before(d, e)}
      OBVIOUS
    <2>2. NextEntry(i, place, move) = LeastOf(S)
      BY <1>1, <1>2, <1>9, <2>1 DEF NextEntry
    <2>3. S \in SUBSET E
      BY <2>1
    <2> QED BY <1>1, <1>4, <2>2, <2>3
  <1>10. CASE move = "NEXT" /\ ~\E e \in land : e.key = place.key /\ e.dup = place.dup
    <2>1. NextEntry(i, place, move) = land
      BY <1>1, <1>2, <1>10 DEF NextEntry
    <2> QED BY <1>1, <1>3, <2>1
  <1> QED BY <1>5, <1>6, <1>7, <1>8, <1>9, <1>10

LEMMA ComesIn ==
  ASSUME NEW p, NEW stmt \in {"NEXT", "PREVIOUS"}
  PROVE  Comes(p, stmt) \subseteq Entries(at[p].idx)
  <1>1. PICK i : i = at[p].idx
    OBVIOUS
  <1>2. PICK move : move = Move(p, stmt)
    OBVIOUS
  <1>3. move \in {"FIRST", "LAST", "PREV", "NEXT"}
    BY <1>2 DEF Move
  <1>4. NextEntry(i, at[p].place[i], move) \subseteq Entries(i)
    BY <1>3, NextEntryIn
  <1>5. Reaches(i, {at[p].place[i]} \cap Entries(i)) \subseteq Entries(i)
    BY DEF Reaches
  <1> QED BY <1>1, <1>2, <1>4, <1>5 DEF Comes

\* The flags of p.
FlagsOf(f, first, eof, bof, done) == f.first = first /\ f.eof = eof /\ f.bof = bof /\ f.readDone = done

LEMMA ModeSame ==
  ASSUME LockTypes, NEW p \in Procs
  PROVE  mode = [mode EXCEPT ![p] = mode[p]]
  BY DEF LockTypes

LEMMA CursorSame ==
  ASSUME CursorOK, NEW p \in Procs
  PROVE  /\ at = [at EXCEPT ![p] = at[p]] /\ at[p] \in Cursors
         /\ flags = [flags EXCEPT ![p] = flags[p]] /\ flags[p] \in Flags
         /\ known = [known EXCEPT ![p] = known[p]]
  BY DEF CursorOK

LEMMA CursorOpen ==
  ASSUME CursorOK, LockTypes, PriOK, SecOK, NEW p \in Procs, NEW m \in OpenModes, Open(p, m)
  PROVE  CursorOK'
  <1>1. PICK first : first = IF m = "OUTPUT" THEN {} ELSE LeastOf(Entries(0))
    OBVIOUS
  <1>2. PICK place : place = IF first = {} THEN Zero ELSE CHOOSE e \in first : TRUE
    OBVIOUS
  <1>3. first \subseteq KeyEntry
    <2>1. Entries(0) \subseteq KeyEntry
      BY IndexFacts, EntriesBounded DEF Bounded
    <2> QED BY <1>1, <2>1 DEF LeastOf
  <1>4. (first # {} => place \in KeyEntry) /\ (first = {} => place = Zero)
    BY <1>2, <1>3
  <1>5. Zero \in Entry /\ place \in Entry
    BY <1>4, EntryFacts DEF Zero, Entry
  <1>a. PICK f : f = [first |-> 2, eof |-> FALSE, bof |-> FALSE, readDone |-> FALSE]
    OBVIOUS
  <1>6. f \in Flags /\ FlagsOf(f, 2, FALSE, FALSE, FALSE)
    BY <1>a DEF Flags, FlagsOf
  <1>7. PICK pl : pl = [i \in Indexes |-> IF i = 0 THEN place ELSE Zero]
    OBVIOUS
  <1>8. pl \in [Indexes -> Entry] /\ pl[0] = place
    BY <1>5, <1>7, IndexFacts
  <1>9. PICK a : a = [idx |-> 0, data |-> first # {}, place |-> pl]
    OBVIOUS
  <1>10. a \in Cursors /\ a.idx = 0 /\ a.place = pl
    BY <1>8, <1>9, IndexFacts DEF Cursors
  <1>11. PICK k : k = [idx |-> 0, e |-> place, due |-> first # {}]
    OBVIOUS
  <1>12. /\ mode' = [mode EXCEPT ![p] = m] /\ flags' = [flags EXCEPT ![p] = f]
         /\ at' = [at EXCEPT ![p] = a] /\ known' = [known EXCEPT ![p] = k]
    BY <1>1, <1>2, <1>a, <1>7, <1>9, <1>11 DEF Open
  <1>13. mode'[p] = m /\ flags'[p] = f /\ at'[p] = a /\ known'[p] = k
    BY <1>12 DEF CursorOK, LockTypes
  <1>14. k.idx = 0 /\ k.e = place /\ (k.due = TRUE <=> first # {})
    BY <1>11
  <1>15. first # {} => k.due = TRUE
    BY <1>11
  <1>16. Known(p)'
    BY <1>4, <1>6, <1>8, <1>10, <1>13, <1>14, <1>15 DEF Known, Within, PlaceOf, FlagsOf
  <1>17. Where(p)'
    BY <1>13, <1>16 DEF Where, OpenModes
  <1> QED BY <1>6, <1>10, <1>12, <1>17, CursorSet

LEMMA CursorOpenFails ==
  ASSUME CursorOK, LockTypes, NEW p \in Procs, NEW m, OpenFails(p, m)
  PROVE  CursorOK'
  <1>1. PICK f : f = [first |-> 2, eof |-> FALSE, bof |-> FALSE, readDone |-> FALSE]
    OBVIOUS
  <1>a. f \in Flags
    BY <1>1 DEF Flags
  <1>2. mode' = mode /\ flags' = [flags EXCEPT ![p] = f] /\ at' = at /\ known' = known /\ mode[p] = "CLOSED"
    BY <1>1 DEF OpenFails
  <1>3. known[p] = NONE
    BY <1>2 DEF CursorOK, Where
  <1>4. Where(p)'
    BY <1>2, <1>3 DEF Where
  <1>5. mode' = [mode EXCEPT ![p] = mode[p]] /\ at' = [at EXCEPT ![p] = at[p]] /\ at[p] \in Cursors
        /\ known' = [known EXCEPT ![p] = known[p]]
    BY <1>2, ModeSame, CursorSame
  <1> QED BY <1>a, <1>2, <1>4, <1>5, CursorSet

LEMMA CursorClose ==
  ASSUME CursorOK, LockTypes, NEW p \in Procs, Close(p)
  PROVE  CursorOK'
  <1>1. /\ mode' = [mode EXCEPT ![p] = "CLOSED"] /\ known' = [known EXCEPT ![p] = NONE] /\ at' = at
        /\ flags' = [flags EXCEPT ![p].readDone = FALSE]
    BY DEF Close
  <1>2. PICK f : f = [flags[p] EXCEPT !.readDone = FALSE]
    OBVIOUS
  <1>3. f \in Flags /\ flags' = [flags EXCEPT ![p] = f]
    BY <1>1, <1>2 DEF CursorOK, Flags
  <1>4. known'[p] = NONE
    BY <1>1 DEF CursorOK
  <1>5. Where(p)'
    BY <1>4 DEF Where
  <1>6. at' = [at EXCEPT ![p] = at[p]] /\ at[p] \in Cursors
    BY <1>1, CursorSame
  <1> QED BY <1>1, <1>3, <1>5, <1>6, CursorSet

\* The cursor of p is at the entry e of index i.
LEMMA CursorAt ==
  ASSUME CursorOK, LockTypes, NEW p \in Procs, NEW i \in Indexes, NEW e \in KeyEntry, NEW f \in Flags, NEW first,
         NEW done, FlagsOf(f, first, FALSE, FALSE, done), NEW due \in BOOLEAN, mode[p] # "CLOSED", UNCHANGED mode,
         (first = 0 /\ due = FALSE) \/ (first = 1 /\ due = TRUE),
         flags' = [flags EXCEPT ![p] = f], at' = MovedTo(p, i, e),
         known' = [known EXCEPT ![p] = [idx |-> i, e |-> e, due |-> due]]
  PROVE  CursorOK'
  <1>1. e \in Entry
    BY EntryFacts
  <1>2. PICK a : MovedPlace(p, i, e, a) /\ at' = [at EXCEPT ![p] = a]
    BY <1>1, Moved
  <1>3. PICK k : k = [idx |-> i, e |-> e, due |-> due]
    OBVIOUS
  <1>4. known' = [known EXCEPT ![p] = k] /\ k.idx = i /\ k.e = e /\ k.due = due
    BY <1>3
  <1>5. flags'[p] = f /\ at'[p] = a /\ known'[p] = k
    BY <1>2, <1>4 DEF CursorOK
  <1>6. Known(p)'
    BY <1>2, <1>4, <1>5 DEF Known, Within, PlaceOf, FlagsOf, MovedPlace
  <1>7. Where(p)'
    BY <1>6 DEF Where
  <1>8. a \in Cursors /\ mode' = [mode EXCEPT ![p] = mode[p]]
    BY <1>2, ModeSame DEF MovedPlace
  <1> QED BY <1>2, <1>4, <1>7, <1>8, CursorSet

\* Nothing is known of the cursor.
LEMMA CursorLost ==
  ASSUME CursorOK, LockTypes, NEW p \in Procs, NEW i \in Indexes, NEW cond, NEW v, NEW f \in Flags, UNCHANGED mode,
         flags' = [flags EXCEPT ![p] = f], at' = Switched(p, i, cond, v), known' = [known EXCEPT ![p] = NONE]
  PROVE  CursorOK'
  <1>1. PICK a \in Cursors : at' = [at EXCEPT ![p] = a]
    BY SwitchedIs
  <1>2. known'[p] = NONE
    BY DEF CursorOK
  <1>3. Where(p)'
    BY <1>2 DEF Where
  <1>4. mode' = [mode EXCEPT ![p] = mode[p]]
    BY ModeSame
  <1> QED BY <1>1, <1>3, <1>4, CursorSet

LEMMA CursorCobStart ==
  ASSUME CursorOK, LockTypes, PriOK, SecOK, NEW p \in Procs, NEW i \in Indexes, NEW cond \in Conditions, NEW v,
         CobStart(p, i, cond, v)
  PROVE  CursorOK'
  <1>1. UNCHANGED mode /\ mode[p] # "CLOSED"
    BY DEF CobStart, MayRead
  <1>2. PICK found : found = Reaches(i, StartEntry(i, cond, v))
    OBVIOUS
  <1>3. found \subseteq KeyEntry
    BY <1>2, StartEntryIn, EntriesBounded DEF Bounded
  <1>4. ASSUME NEW e \in found, at' = MovedTo(p, i, e),
               flags' = [flags EXCEPT ![p] = [first |-> 1, eof |-> FALSE, bof |-> FALSE, readDone |-> FALSE]],
               known' = [known EXCEPT ![p] = [idx |-> i, e |-> e, due |-> TRUE]]
        PROVE  CursorOK'
    <2>1. PICK f : f = [first |-> 1, eof |-> FALSE, bof |-> FALSE, readDone |-> FALSE]
      OBVIOUS
    <2>2. e \in KeyEntry /\ flags' = [flags EXCEPT ![p] = f]
      BY <1>3, <1>4, <2>1
    <2>3. f \in Flags /\ FlagsOf(f, 1, FALSE, FALSE, FALSE)
      BY <2>1 DEF Flags, FlagsOf
    <2> QED BY <1>1, <1>4, <2>2, <2>3, CursorAt
  <1>5. CASE /\ at' = Switched(p, i, cond, v) /\ known' = [known EXCEPT ![p] = NONE]
             /\ flags' = [flags EXCEPT ![p] = [first |-> 1, eof |-> TRUE, bof |-> FALSE, readDone |-> FALSE]]
    <2>1. PICK f : f = [first |-> 1, eof |-> TRUE, bof |-> FALSE, readDone |-> FALSE]
      OBVIOUS
    <2>2. f \in Flags
      BY <2>1 DEF Flags
    <2> QED BY <1>1, <1>5, <2>1, <2>2, CursorLost
  <1> QED BY <1>2, <1>4, <1>5 DEF CobStart

LEMMA ReadDoneIs ==
  ASSUME NEW p, ReadDone(p)
  PROVE  \E f \in Flags : flags' = [flags EXCEPT ![p] = f] /\ FlagsOf(f, 0, FALSE, FALSE, TRUE)
  <1>1. PICK f : f = [first |-> 0, eof |-> FALSE, bof |-> FALSE, readDone |-> TRUE]
    OBVIOUS
  <1>2. f \in Flags /\ FlagsOf(f, 0, FALSE, FALSE, TRUE)
    BY <1>1 DEF Flags, FlagsOf
  <1>3. flags' = [flags EXCEPT ![p] = f]
    BY <1>1 DEF ReadDone
  <1> QED BY <1>2, <1>3

LEMMA ReadDoneFalse ==
  ASSUME CursorOK, NEW p \in Procs, flags' = [flags EXCEPT ![p].readDone = FALSE]
  PROVE  \E f \in Flags : flags' = [flags EXCEPT ![p] = f]
  <1>1. PICK f : f = [flags[p] EXCEPT !.readDone = FALSE]
    OBVIOUS
  <1>2. f \in Flags /\ flags' = [flags EXCEPT ![p] = f]
    BY <1>1 DEF CursorOK, Flags
  <1> QED BY <1>2

LEMMA CursorCobRead ==
  ASSUME CursorOK, LockTypes, PriOK, SecOK, NEW p \in Procs, NEW i \in Indexes, NEW v, NEW opt, CobRead(p, i, v, opt)
  PROVE  CursorOK'
  <1>1. UNCHANGED mode /\ mode[p] # "CLOSED"
    BY DEF CobRead, MayRead
  <1>2. PICK found : found = Reaches(i, StartEntry(i, "EQ", v))
    OBVIOUS
  <1>3. found \subseteq KeyEntry
    <2>1. "EQ" \in Conditions
      BY DEF Conditions
    <2> QED BY <1>2, <2>1, StartEntryIn, EntriesBounded DEF Bounded
  <1>4. ASSUME NEW e \in found, at' = MovedTo(p, i, e), ReadDone(p),
               known' = [known EXCEPT ![p] = [idx |-> i, e |-> e, due |-> FALSE]]
        PROVE  CursorOK'
    <2>1. PICK f \in Flags : flags' = [flags EXCEPT ![p] = f] /\ FlagsOf(f, 0, FALSE, FALSE, TRUE)
      BY <1>4, ReadDoneIs
    <2> QED BY <1>1, <1>3, <1>4, <2>1, CursorAt
  <1>5. CASE /\ at' = Switched(p, i, "EQ", v) /\ known' = [known EXCEPT ![p] = NONE]
             /\ flags' = [flags EXCEPT ![p].readDone = FALSE]
    BY <1>1, <1>5, ReadDoneFalse, CursorLost
  <1> QED BY <1>2, <1>4, <1>5 DEF CobRead

LEMMA CursorCobReadNext ==
  ASSUME CursorOK, LockTypes, PriOK, SecOK, NEW p \in Procs, NEW stmt \in {"NEXT", "PREVIOUS"}, NEW opt,
         CobReadNext(p, stmt, opt)
  PROVE  CursorOK'
  <1>1. UNCHANGED mode /\ mode[p] # "CLOSED"
    BY DEF CobReadNext, MayRead
  <1>2. PICK i, found : i = at[p].idx /\ found = Comes(p, stmt)
    OBVIOUS
  <1>3. i \in Indexes /\ found \subseteq KeyEntry /\ Reaches(i, found) \subseteq found
    <2>1. i \in Indexes
      BY <1>2, CursorSame DEF Cursors
    <2>2. Entries(i) \subseteq KeyEntry
      BY <2>1, EntriesBounded DEF Bounded
    <2> QED BY <1>2, <2>1, <2>2, ComesIn DEF Reaches
  <1>4. ASSUME NEW e \in found, at' = MovedTo(p, i, e), ReadDone(p),
               known' = [known EXCEPT ![p] = [idx |-> i, e |-> e, due |-> FALSE]]
        PROVE  CursorOK'
    <2>1. PICK f \in Flags : flags' = [flags EXCEPT ![p] = f] /\ FlagsOf(f, 0, FALSE, FALSE, TRUE)
      BY <1>4, ReadDoneIs
    <2> QED BY <1>1, <1>3, <1>4, <2>1, CursorAt
  <1>5. CASE flags' = [flags EXCEPT ![p].readDone = FALSE] /\ UNCHANGED <<at, known>>
    BY <1>1, <1>5, CursorKept
  <1>6. CASE /\ flags' = IF stmt = "NEXT" THEN [flags EXCEPT ![p].eof = TRUE, ![p].readDone = FALSE]
                         ELSE [flags EXCEPT ![p].bof = TRUE, ![p].readDone = FALSE]
             /\ known' = [known EXCEPT ![p] = [idx |-> i, e |-> IF stmt = "NEXT" THEN Top ELSE Zero, due |-> FALSE]]
             /\ UNCHANGED at
    <2>1. PICK g \in Flags : g = flags[p]
      BY CursorSame
    <2>2. PICK f : f = IF stmt = "NEXT" THEN [g EXCEPT !.eof = TRUE, !.readDone = FALSE]
                       ELSE [g EXCEPT !.bof = TRUE, !.readDone = FALSE]
      OBVIOUS
    <2>3. f \in Flags /\ (stmt = "NEXT" => f.eof = TRUE) /\ (stmt # "NEXT" => f.bof = TRUE)
      BY <2>2 DEF Flags
    <2>4. flags' = [flags EXCEPT ![p] = f]
      <3>1. flags \in [Procs -> Flags]
        BY DEF CursorOK
      <3>2. CASE stmt = "NEXT"
        BY <1>6, <2>1, <2>2, <3>1, <3>2
      <3>3. CASE stmt # "NEXT"
        BY <1>6, <2>1, <2>2, <3>1, <3>3
      <3> QED BY <3>2, <3>3
    <2>5. PICK k : k = [idx |-> i, e |-> EndOf(stmt), due |-> FALSE]
      OBVIOUS
    <2>6. known' = [known EXCEPT ![p] = k] /\ k.idx = i /\ k.e = EndOf(stmt) /\ k.due = FALSE
      BY <1>6, <2>5 DEF EndOf
    <2>7. flags'[p] = f /\ at'[p] = at[p] /\ known'[p] = k
      BY <1>6, <2>4, <2>6 DEF CursorOK
    <2>8. Known(p)'
      BY <1>2, <2>3, <2>6, <2>7 DEF Known, Within, PlaceOf, EndOf
    <2>9. Where(p)'
      BY <1>1, <2>8 DEF Where
    <2>10. mode' = [mode EXCEPT ![p] = mode[p]] /\ at' = [at EXCEPT ![p] = at[p]] /\ at[p] \in Cursors
      BY <1>1, <1>6, ModeSame, CursorSame
    <2> QED BY <2>3, <2>4, <2>6, <2>9, <2>10, CursorSet
  <1> QED BY <1>2, <1>3, <1>4, <1>5, <1>6 DEF CobReadNext

LEMMA CursorStatement ==
  ASSUME CursorOK, LockTypes, PriOK, SecOK, NEW p \in Procs, Statement(p)
  PROVE  CursorOK'
  <1>1. Modes[p] \subseteq OpenModes
    BY ModesAssumption
  <1>2. CASE \E m \in Modes[p] : Open(p, m) \/ OpenFails(p, m)
    BY <1>1, <1>2, CursorOpen, CursorOpenFails
  <1>3. CASE Close(p)
    BY <1>3, CursorClose
  <1>4. CASE UnlockFile(p)
    <2>1. UNCHANGED <<mode, known, flags, at>>
      BY <1>4 DEF UnlockFile
    <2> QED BY <2>1, CursorKept
  <1>5. CASE Refused(p)
    <2>1. UNCHANGED <<mode, known, at>> /\ flags' = [flags EXCEPT ![p].readDone = FALSE]
      BY <1>5 DEF Refused
    <2> QED BY <2>1, CursorKept
  <1>6. CASE \E i \in Indexes, cond \in Conditions, v \in Values : CobStart(p, i, cond, v)
    BY <1>6, CursorCobStart
  <1>7. CASE \E i \in Indexes, v \in Values, opt \in {"NONE", "LOCK", "IGNORE"} : CobRead(p, i, v, opt)
    BY <1>7, CursorCobRead
  <1>8. CASE \E stmt \in {"NEXT", "PREVIOUS"}, opt \in {"NONE", "LOCK", "IGNORE"} : CobReadNext(p, stmt, opt)
    BY <1>8, CursorCobReadNext
  <1>9. CASE \/ \E key \in Values, rec \in Record, lock \in BOOLEAN :
                  CobWrite(p, key, rec, lock) \/ CobRewrite(p, key, rec, lock)
             \/ \E key \in Values : CobDelete(p, key)
    <2>1. UNCHANGED <<mode, known, at>> /\ flags' = [flags EXCEPT ![p].readDone = FALSE]
      BY <1>9 DEF CobWrite, CobRewrite, CobDelete, Begin
    <2> QED BY <2>1, CursorKept
  <1> QED BY <1>2, <1>3, <1>4, <1>5, <1>6, <1>7, <1>8, <1>9 DEF Statement

LEMMA CursorOfStep ==
  ASSUME CursorOK, LockTypes, NEW p \in Procs, Step(p)
  PROVE  CursorOK'
  <1>1. UNCHANGED <<mode, known, flags>>
    BY DEF Step, CheckAlternates, TestLock, Find, DeleteAlternate, DeletePrimary, WriteRecord, WriteAlternate,
           CloseCursor, LockNew
  <1>2. UNCHANGED at \/ at' = [at EXCEPT ![p].data = TRUE]
    BY DEF Step, CheckAlternates, TestLock, Find, DeleteAlternate, DeletePrimary, WriteRecord, WriteAlternate,
           CloseCursor, LockNew
  <1> QED BY <1>1, <1>2, CursorKept

-----------------------------------------------------------------------------
(* How updates begin, and the rest of the types.                           *)

LEMMA SoughtNat ==
  ASSUME CursorOK, NEW p \in Procs, NEW kind \in {"WRITE", "REWRITE", "DELETE"}, NEW key \in Values, NEW rec,
         kind = "REWRITE" => rec \in Record
  PROVE  Sought(p, kind, key, rec) \in Nat
  <1>1. key \in Nat
    BY ValuesAssumption
  <1>2. LastRead(p) \in Nat
    <2>1. at[p].idx \in Indexes /\ at[p].place \in [Indexes -> Entry]
      BY CursorSame DEF Cursors
    <2>2. PlaceOf(p) \in Entry
      BY <2>1 DEF PlaceOf
    <2>3. LastRead(p) = PlaceOf(p).prim
      BY DEF LastRead, PlaceOf
    <2> QED BY <2>2, <2>3 DEF Entry
  <1>3. PICK unique : unique = {i \in Alternates \ Dups : \A j \in Alternates \ Dups : j <= i}
    OBVIOUS
  <1>4. CASE Access[p] # "SEQUENTIAL" \/ kind = "WRITE"
    BY <1>1, <1>4 DEF Sought
  <1>5. CASE ~(Access[p] # "SEQUENTIAL" \/ kind = "WRITE") /\ kind = "REWRITE" /\ unique # {}
    <2>1. PICK i : i = CHOOSE j \in unique : TRUE
      OBVIOUS
    <2>2. i \in Alternates /\ rec \in [Alternates -> Values]
      BY <1>3, <1>5, <2>1 DEF Record
    <2>3. rec[i] \in Values
      BY <2>2
    <2>4. Sought(p, kind, key, rec) = rec[i]
      BY <1>3, <1>5, <2>1 DEF Sought
    <2> QED BY <2>3, <2>4, ValuesAssumption
  <1>6. CASE ~(Access[p] # "SEQUENTIAL" \/ kind = "WRITE") /\ ~(kind = "REWRITE" /\ unique # {})
    <2>1. Sought(p, kind, key, rec) = LastRead(p)
      BY <1>3, <1>6 DEF Sought
    <2> QED BY <1>2, <2>1
  <1> QED BY <1>4, <1>5, <1>6

LEMMA OpsBegin ==
  ASSUME CursorOK, OpsOK, NEW p \in Procs, NEW kind \in {"WRITE", "REWRITE", "DELETE"}, NEW key \in Values,
         NEW rec, kind # "DELETE" => rec \in Record, kind = "DELETE" => rec = NONE, NEW lock \in BOOLEAN,
         NEW step \in {"ready", "checked"}, Begin(p, kind, key, rec, lock, step)
  PROVE  OpsOK'
  <1>1. PICK k : k = Sought(p, kind, key, rec)
    OBVIOUS
  <1>2. k \in Nat
    BY <1>1, SoughtNat
  <1>3. PICK o : o = [Idle EXCEPT !.step = step, !.kind = kind, !.new = key, !.rec = rec, !.key = k, !.lock = lock]
    OBVIOUS
  <1>4. op' = [op EXCEPT ![p] = o]
    BY <1>1, <1>3 DEF Begin
  <1>5. o = [step |-> step, kind |-> kind, key |-> k, new |-> key, rec |-> rec, old |-> NONE, todo |-> {},
             upd |-> {}, lock |-> lock]
    BY <1>3 DEF Idle
  <1>6. o \in Updates
    BY <1>2, <1>5 DEF Updates, Steps
  <1>7. WritesRecord(o)
    BY <1>5 DEF WritesRecord
  <1> QED BY <1>4, <1>6, <1>7, OpsKept DEF Becomes

LEMMA OpsStatement ==
  ASSUME CursorOK, OpsOK, NEW p \in Procs, Statement(p)
  PROVE  OpsOK'
  <1>1. \/ \E st, stmt : Ends(p, st, stmt)
        \/ \E key \in Values, rec \in Record, lock \in BOOLEAN :
             Begin(p, "WRITE", key, rec, lock, "ready") \/ Begin(p, "REWRITE", key, rec, lock, "ready")
        \/ \E key \in Values : Begin(p, "DELETE", key, NONE, FALSE, "checked")
    BY ZenonT(60) DEF Statement, Open, OpenFails, Close, UnlockFile, Refused, CobStart, CobRead, CobReadNext, CobWrite,
           CobRewrite, CobDelete
  <1> QED BY <1>1, EndsOps, OpsBegin

LEMMA MiscOfStep ==
  ASSUME Misc, NEW p \in Procs, Step(p)
  PROVE  Misc'
  <1>1. UNCHANGED <<exists, flock, high>>
    BY DEF Step, CheckAlternates, TestLock, Find, DeleteAlternate, DeletePrimary, WriteRecord, WriteAlternate,
           CloseCursor, LockNew, file
  <1> QED BY <1>1 DEF Misc

LEMMA MiscStatement ==
  ASSUME Misc, NEW p \in Procs, Statement(p)
  PROVE  Misc'
  <1>1. CASE UNCHANGED <<exists, flock, high>>
    BY <1>1 DEF Misc
  <1>2. CASE \E m \in Modes[p] : Open(p, m)
    <2>1. PICK m : Open(p, m)
      BY <1>2
    <2>2. FileLockOf(p, m) \in {"read", "write"}
      BY DEF FileLockOf
    <2>3. /\ exists' = TRUE /\ flock' = [flock EXCEPT ![p] = FileLockOf(p, m)]
          /\ high' = [high EXCEPT ![p] = 0]
      BY <2>1 DEF Open
    <2> QED BY <2>2, <2>3 DEF Misc
  <1>3. CASE Close(p) \/ UnlockFile(p)
    <2>1. UNCHANGED <<exists, high>> /\ flock' = [flock EXCEPT ![p] = "none"]
      BY <1>3 DEF Close, UnlockFile, file
    <2> QED BY <2>1 DEF Misc
  <1>4. CASE \E key \in Values, rec \in Record, lock \in BOOLEAN : CobWrite(p, key, rec, lock)
    <2>1. PICK key \in Values : \E rec \in Record, lock \in BOOLEAN : CobWrite(p, key, rec, lock)
      BY <1>4
    <2>2. UNCHANGED <<exists, flock>> /\ (UNCHANGED high \/ high' = [high EXCEPT ![p] = key])
      BY <2>1 DEF CobWrite, file
    <2>3. key \in Nat
      BY ValuesAssumption
    <2> QED BY <2>2, <2>3 DEF Misc
  <1>5. CASE \/ \E m \in Modes[p] : OpenFails(p, m)
             \/ Refused(p)
             \/ \E i \in Indexes, cond \in Conditions, v \in Values : CobStart(p, i, cond, v)
             \/ \E i \in Indexes, v \in Values, opt \in {"NONE", "LOCK", "IGNORE"} : CobRead(p, i, v, opt)
             \/ \E stmt \in {"NEXT", "PREVIOUS"}, opt \in {"NONE", "LOCK", "IGNORE"} : CobReadNext(p, stmt, opt)
             \/ \E key \in Values, rec \in Record, lock \in BOOLEAN : CobRewrite(p, key, rec, lock)
             \/ \E key \in Values : CobDelete(p, key)
    <2>1. UNCHANGED <<exists, flock, high>>
      BY <1>5 DEF OpenFails, Refused, CobStart, CobRead, CobReadNext, CobRewrite, CobDelete, file
    <2> QED BY <1>1, <2>1
  <1> QED BY <1>2, <1>3, <1>4, <1>5 DEF Statement

-----------------------------------------------------------------------------
(* The invariant of the cursors.                                           *)

StatusOK == status = [p \in Procs |-> status[p]]

LEMMA StatusNext == StatusOK /\ [Next]_vars => StatusOK'
  <1> SUFFICES ASSUME StatusOK, [Next]_vars PROVE StatusOK'
    OBVIOUS
  <1>1. ASSUME NEW p \in Procs, NEW st, NEW stmt, Ends(p, st, stmt) PROVE StatusOK'
    BY <1>1 DEF Ends, StatusOK
  <1>2. CASE UNCHANGED status
    BY <1>2 DEF StatusOK
  <1>3. ASSUME NEW p \in Procs, Step(p) PROVE StatusOK'
    <2>1. (\E st, stmt : Ends(p, st, stmt)) \/ UNCHANGED status
      BY <1>3 DEF Step, CheckAlternates, TestLock, Find, DeleteAlternate, DeletePrimary, WriteRecord, WriteAlternate,
                  CloseCursor, LockNew, Finish, Goes
    <2> QED BY <1>1, <1>2, <2>1
  <1>4. ASSUME NEW p \in Procs, Statement(p) PROVE StatusOK'
    <2>1. (\E st, stmt : Ends(p, st, stmt)) \/ UNCHANGED status
      BY <1>4, ZenonT(60) DEF Statement, Open, OpenFails, Close, UnlockFile, Refused, CobStart, CobRead, CobReadNext, CobWrite,
                  CobRewrite, CobDelete, Begin, Goes
    <2> QED BY <1>1, <1>2, <2>1
  <1> QED BY <1>2, <1>3, <1>4 DEF Next, vars

LEMMA CInvInit == Init => CInv
  <1> SUFFICES ASSUME Init PROVE CInv
    OBVIOUS
  <1>1. /\ pri = [k \in {} |-> NONE] /\ sec = [i \in Alternates |-> {}] /\ exists = FALSE
        /\ mode = [p \in Procs |-> "CLOSED"] /\ flock = [p \in Procs |-> "none"]
        /\ op = [p \in Procs |-> Idle] /\ high = [p \in Procs |-> 0]
        /\ flags = [p \in Procs |-> [first |-> 0, eof |-> FALSE, bof |-> FALSE, readDone |-> FALSE]]
        /\ at = [p \in Procs |-> [idx |-> 0, place |-> [i \in Indexes |-> Zero], data |-> FALSE]]
        /\ known = [p \in Procs |-> NONE]
    BY DEF Init
  <1>2. PriOK
    <2>1. DOMAIN pri = {}
      BY <1>1
    <2> QED BY <2>1 DEF PriOK
  <1>3. SecOK
    <2>1. \A i \in Alternates : sec[i] = {}
      BY <1>1
    <2> QED BY <2>1, BoundedEmpty DEF SecOK
  <1>4. Misc
    BY <1>1 DEF Misc
  <1>5. OpsOK
    BY <1>1, IdleUpdate DEF OpsOK
  <1>6. CursorOK
    <2>1. flags \in [Procs -> Flags]
      BY <1>1 DEF Flags
    <2>2. Zero \in Entry
      BY DEF Zero, Entry
    <2>3. PICK c : c = [idx |-> 0, place |-> [i \in Indexes |-> Zero], data |-> FALSE]
      OBVIOUS
    <2>4. c \in Cursors
      BY <2>2, <2>3, IndexFacts DEF Cursors
    <2>5. at \in [Procs -> Cursors]
      BY <1>1, <2>3, <2>4
    <2>6. known = [p \in Procs |-> known[p]] /\ \A p \in Procs : Where(p)
      BY <1>1 DEF Where
    <2> QED BY <2>1, <2>5, <2>6 DEF CursorOK
  <1> QED BY <1>2, <1>3, <1>4, <1>5, <1>6 DEF CInv

LEMMA CInvNext == IInv /\ CInv /\ [Next]_vars => CInv'
  <1> SUFFICES ASSUME IInv, CInv, [Next]_vars PROVE CInv'
    OBVIOUS
  <1>1. LockInv /\ LockTypes /\ OpInv /\ DataTypes
    BY DEF IInv, DataInv, LockInv
  <1>2. PriOK /\ SecOK /\ Misc /\ OpsOK /\ CursorOK
    BY DEF CInv
  <1>3. ASSUME NEW p \in Procs, Step(p) PROVE CInv'
    BY <1>1, <1>2, <1>3, DataStep, MiscOfStep, OpsStep, CursorOfStep DEF CInv
  <1>4. ASSUME NEW p \in Procs, Statement(p) PROVE CInv'
    BY <1>1, <1>2, <1>4, DataStatement, MiscStatement, OpsStatement, CursorStatement DEF CInv
  <1>5. CASE UNCHANGED vars
    <2>1. UNCHANGED <<pri, sec, exists, mode, flock, op, high, flags, at, known>>
      BY <1>5 DEF vars, file, hist
    <2>2. PriOK' /\ SecOK' /\ Misc' /\ OpsOK'
      BY <1>2, <2>1 DEF PriOK, SecOK, Bounded, Misc, OpsOK, WritesRecord
    <2>3. \A p \in Procs : WhereSame(p)
      BY <2>1 DEF WhereSame
    <2>4. \A p \in Procs : Where(p)'
      BY <1>2, <2>3, WhereKept DEF CursorOK
    <2>5. CursorOK'
      BY <1>2, <2>1, <2>4 DEF CursorOK
    <2> QED BY <2>2, <2>5 DEF CInv
  <1> QED BY <1>3, <1>4, <1>5 DEF Next

\* Where READ NEXT and READ PREVIOUS go on from is what the program knows of, in
\* every state of any number of run units.
THEOREM CursorInductive == Spec => [](IInv /\ CInv /\ StatusOK)
  <1>1. Init => IInv /\ CInv /\ StatusOK
    BY InitInv, CInvInit DEF Init, StatusOK
  <1>2. IInv /\ CInv /\ StatusOK /\ [Next]_vars => (IInv /\ CInv /\ StatusOK)'
    BY NextInv, CInvNext, StatusNext
  <1> QED BY <1>1, <1>2, PTL DEF Spec

\* TypeOK: every variable keeps to the values that the code can give it.
THEOREM TypeCorrect == Spec => []TypeOK
  <1>1. IInv /\ CInv => TypeOK
    <2> SUFFICES ASSUME IInv, CInv PROVE TypeOK
      OBVIOUS
    <2>1. LockTypes /\ DataTypes /\ PriOK /\ SecOK /\ Misc /\ OpsOK /\ CursorOK
      BY DEF IInv, CInv, LockInv, DataInv
    <2>2. sec \in [Alternates -> SUBSET Entry]
      <3>1. \A i \in Alternates : sec[i] \subseteq Entry
        BY <2>1, EntryFacts DEF SecOK, Bounded
      <3> QED BY <2>1, <3>1 DEF DataTypes
    <2>3. op \in [Procs -> Updates] /\ at \in [Procs -> Cursors]
      BY <2>1 DEF OpsOK, CursorOK
    <2>4. op \in [Procs -> [step: Steps, kind: {"WRITE", "REWRITE", "DELETE", NONE}, key: Nat \cup {NONE},
                            new: Values \cup {NONE}, rec: Record \cup {NONE}, old: Record \cup {NONE},
                            todo: SUBSET Alternates, upd: SUBSET Alternates, lock: BOOLEAN]]
      BY <2>3 DEF Updates
    <2>5. at \in [Procs -> [idx: Indexes, place: [Indexes -> Entry], data: BOOLEAN]]
      BY <2>3 DEF Cursors
    <2> QED BY <2>1, <2>2, <2>4, <2>5 DEF LockTypes, DataTypes, PriOK, Misc, CursorOK, TypeOK
  <1> QED BY <1>1, CursorInductive, PTL

-----------------------------------------------------------------------------
(* READ NEXT and READ PREVIOUS deliver what is next.                       *)

LEMMA ReadNextOnly ==
  ASSUME CInv, Next, NEW p \in Procs, NEW stmt \in {"NEXT", "PREVIOUS"}, call' = <<stmt, p>>
  PROVE  \E opt : CobReadNext(p, stmt, opt)
  <1>1. ASSUME NEW a \in Procs, NEW x, x \notin {"NEXT", "PREVIOUS"}, call' = <<x, a>> PROVE FALSE
    BY <1>1
  <1>2. ASSUME NEW a \in Procs, Step(a) PROVE FALSE
    <2>1. op[a].step # "idle" => op[a].kind \in {"WRITE", "REWRITE", "DELETE"}
      BY DEF CInv, OpsOK, WritesRecord
    <2>2. op[a].step # "idle"
      BY <1>2 DEF Step, CheckAlternates, TestLock, Find, DeleteAlternate, DeletePrimary, WriteRecord, WriteAlternate,
                  CloseCursor, LockNew
    <2>3. \E x \in {"STEP", "REWRITE", "DELETE", op[a].kind} : call' = <<x, a>>
      BY <1>2 DEF Step, CheckAlternates, TestLock, Find, DeleteAlternate, DeletePrimary, WriteRecord, WriteAlternate,
                  CloseCursor, LockNew, Finish, Goes, Ends
    <2> QED BY <1>1, <2>1, <2>2, <2>3
  <1>3. PICK a \in Procs : Statement(a)
    BY <1>2 DEF Next
  <1>4. CASE \E s \in {"NEXT", "PREVIOUS"}, opt \in {"NONE", "LOCK", "IGNORE"} : CobReadNext(a, s, opt)
    <2>1. PICK s \in {"NEXT", "PREVIOUS"}, opt \in {"NONE", "LOCK", "IGNORE"} : CobReadNext(a, s, opt)
      BY <1>4
    <2>2. call' = <<s, a>>
      BY <2>1 DEF CobReadNext, Ends
    <2>3. s = stmt /\ a = p
      BY <2>2
    <2> QED BY <2>1, <2>3
  <1>5. CASE ~\E s \in {"NEXT", "PREVIOUS"}, opt \in {"NONE", "LOCK", "IGNORE"} : CobReadNext(a, s, opt)
    <2>1. ASSUME NEW x \in {"OPEN", "CLOSE", "UNLOCK", "READ", "WRITE", "REWRITE", "START", "STEP"}, call' = <<x, a>>
          PROVE  FALSE
      BY <1>1, <2>1
    <2>2. CASE \E m \in Modes[a] : Open(a, m) \/ OpenFails(a, m)
      <3>1. PICK m \in Modes[a] : Open(a, m) \/ OpenFails(a, m)
        BY <2>2
      <3>2. call' = <<"OPEN", a>>
        BY <3>1 DEF Open, OpenFails, Ends
      <3> QED BY <3>2, <2>1
    <2>3. CASE Close(a) \/ UnlockFile(a) \/ Refused(a)
      <3>1. \E x \in {"CLOSE", "UNLOCK", "READ", "WRITE", "REWRITE"} : call' = <<x, a>>
        BY <2>3 DEF Close, UnlockFile, Refused, Ends
      <3> QED BY <3>1, <2>1
    <2>4. CASE \E i \in Indexes, cond \in Conditions, v \in Values : CobStart(a, i, cond, v)
      <3>1. call' = <<"START", a>>
        BY <2>4 DEF CobStart, Ends
      <3> QED BY <3>1, <2>1
    <2>5. CASE \E i \in Indexes, v \in Values, opt \in {"NONE", "LOCK", "IGNORE"} : CobRead(a, i, v, opt)
      <3>1. call' = <<"READ", a>>
        BY <2>5 DEF CobRead, Ends
      <3> QED BY <3>1, <2>1
    <2>6. CASE \E key \in Values, rec \in Record, lock \in BOOLEAN :
                   CobWrite(a, key, rec, lock) \/ CobRewrite(a, key, rec, lock)
      <3>1. call' = <<"WRITE", a>> \/ call' = <<"STEP", a>>
        BY <2>6 DEF CobWrite, CobRewrite, Begin, Goes, Ends
      <3> QED BY <3>1, <2>1
    <2>7. CASE \E key \in Values : CobDelete(a, key)
      <3>1. call' = <<"STEP", a>>
        BY <2>7 DEF CobDelete, Begin, Goes
      <3> QED BY <3>1, <2>1
    <2>8. \/ \E m \in Modes[a] : Open(a, m) \/ OpenFails(a, m)
          \/ Close(a) \/ UnlockFile(a) \/ Refused(a)
          \/ \E i \in Indexes, cond \in Conditions, v \in Values : CobStart(a, i, cond, v)
          \/ \E i \in Indexes, v \in Values, opt \in {"NONE", "LOCK", "IGNORE"} : CobRead(a, i, v, opt)
          \/ \E s \in {"NEXT", "PREVIOUS"}, opt \in {"NONE", "LOCK", "IGNORE"} : CobReadNext(a, s, opt)
          \/ \E key \in Values, rec \in Record, lock \in BOOLEAN : \/ CobWrite(a, key, rec, lock)
                                                                   \/ CobRewrite(a, key, rec, lock)
          \/ \E key \in Values : CobDelete(a, key)
      BY <1>3 DEF Statement
    <2> QED BY <1>5, <2>2, <2>3, <2>4, <2>5, <2>6, <2>7, <2>8
  <1> QED BY <1>4, <1>5

\* What NextIsNearest asks of the statement, and what it says of it.
Asked(p, stmt) ==
  /\ known[p] # NONE
  /\ (flags[p].first # 0 => at[p].data /\ ~flags[p].eof /\ ~flags[p].bof
                            /\ (flags[p].first = 2 => stmt = "NEXT"))
StillThere(p) == known[p].due /\ Reaches(known[p].idx, {known[p].e} \cap Entries(known[p].idx)) # {}

\* Unless the record found by OPEN or START is still there, READ NEXT searches from
\* what the program knows.
LEMMA Searches ==
  ASSUME CInv, NEW p \in Procs, NEW stmt \in {"NEXT", "PREVIOUS"}, Asked(p, stmt),
         IF stmt = "NEXT" THEN ~flags[p].eof ELSE ~flags[p].bof
  PROVE  /\ known[p].idx = at[p].idx
         /\ \/ StillThere(p) /\ Comes(p, stmt) # {} /\ \A e \in Comes(p, stmt) : e = known[p].e /\ e \in Entries(at[p].idx)
            \/ ~StillThere(p) /\ Delivers(Entries(at[p].idx), stmt, known[p].e, Comes(p, stmt))
  <1>1. Known(p) /\ flags[p] \in Flags
    BY CursorSame DEF CInv, CursorOK, Where, Asked
  <1>2. PICK i, place, move : i = at[p].idx /\ place = PlaceOf(p) /\ move = Move(p, stmt)
    OBVIOUS
  <1>3. PICK from : from = known[p].e
    OBVIOUS
  <1>4. known[p].idx = i
    BY <1>1, <1>2 DEF Known
  <1>5. Bounded(Entries(i)) /\ Entries(i) \subseteq KeyEntry
    <2>1. i \in Indexes
      BY <1>2, CursorSame DEF CInv, Cursors
    <2> QED BY <2>1, EntriesBounded DEF CInv, Bounded
  <1>6. PICK still : still = Reaches(i, {place} \cap Entries(i))
    OBVIOUS
  <1>7. still \subseteq {place} \cap Entries(i)
    BY <1>6 DEF Reaches
  <1>8. flags[p].first # 0 => Within(p) /\ from = place
    BY <1>1, <1>2, <1>3 DEF Asked, Within, Known
  <1>9. move = "PREV" => stmt = "PREVIOUS"
    BY <1>2 DEF Move
  <1>10. Comes(p, stmt) = IF flags[p].first # 0 /\ still # {} THEN still ELSE NextEntry(i, place, move)
    <2>1. ~(flags[p].first # 0 /\ (~at[p].data \/ (flags[p].first = 2 /\ move = "PREV")))
      BY <1>9 DEF Asked
    <2> QED BY <1>2, <1>6, <2>1 DEF Comes, PlaceOf
  <1>11. CASE flags[p].first # 0 /\ still # {}
    <2>1. place \in KeyEntry /\ from = place
      BY <1>5, <1>7, <1>8, <1>11
    <2>2. from # Zero
      <3>1. Zero.key = 0
        BY DEF Zero
      <3> QED BY <2>1, <3>1, EntryFacts
    <2>3. known[p].due = TRUE
      BY <1>1, <1>3, <1>8, <1>11, <2>2 DEF Known
    <2>4. StillThere(p)
      BY <1>3, <1>4, <1>6, <1>11, <2>1, <2>3 DEF StillThere
    <2>5. Comes(p, stmt) = still
      BY <1>10, <1>11
    <2> QED BY <1>2, <1>3, <1>4, <1>7, <1>11, <2>1, <2>4, <2>5
  <1>12. CASE ~(flags[p].first # 0 /\ still # {})
    <2>1. ~StillThere(p)
      <3>1. flags[p].first = 0 => known[p].due = FALSE
        BY <1>1 DEF Known
      <3>2. flags[p].first # 0 => Reaches(i, {from} \cap Entries(i)) = {}
        BY <1>6, <1>8, <1>12
      <3> QED BY <1>3, <1>4, <3>1, <3>2 DEF StillThere
    <2>2. Comes(p, stmt) = NextEntry(i, place, move)
      BY <1>10, <1>12
    <2>3. Delivers(Entries(i), stmt, from, NextEntry(i, place, move))
      <3>1. CASE stmt = "NEXT" /\ flags[p].bof
        <4>1. move = "FIRST" /\ from = Zero
          BY <1>1, <1>2, <1>3, <3>1 DEF Move, Known
        <4>2. NextEntry(i, place, move) = LeastOf(Entries(i))
          BY <4>1 DEF NextEntry
        <4> QED BY <1>5, <3>1, <4>1, <4>2, FirstDelivered
      <3>2. CASE stmt = "NEXT" /\ ~flags[p].bof
        <4>1. Within(p) /\ move = "NEXT" /\ from = place
          BY <1>1, <1>2, <1>3, <3>2 DEF Move, Known, Within
        <4>2. from \in KeyEntry \/ from = Zero
          BY <1>1, <1>3, <4>1 DEF Known
        <4>3. Keyed(place) /\ Before(place, Top)
          BY <4>1, <4>2, EndFacts, ZeroTop
        <4> QED BY <1>5, <3>2, <4>1, <4>3, NextDelivered
      <3>3. CASE stmt = "PREVIOUS" /\ flags[p].eof
        <4>1. move = "LAST" /\ from = Top
          BY <1>1, <1>2, <1>3, <3>3 DEF Move, Known
        <4>2. NextEntry(i, place, move) = GreatestOf(Entries(i))
          BY <4>1 DEF NextEntry
        <4> QED BY <1>5, <3>3, <4>1, <4>2, LastDelivered
      <3>4. CASE stmt = "PREVIOUS" /\ ~flags[p].eof
        <4>1. Within(p) /\ move = "PREV" /\ from = place
          BY <1>1, <1>2, <1>3, <3>4 DEF Move, Known, Within
        <4>2. from \in KeyEntry
          BY <1>1, <1>3, <3>4, <4>1 DEF Known, Asked
        <4>3. Keyed(place) /\ Before(Zero, place)
          BY <4>1, <4>2, EndFacts
        <4> QED BY <1>5, <3>4, <4>1, <4>3, PreviousDelivered
      <3> QED BY <3>1, <3>2, <3>3, <3>4
    <2> QED BY <1>2, <1>3, <1>4, <2>1, <2>2, <2>3
  <1> QED BY <1>11, <1>12

\* What NextIsNearest says of the statement stmt of p.
NearestRead(p, stmt) ==
  call' = <<stmt, p>> /\ status'[p] \in {"00", "10"} /\ Asked(p, stmt) =>
  /\ known'[p].idx = known[p].idx
  /\ status'[p] = "00" => known'[p].e \in Entries(known[p].idx)
  /\ IF StillThere(p) THEN known'[p].e = known[p].e
     ELSE Nearest(Entries(known[p].idx), stmt, known[p].e, known'[p].e)

LEMMA ReadsNearest ==
  ASSUME CInv, StatusOK, Next, NEW p \in Procs, NEW stmt \in {"NEXT", "PREVIOUS"}
  PROVE  NearestRead(p, stmt)
  <1> SUFFICES ASSUME call' = <<stmt, p>>, status'[p] \in {"00", "10"}, Asked(p, stmt)
               PROVE  /\ known'[p].idx = known[p].idx
                      /\ status'[p] = "00" => known'[p].e \in Entries(known[p].idx)
                      /\ IF StillThere(p) THEN known'[p].e = known[p].e
                         ELSE Nearest(Entries(known[p].idx), stmt, known[p].e, known'[p].e)
    BY DEF NearestRead
  <1>1. PICK opt : CobReadNext(p, stmt, opt)
    BY ReadNextOnly
  <1>2. PICK i, found : i = at[p].idx /\ found = Comes(p, stmt)
    OBVIOUS
  <1>3. IF stmt = "NEXT" THEN ~flags[p].eof ELSE ~flags[p].bof
    BY <1>1 DEF CobReadNext
  <1>4. /\ known[p].idx = i
        /\ \/ StillThere(p) /\ found # {} /\ \A e \in found : e = known[p].e /\ e \in Entries(i)
           \/ ~StillThere(p) /\ Delivers(Entries(i), stmt, known[p].e, found)
    BY <1>2, <1>3, Searches
  <1>5. known = [q \in Procs |-> known[q]]
    BY DEF CInv, CursorOK
  <1>6. ASSUME NEW st, Ends(p, st, stmt) PROVE status'[p] = st
    BY <1>6 DEF Ends, StatusOK
  <1>7. \/ \E e \in found : known' = [known EXCEPT ![p] = [idx |-> i, e |-> e, due |-> FALSE]] /\ status'[p] = "00"
        \/ /\ found = {} /\ status'[p] = "10"
           /\ known' = [known EXCEPT ![p] = [idx |-> i, e |-> EndOf(stmt), due |-> FALSE]]
    <2>1. CASE \E e \in Reaches(i, found) : Ends(p, "00", stmt)
                 /\ known' = [known EXCEPT ![p] = [idx |-> i, e |-> e, due |-> FALSE]]
      BY <1>6, <2>1 DEF Reaches
    <2>2. CASE \E e \in found : Ends(p, IF Reaches(i, found) = {} THEN "23" ELSE "51", stmt)
      <3>1. status'[p] \in {"23", "51"}
        BY <1>6, <2>2
      <3> QED BY <3>1
    <2>3. CASE /\ found = {} /\ Ends(p, "10", stmt)
               /\ known' = [known EXCEPT ![p] = [idx |-> i, e |-> IF stmt = "NEXT" THEN Top ELSE Zero, due |-> FALSE]]
      BY <1>6, <2>3 DEF EndOf
    <2> QED BY <1>1, <1>2, <2>1, <2>2, <2>3 DEF CobReadNext
  <1>8. CASE \E e \in found : known' = [known EXCEPT ![p] = [idx |-> i, e |-> e, due |-> FALSE]] /\ status'[p] = "00"
    <2>1. PICK e \in found : known' = [known EXCEPT ![p] = [idx |-> i, e |-> e, due |-> FALSE]]
      BY <1>8
    <2>2. known'[p].idx = i /\ known'[p].e = e
      BY <1>5, <2>1
    <2>3. CASE StillThere(p)
      BY <1>4, <2>2, <2>3
    <2>4. CASE ~StillThere(p)
      BY <1>4, <2>2, <2>4 DEF Delivers
    <2> QED BY <2>3, <2>4
  <1>9. CASE /\ found = {} /\ status'[p] = "10"
             /\ known' = [known EXCEPT ![p] = [idx |-> i, e |-> EndOf(stmt), due |-> FALSE]]
    <2>1. known'[p].idx = i /\ known'[p].e = EndOf(stmt) /\ status'[p] # "00"
      BY <1>5, <1>9
    <2>2. ~StillThere(p) /\ Nearest(Entries(i), stmt, known[p].e, EndOf(stmt))
      BY <1>4, <1>9 DEF Delivers
    <2> QED BY <1>4, <2>1, <2>2
  <1> QED BY <1>7, <1>8, <1>9

\* NextIsNearest: nothing lies between the entry known to the program and the one
\* that READ NEXT or READ PREVIOUS delivers, or the end.
THEOREM NextIsTheNearest == Spec => NextIsNearest
  <1>1. IInv /\ CInv /\ StatusOK /\ [Next]_vars => [\A p \in Procs, stmt \in {"NEXT", "PREVIOUS"} : NearestRead(p, stmt)]_vars
    BY ReadsNearest
  <1>2. [\A p \in Procs, stmt \in {"NEXT", "PREVIOUS"} : NearestRead(p, stmt)]_vars =>
          [\A p \in Procs, stmt \in {"NEXT", "PREVIOUS"} :
             call' = <<stmt, p>> /\ status'[p] \in {"00", "10"} /\ known[p] # NONE
             /\ (flags[p].first # 0 => at[p].data /\ ~flags[p].eof /\ ~flags[p].bof
                                       /\ (flags[p].first = 2 => stmt = "NEXT")) =>
             LET from == known[p]
                 got == known'[p].e
                 E == Entries(from.idx)
                 Beyond(d, e) == IF stmt = "NEXT" THEN Before(d, e) ELSE Before(e, d) IN
             /\ known'[p].idx = from.idx
             /\ status'[p] = "00" => got \in E
             /\ IF from.due /\ Reaches(from.idx, {from.e} \cap E) # {} THEN got = from.e
                ELSE Beyond(from.e, got) /\ ~\E e \in E : Beyond(from.e, e) /\ Beyond(e, got)]_vars
    <2> SUFFICES ASSUME NEW p \in Procs, NEW stmt \in {"NEXT", "PREVIOUS"}, NearestRead(p, stmt),
                        call' = <<stmt, p>> /\ status'[p] \in {"00", "10"} /\ known[p] # NONE
                        /\ (flags[p].first # 0 => at[p].data /\ ~flags[p].eof /\ ~flags[p].bof
                                                  /\ (flags[p].first = 2 => stmt = "NEXT"))
                 PROVE  /\ known'[p].idx = known[p].idx
                        /\ status'[p] = "00" => known'[p].e \in Entries(known[p].idx)
                        /\ IF known[p].due /\ Reaches(known[p].idx, {known[p].e} \cap Entries(known[p].idx)) # {}
                           THEN known'[p].e = known[p].e
                           ELSE /\ IF stmt = "NEXT" THEN Before(known[p].e, known'[p].e)
                                   ELSE Before(known'[p].e, known[p].e)
                                /\ ~\E e \in Entries(known[p].idx) :
                                     /\ IF stmt = "NEXT" THEN Before(known[p].e, e) ELSE Before(e, known[p].e)
                                     /\ IF stmt = "NEXT" THEN Before(e, known'[p].e) ELSE Before(known'[p].e, e)
      BY SMTT(40)
    <2> QED BY DEF NearestRead, Asked, StillThere, Nearest, Farther
  <1> QED BY <1>1, <1>2, CursorInductive, PTL DEF Spec, NextIsNearest

=============================================================================
