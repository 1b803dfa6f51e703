----------------------------- MODULE IndexedFile -----------------------------
(***************************************************************************)
(* ORGANIZATION INDEXED of libcob/fileio.c, built WITH_DB and run in a     *)
(* Berkeley DB environment (bdb_env # NULL).  The file is one database for *)
(* the records by primary key and one for every alternate key; run units   *)
(* that have it open share it and the lock manager of the environment.     *)
(*                                                                         *)
(* READ and START hold a cursor on the primary database and take effect at *)
(* once.  WRITE, REWRITE and DELETE are sequences of steps: the databases  *)
(* are changed one by one under the write cursor of the primary, which     *)
(* keeps other writers out and readers not, and REWRITE closes that cursor *)
(* half way.  Keys are whole fields; a record is its alternate keys.       *)
(***************************************************************************)
EXTENDS Integers

CONSTANTS
  Procs,      \* the run units, each with one connector for the file
  Values,     \* of a key field, the primary's and the alternates' alike
  N,          \* the number of alternate keys
  Dups,       \* the alternate keys WITH DUPLICATES
  Suppressed, \* alternate key -> the values SUPPRESS WHEN keeps out of its index
  Access,     \* run unit -> ACCESS MODE
  LockMode,   \* run unit -> LOCK MODE, "NONE" without the clause
  Multiple,   \* run units with LOCK ON MULTIPLE RECORDS
  Modes,      \* run unit -> the modes in which it opens the file
  Statements, \* the statements that the programs use
  MaxDup,     \* bound: no update begins that would number a duplicate higher
  MaxHeld,    \* bound: how often one record is locked by one run unit
  NONE

Alternates == 1..N
OpenModes == {"INPUT", "OUTPUT", "I-O", "EXTEND"}
Indexes == 0..N

\* A key field has a size, and so a highest value.
ASSUME ValuesAssumption == /\ Values \subseteq Nat \ {0}
                           /\ \E v \in Values : \A w \in Values : w <= v
ASSUME NAssumption == N \in Nat /\ Dups \subseteq Alternates
ASSUME SuppressAssumption == Suppressed \in [Alternates -> SUBSET Values]
ASSUME AccessAssumption == Access \in [Procs -> {"SEQUENTIAL", "RANDOM", "DYNAMIC"}]
ASSUME LockModeAssumption == /\ LockMode \in [Procs -> {"NONE", "MANUAL", "AUTOMATIC", "EXCLUSIVE"}]
                             /\ Multiple \subseteq Procs
ASSUME ModesAssumption == Modes \in [Procs -> SUBSET OpenModes]
ASSUME BoundsAssumption == MaxDup \in Nat \ {0} /\ MaxHeld \in Nat \ {0}
ASSUME NoneAssumption == NONE \notin Values

VARIABLES
  pri,    \* primary key -> the alternate keys of its record
  sec,    \* alternate key -> the entries of its database
  exists, \* the databases are there
  mode,   \* open_mode
  flock,  \* the lock that the run unit has on the file (bdb_file_lock)
  locks,  \* the lock manager: how often a run unit's locker locks a record
  latch,  \* bdb_record_lock, NONE when record_locked is 0
  op,     \* the update that is under way
  high,   \* last_key: the last key written
  flags,  \* the flags of the cob_file
  at,     \* key_index, last_readkey with last_dupno, and p->data.data
  status, \* FILE STATUS
  torn,   \* history: an update has left records and indexes out of step
  race,   \* history: who had tested a record's lock before it was granted
  known,  \* history: the index and entry that the program knows to be at
  call    \* history: the statement ended last

file == <<pri, sec, exists>>
lockVars == <<locks, latch, race>>
hist == <<torn, known, call>>
vars == <<file, mode, flock, lockVars, op, high, flags, at, status, hist>>

Entry == [key: Nat, prim: Nat, dup: Nat]
Zero == [key |-> 0, prim |-> 0, dup |-> 0] \* a key area as allocated
Record == [Alternates -> Values]
Flags == [first: 0..2, eof: BOOLEAN, bof: BOOLEAN, readDone: BOOLEAN]
Steps == {"idle", "ready", "checked", "tested", "del", "gone", "put", "written"}
Idle == [step |-> "idle", kind |-> NONE, key |-> NONE, new |-> NONE, rec |-> NONE,
         old |-> NONE, todo |-> {}, upd |-> {}, lock |-> FALSE]

\* The steps within which a process has the write cursor.
HasCursor(p) == op[p].step \in {"del", "put"}
CursorFree == \A p \in Procs : ~HasCursor(p)

Init ==
  /\ pri = [k \in {} |-> NONE] /\ sec = [i \in Alternates |-> {}] /\ exists = FALSE
  /\ mode = [p \in Procs |-> "CLOSED"] /\ flock = [p \in Procs |-> "none"]
  /\ locks = [p \in Procs |-> [k \in Values |-> 0]] /\ latch = [p \in Procs |-> NONE]
  /\ op = [p \in Procs |-> Idle] /\ high = [p \in Procs |-> 0]
  /\ flags = [p \in Procs |-> [first |-> 0, eof |-> FALSE, bof |-> FALSE, readDone |-> FALSE]]
  /\ at = [p \in Procs |-> [idx |-> 0, place |-> [i \in Indexes |-> Zero], data |-> FALSE]]
  /\ status = [p \in Procs |-> "00"]
  /\ torn = FALSE /\ race = [p \in Procs |-> {}] /\ known = [p \in Procs |-> NONE]
  /\ call = <<"CLOSE">>

-----------------------------------------------------------------------------
(* The databases. *)

Before(d, e) == d.key < e.key \/ (d.key = e.key /\ d.dup < e.dup)
LeastOf(S) == {e \in S : \A d \in S : ~Before(d, e)}
GreatestOf(S) == {e \in S : \A d \in S : ~Before(e, d)}

\* The entries of an index; that of the primary holds the records themselves.
Entries(i) == IF i = 0 THEN {[key |-> k, prim |-> k, dup |-> 0] : k \in DOMAIN pri} ELSE sec[i]

\* A unique key of the record is already another's (check_alt_keys).
AlternateTaken(rec, own) ==
  \E i \in Alternates \ Dups : \E e \in sec[i] : e.key = rec[i] /\ e.prim # own

\* get_dupno: one more than the number of the last duplicate.
NextDup(i, v) == 1 + (IF \E e \in sec[i] : e.key = v
                      THEN (CHOOSE e \in GreatestOf({d \in sec[i] : d.key = v}) : TRUE).dup
                      ELSE 0)

-----------------------------------------------------------------------------
(* Record locks.  A locker never conflicts with itself. *)

Free(p, k) == \A q \in Procs \ {p} : locks[q][k] = 0

\* Who has tested the lock of k and is still to change the record.
PastTest(p, k) == {q \in Procs \ {p} : op[q].key = k /\ op[q].step \in {"tested", "del", "gone"}}

\* lock_record; the lock that latch named before is forgotten, not released.
LockRecord(p, k) == /\ locks' = [locks EXCEPT ![p][k] = @ + 1]
                    /\ latch' = [latch EXCEPT ![p] = k]
                    /\ race' = [race EXCEPT ![p] = PastTest(p, k)]

\* unlock_record
UnlockRecord(p) ==
  /\ locks' = IF latch[p] = NONE THEN locks ELSE [locks EXCEPT ![p][latch[p]] = @ - 1]
  /\ latch' = [latch EXCEPT ![p] = NONE]
  /\ race' = [race EXCEPT ![p] = {}]

\* Mutant: the lock before is forgotten in every LOCK MODE.
UnlockNever(p) == UNCHANGED lockVars

UnlockUnlessMultiple(p) == IF p \in Multiple THEN UNCHANGED lockVars ELSE UnlockRecord(p)

Ends(p, st, stmt) == /\ status' = [status EXCEPT ![p] = st] /\ call' = <<stmt, p>>
                     /\ op' = [op EXCEPT ![p] = Idle]
\* A step after which the statement goes on.
Goes(p) == call' = <<"STEP", p>> /\ UNCHANGED status

-----------------------------------------------------------------------------
(* OPEN, CLOSE, UNLOCK. *)

FileLockOf(p, m) ==
  IF m \in {"OUTPUT", "EXTEND"} \/ LockMode[p] = "EXCLUSIVE" \/ (m = "I-O" /\ LockMode[p] = "NONE")
  THEN "write" ELSE "read"

FileLockFree(p, l) ==
  \A q \in Procs \ {p} : flock[q] = "none" \/ (flock[q] = "read" /\ l = "read")

\* The model does not follow a database that is removed while another run unit,
\* which has given its file lock up by UNLOCK, has it open.
Removable(p, m) == m = "OUTPUT" => \A q \in Procs \ {p} : mode[q] = "CLOSED"

Open(p, m) ==
  /\ mode[p] = "CLOSED" /\ Removable(p, m)
  /\ exists \/ m = "OUTPUT"
  /\ FileLockFree(p, FileLockOf(p, m))
  /\ flock' = [flock EXCEPT ![p] = FileLockOf(p, m)]
  /\ mode' = [mode EXCEPT ![p] = m] /\ exists' = TRUE
  /\ pri' = IF m = "OUTPUT" THEN [k \in {} |-> NONE] ELSE pri
  /\ sec' = IF m = "OUTPUT" THEN [i \in Alternates |-> {}] ELSE sec
  /\ torn' = IF m = "OUTPUT" THEN FALSE ELSE torn
  /\ flags' = [flags EXCEPT ![p] = [first |-> 2, eof |-> FALSE, bof |-> FALSE, readDone |-> FALSE]]
  /\ LET first == IF m = "OUTPUT" THEN {} ELSE LeastOf(Entries(0))
         place == IF first = {} THEN Zero ELSE CHOOSE e \in first : TRUE
     IN  /\ at' = [at EXCEPT ![p] = [idx |-> 0, data |-> first # {},
                                     place |-> [i \in Indexes |-> IF i = 0 THEN place ELSE Zero]]]
         /\ known' = [known EXCEPT ![p] = [idx |-> 0, e |-> place, due |-> first # {}]]
  /\ high' = [high EXCEPT ![p] = 0]
  /\ Ends(p, "00", "OPEN") /\ UNCHANGED lockVars

OpenFails(p, m) ==
  /\ mode[p] = "CLOSED"
  /\ \/ ~exists /\ m # "OUTPUT" /\ Ends(p, "35", "OPEN")
     \/ exists /\ ~FileLockFree(p, FileLockOf(p, m)) /\ Ends(p, "61", "OPEN")
  /\ flags' = [flags EXCEPT ![p] = [first |-> 2, eof |-> FALSE, bof |-> FALSE, readDone |-> FALSE]]
  /\ UNCHANGED <<file, mode, flock, lockVars, high, at, torn, known>>

Close(p) ==
  /\ mode[p] # "CLOSED" /\ op[p] = Idle
  /\ UnlockRecord(p)
  /\ flock' = [flock EXCEPT ![p] = "none"] /\ mode' = [mode EXCEPT ![p] = "CLOSED"]
  /\ flags' = [flags EXCEPT ![p].readDone = FALSE] /\ known' = [known EXCEPT ![p] = NONE]
  /\ Ends(p, "00", "CLOSE") /\ UNCHANGED <<file, high, at, torn>>

\* UNLOCK gives up the record lock, and the file lock with it.
UnlockFile(p) ==
  /\ "UNLOCK" \in Statements /\ mode[p] # "CLOSED" /\ op[p] = Idle
  /\ UnlockRecord(p) /\ flock' = [flock EXCEPT ![p] = "none"]
  /\ Ends(p, "00", "UNLOCK") /\ UNCHANGED <<file, mode, high, flags, at, torn, known>>

-----------------------------------------------------------------------------
(* START and READ. *)

\* indexed_start_internal: the entry it comes to, if there is one.
StartEntry(i, cond, v) ==
  LET E == Entries(i)
      range == {e \in E : e.key >= v} IN \* DB_SET_RANGE
  CASE cond = "EQ" -> LeastOf({e \in range : e.key = v})
    [] cond = "GE" -> LeastOf(range)
    [] cond = "GT" -> LeastOf({e \in range : e.key # v})
    [] cond = "LT" -> GreatestOf(E \ range)
    [] cond = "LE" -> IF \E e \in range : e.key = v
                      THEN IF i \in Dups THEN GreatestOf({e \in range : e.key = v})
                           ELSE LeastOf(range)
                      ELSE GreatestOf(E \ range)
    [] cond = "FI" -> LeastOf(E)
    [] cond = "LA" -> GreatestOf(E)

\* The entry of an alternate key leads to the record.
Reaches(i, found) == {e \in found : i = 0 \/ e.prim \in DOMAIN pri}

\* The key of reference is switched even if nothing is found, and p->data then
\* holds what the search came across.
Switched(p, i, cond, v) ==
  LET seen == IF cond \in {"EQ", "GE", "GT"} THEN {e \in Entries(i) : e.key >= v} ELSE Entries(i)
  IN  [at EXCEPT ![p].idx = i, ![p].data = @ \/ seen # {}]
MovedTo(p, i, e) == [at EXCEPT ![p].idx = i, ![p].data = TRUE, ![p].place[i] = e]

MayRead(p) == mode[p] \in {"INPUT", "I-O"}

Conditions == {"EQ", "GE", "GT", "LT", "LE", "FI", "LA"}

CobStart(p, i, cond, v) ==
  LET found == Reaches(i, StartEntry(i, cond, v)) IN
  /\ "START" \in Statements /\ op[p] = Idle /\ MayRead(p) /\ Access[p] # "RANDOM"
  /\ \/ \E e \in found :
          /\ at' = MovedTo(p, i, e)
          /\ flags' = [flags EXCEPT ![p] = [first |-> 1, eof |-> FALSE, bof |-> FALSE, readDone |-> FALSE]]
          /\ known' = [known EXCEPT ![p] = [idx |-> i, e |-> e, due |-> TRUE]]
          /\ Ends(p, "00", "START")
     \/ /\ found = {}
        /\ at' = Switched(p, i, cond, v)
        /\ flags' = [flags EXCEPT ![p] = [first |-> 1, eof |-> TRUE, bof |-> FALSE, readDone |-> FALSE]]
        /\ known' = [known EXCEPT ![p] = NONE]
        /\ Ends(p, "23", "START")
  /\ UNCHANGED <<file, mode, flock, lockVars, high, torn>>

\* bdb_opts: whether a lock is asked for, whether other run units' are heeded.
WantsLock(p, opt) == /\ mode[p] = "I-O" /\ LockMode[p] # "EXCLUSIVE"
                     /\ opt = "LOCK" \/ LockMode[p] = "AUTOMATIC"
\* cobc: no lock phrase with LOCK MODE AUTOMATIC
Phrases(p) == IF LockMode[p] = "AUTOMATIC" THEN {"NONE"} ELSE {"NONE", "LOCK", "IGNORE"}

\* unlock_record, then lock_record of k if the statement wants it.
Relock(p, k, want) ==
  IF want
  THEN /\ locks' = [locks EXCEPT ![p] = [j \in Values |->
                      @[j] + (IF j = k THEN 1 ELSE 0) - (IF j = latch[p] THEN 1 ELSE 0)]]
       /\ latch' = [latch EXCEPT ![p] = k]
       /\ race' = [race EXCEPT ![p] = PastTest(p, k)]
  ELSE UnlockRecord(p)

ReadDone(p) == flags' = [flags EXCEPT ![p] = [first |-> 0, eof |-> FALSE, bof |-> FALSE, readDone |-> TRUE]]

\* READ by a key: the record is locked after its lock has been tested.
CobRead(p, i, v, opt) ==
  LET found == Reaches(i, StartEntry(i, "EQ", v))
      want == WantsLock(p, opt)
      heeds == opt # "IGNORE" \/ want IN
  /\ "READ" \in Statements /\ op[p] = Idle /\ MayRead(p) /\ Access[p] # "SEQUENTIAL"
  /\ opt \in Phrases(p)
  /\ \/ \E e \in found :
          /\ heeds => Free(p, e.prim)
          /\ want => locks[p][e.prim] < MaxHeld
          /\ Relock(p, e.prim, want)
          /\ at' = MovedTo(p, i, e) /\ ReadDone(p)
          /\ known' = [known EXCEPT ![p] = [idx |-> i, e |-> e, due |-> FALSE]]
          /\ Ends(p, "00", "READ")
     \/ \E e \in found :
          /\ heeds /\ ~Free(p, e.prim)
          /\ UnlockRecord(p) /\ at' = Switched(p, i, "EQ", v) /\ known' = [known EXCEPT ![p] = NONE]
          /\ flags' = [flags EXCEPT ![p].readDone = FALSE] /\ Ends(p, "51", "READ")
     \/ /\ found = {}
        /\ UnlockRecord(p) /\ at' = Switched(p, i, "EQ", v) /\ known' = [known EXCEPT ![p] = NONE]
        /\ flags' = [flags EXCEPT ![p].readDone = FALSE] /\ Ends(p, "23", "READ")
  /\ UNCHANGED <<file, mode, flock, high, torn>>

\* READ NEXT, READ PREVIOUS: the move that the flags call for.
Move(p, stmt) == IF stmt = "PREVIOUS" THEN IF flags[p].eof THEN "LAST" ELSE "PREV"
                 ELSE IF flags[p].bof THEN "FIRST" ELSE "NEXT"

\* Mutant: the duplicates that were read are not walked over.
LandingAtKey(i, place) == LeastOf({e \in Entries(i) : e.key >= place.key})

\* Where DB_SET_RANGE and the walk over the duplicates come to rest.
Landing(i, place) ==
  LeastOf({e \in Entries(i) : e.key > place.key \/ (e.key = place.key /\ e.dup >= place.dup)})

\* indexed_read_next: the entry it moves to from the place last read.
NextEntry(i, place, move) ==
  LET E == Entries(i)
      land == Landing(i, place)
      stands == \E e \in land : e.key = place.key /\ e.dup = place.dup IN
  CASE move = "FIRST" -> LeastOf(E)
    [] move = "LAST" \/ (move = "PREV" /\ land = {}) -> GreatestOf(E)
    [] move = "PREV" /\ land # {} -> GreatestOf({e \in E : \A d \in land : Before(e, d)})
    [] move = "NEXT" /\ stands -> LeastOf({e \in E : \A d \in land : Before(d, e)})
    [] move = "NEXT" /\ ~stands -> land

\* What READ NEXT comes to: after OPEN and START the record found there, if it
\* is still the same.
Comes(p, stmt) ==
  LET i == at[p].idx
      place == at[p].place[i]
      move == Move(p, stmt)
      still == Reaches(i, {place} \cap Entries(i)) IN
  IF flags[p].first # 0 /\ (~at[p].data \/ (flags[p].first = 2 /\ move = "PREV")) THEN {}
  ELSE IF flags[p].first # 0 /\ still # {} THEN still
  ELSE NextEntry(i, place, move)

Top == [key |-> 1 + CHOOSE v \in Values : \A w \in Values : w <= v, prim |-> 0, dup |-> 0]

\* The record is tested for a lock and not locked: lock_record is reached only
\* with COB_READ_IGNORE_LOCK and COB_READ_LOCK, which cobc never passes together.
CobReadNext(p, stmt, opt) ==
  LET i == at[p].idx
      found == Comes(p, stmt) IN
  /\ stmt \in Statements \cap {"NEXT", "PREVIOUS"} /\ op[p] = Idle /\ MayRead(p)
  /\ Access[p] # "RANDOM" /\ opt \in Phrases(p)
  /\ IF stmt = "NEXT" THEN ~flags[p].eof ELSE ~flags[p].bof
  /\ UnlockRecord(p)
  /\ \/ \E e \in Reaches(i, found) :
          /\ opt = "IGNORE" \/ Free(p, e.prim)
          /\ at' = MovedTo(p, i, e) /\ ReadDone(p)
          /\ known' = [known EXCEPT ![p] = [idx |-> i, e |-> e, due |-> FALSE]]
          /\ Ends(p, "00", stmt)
     \/ \E e \in found :
          /\ Ends(p, IF Reaches(i, found) = {} THEN "23" ELSE "51", stmt)
          /\ Reaches(i, found) # {} => opt # "IGNORE" /\ ~Free(p, e.prim)
          /\ flags' = [flags EXCEPT ![p].readDone = FALSE] /\ UNCHANGED <<at, known>>
     \/ /\ found = {}
        /\ flags' = IF stmt = "NEXT" THEN [flags EXCEPT ![p].eof = TRUE, ![p].readDone = FALSE]
                    ELSE [flags EXCEPT ![p].bof = TRUE, ![p].readDone = FALSE]
        /\ known' = [known EXCEPT ![p] = [idx |-> i, e |-> IF stmt = "NEXT" THEN Top ELSE Zero,
                                          due |-> FALSE]]
        /\ Ends(p, "10", stmt) /\ UNCHANGED at
  /\ UNCHANGED <<file, mode, flock, high, torn>>

-----------------------------------------------------------------------------
(* WRITE, REWRITE, DELETE: how they begin. *)

DupsFit(rec) == \A i \in Dups : NextDup(i, rec[i]) <= MaxDup
MayWrite(p) == mode[p] \in IF Access[p] = "SEQUENTIAL" THEN {"OUTPUT", "EXTEND"} ELSE {"OUTPUT", "I-O"}
MayUpdate(p) == mode[p] = "I-O" /\ (Access[p] = "SEQUENTIAL" => flags[p].readDone)

\* The record that DELETE and REWRITE look for: in sequential access p->key is
\* what the last call left in it, after check_alt_keys a unique alternate key.
LastRead(p) == LET i == at[p].idx IN at[p].place[i].prim
Sought(p, kind, key, rec) ==
  LET unique == {i \in Alternates \ Dups : \A j \in Alternates \ Dups : j <= i} IN
  IF Access[p] # "SEQUENTIAL" \/ kind = "WRITE" THEN key
  ELSE IF kind = "REWRITE" /\ unique # {} THEN rec[CHOOSE i \in unique : TRUE]
       ELSE LastRead(p)

Begin(p, kind, key, rec, lock, step) ==
  /\ kind \in Statements /\ op[p] = Idle /\ (kind # "DELETE" => DupsFit(rec))
  /\ lock => LockMode[p] # "AUTOMATIC" /\ locks[p][key] < MaxHeld
  /\ op' = [op EXCEPT ![p] = [Idle EXCEPT !.step = step, !.kind = kind, !.new = key, !.rec = rec,
                                          !.key = Sought(p, kind, key, rec), !.lock = lock]]
  /\ flags' = [flags EXCEPT ![p].readDone = FALSE] /\ Goes(p)

CobWrite(p, key, rec, lock) ==
  /\ MayWrite(p)
  /\ IF Access[p] = "SEQUENTIAL" /\ high[p] > key
     THEN /\ "WRITE" \in Statements /\ op[p] = Idle /\ Ends(p, "21", "WRITE")
          /\ flags' = [flags EXCEPT ![p].readDone = FALSE] /\ UNCHANGED high
     ELSE /\ Begin(p, "WRITE", key, rec, lock, "ready") /\ high' = [high EXCEPT ![p] = key]
  /\ UnlockUnlessMultiple(p)
  /\ UNCHANGED <<file, mode, flock, at, torn, known>>

CobRewrite(p, key, rec, lock) ==
  /\ MayUpdate(p) /\ Begin(p, "REWRITE", key, rec, lock, "ready")
  /\ UnlockUnlessMultiple(p)
  /\ UNCHANGED <<file, mode, flock, high, at, torn, known>>

CobDelete(p, key) ==
  /\ MayUpdate(p) /\ Begin(p, "DELETE", key, NONE, FALSE, "checked")
  /\ UnlockRecord(p)
  /\ UNCHANGED <<file, mode, flock, high, at, torn, known>>

\* What cob_start ... cob_delete refuse.
Refused(p) ==
  /\ op[p] = Idle
  /\ \/ ~MayRead(p) /\ Ends(p, "47", "READ")
     \/ ~MayWrite(p) /\ Ends(p, "48", "WRITE")
     \/ mode[p] # "I-O" /\ Ends(p, "49", "REWRITE")
     \/ mode[p] = "I-O" /\ ~MayUpdate(p) /\ Ends(p, "43", "REWRITE")
     \/ MayRead(p) /\ (flags[p].eof \/ flags[p].bof) /\ Ends(p, "46", "READ")
  /\ flags' = [flags EXCEPT ![p].readDone = FALSE]
  /\ UNCHANGED <<file, mode, flock, lockVars, high, at, torn, known>>

-----------------------------------------------------------------------------
(* WRITE, REWRITE, DELETE: their steps. *)

\* REWRITE ends: an error, or the end of a single lock, releases the record.
\* A lock kept on MULTIPLE RECORDS is released by REWRITE WITH LOCK, and kept
\* without.
Releases(p, ok) ==
  op[p].kind = "REWRITE" /\ (~ok \/ IF p \in Multiple THEN op[p].lock /\ LockMode[p] # "AUTOMATIC"
                                    ELSE ~op[p].lock \/ LockMode[p] = "AUTOMATIC")
Finish(p, st) == /\ Ends(p, st, op[p].kind)
                 /\ IF Releases(p, st = "00") THEN UnlockRecord(p) ELSE UNCHANGED lockVars
\* A sequential WRITE to a new file says of a key that is there that it is too low.
KeyExists(p) == IF op[p].kind = "WRITE" /\ Access[p] = "SEQUENTIAL" /\ mode[p] = "OUTPUT"
                THEN "21" ELSE "22"

\* indexed_rewrite: check_alt_keys without a write cursor, then the
\* unlock_record of indexed_delete_internal.
CheckAlternates(p) ==
  /\ op[p].kind = "REWRITE" /\ op[p].step = "ready"
  /\ IF AlternateTaken(op[p].rec, op[p].new)
     THEN Ends(p, "22", "REWRITE") /\ UNCHANGED lockVars
     ELSE /\ op' = [op EXCEPT ![p].step = "checked"]
          /\ UnlockRecord(p) /\ Goes(p)
  /\ UNCHANGED <<file, mode, flock, high, flags, at, torn, known>>

\* Mutant: the lock of the record is not tested.
TestNothing(p) ==
  /\ op[p].step = "checked"
  /\ op' = [op EXCEPT ![p].step = "tested"] /\ Goes(p)
  /\ UNCHANGED <<file, mode, flock, lockVars, high, flags, at, torn, known>>

\* indexed_delete_internal: test_record_lock takes the lock and puts it back.
TestLock(p) ==
  /\ op[p].step = "checked"
  /\ IF Free(p, op[p].key) THEN op' = [op EXCEPT ![p].step = "tested"] /\ Goes(p)
     ELSE Ends(p, "51", op[p].kind)
  /\ UNCHANGED <<file, mode, flock, lockVars, high, flags, at, torn, known>>

\* The old record is found, and its alternate keys are to be deleted, for
\* REWRITE those that change.  In sequential access a record that is not there
\* does not end the statement: the image saved is whatever p->data points to.
Find(p) ==
  LET Found(old) ==
        LET upd == IF op[p].kind = "DELETE" THEN Alternates
                   ELSE {i \in Alternates : old[i] # op[p].rec[i]}
        IN  /\ op' = [op EXCEPT ![p].step = "del", ![p].old = old, ![p].upd = upd, ![p].todo = upd]
            /\ Goes(p) /\ at' = [at EXCEPT ![p].data = TRUE] IN
  /\ op[p].step = "tested" /\ CursorFree
  /\ \/ op[p].key \in DOMAIN pri /\ Found(pri[op[p].key]) /\ UNCHANGED torn
     \/ /\ op[p].key \notin DOMAIN pri /\ Access[p] # "SEQUENTIAL"
        /\ Ends(p, IF op[p].kind = "DELETE" THEN "23" ELSE "21", op[p].kind)
        /\ UNCHANGED <<at, torn>>
     \/ /\ op[p].key \notin DOMAIN pri /\ Access[p] = "SEQUENTIAL"
        /\ \E image \in Record : Found(image)
        /\ torn' = TRUE
  /\ UNCHANGED <<file, mode, flock, lockVars, high, flags, known>>

First(S) == CHOOSE i \in S : \A j \in S : i <= j

\* Mutant: the key is taken from the new record.
DeleteNewAlternate(p) ==
  LET i == First(op[p].todo)
      v == IF op[p].kind = "REWRITE" THEN op[p].rec[i] ELSE op[p].old[i]
      gone == {e \in sec[i] : e.key = v /\ (i \in Dups => e.prim = op[p].key)} IN
  /\ op[p].step = "del" /\ op[p].todo # {}
  /\ sec' = [sec EXCEPT ![i] = @ \ gone]
  /\ op' = [op EXCEPT ![p].todo = @ \ {i}] /\ Goes(p)
  /\ UNCHANGED <<pri, exists, mode, flock, lockVars, high, flags, at, torn, known>>

\* Mutant: the entries of other records with the same key are deleted too.
DeleteAllDuplicates(p) ==
  LET i == First(op[p].todo) IN
  /\ op[p].step = "del" /\ op[p].todo # {}
  /\ sec' = [sec EXCEPT ![i] = {e \in @ : e.key # op[p].old[i]}]
  /\ op' = [op EXCEPT ![p].todo = @ \ {i}] /\ Goes(p)
  /\ UNCHANGED <<pri, exists, mode, flock, lockVars, high, flags, at, torn, known>>

\* A unique key is deleted whoever's it is, a duplicate only if it is the record's.
DeleteAlternate(p) ==
  LET i == First(op[p].todo)
      gone == {e \in sec[i] : e.key = op[p].old[i] /\ (i \in Dups => e.prim = op[p].key)} IN
  /\ op[p].step = "del" /\ op[p].todo # {}
  /\ sec' = [sec EXCEPT ![i] = @ \ gone]
  /\ op' = [op EXCEPT ![p].todo = @ \ {i}] /\ Goes(p)
  /\ UNCHANGED <<pri, exists, mode, flock, lockVars, high, flags, at, torn, known>>

\* DB_CDEL; the write cursor is closed.
DeletePrimary(p) ==
  /\ op[p].step = "del" /\ op[p].todo = {}
  /\ pri' = [k \in DOMAIN pri \ {op[p].key} |-> pri[k]]
  /\ IF op[p].kind = "DELETE" THEN Ends(p, "00", "DELETE")
     ELSE op' = [op EXCEPT ![p].step = "gone"] /\ Goes(p)
  /\ UNCHANGED <<sec, exists, mode, flock, lockVars, high, flags, at, torn, known>>

\* Another run unit's REWRITE has deleted the record and is to write it again,
\* or this REWRITE writes a record under another key than it has deleted.
Collides(p) == \/ \E q \in Procs \ {p} : op[q].step = "gone" /\ op[p].new \in {op[q].key, op[q].new}
               \/ op[p].kind = "REWRITE" /\ op[p].key # op[p].new

\* indexed_write_internal: the record itself.
WriteRecord(p) ==
  LET o == op[p]
      rewrite == o.kind = "REWRITE" IN
  /\ (o.kind = "WRITE" /\ o.step = "ready") \/ o.step = "gone"
  /\ CursorFree
  /\ IF (~rewrite /\ AlternateTaken(o.rec, NONE)) \/ o.new \in DOMAIN pri
     THEN /\ Finish(p, KeyExists(p)) /\ torn' = (torn \/ rewrite) /\ UNCHANGED pri
     ELSE /\ pri' = [k \in DOMAIN pri \cup {o.new} |-> IF k = o.new THEN o.rec ELSE pri[k]]
          /\ op' = [op EXCEPT ![p].step = "put",
                              ![p].todo = {i \in Alternates : (rewrite => i \in o.upd)
                                                           /\ o.rec[i] \notin Suppressed[i]}]
          /\ torn' = (torn \/ Collides(p)) /\ Goes(p) /\ UNCHANGED lockVars
  /\ at' = [at EXCEPT ![p].data = TRUE]
  /\ UNCHANGED <<sec, exists, mode, flock, high, flags, known>>

\* Mutant: without DB_NOOVERWRITE a second record gets the unique key.
WriteOverAlternate(p) ==
  LET i == First(op[p].todo)
      v == op[p].rec[i]
      entry == [key |-> v, prim |-> op[p].new, dup |-> IF i \in Dups THEN NextDup(i, v) ELSE 0] IN
  /\ op[p].step = "put" /\ op[p].todo # {}
  /\ sec' = [sec EXCEPT ![i] = @ \cup {entry}]
  /\ op' = [op EXCEPT ![p].todo = @ \ {i}]
  /\ Goes(p) /\ UNCHANGED <<torn, lockVars>>
  /\ UNCHANGED <<pri, exists, mode, flock, high, flags, at, known>>

\* The next alternate key.  A unique one that is there by now ends the
\* statement; what is written stays.
WriteAlternate(p) ==
  LET i == First(op[p].todo)
      v == op[p].rec[i]
      entry == [key |-> v, prim |-> op[p].new, dup |-> IF i \in Dups THEN NextDup(i, v) ELSE 0] IN
  /\ op[p].step = "put" /\ op[p].todo # {}
  /\ IF i \notin Dups /\ \E e \in sec[i] : e.key = v
     THEN Finish(p, KeyExists(p)) /\ torn' = TRUE /\ UNCHANGED sec
     ELSE /\ sec' = [sec EXCEPT ![i] = @ \cup {entry}]
          /\ op' = [op EXCEPT ![p].todo = @ \ {i}]
          /\ Goes(p) /\ UNCHANGED <<torn, lockVars>>
  /\ UNCHANGED <<pri, exists, mode, flock, high, flags, at, known>>

\* The write cursor is closed.
CloseCursor(p) ==
  /\ op[p].step = "put" /\ op[p].todo = {}
  /\ IF op[p].lock THEN op' = [op EXCEPT ![p].step = "written"] /\ Goes(p) /\ UNCHANGED lockVars
     ELSE Finish(p, "00")
  /\ UNCHANGED <<file, mode, flock, high, flags, at, torn, known>>

\* WRITE or REWRITE WITH LOCK; an error leaves the record written.
LockNew(p) ==
  /\ op[p].step = "written"
  /\ IF Free(p, op[p].new)
     THEN /\ Ends(p, "00", op[p].kind)
          /\ IF Releases(p, TRUE) THEN latch' = [latch EXCEPT ![p] = NONE] /\ UNCHANGED <<locks, race>>
             ELSE LockRecord(p, op[p].new)
     ELSE Finish(p, "51")
  /\ UNCHANGED <<file, mode, flock, high, flags, at, torn, known>>

-----------------------------------------------------------------------------
Step(p) == \/ CheckAlternates(p) \/ TestLock(p) \/ Find(p) \/ DeleteAlternate(p)
           \/ DeletePrimary(p) \/ WriteRecord(p) \/ WriteAlternate(p) \/ CloseCursor(p) \/ LockNew(p)

Statement(p) ==
  \/ \E m \in Modes[p] : Open(p, m) \/ OpenFails(p, m)
  \/ Close(p) \/ UnlockFile(p) \/ Refused(p)
  \/ \E i \in Indexes, cond \in Conditions, v \in Values : CobStart(p, i, cond, v)
  \/ \E i \in Indexes, v \in Values, opt \in {"NONE", "LOCK", "IGNORE"} : CobRead(p, i, v, opt)
  \/ \E stmt \in {"NEXT", "PREVIOUS"}, opt \in {"NONE", "LOCK", "IGNORE"} : CobReadNext(p, stmt, opt)
  \/ \E key \in Values, rec \in Record, lock \in BOOLEAN : \/ CobWrite(p, key, rec, lock)
                                                           \/ CobRewrite(p, key, rec, lock)
  \/ \E key \in Values : CobDelete(p, key)

Next == \E p \in Procs : Statement(p) \/ Step(p)

Spec == Init /\ [][Next]_vars

-----------------------------------------------------------------------------
(* Properties. *)

TypeOK ==
  /\ DOMAIN pri \subseteq Values /\ \A k \in DOMAIN pri : pri[k] \in Record
  /\ sec \in [Alternates -> SUBSET Entry] /\ exists \in BOOLEAN
  /\ mode \in [Procs -> OpenModes \cup {"CLOSED"}]
  /\ flock \in [Procs -> {"none", "read", "write"}]
  /\ locks \in [Procs -> [Values -> Nat]] /\ latch \in [Procs -> Values \cup {NONE}]
  /\ op \in [Procs -> [step: Steps, kind: {"WRITE", "REWRITE", "DELETE", NONE},
                       key: Nat \cup {NONE}, new: Values \cup {NONE}, rec: Record \cup {NONE},
                       old: Record \cup {NONE}, todo: SUBSET Alternates, upd: SUBSET Alternates,
                       lock: BOOLEAN]]
  /\ high \in [Procs -> Nat] /\ flags \in [Procs -> Flags]
  /\ at \in [Procs -> [idx: Indexes, place: [Indexes -> Entry], data: BOOLEAN]]
  /\ torn \in BOOLEAN /\ race \in [Procs -> SUBSET Procs]

\* At every moment, and so after a kill at any moment, an entry of an alternate
\* key leads to a record that has this key; but for a record that a REWRITE has
\* deleted and not written again.
EntriesLeadBack ==
  torn \/ \A i \in Alternates : \A e \in sec[i] :
            \/ e.prim \in DOMAIN pri /\ pri[e.prim][i] = e.key
            \/ \E p \in Procs : op[p].step = "gone" /\ op[p].key = e.prim /\ i \notin op[p].upd

\* Every record can be found by each of its alternate keys, but for the record
\* and the keys that an update is working on.
RecordsIndexed ==
  torn \/ \A k \in DOMAIN pri, i \in Alternates :
            \/ pri[k][i] \in Suppressed[i]
            \/ \E e \in sec[i] : e.prim = k /\ e.key = pri[k][i]
            \/ \E p \in Procs : \/ op[p].step = "del" /\ op[p].key = k /\ i \in op[p].upd \ op[p].todo
                                \/ op[p].step = "put" /\ op[p].new = k /\ i \in op[p].todo

\* Two records share a key without duplicates only while a REWRITE has written
\* one of them and is about to find out.
UniqueAlternates ==
  torn \/ \A k, l \in DOMAIN pri, i \in Alternates \ Dups :
            \/ k = l \/ pri[k][i] # pri[l][i] \/ pri[k][i] \in Suppressed[i]
            \/ \E p \in Procs : op[p].step = "put" /\ op[p].new \in {k, l} /\ i \in op[p].todo

\* A record is locked by one run unit at most, and without LOCK ON MULTIPLE
\* RECORDS a run unit has no lock but the one that it can release.
LocksTracked ==
  /\ \A p, q \in Procs, k \in Values : locks[p][k] > 0 /\ locks[q][k] > 0 => p = q
  /\ \A p \in Procs \ Multiple, k \in Values : locks[p][k] = (IF k = latch[p] THEN 1 ELSE 0)
  /\ \A p \in Procs : mode[p] = "CLOSED" => latch[p] = NONE

\* A record that is locked is changed or deleted only by an update that had
\* tested its lock before it was granted.
LockedRecordStays ==
  [][\A p \in Procs : LET k == latch[p] IN
       k # NONE /\ latch'[p] = k /\ k \in DOMAIN pri /\ (k \notin DOMAIN pri' \/ pri'[k] # pri[k])
       => \E q \in race[p] : op'[q] # op[q]]_vars

\* Nothing lies between the entry known to the program and the one READ NEXT or
\* READ PREVIOUS delivers, or the end.  Not said of the end of a file that was
\* empty when it was opened, nor of a READ after the first one after OPEN or
\* START has come to an end.
NextIsNearest ==
  [][\A p \in Procs, stmt \in {"NEXT", "PREVIOUS"} :
       call' = <<stmt, p>> /\ status'[p] \in {"00", "10"} /\ known[p] # NONE
       /\ (flags[p].first # 0 => at[p].data /\ ~flags[p].eof /\ ~flags[p].bof
                                 /\ (flags[p].first = 2 => stmt = "NEXT")) =>
       LET from == known[p]
           got == known'[p].e
           E == Entries(from.idx)
           Beyond(d, e) == IF stmt = "NEXT" THEN Before(d, e) ELSE Before(e, d) IN
       /\ known'[p].idx = from.idx
       /\ status'[p] = "00" => got \in E
       /\ IF from.due /\ Reaches(from.idx, {from.e} \cap E) # {} THEN got = from.e
          ELSE Beyond(from.e, got) /\ ~\E e \in E : Beyond(from.e, e) /\ Beyond(e, got)]_vars

\* A sequential REWRITE of the record last read leaves the other records alone.
RewriteKeepsOthers ==
  [][\A p \in Procs : op[p].kind = "REWRITE" /\ op'[p] # op[p] /\ Access[p] = "SEQUENTIAL"
                      /\ op[p].new = LastRead(p)
                      => \A k \in DOMAIN pri : k # op[p].new => k \in DOMAIN pri']_vars
=============================================================================
