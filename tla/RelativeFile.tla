----------------------------- MODULE RelativeFile -----------------------------
(***************************************************************************)
(* ORGANIZATION RELATIVE of libcob/fileio.c: the file is a sequence of     *)
(* slots, a size followed by record_max bytes, and the statements move one *)
(* file offset over it.  START, READ, READ NEXT, READ PREVIOUS, WRITE,     *)
(* REWRITE and DELETE with the checks of cob_start ... cob_delete.         *)
(*                                                                         *)
(* One connector is open at a time; OPEN may be that of another SELECT     *)
(* (another access mode) on the same file.  Slots are numbered from 0.     *)
(***************************************************************************)
EXTENDS Integers

CONSTANTS
  Max,      \* bound: slots in the file
  KeyLimit, \* bound: the RELATIVE KEY holds 0 .. KeyLimit (its PICTURE)
  Data,     \* contents of a record
  EMPTY,    \* a slot of size 0: never written, or deleted
  Junk,     \* bytes that are no record: read from the middle of a slot
  Accesses, \* ACCESS MODEs of the connectors
  Previous, \* the ACCESS MODEs in which the program uses READ PREVIOUS
  UNKNOWN

ASSUME BoundsAssumption == Max \in Nat \ {0} /\ KeyLimit \in 1..Max
ASSUME DataAssumption == EMPTY \notin Data /\ Junk \notin Data /\ EMPTY # Junk
ASSUME AccessAssumption == Accesses \subseteq {"SEQUENTIAL", "RANDOM", "DYNAMIC"}
ASSUME PreviousAssumption == Previous \subseteq Accesses
ASSUME UnknownAssumption == UNKNOWN \notin Int

Slots == 0 .. (Max - 1)

VARIABLES
  slot,   \* slot -> its record, Junk or EMPTY
  n,      \* slots in the file: st_size / relsize
  exists, \* the file is there
  access, \* access_mode of the connector that is, or was last, open
  mode,   \* open_mode
  pos,    \* the file offset: at the start of slot pos.at, or inside it
  flags,  \* the flags of the cob_file
  key,    \* the RELATIVE KEY field
  record, \* what the last READ put into the record area
  status, \* FILE STATUS
  cursor, \* history: the slot READ NEXT has to search from, or UNKNOWN
  got,    \* history: the slot of the record last read, or UNKNOWN
  call    \* history: the statement executed last and what it asked for

file == <<slot, n, exists>>
hist == <<cursor, got>>
vars == <<file, access, mode, pos, flags, key, record, status, hist, call>>

\* first: flag_first_read (2 OPEN, 1 START, 0 READ).
Flags == [nonexistent: BOOLEAN, first: 0..2, eof: BOOLEAN, bof: BOOLEAN, readDone: BOOLEAN]
At(i) == [at |-> i, mid |-> FALSE]    \* at the size of slot i
Inside(i) == [at |-> i, mid |-> TRUE] \* after the size of slot i
Pos == [at: Nat, mid: BOOLEAN]

Occupied == {i \in Slots : slot[i] # EMPTY}
First(S) == CHOOSE i \in S : \A j \in S : i <= j
Last(S) == CHOOSE i \in S : \A j \in S : j <= i
IsOpen(modes) == mode \in modes

Init ==
  /\ slot = [i \in Slots |-> EMPTY] /\ n = 0 /\ exists = FALSE
  /\ access \in Accesses /\ mode = "CLOSED" /\ pos = At(0)
  /\ flags = [nonexistent |-> FALSE, first |-> 0, eof |-> FALSE, bof |-> FALSE, readDone |-> FALSE]
  /\ key = 0 /\ record = EMPTY /\ status = "00"
  /\ cursor = UNKNOWN /\ got = UNKNOWN /\ call = <<"CLOSE">>

\* The program moves a number to the RELATIVE KEY.
SetKey(k) == /\ key' = k
             /\ UNCHANGED <<file, access, mode, pos, flags, record, status, hist>>

\* A statement that fails before it touches the file.
Fails(st) == status' = st /\ UNCHANGED <<file, pos, hist>>

-----------------------------------------------------------------------------
(* OPEN and CLOSE. *)

Opened == [nonexistent |-> FALSE, first |-> 2, eof |-> FALSE, bof |-> FALSE, readDone |-> FALSE]

CobOpen(a, m) ==
  /\ mode = "CLOSED" /\ access' = a
  /\ \/ /\ exists \/ m # "INPUT"
        /\ mode' = m /\ exists' = TRUE /\ flags' = Opened
        /\ status' = IF exists \/ m = "OUTPUT" THEN "00" ELSE "05"
        /\ slot' = IF m = "OUTPUT" THEN [i \in Slots |-> EMPTY] ELSE slot
        /\ n' = IF m = "OUTPUT" THEN 0 ELSE n
        /\ pos' = IF m = "EXTEND" THEN At(n) ELSE At(0)
        /\ cursor' = IF m = "EXTEND" THEN UNKNOWN ELSE 0
     \/ /\ ~exists /\ m = "INPUT" \* SELECT OPTIONAL
        /\ mode' = m /\ status' = "05" /\ pos' = At(0) /\ cursor' = 0
        /\ flags' = [Opened EXCEPT !.nonexistent = TRUE, !.eof = TRUE, !.bof = TRUE]
        /\ UNCHANGED file
     \/ /\ ~exists /\ m # "OUTPUT" \* no OPTIONAL
        /\ status' = "35" /\ flags' = Opened /\ UNCHANGED <<file, mode, pos, cursor>>
  /\ got' = UNKNOWN
  /\ UNCHANGED <<key, record>>

CobOpenRefused == /\ mode # "CLOSED" /\ Fails("41")
                  /\ UNCHANGED <<access, mode, flags, key, record>>

CobCloseRefused == /\ mode = "CLOSED" /\ Fails("42")
                   /\ flags' = [flags EXCEPT !.readDone = FALSE]
                   /\ UNCHANGED <<access, mode, key, record>>

CobClose ==
  /\ mode # "CLOSED"
  /\ mode' = "CLOSED" /\ status' = "00" /\ cursor' = UNKNOWN /\ got' = UNKNOWN
  /\ flags' = [flags EXCEPT !.readDone = FALSE]
  /\ UNCHANGED <<file, access, pos, key, record>>

-----------------------------------------------------------------------------
(* START. *)

StartIndexNotStrict(cond) == IF cond = "LA" THEN n - 1 ELSE key - 1  \* mutant: LT, GT as LE, GE

\* relative_start: the first slot it looks at, < 0 when there is none.
StartIndex(cond) ==
  LET k == key - 1
      index == CASE cond = "FI" -> 0
                 [] cond = "LA" -> n - 1
                 [] cond = "LT" -> IF k > n - 1 THEN n ELSE k
                 [] cond = "LE" -> IF k > n - 1 THEN n - 1 ELSE k
                 [] OTHER -> k
  IN  CASE cond = "GE" /\ index < 0 -> 0
        [] cond = "LT" -> index - 1
        [] cond = "GT" -> index + 1
        [] OTHER -> index

\* The slots whose size relative_start reads, until one is not empty.
StartScan(cond) ==
  LET i == StartIndex(cond) IN
  CASE cond = "EQ" -> {i} \cap 0..(n - 1)
    [] cond \in {"LT", "LE", "LA"} -> 0..i
    [] OTHER -> i..(n - 1)

RelativeStart(cond) ==
  LET scan == StartScan(cond)
      hits == scan \cap Occupied
      down == cond \in {"LT", "LE", "LA"}
      hit == IF down THEN Last(hits) ELSE First(hits)
      missed == IF down THEN First(scan) ELSE Last(scan)
  IN  IF hits # {}
      THEN status' = "00" /\ pos' = At(hit) /\ cursor' = hit
      ELSE status' = "23" /\ pos' = (IF scan = {} THEN pos ELSE Inside(missed)) /\ cursor' = UNKNOWN

CobStartRefused ==
  /\ flags' = [flags EXCEPT !.readDone = FALSE, !.first = 0]
  /\ \/ ~IsOpen({"INPUT", "I_O"}) /\ Fails("47")
     \/ IsOpen({"INPUT", "I_O"}) /\ access = "RANDOM" /\ Fails("47")
     \/ /\ IsOpen({"INPUT", "I_O"}) /\ access # "RANDOM" /\ flags.nonexistent
        /\ status' = "23" /\ cursor' = UNKNOWN /\ UNCHANGED <<file, pos, got>>
  /\ UNCHANGED <<access, mode, key, record>>

CobStart(cond) ==
  /\ IsOpen({"INPUT", "I_O"}) /\ access # "RANDOM" /\ ~flags.nonexistent
  /\ RelativeStart(cond)
  /\ flags' = [flags EXCEPT !.readDone = FALSE, !.first = 1, !.bof = FALSE,
                            !.eof = (status' # "00")]
  /\ got' = UNKNOWN
  /\ UNCHANGED <<file, access, mode, key, record>>

-----------------------------------------------------------------------------
(* READ. *)

\* The flags after the switch of cob_read and cob_read_next.
AfterRead(st, previous) ==
  CASE st = "00" -> [flags EXCEPT !.first = 0, !.readDone = TRUE, !.eof = FALSE, !.bof = FALSE]
    [] st = "10" -> [flags EXCEPT !.readDone = FALSE, !.eof = @ \/ ~previous, !.bof = @ \/ previous]
    [] OTHER -> [flags EXCEPT !.readDone = FALSE]

RelativeRead ==
  LET i == key - 1 IN
  \/ i < 0 /\ Fails("23") /\ record' = record
  \/ /\ i >= 0 /\ i \notin Occupied
     /\ status' = "23" /\ pos' = At(i) /\ cursor' = i /\ got' = UNKNOWN /\ record' = record
  \/ /\ i \in Occupied
     /\ status' = "00" /\ record' = slot[i] /\ pos' = At(i + 1) /\ cursor' = i + 1 /\ got' = i

\* cob_read and cob_read_next of a file that is not there.
ReadNonexistent(again) ==
  /\ flags.nonexistent
  /\ IF flags.first = 0 THEN Fails(again) ELSE Fails("10")
  /\ flags' = [flags EXCEPT !.readDone = FALSE, !.first = 0]
  /\ UNCHANGED <<key, record>>

CobRead ==
  /\ access # "SEQUENTIAL"
  /\ \/ /\ ~IsOpen({"INPUT", "I_O"}) /\ Fails("47")
        /\ flags' = [flags EXCEPT !.readDone = FALSE] /\ record' = record
     \/ IsOpen({"INPUT", "I_O"}) /\ ReadNonexistent("23")
     \/ /\ IsOpen({"INPUT", "I_O"}) /\ ~flags.nonexistent
        /\ RelativeRead /\ UNCHANGED file /\ flags' = AfterRead(status', FALSE)
  /\ UNCHANGED <<access, mode, key>>

\* The tail of relative_read_next for the record in slot i: the RELATIVE KEY is
\* set, the offset goes to back, the record is delivered.
Deliver(i, back, expect) ==
  IF i + 1 <= KeyLimit
  THEN /\ status' = "00" /\ key' = i + 1 /\ pos' = back /\ cursor' = expect /\ got' = i
       /\ record' = slot[i]
  ELSE /\ status' = "14" /\ key' = 0 /\ pos' = At(i) /\ record' = slot[i] /\ got' = UNKNOWN
       /\ cursor' = IF expect = UNKNOWN \/ cursor = UNKNOWN THEN UNKNOWN ELSE i

NothingRead == status' = "10" /\ cursor' = UNKNOWN /\ got' = UNKNOWN /\ UNCHANGED <<key, record>>

\* From the start of a slot forwards.
ReadForward(previous) ==
  LET ahead == {i \in Occupied : i >= pos.at}
      i == First(ahead)
  IN  IF ahead # {}
      THEN Deliver(i, At(i + 1), IF previous THEN UNKNOWN ELSE i + 1)
      ELSE /\ pos' = At(IF pos.at < n THEN n ELSE pos.at)
           /\ NothingRead

\* READ PREVIOUS steps two slots back, from empty slots as well, and after the
\* record was read two slots back again.
ReadBackward ==
  LET from == pos.at - 2
      steps == {i \in 0..from : (from - i) % 2 = 0}
      hits == steps \cap Occupied
      i == Last(hits)
  IN  CASE from < 0 \/ from >= n ->
             pos' = (IF from < 0 THEN pos ELSE At(from)) /\ NothingRead
        [] from \in 0..(n - 1) /\ hits # {} ->
             Deliver(i, IF i = 0 THEN At(1) ELSE At(i - 1), UNKNOWN)
        [] OTHER -> pos' = Inside(First(steps)) /\ NothingRead

\* From inside a slot the bytes of a record are taken for a size: whatever they
\* are, no record is delivered; where the offset ends depends on them.
ReadMisaligned ==
  /\ \E i \in 0..n : pos' \in {At(i), Inside(i)}
  /\ cursor' = UNKNOWN /\ got' = UNKNOWN
  /\ \/ status' = "00" /\ record' = Junk /\ key' \in 1..KeyLimit
     \/ status' \in {"10", "30"} /\ UNCHANGED <<key, record>>

RelativeReadNext(previous) ==
  CASE n = 0 -> pos' = pos /\ NothingRead
    [] n > 0 /\ pos.mid -> ReadMisaligned
    [] n > 0 /\ ~pos.mid /\ previous /\ flags.first = 0 -> ReadBackward
    [] OTHER -> ReadForward(previous)

CobReadNext(previous) ==
  /\ \/ /\ ~IsOpen({"INPUT", "I_O"}) /\ Fails("47")
        /\ flags' = [flags EXCEPT !.readDone = FALSE] /\ UNCHANGED <<key, record>>
     \/ IsOpen({"INPUT", "I_O"}) /\ ReadNonexistent("46")
     \/ /\ IsOpen({"INPUT", "I_O"}) /\ ~flags.nonexistent
        /\ IF previous THEN flags.bof ELSE flags.eof
        /\ Fails("46") /\ flags' = [flags EXCEPT !.readDone = FALSE] /\ UNCHANGED <<key, record>>
     \/ /\ IsOpen({"INPUT", "I_O"}) /\ ~flags.nonexistent
        /\ ~(IF previous THEN flags.bof ELSE flags.eof)
        /\ RelativeReadNext(previous) /\ UNCHANGED file /\ flags' = AfterRead(status', previous)
  /\ UNCHANGED <<access, mode>>

-----------------------------------------------------------------------------
(* WRITE, REWRITE, DELETE. *)

\* The sequential WRITE: the slot at the offset, which OPEN has put at the end.
WriteNext(d) ==
  /\ pos.at < Max
  /\ slot' = [slot EXCEPT ![pos.at] = d] /\ n' = pos.at + 1
  /\ key' = (pos.at + 1) % (KeyLimit + 1)
  /\ status' = "00" /\ pos' = At(pos.at + 1) /\ cursor' = pos.at + 1
  /\ UNCHANGED <<exists, got>>

WriteAt(i, d) ==
  \/ i < 0 /\ Fails("24")
  \/ /\ i \in Occupied
     /\ status' = "22" /\ pos' = Inside(i) /\ cursor' = UNKNOWN /\ got' = UNKNOWN /\ UNCHANGED file
  \/ /\ i \in Slots \ Occupied
     /\ slot' = [slot EXCEPT ![i] = d] /\ n' = IF i < n THEN n ELSE i + 1
     /\ status' = "00" /\ pos' = At(i + 1) /\ cursor' = i + 1 /\ got' = UNKNOWN /\ exists' = exists

CobWrite(d) ==
  LET writable == IF access = "SEQUENTIAL" THEN {"OUTPUT", "EXTEND"} ELSE {"OUTPUT", "I_O"} IN
  /\ \/ ~IsOpen(writable) /\ Fails("48") /\ key' = key
     \/ IsOpen(writable) /\ access = "SEQUENTIAL" /\ WriteNext(d)
     \/ IsOpen(writable) /\ access # "SEQUENTIAL" /\ WriteAt(key - 1, d) /\ key' = key
  /\ flags' = [flags EXCEPT !.readDone = FALSE]
  /\ UNCHANGED <<access, mode, record>>

\* The checks cob_rewrite and cob_delete share.
Updatable == IsOpen({"I_O"}) /\ (access = "SEQUENTIAL" => flags.readDone)
UpdateRefused == IF IsOpen({"I_O"}) THEN Fails("43") ELSE Fails("49")

\* Bytes written where no slot starts: any of the slots near the offset may change.
Smeared ==
  LET near == {i \in Slots : i < n /\ pos.at - 1 <= i /\ i <= pos.at + 1} IN
  \E bytes \in [near -> {"same", "junk", "empty"}] :
     slot' = [i \in Slots |-> IF i \notin near \/ bytes[i] = "same" THEN slot[i]
                              ELSE IF bytes[i] = "junk" THEN Junk ELSE EMPTY]

RewriteAtOffset(d) ==   \* mutant: no seek back to the record
  /\ slot' = IF pos.at \in Occupied THEN [slot EXCEPT ![pos.at] = d] ELSE slot
  /\ pos' = pos

\* The sequential REWRITE: record_max bytes before the offset, data only.
RewriteBefore(d) ==
  IF pos.mid \/ pos.at = 0
  THEN Smeared /\ pos' \in {pos, Inside(pos.at)}
  ELSE /\ slot' = (IF pos.at - 1 \in Occupied THEN [slot EXCEPT ![pos.at - 1] = d] ELSE slot)
       /\ pos' = pos

\* The data of a slot, not its size: a deleted record stays deleted.
RewriteAt(i, d) ==
  \/ i < 0 /\ Fails("24")
  \/ i >= n /\ status' = "23" /\ pos' = At(i) /\ cursor' = i /\ got' = UNKNOWN /\ UNCHANGED file
  \/ /\ i \in 0..(n - 1)
     /\ slot' = (IF i \in Occupied THEN [slot EXCEPT ![i] = d] ELSE slot)
     /\ status' = "00" /\ pos' = At(i + 1) /\ cursor' = i + 1 /\ got' = UNKNOWN
     /\ UNCHANGED <<n, exists>>

CobRewrite(d) ==
  /\ \/ ~Updatable /\ UpdateRefused
     \/ /\ Updatable /\ access = "SEQUENTIAL"
        /\ RewriteBefore(d) /\ status' = "00" /\ UNCHANGED <<n, exists, hist>>
     \/ Updatable /\ access # "SEQUENTIAL" /\ RewriteAt(key - 1, d)
  /\ flags' = [flags EXCEPT !.readDone = FALSE]
  /\ UNCHANGED <<access, mode, key, record>>

RelativeDelete(i) ==
  \/ i < 0 /\ Fails("24")
  \/ i >= n /\ status' = "23" /\ pos' = At(i) /\ cursor' = i /\ got' = UNKNOWN /\ UNCHANGED file
  \/ /\ i \in 0..(n - 1)
     /\ slot' = [slot EXCEPT ![i] = EMPTY]
     /\ status' = "00" /\ pos' = At(i + 1) /\ cursor' = i + 1 /\ got' = UNKNOWN
     /\ UNCHANGED <<n, exists>>

CobDelete ==
  /\ \/ ~Updatable /\ UpdateRefused
     \/ Updatable /\ RelativeDelete(key - 1)
  /\ flags' = [flags EXCEPT !.readDone = FALSE]
  /\ UNCHANGED <<access, mode, key, record>>

-----------------------------------------------------------------------------
OpenModes == {"INPUT", "OUTPUT", "I_O", "EXTEND"}
Conds == {"EQ", "GT", "GE", "LT", "LE", "FI", "LA"}

\* The record a sequential WRITE or REWRITE is about, and any other update.
Target(seq) == IF access = "SEQUENTIAL" THEN seq ELSE key - 1

Next ==
  \/ \E k \in 0..KeyLimit : SetKey(k) /\ call' = call
  \/ \E a \in Accesses, m \in OpenModes : CobOpen(a, m) /\ call' = <<"OPEN", m>>
  \/ CobOpenRefused /\ call' = <<"OPEN">>
  \/ (CobClose \/ CobCloseRefused) /\ call' = <<"CLOSE">>
  \/ \E cond \in Conds :
       (CobStartRefused \/ CobStart(cond)) /\ call' = <<"START", cond, key - 1>>
  \/ CobRead /\ call' = <<"READ", key - 1>>
  \/ CobReadNext(FALSE) /\ call' = <<"READ NEXT">>
  \/ access \in Previous /\ CobReadNext(TRUE) /\ call' = <<"READ PREVIOUS">>
  \/ \E d \in Data : CobWrite(d) /\ call' = <<"WRITE", Target(n)>>
  \/ \E d \in Data : CobRewrite(d) /\ call' = <<"REWRITE", Target(got)>>
  \/ CobDelete /\ call' = <<"DELETE", key - 1>>

Spec == Init /\ [][Next]_vars

-----------------------------------------------------------------------------
Status == {"00", "05", "10", "14", "22", "23", "24", "30", "35", "41", "42", "43", "46",
           "47", "48", "49"}

\* Every variable keeps its type; the RELATIVE KEY never overflows.
TypeOK ==
  /\ slot \in [Slots -> Data \cup {EMPTY, Junk}] /\ n \in 0..Max /\ exists \in BOOLEAN
  /\ access \in Accesses /\ mode \in OpenModes \cup {"CLOSED"}
  /\ pos \in Pos /\ flags \in Flags /\ key \in 0..KeyLimit
  /\ record \in Data \cup {EMPTY, Junk} /\ status \in Status
  /\ cursor \in Nat \cup {UNKNOWN} /\ got \in Slots \cup {UNKNOWN}

\* Wherever READ NEXT has a place to go on from (after OPEN, START, a READ, or an
\* update that succeeded), the offset is there and at the start of a slot.
CursorOK == mode # "CLOSED" /\ cursor # UNKNOWN => pos = At(cursor)

\* In sequential access REWRITE, and DELETE unless the program has moved another
\* number to the RELATIVE KEY, change the record that the last READ delivered.
UpdatesHitTheReadRecord ==
  [][access = "SEQUENTIAL" /\ mode = "I_O" =>
       \A i \in Slots : slot'[i] # slot[i] => i = got \/ (slot'[i] = EMPTY /\ key # got + 1)]_vars

-----------------------------------------------------------------------------
(* The promise to the program: the slots that are not empty are the records,  *)
(* the history variable is where READ NEXT goes on.                           *)
Ended == IF flags.nonexistent THEN flags.first = 0 ELSE flags.eof

Promise == INSTANCE Records WITH
  Nums <- Slots, Data <- Data \cup {Junk}, MISSING <- EMPTY,
  recs <- slot, next <- cursor, ended <- Ended

RecordsKept == Promise!Spec
=============================================================================
