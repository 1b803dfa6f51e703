------------------------- MODULE RelativeFile_proofs -------------------------
(***************************************************************************)
(* Proofs about RelativeFile for files of any size and any RELATIVE KEY.   *)
(***************************************************************************)
EXTENDS RelativeFile, FiniteSetTheorems, WellFoundedInduction, TLAPS

-----------------------------------------------------------------------------
(* The first and the last slot of a set. *)

LEMMA Smallest ==
  ASSUME NEW T \in SUBSET (SUBSET Slots), T # {}
  PROVE  \E x \in T : \A y \in T : y \subseteq x => y = x
  <1>1. IsFiniteSet(Slots)
    BY BoundsAssumption, FS_Interval DEF Slots
  <1>2. IsWellFoundedOn(StrictSubsetOrdering(Slots), SUBSET Slots)
    BY <1>1, FS_StrictSubsetOrderingWellFounded, FS_FiniteSubsetsOfFinite
  <1>3. PICK x \in T : \A y \in T : ~(<<y, x>> \in StrictSubsetOrdering(Slots))
    BY <1>2, WFMin
  <1> QED BY <1>3 DEF StrictSubsetOrdering

LEMMA FirstIn ==
  ASSUME NEW S \in SUBSET Slots, S # {}
  PROVE  First(S) \in S /\ \A j \in S : First(S) <= j
  <1>1. S \subseteq Int /\ \A i \in S : 0 <= i /\ i < Max
    BY BoundsAssumption DEF Slots
  <1>2. \A i \in S : 0..i \subseteq Slots
    BY <1>1, BoundsAssumption DEF Slots
  <1> DEFINE T == {0..i : i \in S}
  <1>3. PICK x \in T : \A y \in T : y \subseteq x => y = x
    <2>1. T \in SUBSET (SUBSET Slots) /\ T # {}
      BY <1>2
    <2> HIDE DEF T
    <2> QED BY <2>1, Smallest
  <1>4. PICK i \in S : x = 0..i
    OBVIOUS
  <1>5. ASSUME NEW j \in S PROVE i <= j
    <2>1. 0..j \subseteq 0..i => 0..j = 0..i
      BY <1>3, <1>4
    <2> QED BY <2>1, <1>1
  <1> QED BY <1>5 DEF First

LEMMA LastIn ==
  ASSUME NEW S \in SUBSET Slots, S # {}
  PROVE  Last(S) \in S /\ \A j \in S : j <= Last(S)
  <1>1. S \subseteq Int /\ \A i \in S : 0 <= i /\ i < Max
    BY BoundsAssumption DEF Slots
  <1>2. \A i \in S : i..Max-1 \subseteq Slots
    BY <1>1, BoundsAssumption DEF Slots
  <1> DEFINE T == {i..Max-1 : i \in S}
  <1>3. PICK x \in T : \A y \in T : y \subseteq x => y = x
    <2>1. T \in SUBSET (SUBSET Slots) /\ T # {}
      BY <1>2
    <2> HIDE DEF T
    <2> QED BY <2>1, Smallest
  <1>4. PICK i \in S : x = i..Max-1
    OBVIOUS
  <1>5. ASSUME NEW j \in S PROVE j <= i
    <2>1. j..Max-1 \subseteq i..Max-1 => j..Max-1 = i..Max-1
      BY <1>3, <1>4
    <2> QED BY <2>1, <1>1, BoundsAssumption
  <1> QED BY <1>5 DEF Last

-----------------------------------------------------------------------------
(* The invariant. *)

\* After a READ that delivered a record READ NEXT goes on behind slot 0.
ReadOK == flags.readDone /\ cursor # UNKNOWN => cursor > 0

\* Sequential access, without READ PREVIOUS, stands inside of a slot only after a
\* START has failed, and right behind the record it has delivered.
SequentialOK ==
  "SEQUENTIAL" \notin Previous /\ access = "SEQUENTIAL" /\ mode \in {"INPUT", "I_O"} =>
  /\ pos.mid => flags.eof
  /\ flags.readDone => got \in Slots /\ cursor = got + 1

IInv == TypeOK /\ CursorOK /\ ReadOK /\ SequentialOK

LEMMA PosFacts ==
  ASSUME NEW i \in Nat
  PROVE  /\ At(i) \in Pos /\ At(i).at = i /\ ~At(i).mid
         /\ Inside(i) \in Pos /\ Inside(i).at = i /\ Inside(i).mid
  BY DEF At, Inside, Pos

LEMMA SlotFacts == /\ Slots \subseteq Nat /\ Max \in Nat /\ KeyLimit \in Nat /\ KeyLimit > 0
                   /\ Occupied \subseteq Slots
                   /\ \A i \in Slots : i + 1 \in Nat /\ i + 1 <= Max
                   /\ UNKNOWN \notin Nat
  BY BoundsAssumption, UnknownAssumption DEF Slots, Occupied

LEMMA InitIInv == Init => IInv
  <1> SUFFICES ASSUME Init PROVE IInv
    OBVIOUS
  <1> USE DEF Init
  <1>1. TypeOK
    <2>1. 0 \in 0..Max /\ 0 \in 0..KeyLimit
      BY SlotFacts
    <2>2. pos \in Pos
      BY PosFacts
    <2>3. flags \in Flags
      BY DEF Flags
    <2> QED BY <2>1, <2>2, <2>3 DEF TypeOK, Status
  <1> QED BY <1>1 DEF IInv, CursorOK, ReadOK, SequentialOK

\* Statements that leave the position as it is, and at most forget that a record
\* was read.
LEMMA StandStill ==
  ASSUME IInv,
         UNCHANGED <<slot, n, exists, access, mode, pos, hist>>,
         flags' \in Flags, flags'.readDone => flags.readDone, flags.eof => flags'.eof,
         key' \in 0..KeyLimit, record' = record, status' \in Status
  PROVE  IInv'
  <1> USE DEF IInv, hist
  <1>1. TypeOK'
    BY DEF TypeOK
  <1>2. CursorOK' /\ ReadOK'
    BY DEF CursorOK, ReadOK
  <1>3. SequentialOK'
    BY DEF SequentialOK
  <1> QED BY <1>1, <1>2, <1>3

LEMMA ReadDoneFalse ==
  ASSUME flags \in Flags
  PROVE  LET g == [flags EXCEPT !.readDone = FALSE] IN
         g \in Flags /\ g.readDone = FALSE /\ g.eof = flags.eof /\ g.bof = flags.bof
         /\ g.first = flags.first /\ g.nonexistent = flags.nonexistent
  BY DEF Flags

LEMMA FirstRead == {0, 1, 2} \subseteq 0..2
  OBVIOUS

LEMMA AfterReadFacts ==
  ASSUME flags \in Flags, NEW st, NEW previous \in BOOLEAN
  PROVE  /\ AfterRead(st, previous) \in Flags
         /\ AfterRead(st, previous).readDone => st = "00"
         /\ st = "10" /\ ~previous => AfterRead(st, previous).eof
         /\ st # "00" /\ flags.eof => AfterRead(st, previous).eof
         /\ AfterRead(st, previous).nonexistent = flags.nonexistent
         /\ st = "00" => AfterRead(st, previous).eof = FALSE
         /\ st \notin {"00", "10"} => AfterRead(st, previous).eof = flags.eof
  <1>1. CASE st = "00"
    <2> DEFINE g == [flags EXCEPT !.first = 0, !.readDone = TRUE, !.eof = FALSE, !.bof = FALSE]
    <2>1. AfterRead(st, previous) = g
      BY <1>1 DEF AfterRead
    <2>2. \A i \in 0..2 : \A r, e, b \in BOOLEAN :
            LET h == [flags EXCEPT !.first = i, !.readDone = r, !.eof = e, !.bof = b] IN
            h \in Flags /\ h.nonexistent = flags.nonexistent /\ h.eof = e
      BY ZenonT(60) DEF Flags
    <2>3. g \in Flags /\ g.nonexistent = flags.nonexistent /\ g.eof = FALSE
      BY <2>2, FirstRead, Zenon
    <2> HIDE DEF g
    <2> QED BY <1>1, <2>1, <2>3
  <1>2. CASE st = "10"
    <2>1. (flags.eof \/ ~previous) \in BOOLEAN /\ (flags.bof \/ previous) \in BOOLEAN
      BY Zenon
    <2> DEFINE g == [flags EXCEPT !.readDone = FALSE, !.eof = (flags.eof \/ ~previous),
                                  !.bof = (flags.bof \/ previous)]
    <2>2. AfterRead(st, previous) = g
      BY <1>2 DEF AfterRead
    <2>3. \A e, b \in BOOLEAN : LET h == [flags EXCEPT !.readDone = FALSE, !.eof = e, !.bof = b]
            IN h \in Flags /\ h.readDone = FALSE /\ h.eof = e /\ h.nonexistent = flags.nonexistent
      BY DEF Flags
    <2>4. /\ g \in Flags /\ g.readDone = FALSE /\ g.eof = (flags.eof \/ ~previous)
          /\ g.nonexistent = flags.nonexistent
      BY <2>1, <2>3, Zenon
    <2>5. ~previous \/ flags.eof => g.eof
      BY <2>4, Zenon
    <2> HIDE DEF g
    <2> QED BY <1>2, <2>2, <2>4, <2>5
  <1>3. CASE st \notin {"00", "10"}
    BY <1>3 DEF Flags, AfterRead
  <1> QED BY <1>1, <1>2, <1>3

-----------------------------------------------------------------------------
(* One lemma per statement. *)

LEMMA OpenStep ==
  ASSUME IInv, NEW a \in Accesses, NEW m \in OpenModes, CobOpen(a, m)
  PROVE  IInv'
  <1> USE DEF IInv
  <1>1. Opened \in Flags /\ Opened.readDone = FALSE
    BY DEF Opened, Flags
  <1>2. [Opened EXCEPT !.nonexistent = TRUE, !.eof = TRUE, !.bof = TRUE] \in Flags
        /\ [Opened EXCEPT !.nonexistent = TRUE, !.eof = TRUE, !.bof = TRUE].readDone = FALSE
    <2>1. \A f \in Flags : \A x, e, b \in BOOLEAN :
            LET g == [f EXCEPT !.nonexistent = x, !.eof = e, !.bof = b] IN
            g \in Flags /\ g.readDone = f.readDone
      BY DEF Flags
    <2> QED BY <1>1, <2>1, Zenon
  <1>3. flags' \in Flags /\ flags'.readDone = FALSE
    BY <1>1, <1>2 DEF CobOpen
  <1>4. n \in Nat /\ 0 \in 0..Max
    BY SlotFacts DEF TypeOK
  <1>5. pos' \in Pos /\ (mode' # "CLOSED" => ~pos'.mid)
    BY <1>4, PosFacts DEF CobOpen, TypeOK
  <1>6. mode' # "CLOSED" => cursor' = UNKNOWN \/ (cursor' = 0 /\ pos' = At(0))
    BY DEF CobOpen
  <1>7. slot' \in [Slots -> Data \cup {EMPTY, Junk}] /\ n' \in 0..Max /\ exists' \in BOOLEAN
    BY <1>4 DEF CobOpen, TypeOK, file
  <1>8. cursor' \in Nat \cup {UNKNOWN} /\ got' = UNKNOWN /\ status' \in Status
    BY DEF CobOpen, TypeOK, Status
  <1>9. TypeOK'
    BY <1>3, <1>5, <1>7, <1>8 DEF CobOpen, TypeOK
  <1> QED BY <1>3, <1>5, <1>6, <1>9 DEF CursorOK, ReadOK, SequentialOK, CobOpen, TypeOK, OpenModes

LEMMA CloseStep ==
  ASSUME IInv, CobClose
  PROVE  IInv'
  <1> USE DEF IInv
  <1>1. flags' \in Flags /\ flags'.readDone = FALSE
    BY ReadDoneFalse DEF CobClose, TypeOK
  <1> QED BY <1>1 DEF CobClose, TypeOK, Status, CursorOK, ReadOK, SequentialOK, file, OpenModes

\* The refusals of all statements.
LEMMA RefusedStep ==
  ASSUME IInv, flags' = [flags EXCEPT !.readDone = FALSE], NEW st \in Status, Fails(st),
         UNCHANGED <<access, mode, key, record>>
  PROVE  IInv'
  <1>1. flags' \in Flags /\ flags'.readDone = FALSE /\ flags'.eof = flags.eof
    BY ReadDoneFalse DEF IInv, TypeOK
  <1> QED BY <1>1, StandStill DEF Fails, file, IInv, TypeOK

LEMMA ScanInFile ==
  ASSUME TypeOK, NEW cond \in Conds
  PROVE  StartScan(cond) \in SUBSET Slots
  <1>1. n \in Nat /\ n <= Max /\ key \in Nat
    BY SlotFacts DEF TypeOK
  <1> QED BY <1>1, SlotFacts DEF StartScan, StartIndex, Slots, Conds

LEMMA StartStep ==
  ASSUME IInv, NEW cond \in Conds, CobStart(cond)
  PROVE  IInv'
  <1> USE DEF IInv
  <1> DEFINE scan == StartScan(cond)
             hits == scan \cap Occupied
  <1>1. scan \in SUBSET Slots /\ hits \in SUBSET Slots /\ Slots \subseteq Nat
    BY ScanInFile, SlotFacts
  <1>2. /\ hits # {} => First(hits) \in Nat /\ Last(hits) \in Nat
        /\ scan # {} => First(scan) \in Nat /\ Last(scan) \in Nat
    <2> HIDE DEF scan, hits
    <2> QED BY <1>1, FirstIn, LastIn
  <1>3. \/ status' = "00" /\ \E i \in Nat : pos' = At(i) /\ cursor' = i
        \/ status' = "23" /\ cursor' = UNKNOWN /\ (pos' = pos \/ \E i \in Nat : pos' = Inside(i))
    BY <1>2 DEF CobStart, RelativeStart
  <1>4. \A i \in 0..2 : \A r, e, b \in BOOLEAN :
          LET g == [flags EXCEPT !.readDone = r, !.first = i, !.bof = b, !.eof = e] IN
          g \in Flags /\ g.readDone = r /\ g.eof = e
    BY ZenonT(60) DEF Flags, TypeOK
  <1>5. flags' \in Flags /\ flags'.readDone = FALSE /\ flags'.eof = (status' # "00")
    <2> DEFINE e == status' # "00"
               g == [flags EXCEPT !.readDone = FALSE, !.first = 1, !.bof = FALSE, !.eof = e]
    <2>1. e \in BOOLEAN
      BY Zenon
    <2>2. flags' = g
      BY DEF CobStart
    <2>3. 1 \in 0..2
      BY FirstRead
    <2> HIDE DEF e
    <2>4. g \in Flags /\ g.readDone = FALSE /\ g.eof = e
      BY <1>4, <2>1, <2>3, Zenon
    <2> QED BY <2>2, <2>4, Zenon DEF e
  <1>6. pos' \in Pos
    BY <1>3, PosFacts DEF TypeOK
  <1>7. cursor' \in Nat \cup {UNKNOWN} /\ got' = UNKNOWN /\ status' \in Status
    BY <1>3 DEF CobStart, Status
  <1>8. TypeOK'
    BY <1>5, <1>6, <1>7 DEF CobStart, TypeOK, file
  <1>9. CursorOK' /\ ReadOK'
    BY <1>3, <1>5 DEF CursorOK, ReadOK
  <1>10. SequentialOK'
    BY <1>3, <1>5, PosFacts DEF SequentialOK
  <1> QED BY <1>8, <1>9, <1>10

LEMMA StartRefusedStep ==
  ASSUME IInv, CobStartRefused
  PROVE  IInv'
  <1> USE DEF IInv
  <1>1. \A i \in 0..2 : LET g == [flags EXCEPT !.readDone = FALSE, !.first = i] IN
          g \in Flags /\ g.readDone = FALSE /\ g.eof = flags.eof
    BY DEF Flags, TypeOK
  <1>2. flags' \in Flags /\ flags'.readDone = FALSE /\ flags'.eof = flags.eof
    BY <1>1, FirstRead DEF CobStartRefused
  <1>3. TypeOK'
    BY <1>2 DEF CobStartRefused, Fails, TypeOK, file, hist, Status
  <1> QED BY <1>2, <1>3 DEF CobStartRefused, Fails, file, hist, CursorOK, ReadOK, SequentialOK

LEMMA NonexistentStep ==
  ASSUME IInv, NEW again \in Status, ReadNonexistent(again), UNCHANGED <<access, mode>>
  PROVE  IInv'
  <1>1. \A i \in 0..2 : LET g == [flags EXCEPT !.readDone = FALSE, !.first = i] IN
          g \in Flags /\ g.readDone = FALSE /\ g.eof = flags.eof
    BY DEF IInv, TypeOK, Flags
  <1>2. flags' \in Flags /\ flags'.readDone = FALSE /\ flags'.eof = flags.eof
    BY <1>1, FirstRead DEF ReadNonexistent
  <1>3. UNCHANGED <<file, pos, hist, key, record>> /\ status' \in Status
    BY DEF ReadNonexistent, Fails, Status
  <1> QED BY <1>2, <1>3, StandStill DEF file, IInv, TypeOK

\* Statements after which the file stands at the start of a slot, where READ NEXT
\* goes on, or READ NEXT has no place to go on from.
LEMMA PlacedStep ==
  ASSUME IInv, NEW at \in Nat,
         pos' = At(at) \/ pos' = Inside(at), cursor' = UNKNOWN \/ (cursor' = at /\ pos' = At(at)),
         got' \in Slots \cup {UNKNOWN}, flags' \in Flags,
         flags'.readDone => cursor' = UNKNOWN \/ (got' \in Slots /\ cursor' = got' + 1),
         slot' \in [Slots -> Data \cup {EMPTY, Junk}], n' \in 0..Max, exists' \in BOOLEAN,
         UNCHANGED <<access, mode>>, key' \in 0..KeyLimit,
         record' \in Data \cup {EMPTY, Junk}, status' \in Status,
         SequentialOK'
  PROVE  IInv'
  <1> USE DEF IInv
  <1>1. TypeOK'
    BY PosFacts DEF TypeOK
  <1>2. CursorOK'
    BY DEF CursorOK
  <1>3. ReadOK'
    BY SlotFacts DEF ReadOK
  <1> QED BY <1>1, <1>2, <1>3

LEMMA ReadStep ==
  ASSUME IInv, CobRead
  PROVE  IInv'
  <1> USE DEF IInv
  <1>1. CASE Fails("47") /\ flags' = [flags EXCEPT !.readDone = FALSE] /\ record' = record
    BY <1>1, RefusedStep DEF CobRead, Status
  <1>2. CASE ReadNonexistent("23")
    BY <1>2, NonexistentStep DEF CobRead, Status
  <1>3. ASSUME RelativeRead, UNCHANGED file, flags' = AfterRead(status', FALSE) PROVE IInv'
    <2> DEFINE i == key - 1
    <2>1. flags' \in Flags /\ (flags'.readDone => status' = "00") /\ access # "SEQUENTIAL" /\ access' = access
      BY <1>3, AfterReadFacts DEF TypeOK, CobRead
    <2>2. SequentialOK'
      BY <2>1 DEF SequentialOK
    <2>3. UNCHANGED <<slot, n, exists, access, mode, key>>
      BY <1>3 DEF CobRead, file
    <2>4. CASE i < 0 /\ Fails("23") /\ record' = record
      BY <2>1, <2>2, <2>3, <2>4 DEF Fails, hist, TypeOK, CursorOK, ReadOK, Status
    <2>5. CASE i >= 0 /\ status' = "23" /\ pos' = At(i) /\ cursor' = i /\ got' = UNKNOWN
               /\ record' = record
      <3>1. i \in Nat
        BY <2>5, SlotFacts DEF TypeOK
      <3> QED BY <3>1, <2>1, <2>2, <2>3, <2>5, PlacedStep DEF TypeOK, Status
    <2>6. CASE i \in Occupied /\ status' = "00" /\ record' = slot[i] /\ pos' = At(i + 1)
               /\ cursor' = i + 1 /\ got' = i
      <3>1. i + 1 \in Nat /\ i \in Slots
        BY <2>6, SlotFacts
      <3>2. record' \in Data \cup {EMPTY, Junk}
        BY <2>6, <3>1 DEF TypeOK
      <3> QED BY <3>1, <3>2, <2>1, <2>2, <2>3, <2>6, PlacedStep DEF TypeOK, Status
    <2> QED BY <1>3, <2>4, <2>5, <2>6 DEF RelativeRead
  <1> QED BY <1>1, <1>2, <1>3 DEF CobRead

\* A record is written into slot i, or removed from it, or the slot is passed.
LEMMA UpdateStep ==
  ASSUME IInv, NEW i \in Int, NEW d \in Data \cup {EMPTY},
         flags' = [flags EXCEPT !.readDone = FALSE], UNCHANGED <<access, mode, key, record>>,
         slot' = slot \/ slot' = [slot EXCEPT ![i] = d],
         n' \in 0..Max, exists' = exists, status' \in Status,
         \/ i >= 0 /\ pos' = At(i) /\ cursor' = i
         \/ i >= 0 /\ pos' = At(i + 1) /\ cursor' = i + 1
         \/ i >= 0 /\ pos' = Inside(i) /\ cursor' = UNKNOWN /\ access # "SEQUENTIAL",
         got' \in {got, UNKNOWN}
  PROVE  IInv'
  <1> USE DEF IInv
  <1>1. flags' \in Flags /\ flags'.readDone = FALSE /\ flags'.eof = flags.eof
    BY ReadDoneFalse DEF TypeOK
  <1>2. i \in Nat /\ i + 1 \in Nat
    OBVIOUS
  <1>3. slot' \in [Slots -> Data \cup {EMPTY, Junk}]
    BY DEF TypeOK
  <1>4. SequentialOK'
    BY <1>1, <1>2, PosFacts DEF SequentialOK
  <1>5. got' \in Slots \cup {UNKNOWN}
    BY DEF TypeOK
  <1>6. PICK at \in Nat : /\ pos' = At(at) \/ pos' = Inside(at)
                          /\ cursor' = UNKNOWN \/ (cursor' = at /\ pos' = At(at))
    BY <1>2
  <1> QED BY <1>1, <1>3, <1>4, <1>5, <1>6, PlacedStep DEF TypeOK

LEMMA WriteStep ==
  ASSUME IInv, NEW d \in Data, CobWrite(d)
  PROVE  IInv'
  <1> USE DEF IInv
  <1>1. flags' = [flags EXCEPT !.readDone = FALSE] /\ UNCHANGED <<access, mode, record>>
    BY DEF CobWrite
  <1>2. ASSUME Fails("48") \/ Fails("24"), key' = key PROVE IInv'
    BY <1>1, <1>2, RefusedStep DEF Status
  <1>3. ASSUME access = "SEQUENTIAL", mode \in {"OUTPUT", "EXTEND"}, WriteNext(d) PROVE IInv'
    <2>1. flags' \in Flags /\ flags'.readDone = FALSE
      BY <1>1, ReadDoneFalse DEF TypeOK
    <2>2. pos.at \in Nat /\ pos.at + 1 \in 0..Max /\ pos.at + 1 \in Nat
      BY <1>3, SlotFacts DEF WriteNext, TypeOK, Pos
    <2>3. key' \in 0..KeyLimit
      <3> DEFINE k == pos.at + 1
      <3>1. KeyLimit + 1 \in Nat \ {0} /\ k \in Nat /\ key' = k % (KeyLimit + 1)
        BY <1>3, <2>2, SlotFacts DEF WriteNext
      <3> HIDE DEF k
      <3> QED BY <3>1, SlotFacts
    <2>4. slot' \in [Slots -> Data \cup {EMPTY, Junk}]
      BY <1>3 DEF WriteNext, TypeOK
    <2>5. SequentialOK'
      BY <1>1, <1>3 DEF SequentialOK
    <2> QED BY <1>1, <1>3, <2>1, <2>2, <2>3, <2>4, <2>5, PlacedStep DEF WriteNext, TypeOK, Status
  <1>4. ASSUME access # "SEQUENTIAL", WriteAt(key - 1, d), key' = key PROVE IInv'
    <2> DEFINE i == key - 1
    <2>1. i \in Int /\ n \in 0..Max /\ Occupied \subseteq Slots
      BY SlotFacts DEF TypeOK
    <2>2. CASE i < 0 /\ Fails("24")
      BY <1>2, <1>4, <2>2
    <2>3. CASE /\ i \in Slots /\ status' = "22" /\ pos' = Inside(i) /\ cursor' = UNKNOWN
               /\ got' = UNKNOWN /\ UNCHANGED file
      <3>1. i \in Nat
        <4> HIDE DEF i
        <4> QED BY <2>3, SlotFacts
      <3> QED BY <1>1, <1>4, <2>1, <2>3, <3>1, UpdateStep DEF file, Status
    <2>4. CASE /\ i \in Slots /\ slot' = [slot EXCEPT ![i] = d]
               /\ n' = (IF i < n THEN n ELSE i + 1) /\ exists' = exists
               /\ status' = "00" /\ pos' = At(i + 1) /\ cursor' = i + 1 /\ got' = UNKNOWN
      <3>1. i >= 0 /\ n' \in 0..Max
        BY <2>1, <2>4, SlotFacts
      <3> QED BY <1>1, <1>4, <2>1, <2>4, <3>1, UpdateStep DEF Status
    <2> QED BY <1>4, <2>1, <2>2, <2>3, <2>4 DEF WriteAt
  <1> QED BY <1>2, <1>3, <1>4 DEF CobWrite, IsOpen

LEMMA DeleteStep ==
  ASSUME IInv, CobDelete
  PROVE  IInv'
  <1> USE DEF IInv
  <1> DEFINE i == key - 1
  <1>1. flags' = [flags EXCEPT !.readDone = FALSE] /\ UNCHANGED <<access, mode, record, key>>
    BY DEF CobDelete
  <1>2. ASSUME Fails("43") \/ Fails("49") \/ Fails("24") PROVE IInv'
    BY <1>1, <1>2, RefusedStep DEF Status
  <1>3. i \in Int /\ n \in 0..Max /\ n \in Int
    BY SlotFacts DEF TypeOK
  <1>4. CASE i >= n /\ status' = "23" /\ pos' = At(i) /\ cursor' = i /\ got' = UNKNOWN
             /\ UNCHANGED file
    BY <1>1, <1>3, <1>4, UpdateStep DEF file, Status
  <1>5. CASE /\ i \in 0..(n - 1) /\ slot' = [slot EXCEPT ![i] = EMPTY]
             /\ status' = "00" /\ pos' = At(i + 1) /\ cursor' = i + 1 /\ got' = UNKNOWN
             /\ UNCHANGED <<n, exists>>
    <2>1. i >= 0 /\ n' \in 0..Max /\ exists' = exists /\ EMPTY \in Data \cup {EMPTY}
      BY <1>3, <1>5
    <2>2. \/ i >= 0 /\ pos' = At(i) /\ cursor' = i
          \/ i >= 0 /\ pos' = At(i + 1) /\ cursor' = i + 1
          \/ i >= 0 /\ pos' = Inside(i) /\ cursor' = UNKNOWN /\ access # "SEQUENTIAL"
      BY <1>5, <2>1
    <2>3. slot' = [slot EXCEPT ![i] = EMPTY] /\ status' \in Status /\ got' \in {got, UNKNOWN}
      BY <1>5 DEF Status
    <2> HIDE DEF i
    <2> QED BY <1>1, <1>3, <2>1, <2>2, <2>3, UpdateStep
  <1> QED BY <1>2, <1>4, <1>5 DEF CobDelete, UpdateRefused, RelativeDelete

LEMMA RewriteStep ==
  ASSUME IInv, NEW d \in Data, CobRewrite(d)
  PROVE  IInv'
  <1> USE DEF IInv
  <1>1. /\ flags' = [flags EXCEPT !.readDone = FALSE]
        /\ UNCHANGED <<access, mode, record, key>>
    BY DEF CobRewrite
  <1>2. flags' \in Flags /\ flags'.readDone = FALSE /\ flags'.eof = flags.eof
    BY <1>1, ReadDoneFalse DEF TypeOK
  <1>3. ASSUME Fails("43") \/ Fails("49") \/ Fails("24") PROVE IInv'
    BY <1>1, <1>3, RefusedStep DEF Status
  <1>4. ASSUME Updatable, access = "SEQUENTIAL", RewriteBefore(d), status' = "00",
               UNCHANGED <<n, exists, hist>>
        PROVE  IInv'
    <2>1. flags.readDone /\ mode = "I_O"
      BY <1>4 DEF Updatable, IsOpen
    <2>2. slot' \in [Slots -> Data \cup {EMPTY, Junk}]
      BY <1>4 DEF RewriteBefore, Smeared, TypeOK
    <2>3. pos' = pos \/ (pos' = Inside(pos.at) /\ (pos.mid \/ pos.at = 0))
      BY <1>4 DEF RewriteBefore
    <2>4. pos.at \in Nat /\ pos' \in Pos
      BY <2>3, PosFacts DEF TypeOK, Pos
    <2>5. TypeOK'
      BY <1>1, <1>2, <1>4, <2>2, <2>4 DEF TypeOK, hist, Status
    <2>6. CursorOK'
      <3> SUFFICES ASSUME cursor # UNKNOWN PROVE pos' = At(cursor)
        BY <1>1, <1>4 DEF CursorOK, hist
      <3>1. cursor \in Nat /\ cursor > 0 /\ pos = At(cursor)
        BY <2>1 DEF CursorOK, ReadOK, TypeOK
      <3> QED BY <2>3, <3>1, PosFacts
    <2>7. SequentialOK'
      <3> SUFFICES ASSUME "SEQUENTIAL" \notin Previous PROVE pos'.mid => flags.eof
        BY <1>2 DEF SequentialOK
      <3>1. got \in Nat /\ pos = At(got + 1)
        BY <1>4, <2>1, SlotFacts DEF SequentialOK, CursorOK
      <3>2. got + 1 \in Nat /\ got + 1 # 0
        BY <3>1
      <3>3. ~pos.mid /\ pos.at # 0
        BY <3>1, <3>2, PosFacts
      <3> QED BY <2>3, <3>3
    <2> QED BY <1>2, <2>5, <2>6, <2>7 DEF ReadOK
  <1>5. ASSUME Updatable, access # "SEQUENTIAL", RewriteAt(key - 1, d) PROVE IInv'
    <2> DEFINE i == key - 1
    <2>1. i \in Int /\ n \in 0..Max /\ n \in Int
      BY SlotFacts DEF TypeOK
    <2>2. CASE i < 0 /\ Fails("24")
      BY <1>3, <2>2
    <2>3. CASE i >= n /\ status' = "23" /\ pos' = At(i) /\ cursor' = i /\ got' = UNKNOWN
               /\ UNCHANGED file
      BY <1>1, <2>1, <2>3, UpdateStep DEF file, Status
    <2>4. CASE /\ i \in 0..(n - 1)
               /\ slot' = (IF i \in Occupied THEN [slot EXCEPT ![i] = d] ELSE slot)
               /\ status' = "00" /\ pos' = At(i + 1) /\ cursor' = i + 1 /\ got' = UNKNOWN
               /\ UNCHANGED <<n, exists>>
      BY <1>1, <2>1, <2>4, UpdateStep DEF Status
    <2> QED BY <1>5, <2>2, <2>3, <2>4 DEF RewriteAt
  <1> QED BY <1>3, <1>4, <1>5 DEF CobRewrite, UpdateRefused

\* READ NEXT and READ PREVIOUS of a record in slot i.
LEMMA DeliverStep ==
  ASSUME IInv, NEW i \in Occupied, NEW b \in Nat, NEW expect,
         Deliver(i, At(b), expect), expect = UNKNOWN \/ (expect = i + 1 /\ b = i + 1),
         flags' \in Flags, flags'.readDone => status' = "00",
         UNCHANGED <<file, access, mode>>,
         "SEQUENTIAL" \in Previous \/ access # "SEQUENTIAL" \/ expect = i + 1
  PROVE  IInv'
  <1> USE DEF IInv
  <1>1. i \in Slots /\ i \in Nat /\ i + 1 \in Nat /\ UNKNOWN \notin Nat
    BY SlotFacts
  <1>2. slot[i] \in Data \cup {EMPTY, Junk}
    BY <1>1 DEF TypeOK
  <1>3. CASE i + 1 <= KeyLimit
    <2>1. status' = "00" /\ key' = i + 1 /\ pos' = At(b) /\ cursor' = expect /\ got' = i
          /\ record' = slot[i]
      BY <1>3 DEF Deliver
    <2>2. SequentialOK'
      BY <1>1, <2>1, PosFacts DEF SequentialOK
    <2>3. i + 1 \in 0..KeyLimit
      BY <1>1, <1>3, SlotFacts
    <2> QED BY <1>1, <1>2, <2>1, <2>2, <2>3, PlacedStep DEF TypeOK, file, Status
  <1>4. CASE ~(i + 1 <= KeyLimit)
    <2>1. /\ status' = "14" /\ key' = 0 /\ pos' = At(i) /\ record' = slot[i] /\ got' = UNKNOWN
          /\ cursor' \in {UNKNOWN, i} /\ ~flags'.readDone
      BY <1>4 DEF Deliver
    <2>2. SequentialOK'
      BY <1>1, <2>1, PosFacts DEF SequentialOK
    <2>3. 0 \in 0..KeyLimit
      BY SlotFacts
    <2> QED BY <1>1, <1>2, <2>1, <2>2, <2>3, PlacedStep DEF TypeOK, file, Status
  <1> QED BY <1>3, <1>4

\* No record was found.
LEMMA NothingReadStep ==
  ASSUME IInv, NEW b \in Nat, pos' \in {pos, At(b), Inside(b)}, NothingRead,
         flags' \in Flags, ~flags'.readDone,
         UNCHANGED <<file, access, mode>>,
         "SEQUENTIAL" \in Previous \/ access # "SEQUENTIAL" \/ flags'.eof
  PROVE  IInv'
  <1> USE DEF IInv
  <1>1. \E at \in Nat : pos' = At(at) \/ pos' = Inside(at)
    BY DEF TypeOK, Pos, At, Inside
  <1>2. SequentialOK'
    BY DEF SequentialOK
  <1> QED BY <1>1, <1>2, PlacedStep DEF NothingRead, TypeOK, file, Status

LEMMA ReadNextStep ==
  ASSUME IInv, NEW previous \in BOOLEAN, previous => access \in Previous, CobReadNext(previous)
  PROVE  IInv'
  <1> USE DEF IInv
  <1>1. UNCHANGED <<access, mode>>
    BY DEF CobReadNext
  <1>2. ASSUME Fails("47") \/ Fails("46"), flags' = [flags EXCEPT !.readDone = FALSE],
               UNCHANGED <<key, record>>
        PROVE  IInv'
    BY <1>1, <1>2, RefusedStep DEF Status
  <1>3. CASE ReadNonexistent("46")
    BY <1>1, <1>3, NonexistentStep DEF Status
  <1>4. ASSUME IsOpen({"INPUT", "I_O"}), ~(IF previous THEN flags.bof ELSE flags.eof),
               RelativeReadNext(previous), UNCHANGED file, flags' = AfterRead(status', previous)
        PROVE  IInv'
    <2>1. /\ flags' \in Flags /\ (flags'.readDone => status' = "00")
          /\ status' = "10" /\ ~previous => flags'.eof
      BY <1>4, AfterReadFacts DEF TypeOK
    <2>2. \/ "SEQUENTIAL" \in Previous \/ access # "SEQUENTIAL"
          \/ ~previous /\ ~pos.mid
      BY <1>4 DEF SequentialOK, IsOpen
    <2>3. n \in Nat /\ n <= Max /\ pos.at \in Nat /\ Occupied \subseteq Slots /\ Slots \subseteq Nat
      BY SlotFacts DEF TypeOK, Pos
    <2>4. ASSUME NEW b \in Nat, pos' \in {pos, At(b), Inside(b)}, NothingRead PROVE IInv'
      <3>1. status' = "10"
        BY <2>4 DEF NothingRead
      <3> QED BY <1>1, <1>4, <2>1, <2>2, <2>4, <3>1, NothingReadStep
    <2>5. CASE n = 0 /\ pos' = pos /\ NothingRead
      BY <2>3, <2>4, <2>5
    <2>6. CASE n > 0 /\ pos.mid /\ ReadMisaligned
      <3>1. PICK b \in 0..n : pos' \in {At(b), Inside(b)}
        BY <2>6 DEF ReadMisaligned
      <3>2. b \in Nat
        BY <2>3
      <3>3. SequentialOK'
        BY <1>1, <2>2, <2>6 DEF SequentialOK
      <3>4. /\ cursor' = UNKNOWN /\ got' = UNKNOWN /\ status' \in Status
            /\ key' \in 0..KeyLimit /\ record' \in Data \cup {EMPTY, Junk}
        BY <2>6, SlotFacts DEF ReadMisaligned, Status, TypeOK
      <3> QED BY <1>1, <1>4, <2>1, <3>1, <3>2, <3>3, <3>4, PlacedStep DEF TypeOK, file
    <2>7. CASE ReadBackward /\ previous
      <3> DEFINE from == pos.at - 2
                 steps == {i \in 0..from : (from - i) % 2 = 0}
                 hits == steps \cap Occupied
                 i == Last(hits)
      <3>1. from \in Int
        BY <2>3
      <3>2. CASE from < 0 \/ from >= n
        <4>1. pos' \in {pos, At(from)} /\ NothingRead /\ (pos' = pos \/ from \in Nat)
          BY <2>3, <2>7, <3>2 DEF ReadBackward
        <4> QED BY <2>3, <2>4, <4>1
      <3>3. CASE from \in 0..(n - 1) /\ hits # {}
        <4>1. i \in hits
          <5> HIDE DEF steps
          <5> QED BY <2>3, <3>3, LastIn
        <4>2. i \in Occupied /\ i \in Nat
          BY <2>3, <4>1
        <4>3. Deliver(i, IF i = 0 THEN At(1) ELSE At(i - 1), UNKNOWN)
          BY <2>3, <2>7, <3>3 DEF ReadBackward
        <4> HIDE DEF i
        <4>4. PICK b \in Nat : Deliver(i, At(b), UNKNOWN)
          <5>1. CASE i = 0
            BY <4>3, <5>1
          <5>2. CASE i # 0
            BY <4>2, <4>3, <5>2, i - 1 \in Nat
          <5> QED BY <5>1, <5>2
        <4> QED BY <1>1, <1>4, <2>1, <2>2, <2>7, <4>2, <4>4, DeliverStep
      <3>4. CASE from \in 0..(n - 1) /\ hits = {}
        <4>1. pos' = Inside(First(steps)) /\ NothingRead
          BY <2>3, <2>7, <3>4 DEF ReadBackward
        <4>2. steps \in SUBSET Slots /\ from \in steps
          BY <2>3, <3>1, <3>4, BoundsAssumption DEF Slots
        <4>3. First(steps) \in Nat
          <5> HIDE DEF steps
          <5> QED BY <2>3, <4>2, FirstIn
        <4> HIDE DEF steps
        <4> QED BY <2>4, <4>1, <4>3
      <3> QED BY <2>3, <3>1, <3>2, <3>3, <3>4
    <2>8. CASE ReadForward(previous)
      <3> DEFINE ahead == {i \in Occupied : i >= pos.at}
                 i == First(ahead)
      <3>1. CASE ahead # {}
        <4>1. i \in ahead
          <5> HIDE DEF ahead
          <5>1. ahead \in SUBSET Slots
            BY <2>3 DEF ahead
          <5> QED BY <5>1, <3>1, FirstIn
        <4>2. i \in Occupied /\ i \in Nat /\ i + 1 \in Nat
          <5> HIDE DEF i
          <5> QED BY <2>3, <4>1
        <4>3. Deliver(i, At(i + 1), IF previous THEN UNKNOWN ELSE i + 1)
          BY <2>8, <3>1 DEF ReadForward
        <4> HIDE DEF i
        <4> QED BY <1>1, <1>4, <2>1, <2>2, <4>2, <4>3, DeliverStep
      <3>2. CASE ahead = {}
        <4>1. NothingRead /\ pos' = At(IF pos.at < n THEN n ELSE pos.at)
          BY <2>8, <3>2 DEF ReadForward
        <4> QED BY <2>3, <2>4, <4>1
      <3> QED BY <3>1, <3>2
    <2> QED BY <1>4, <2>3, <2>5, <2>6, <2>7, <2>8 DEF RelativeReadNext
  <1> QED BY <1>2, <1>3, <1>4 DEF CobReadNext

-----------------------------------------------------------------------------
LEMMA NextIInv == IInv /\ [Next]_vars => IInv'
  <1> SUFFICES ASSUME IInv, [Next]_vars PROVE IInv'
    OBVIOUS
  <1>1. CASE UNCHANGED vars
    BY <1>1, StandStill DEF vars, file, hist, IInv, TypeOK
  <1>2. ASSUME NEW k \in 0..KeyLimit, SetKey(k) PROVE IInv'
    BY <1>2, StandStill DEF SetKey, file, hist, IInv, TypeOK
  <1>3. CASE CobOpenRefused
    BY <1>3, StandStill DEF CobOpenRefused, Fails, file, hist, IInv, TypeOK, Status
  <1>4. CASE CobCloseRefused
    BY <1>4, RefusedStep DEF CobCloseRefused, Status
  <1> QED BY <1>1, <1>2, <1>3, <1>4, OpenStep, CloseStep, StartStep, StartRefusedStep, ReadStep,
             ReadNextStep, WriteStep, RewriteStep, DeleteStep DEF Next

\* The parts of IInv hold together in every reachable state, whatever the statements.
THEOREM Inductive == Spec => []IInv
  <1> QED BY InitIInv, NextIInv, PTL DEF Spec

\* The types hold for files of any size; the RELATIVE KEY never overflows.
THEOREM TypeCorrect == Spec => []TypeOK
  <1>1. IInv => TypeOK
    BY DEF IInv
  <1> QED BY <1>1, Inductive, PTL

\* Whatever the statements before, READ NEXT starts where it has to: none of them
\* leaves the file offset where the next read would miss a record.
THEOREM CursorKept == Spec => []CursorOK
  <1>1. IInv => CursorOK
    BY DEF IInv
  <1> QED BY <1>1, Inductive, PTL

\* A program that uses READ PREVIOUS in random and dynamic access only never
\* rewrites another record than the one it has read in sequential access.
THEOREM UpdatesHit ==
  ASSUME "SEQUENTIAL" \notin Previous
  PROVE  Spec => UpdatesHitTheReadRecord
  <1> DEFINE Hits == access = "SEQUENTIAL" /\ mode = "I_O" =>
       \A i \in Slots : slot'[i] # slot[i] => i = got \/ (slot'[i] = EMPTY /\ key # got + 1)
  <1>1. ASSUME IInv, Next, access = "SEQUENTIAL", mode = "I_O",
               NEW i \in Slots, slot'[i] # slot[i]
        PROVE  i = got \/ (slot'[i] = EMPTY /\ key # got + 1)
    <2>1. CASE \E d \in Data : CobRewrite(d)
      <3>1. PICK d \in Data : Updatable /\ RewriteBefore(d)
        BY <1>1, <2>1 DEF CobRewrite, UpdateRefused, Fails, file
      <3>2. got \in Slots /\ got \in Nat /\ pos = At(got + 1)
        BY <1>1, <3>1, SlotFacts DEF IInv, SequentialOK, CursorOK, Updatable
      <3>3. ~pos.mid /\ pos.at = got + 1 /\ pos.at # 0
        BY <3>2, PosFacts
      <3>4. slot' = slot \/ slot' = [slot EXCEPT ![pos.at - 1] = d]
        BY <3>1, <3>3 DEF RewriteBefore
      <3>5. pos.at - 1 = got
        BY <3>2, <3>3
      <3> QED BY <1>1, <3>2, <3>4, <3>5 DEF IInv, TypeOK
    <2>2. CASE CobDelete
      <3>1. RelativeDelete(key - 1) /\ flags.readDone
        BY <1>1, <2>2 DEF Updatable, CobDelete, UpdateRefused, Fails, file
      <3>2. key \in Int /\ key - 1 \in Slots /\ slot' = [slot EXCEPT ![key - 1] = EMPTY]
        BY <1>1, <3>1, SlotFacts DEF RelativeDelete, Fails, file, IInv, TypeOK, Slots
      <3>3. i = key - 1 /\ slot'[i] = EMPTY
        BY <1>1, <3>2 DEF IInv, TypeOK
      <3>4. got \in Nat
        BY <1>1, <3>1, SlotFacts DEF IInv, SequentialOK
      <3> QED BY <3>2, <3>3, <3>4
    <2>3. CASE UNCHANGED slot
      BY <1>1, <2>3
    <2> QED BY <1>1, <2>1, <2>2, <2>3
      DEF Next, SetKey, CobOpen, CobOpenRefused, CobClose, CobCloseRefused, CobStart,
          CobStartRefused, CobRead, CobReadNext, ReadNonexistent, CobWrite, IsOpen, Fails, file
  <1>2. IInv /\ [Next]_vars => [Hits]_vars
    BY <1>1
  <1>3. Spec => [][Hits]_vars
    <2> HIDE DEF Hits
    <2> QED BY <1>2, Inductive, PTL DEF Spec
  <1> QED BY <1>3 DEF UpdatesHitTheReadRecord

-----------------------------------------------------------------------------
(* A relative file keeps the promise of Records, for files of any size and any RELATIVE  *)
(* KEY, if the program does not use READ PREVIOUS in sequential access (a REWRITE after   *)
(* it may go to the wrong place).                                                         *)

\* Slots from n on are not in the file.
EndOK == \A i \in Slots : i >= n => slot[i] = EMPTY

\* The sequential WRITE appends.
AppendOK == access = "SEQUENTIAL" /\ mode \in {"OUTPUT", "EXTEND"} => pos = At(n)

\* What is known of a file that is not there.
AbsentOK ==
  /\ ~exists => n = 0
  /\ flags.nonexistent => ~exists /\ mode \in {"INPUT", "CLOSED"}
  /\ mode # "CLOSED" /\ ~flags.nonexistent => exists

FileInv == EndOK /\ AppendOK /\ AbsentOK

LEMMA InitFileInv == Init => FileInv
  BY DEF Init, FileInv, EndOK, AppendOK, AbsentOK

\* Statements that do not touch the file, nor its offset where it appends.
LEMMA FileUntouched ==
  ASSUME FileInv, UNCHANGED <<slot, n, exists, access, mode>>,
         flags'.nonexistent = flags.nonexistent,
         access = "SEQUENTIAL" /\ mode \in {"OUTPUT", "EXTEND"} => pos' = pos
  PROVE  FileInv'
  BY DEF FileInv, EndOK, AppendOK, AbsentOK, At

\* Statements that are refused.
LEMMA FailsUntouched ==
  ASSUME FileInv, NEW st, Fails(st), UNCHANGED <<access, mode>>,
         flags'.nonexistent = flags.nonexistent
  PROVE  FileInv'
  BY FileUntouched DEF Fails, file

\* What the statements do to the flags that the promise depends on.
LEMMA FlagFacts ==
  ASSUME TypeOK
  PROVE  /\ LET g == [flags EXCEPT !.readDone = FALSE] IN
            g.nonexistent = flags.nonexistent /\ g.eof = flags.eof /\ g.first = flags.first
         /\ LET g == [flags EXCEPT !.readDone = FALSE, !.first = 0] IN
            g.nonexistent = flags.nonexistent /\ g.eof = flags.eof /\ g.first = 0
         /\ Opened.nonexistent = FALSE /\ Opened.eof = FALSE /\ Opened.first = 2
  <1>1. \A i \in 0..2 : LET g == [flags EXCEPT !.readDone = FALSE, !.first = i] IN
            g.nonexistent = flags.nonexistent /\ g.eof = flags.eof /\ g.first = i
    BY DEF TypeOK, Flags
  <1>2. LET g == [flags EXCEPT !.readDone = FALSE, !.first = 0] IN
            g.nonexistent = flags.nonexistent /\ g.eof = flags.eof /\ g.first = 0
    BY <1>1, FirstRead
  <1> QED BY <1>2, ReadDoneFalse DEF TypeOK, Opened

LEMMA NextFileInv == IInv /\ FileInv /\ Next => FileInv'
  <1> SUFFICES ASSUME IInv, FileInv, Next PROVE FileInv'
    OBVIOUS
  <1> USE DEF IInv
  <1>1. ASSUME NEW k \in 0..KeyLimit, SetKey(k) PROVE FileInv'
    BY <1>1, FileUntouched DEF SetKey, file
  <1>2. ASSUME NEW a \in Accesses, NEW m \in OpenModes, CobOpen(a, m) PROVE FileInv'
    <2>1. CASE exists' /\ ~flags'.nonexistent /\ mode' = m
               /\ pos' = (IF m = "EXTEND" THEN At(n) ELSE At(0))
               /\ n' = (IF m = "OUTPUT" THEN 0 ELSE n)
               /\ slot' = (IF m = "OUTPUT" THEN [i \in Slots |-> EMPTY] ELSE slot)
      BY <2>1 DEF FileInv, EndOK, AppendOK, AbsentOK
    <2>2. CASE ~exists /\ mode' = "INPUT" /\ UNCHANGED file
               /\ flags' = [Opened EXCEPT !.nonexistent = TRUE, !.eof = TRUE, !.bof = TRUE]
      <3>1. [Opened EXCEPT !.nonexistent = TRUE, !.eof = TRUE, !.bof = TRUE].nonexistent
        BY DEF Opened
      <3> QED BY <2>2, <3>1 DEF FileInv, EndOK, AppendOK, AbsentOK, file
    <2>3. CASE ~exists /\ flags' = Opened /\ UNCHANGED <<file, mode>>
      BY <1>2, <2>3, FlagFacts DEF FileInv, EndOK, AppendOK, AbsentOK, file, CobOpen
    <2> QED BY <1>2, <2>1, <2>2, <2>3, FlagFacts DEF CobOpen
  <1>3. CASE CobOpenRefused
    BY <1>3, FailsUntouched DEF CobOpenRefused
  <1>4. CASE CobCloseRefused
    BY <1>4, FailsUntouched, FlagFacts DEF CobCloseRefused
  <1>5. CASE CobClose
    BY <1>5, FlagFacts DEF CobClose, FileInv, EndOK, AppendOK, AbsentOK, file
  <1>6. CASE CobStartRefused
    BY <1>6, FileUntouched, FlagFacts DEF CobStartRefused, Fails, file
  <1>7. ASSUME NEW cond \in Conds, CobStart(cond) PROVE FileInv'
    <2>1. \A e \in BOOLEAN :
            [flags EXCEPT !.readDone = FALSE, !.first = 1, !.bof = FALSE, !.eof = e].nonexistent
            = flags.nonexistent
      BY DEF TypeOK, Flags
    <2>2. (status' # "00") \in BOOLEAN
      BY Zenon
    <2>3. flags'.nonexistent = flags.nonexistent
      BY <1>7, <2>1, <2>2, Zenon DEF CobStart
    <2> QED BY <1>7, <2>3, FileUntouched DEF CobStart, IsOpen, file
  <1>8. CASE CobRead
    BY <1>8, FileUntouched, FailsUntouched, FlagFacts, AfterReadFacts
       DEF CobRead, ReadNonexistent, file, TypeOK
  <1>9. ASSUME NEW previous \in BOOLEAN, CobReadNext(previous) PROVE FileInv'
    <2>1. UNCHANGED <<access, mode>>
      BY <1>9 DEF CobReadNext
    <2>2. CASE mode \notin {"INPUT", "I_O"}
      BY <1>9, <2>1, <2>2, FailsUntouched, FlagFacts DEF CobReadNext, IsOpen
    <2>3. CASE mode \in {"INPUT", "I_O"}
      <3>1. UNCHANGED file
        BY <1>9 DEF CobReadNext, ReadNonexistent, Fails
      <3>2. flags' = [flags EXCEPT !.readDone = FALSE] \/ flags' = AfterRead(status', previous)
            \/ flags' = [flags EXCEPT !.readDone = FALSE, !.first = 0]
        BY <1>9 DEF CobReadNext, ReadNonexistent
      <3>3. flags'.nonexistent = flags.nonexistent
        <4>1. AfterRead(status', previous).nonexistent = flags.nonexistent
          BY <1>9, AfterReadFacts DEF TypeOK
        <4> QED BY <3>2, <4>1, FlagFacts
      <3> QED BY <2>1, <2>3, <3>1, <3>3, FileUntouched DEF file
    <2> QED BY <2>2, <2>3
  <1>10. ASSUME NEW d \in Data, CobWrite(d) PROVE FileInv'
    <2>1. flags'.nonexistent = flags.nonexistent /\ UNCHANGED <<access, mode>>
      BY <1>10, FlagFacts DEF CobWrite
    <2>2. CASE Fails("48") \/ Fails("24")
      BY <2>1, <2>2, FailsUntouched
    <2>3. ASSUME access = "SEQUENTIAL", mode \in {"OUTPUT", "EXTEND"}, WriteNext(d)
          PROVE  FileInv'
      <3>1. n \in Nat /\ pos.at = n /\ exists /\ Slots \subseteq Nat
        BY <2>3, SlotFacts, PosFacts DEF FileInv, AppendOK, AbsentOK, TypeOK
      <3>2. slot' = [slot EXCEPT ![n] = d] /\ n' = n + 1 /\ exists' = exists /\ pos' = At(n')
        BY <2>3, <3>1 DEF WriteNext
      <3>3. EndOK'
        BY <3>1, <3>2 DEF FileInv, EndOK, TypeOK
      <3> QED BY <2>1, <3>1, <3>2, <3>3 DEF FileInv, AppendOK, AbsentOK
    <2>4. ASSUME access # "SEQUENTIAL", mode \in {"OUTPUT", "I_O"}, WriteAt(key - 1, d),
                 ~Fails("24")
          PROVE  FileInv'
      <3>1. n \in Nat /\ exists /\ Slots \subseteq Nat /\ key \in Int
        BY <2>4, SlotFacts DEF FileInv, AbsentOK, TypeOK
      <3>2. CASE UNCHANGED file
        BY <2>1, <2>4, <3>2, FileUntouched DEF file
      <3>3. CASE /\ slot' = [slot EXCEPT ![key - 1] = d] /\ exists' = exists
                 /\ n' = (IF key - 1 < n THEN n ELSE key - 1 + 1)
        <4>1. EndOK'
          BY <3>1, <3>3 DEF FileInv, EndOK, TypeOK
        <4> QED BY <2>1, <2>4, <3>1, <3>3, <4>1 DEF FileInv, AppendOK, AbsentOK
      <3> QED BY <2>4, <3>2, <3>3 DEF WriteAt
    <2> QED BY <1>10, <2>2, <2>3, <2>4 DEF CobWrite, IsOpen
  <1>11. ASSUME NEW d \in Data, CobRewrite(d) PROVE FileInv'
    <2>1. flags'.nonexistent = flags.nonexistent /\ UNCHANGED <<access, mode>>
      BY <1>11, FlagFacts DEF CobRewrite
    <2>2. CASE ~Updatable
      BY <1>11, <2>1, <2>2, FailsUntouched DEF CobRewrite, UpdateRefused
    <2>3. CASE Fails("24")
      BY <2>1, <2>3, FailsUntouched
    <2>4. ASSUME mode = "I_O", UNCHANGED <<n, exists>>,
                 slot' \in [Slots -> Data \cup {EMPTY, Junk}],
                 \A i \in Slots : i >= n => slot'[i] = slot[i] \/ slot[i] # EMPTY
          PROVE  FileInv'
      BY <2>1, <2>4 DEF FileInv, EndOK, AppendOK, AbsentOK
    <2>5. CASE Updatable /\ access = "SEQUENTIAL"
      <3>1. mode = "I_O" /\ UNCHANGED <<n, exists>> /\ RewriteBefore(d)
        BY <1>11, <2>5 DEF CobRewrite, Updatable, IsOpen
      <3>2. slot' \in [Slots -> Data \cup {EMPTY, Junk}]
        BY <3>1 DEF RewriteBefore, Smeared, TypeOK
      <3>3. \A i \in Slots : i >= n => slot'[i] = slot[i] \/ slot[i] # EMPTY
        <4>1. n \in Nat /\ Slots \subseteq Nat
          BY SlotFacts DEF TypeOK
        <4>2. CASE Smeared
          <5> DEFINE near == {i \in Slots : i < n /\ pos.at - 1 <= i /\ i <= pos.at + 1}
          <5>1. PICK bytes \in [near -> {"same", "junk", "empty"}] :
                  slot' = [i \in Slots |-> IF i \notin near \/ bytes[i] = "same" THEN slot[i]
                                           ELSE IF bytes[i] = "junk" THEN Junk ELSE EMPTY]
            BY <4>2 DEF Smeared
          <5>2. \A i \in near : i < n
            OBVIOUS
          <5> HIDE DEF near
          <5>3. \A i \in Slots : i \notin near => slot'[i] = slot[i]
            BY <5>1
          <5> QED BY <4>1, <5>2, <5>3
        <4>3. CASE slot' = slot \/ \E i \in Occupied : slot' = [slot EXCEPT ![i] = d]
          BY <4>3 DEF TypeOK, Occupied
        <4> QED BY <3>1, <4>2, <4>3 DEF RewriteBefore
      <3> QED BY <2>4, <3>1, <3>2, <3>3
    <2>6. CASE Updatable /\ access # "SEQUENTIAL" /\ ~Fails("24")
      <3>1. mode = "I_O" /\ UNCHANGED <<n, exists>> /\ RewriteAt(key - 1, d)
        BY <1>11, <2>6 DEF CobRewrite, Updatable, IsOpen, RewriteAt, file
      <3>2. slot' \in [Slots -> Data \cup {EMPTY, Junk}]
        BY <2>6, <3>1 DEF RewriteAt, TypeOK, file
      <3>3. \A i \in Slots : i >= n => slot'[i] = slot[i] \/ slot[i] # EMPTY
        BY <2>6, <3>1 DEF RewriteAt, TypeOK, Occupied, file
      <3> QED BY <2>4, <3>1, <3>2, <3>3
    <2> QED BY <2>2, <2>3, <2>5, <2>6
  <1>12. CASE CobDelete
    <2>1. flags'.nonexistent = flags.nonexistent /\ UNCHANGED <<access, mode>>
      BY <1>12, FlagFacts DEF CobDelete
    <2>2. CASE ~Updatable
      BY <1>12, <2>1, <2>2, FailsUntouched DEF CobDelete, UpdateRefused
    <2>3. CASE Fails("24")
      BY <2>1, <2>3, FailsUntouched
    <2>4. CASE Updatable /\ ~Fails("24")
      <3>1. mode = "I_O" /\ UNCHANGED <<n, exists>> /\ RelativeDelete(key - 1)
        BY <1>12, <2>4 DEF CobDelete, Updatable, IsOpen, RelativeDelete, file
      <3>2. slot' = slot \/ slot' = [slot EXCEPT ![key - 1] = EMPTY]
        BY <2>4, <3>1 DEF RelativeDelete, file
      <3> QED BY <2>1, <3>1, <3>2 DEF FileInv, EndOK, AppendOK, AbsentOK, TypeOK
    <2> QED BY <2>2, <2>3, <2>4
  <1> QED BY <1>1, <1>2, <1>3, <1>4, <1>5, <1>6, <1>7, <1>8, <1>9, <1>10, <1>11, <1>12 DEF Next

-----------------------------------------------------------------------------
(* Every step is a step of Records. *)

\* The statement that was executed.
Called(statement) == call' = <<statement>>
CalledFor(statement, k) == call' = <<statement, k>>

LEMMA SameSets == /\ Promise!Existing = Occupied
                  /\ \A S : Promise!First(S) = First(S) /\ Promise!Last(S) = Last(S)
  BY DEF Promise!Existing, Occupied, Promise!First, Promise!Last, First, Last

LEMMA InitSimulated == Init => Promise!Init
  BY DEF Init, Promise!Init, Ended

\* A refused statement.
LEMMA RefusedSimulated ==
  ASSUME NEW st \in {"41", "42", "43", "46", "47", "48", "49"}, Fails(st), record' = record,
         Ended' = Ended
  PROVE  Promise!Next
  BY DEF Fails, file, hist, Promise!Next, Promise!Refused, Promise!Refusals

LEMMA OpenSimulated ==
  ASSUME IInv, NEW a \in Accesses, NEW m \in OpenModes, CobOpen(a, m), call' = <<"OPEN", m>>
  PROVE  Promise!Next
  <1>1. Ended' = FALSE
    <2>1. \A f \in Flags : \A x, e, b \in BOOLEAN :
            LET g == [f EXCEPT !.nonexistent = x, !.eof = e, !.bof = b] IN
            g.nonexistent = x /\ g.eof = e /\ g.first = f.first
      BY DEF Flags
    <2>2. Opened \in Flags
      BY DEF Opened, Flags
    <2>3. LET g == [Opened EXCEPT !.nonexistent = TRUE, !.eof = TRUE, !.bof = TRUE] IN
          g.nonexistent = TRUE /\ g.eof = TRUE /\ g.first = Opened.first
      BY <2>1, <2>2, Zenon
    <2>4. Opened.nonexistent = FALSE /\ Opened.eof = FALSE /\ Opened.first = 2
      BY DEF Opened
    <2>5. \/ flags'.eof = FALSE /\ flags'.nonexistent = FALSE
          \/ flags'.nonexistent = TRUE /\ flags'.first = 2
      BY <2>3, <2>4 DEF CobOpen
    <2> QED BY <2>5 DEF Ended
  <1>2. CASE status' = "35"
    BY <1>1, <1>2 DEF CobOpen, file, Promise!Next, Promise!OpenFails
  <1>3. CASE status' # "35"
    <2>1. Promise!Open
      BY <1>1, <1>3 DEF CobOpen, file, Promise!Open, OpenModes
    <2> QED BY <2>1 DEF Promise!Next
  <1> QED BY <1>2, <1>3

LEMMA CloseSimulated ==
  ASSUME IInv, CobClose, call' = <<"CLOSE">>
  PROVE  Promise!Next
  <1>1. Ended' = Ended
    BY FlagFacts DEF CobClose, Ended, IInv
  <1> QED BY <1>1 DEF CobClose, file, Promise!Next, Promise!Close

LEMMA Succ == \A i \in Nat : i + 1 \in Int /\ i + 1 # UNKNOWN
  BY UnknownAssumption

LEMMA CountFact == IInv => n \in Nat
  BY SlotFacts DEF IInv, TypeOK

LEMMA KeyInFile == IInv => key - 1 \in Slots \cup {-1}
  BY BoundsAssumption DEF IInv, TypeOK, Slots

LEMMA AbsentEmpty ==
  ASSUME FileInv, flags.nonexistent \/ n = 0
  PROVE  Occupied = {}
  <1>1. n = 0
    BY DEF FileInv, AbsentOK
  <1>2. \A i \in Slots : slot[i] = EMPTY
    BY <1>1, SlotFacts DEF FileInv, EndOK
  <1> QED BY <1>2 DEF Occupied

LEMMA StartRefusedSimulated ==
  ASSUME IInv, FileInv, NEW cond \in Conds, CobStartRefused, call' = <<"START", cond, key - 1>>
  PROVE  Promise!Next
  <1>1. flags'.nonexistent = flags.nonexistent /\ flags'.first = 0 /\ flags'.eof = flags.eof
    BY FlagFacts DEF CobStartRefused, IInv
  <1>2. CASE Fails("47") /\ ~flags.nonexistent
    BY <1>1, <1>2, RefusedSimulated DEF CobStartRefused, Ended
  <1>3. CASE flags.nonexistent
    <2>1. Ended' = TRUE /\ Promise!Existing = {}
      BY <1>1, <1>3, AbsentEmpty, SameSets DEF Ended
    <2>2. CASE Fails("47")
      BY <2>1, <2>2 DEF CobStartRefused, Fails, file, hist, Promise!Next, Promise!StartRefused
    <2>3. CASE status' = "23" /\ cursor' = UNKNOWN /\ UNCHANGED <<file, pos, got>>
      <3>1. Promise!Satisfying(cond, key - 1) = {}
        BY <2>1 DEF Promise!Satisfying, Conds
      <3>2. Promise!Start(cond, key - 1)
        BY <2>1, <2>3, <3>1 DEF CobStartRefused, Promise!Start, file
      <3> QED BY <3>2, KeyInFile DEF Promise!Next, Conds
    <2> QED BY <2>2, <2>3 DEF CobStartRefused
  <1> QED BY <1>2, <1>3 DEF CobStartRefused

LEMMA StartSimulated ==
  ASSUME IInv, FileInv, NEW cond \in Conds, CobStart(cond), call' = <<"START", cond, key - 1>>
  PROVE  Promise!Next
  <1> DEFINE hits == StartScan(cond) \cap Occupied
  <1>1. hits = Promise!Satisfying(cond, key - 1)
    <2>1. /\ n \in Nat /\ key \in Nat /\ Slots \subseteq Nat /\ Occupied \subseteq Slots
          /\ \A i \in Occupied : i < n
      BY SlotFacts DEF IInv, TypeOK, FileInv, EndOK, Occupied
    <2> QED BY <2>1, SameSets DEF StartScan, StartIndex, Promise!Satisfying, Conds
  <1>2. Ended' = (status' # "00")
    <2>1. \A e \in BOOLEAN :
            LET g == [flags EXCEPT !.readDone = FALSE, !.first = 1, !.bof = FALSE, !.eof = e] IN
            g.nonexistent = flags.nonexistent /\ g.eof = e
      BY DEF IInv, TypeOK, Flags
    <2>2. (status' # "00") \in BOOLEAN
      BY Zenon
    <2>3. flags'.nonexistent = flags.nonexistent /\ flags'.eof = (status' # "00")
      BY <2>1, <2>2, Zenon DEF CobStart
    <2>4. ~flags.nonexistent
      BY DEF CobStart
    <2> QED BY <2>3, <2>4, Zenon DEF Ended
  <1>3. Promise!Start(cond, key - 1)
    <2> HIDE DEF hits
    <2>1. CASE hits # {}
      <3>1. status' = "00" /\ cursor' = (IF cond \in {"LT", "LE", "LA"} THEN Last(hits) ELSE First(hits))
        BY <2>1 DEF CobStart, RelativeStart, hits
      <3> QED BY <1>1, <1>2, <2>1, <3>1, SameSets DEF CobStart, file, Promise!Start
    <2>2. CASE hits = {}
      <3>1. status' = "23" /\ cursor' = UNKNOWN
        BY <2>2 DEF CobStart, RelativeStart, hits
      <3> QED BY <1>1, <1>2, <2>2, <3>1 DEF CobStart, file, Promise!Start
    <2> QED BY <2>1, <2>2
  <1> QED BY <1>3, KeyInFile DEF Promise!Next, Conds

LEMMA NonexistentSimulated ==
  ASSUME IInv, FileInv, NEW again \in {"23", "46"}, ReadNonexistent(again),
         IF again = "23" THEN CalledFor("READ", key - 1)
                         ELSE Called("READ NEXT") \/ Called("READ PREVIOUS")
  PROVE  Promise!Next
  <1>1. Ended' = TRUE /\ record' = record
    BY FlagFacts DEF ReadNonexistent, Ended, IInv
  <1>2. Promise!Existing = {}
    BY AbsentEmpty, SameSets DEF ReadNonexistent
  <1>3. CASE flags.first # 0
    <2>1. call'[1] \in {"READ", "READ NEXT", "READ PREVIOUS"}
      <3>1. CASE again = "23"
        <4>1. call'[1] = "READ"
          BY <3>1 DEF CalledFor
        <4> QED BY <4>1
      <3>2. CASE again = "46"
        <4>1. Called("READ NEXT") \/ Called("READ PREVIOUS")
          BY <3>2
        <4>2. CASE Called("READ NEXT")
          BY <4>2 DEF Called
        <4>3. CASE Called("READ PREVIOUS")
          BY <4>3 DEF Called
        <4> QED BY <4>1, <4>2, <4>3
      <3> QED BY <3>1, <3>2
    <2> QED BY <1>1, <1>2, <1>3, <2>1
               DEF ReadNonexistent, Fails, file, hist, Promise!Next, Promise!ReadNoFile
  <1>4. CASE flags.first = 0 /\ again = "46"
    <2>1. Ended' = Ended
      BY <1>1, <1>4 DEF ReadNonexistent, Ended
    <2> QED BY <1>1, <1>4, <2>1, RefusedSimulated DEF ReadNonexistent
  <1>5. CASE flags.first = 0 /\ again = "23"
    <2>1. Ended' = Ended /\ Fails("23")
      BY <1>1, <1>5 DEF ReadNonexistent, Ended
    <2>2. CASE key - 1 \in Slots
      <3>1. Promise!Read(key - 1)
        BY <1>1, <1>2, <1>5, <2>1 DEF Fails, file, hist, CalledFor, Promise!Read
      <3> QED BY <2>2, <3>1 DEF Promise!Next
    <2>3. CASE key - 1 = -1
      BY <1>1, <1>5, <2>1, <2>3 DEF Fails, file, hist, CalledFor, Promise!Next, Promise!NoSuchNumber
    <2> QED BY <2>2, <2>3, KeyInFile
  <1> QED BY <1>3, <1>4, <1>5

LEMMA ReadSimulated ==
  ASSUME IInv, FileInv, CobRead, CalledFor("READ", key - 1)
  PROVE  Promise!Next
  <1>1. CASE Fails("47") /\ flags' = [flags EXCEPT !.readDone = FALSE] /\ record' = record
    <2>1. Ended' = Ended
      BY <1>1, FlagFacts DEF Ended, IInv
    <2> QED BY <1>1, <2>1, RefusedSimulated
  <1>2. CASE ReadNonexistent("23")
    BY <1>2, NonexistentSimulated
  <1>3. CASE /\ ~flags.nonexistent /\ RelativeRead /\ UNCHANGED file
             /\ flags' = AfterRead(status', FALSE)
    <2>1. /\ flags'.nonexistent = FALSE
          /\ status' = "00" => flags'.eof = FALSE
          /\ status' = "23" => flags'.eof = flags.eof
      BY <1>3, AfterReadFacts DEF IInv, TypeOK, Flags
    <2>2. (status' = "00" => Ended' = FALSE) /\ (status' = "23" => Ended' = Ended)
      BY <1>3, <2>1 DEF Ended
    <2>0. -1 \notin Occupied
      BY SlotFacts
    <2>3. CASE key - 1 = -1
      <3>1. Fails("23") /\ record' = record
        BY <1>3, <2>0, <2>3 DEF RelativeRead
      <3> QED BY <2>2, <2>3, <3>1 DEF Fails, file, hist, CalledFor, Promise!Next, Promise!NoSuchNumber
    <2>4. CASE key - 1 \in Slots
      <3>0. PICK i \in Slots : i = key - 1
        BY <2>4
      <3>1. ~(i < 0) /\ slot' = slot /\ CalledFor("READ", i)
        BY <1>3, <3>0, SlotFacts DEF file
      <3>2. CASE i \notin Occupied
        <4>1. status' = "23" /\ cursor' = i /\ record' = record
          BY <1>3, <3>0, <3>1, <3>2 DEF RelativeRead
        <4>2. Promise!Read(i)
          BY <2>2, <3>1, <3>2, <4>1, SameSets DEF CalledFor, Promise!Read
        <4> QED BY <3>1, <4>2 DEF Promise!Next
      <3>3. CASE i \in Occupied
        <4>1. status' = "00" /\ cursor' = i + 1 /\ record' = slot[i]
          BY <1>3, <3>0, <3>1, <3>3 DEF RelativeRead
        <4>2. Promise!Read(i)
          BY <2>2, <3>1, <3>3, <4>1, SameSets DEF CalledFor, Promise!Read, Promise!Found
        <4> QED BY <3>1, <4>2 DEF Promise!Next
      <3> QED BY <3>2, <3>3
    <2> QED BY <2>3, <2>4, KeyInFile
  <1> QED BY <1>1, <1>2, <1>3 DEF CobRead

\* READ PREVIOUS, and READ NEXT that has no place to go on from.
LEMMA AnywhereSimulated ==
  ASSUME NEW previous \in BOOLEAN, RelativeReadNext(previous), UNCHANGED file,
         IF previous THEN Called("READ PREVIOUS") ELSE Called("READ NEXT"),
         previous \/ cursor = UNKNOWN,
         ~flags.nonexistent, flags' = AfterRead(status', previous), TypeOK
  PROVE  Promise!Next
  <1>1. flags'.nonexistent = FALSE /\ (status' = "00" => flags'.eof = FALSE)
    BY AfterReadFacts, ZenonT(60) DEF TypeOK, Flags
  <1>2. status' = "00" => Ended' = FALSE
    BY <1>1 DEF Ended
  <1>3. Called("READ PREVIOUS") \/ (Called("READ NEXT") /\ cursor = UNKNOWN)
    OBVIOUS
  <1>4. ASSUME NEW st \in {"00", "10", "14", "30"}, status' = st, cursor' = UNKNOWN
        PROVE  Promise!Next
    BY <1>3, <1>4 DEF file, Called, Promise!Next, Promise!ReadAnywhere
  <1>5. CASE NothingRead
    BY <1>4, <1>5 DEF NothingRead
  <1>6. CASE ReadMisaligned
    BY <1>4, <1>6 DEF ReadMisaligned
  <1>7. ASSUME NEW i, NEW back, Deliver(i, back, UNKNOWN) PROVE Promise!Next
    BY <1>4, <1>7 DEF Deliver
  <1>8. CASE ReadBackward
    BY <1>5, <1>7, <1>8 DEF ReadBackward
  <1>9. CASE ReadForward(previous)
    <2> DEFINE ahead == {j \in Occupied : j >= pos.at}
               i == First(ahead)
    <2>1. CASE ahead = {}
      BY <1>5, <1>9, <2>1 DEF ReadForward
    <2>2. CASE ahead # {} /\ previous
      BY <1>7, <1>9, <2>2 DEF ReadForward
    <2>3. CASE ahead # {} /\ ~previous
      <3>1. Deliver(i, At(i + 1), i + 1)
        BY <1>9, <2>3 DEF ReadForward
      <3>2. i \in Occupied
        <4>1. ahead \in SUBSET Slots /\ ahead \subseteq Occupied
          BY SlotFacts
        <4> HIDE DEF ahead
        <4> QED BY <2>3, <4>1, FirstIn
      <3> HIDE DEF i
      <3>3. CASE i + 1 <= KeyLimit
        <4>1. Promise!Found(i)
          BY <1>2, <3>1, <3>3 DEF Deliver, file, Promise!Found
        <4>2. Promise!ReadAnywhere
          BY <1>3, <2>3, <3>2, <4>1, SameSets DEF file, Called, Promise!ReadAnywhere, Promise!Found
        <4> QED BY <4>2 DEF Promise!Next
      <3>4. CASE ~(i + 1 <= KeyLimit)
        BY <1>4, <2>3, <3>1, <3>4 DEF Deliver
      <3> QED BY <3>3, <3>4
    <2> QED BY <2>1, <2>2, <2>3
  <1> QED BY <1>5, <1>6, <1>8, <1>9 DEF RelativeReadNext

LEMMA ReadNextSimulated ==
  ASSUME IInv, FileInv, NEW previous \in BOOLEAN, CobReadNext(previous),
         IF previous THEN Called("READ PREVIOUS") ELSE Called("READ NEXT")
  PROVE  Promise!Next
  <1>1. ASSUME Fails("47") \/ Fails("46"), flags' = [flags EXCEPT !.readDone = FALSE],
               UNCHANGED <<key, record>>
        PROVE  Promise!Next
    <2>1. Ended' = Ended
      BY <1>1, FlagFacts DEF Ended, IInv
    <2> QED BY <1>1, <2>1, RefusedSimulated
  <1>2. CASE ReadNonexistent("46")
    BY <1>2, NonexistentSimulated
  <1>3. ASSUME mode # "CLOSED", ~flags.nonexistent, ~(IF previous THEN flags.bof ELSE flags.eof),
               RelativeReadNext(previous), UNCHANGED file, flags' = AfterRead(status', previous)
        PROVE  Promise!Next
    <2>1. CASE previous \/ cursor = UNKNOWN
      BY <1>3, <2>1, AnywhereSimulated DEF IInv
    <2>2. CASE ~previous /\ cursor # UNKNOWN
      <3> DEFINE ahead == {j \in Occupied : j >= cursor}
                 i == First(ahead)
      <3>1. pos = At(cursor) /\ ~pos.mid /\ pos.at = cursor /\ cursor \in Nat
        BY <1>3, <2>2, PosFacts DEF IInv, TypeOK, CursorOK
      <3>2. ~Ended /\ flags'.nonexistent = FALSE
        BY <1>3, <2>2, AfterReadFacts DEF Ended, IInv, TypeOK, Flags
      <3>3. /\ status' = "00" => Ended' = FALSE
            /\ status' = "10" => Ended' = TRUE
            /\ status' = "14" => Ended' = Ended
        <4>1. /\ status' = "00" => flags'.eof = FALSE
              /\ status' = "10" => flags'.eof
              /\ status' = "14" => flags'.eof = flags.eof
              /\ flags' \in Flags
          BY <1>3, <2>2, AfterReadFacts DEF IInv, TypeOK
        <4>2. flags'.eof \in BOOLEAN
          BY <4>1 DEF Flags
        <4> QED BY <1>3, <3>2, <4>1, <4>2 DEF Ended
      <3>4. {k \in Promise!Existing : k >= cursor} = ahead
        BY SameSets
      <3>5. CASE NothingRead /\ ahead = {}
        BY <1>3, <2>2, <3>2, <3>3, <3>4, <3>5 DEF NothingRead, file, Called, Promise!Next, Promise!ReadNext
      <3>6. CASE ahead # {} /\ Deliver(i, At(i + 1), i + 1)
        <4>1. Promise!First({k \in Promise!Existing : k >= cursor}) = i
          BY <3>4, SameSets
        <4> HIDE DEF i, ahead
        <4>2. CASE i + 1 <= KeyLimit
          <5>1. Promise!Found(i)
            BY <1>3, <3>3, <3>6, <4>2 DEF Deliver, file, Promise!Found
          <5> QED BY <1>3, <2>2, <3>2, <3>4, <3>6, <4>1, <5>1 DEF Called, Promise!Next, Promise!ReadNext
        <4>3. CASE ~(i + 1 <= KeyLimit)
          <5>1. status' = "14" /\ cursor' = i /\ record' = slot[i]
            <6>1. i + 1 # UNKNOWN
              <7>1. i \in Nat
                <8>1. ahead \in SUBSET Slots
                  BY SlotFacts DEF ahead
                <8> QED BY <3>6, <8>1, FirstIn, SlotFacts DEF i
              <7> QED BY <7>1, Succ
            <6> QED BY <2>2, <3>6, <4>3, <6>1 DEF Deliver
          <5>2. slot' = slot /\ Ended' = Ended /\ Called("READ NEXT")
            BY <1>3, <2>2, <3>3, <5>1 DEF file
          <5>3. Promise!ReadNext
            BY <2>2, <3>2, <3>4, <3>6, <4>1, <5>1, <5>2 DEF Called, Promise!ReadNext
          <5> QED BY <5>3 DEF Promise!Next
        <4> QED BY <4>2, <4>3
      <3>7. CASE ReadForward(FALSE)
        BY <3>1, <3>5, <3>6, <3>7 DEF ReadForward
      <3>8. CASE n = 0 /\ NothingRead
        <4>1. ahead = {}
          BY <3>8, AbsentEmpty
        <4> QED BY <3>5, <3>8, <4>1
      <3>9. previous = FALSE
        BY <2>2
      <3> QED BY <1>3, <3>1, <3>7, <3>8, CountFact, <3>9 DEF RelativeReadNext
    <2> QED BY <2>1, <2>2
  <1> QED BY <1>1, <1>2, <1>3 DEF CobReadNext, IsOpen

LEMMA WriteSimulated ==
  ASSUME IInv, FileInv, NEW d \in Data, CobWrite(d), CalledFor("WRITE", Target(n))
  PROVE  Promise!Next
  <1>1. Ended' = Ended /\ record' = record
    BY FlagFacts DEF CobWrite, Ended, IInv
  <1>2. CASE Fails("48")
    BY <1>1, <1>2, RefusedSimulated
  <1>3. d \in Data \cup {Junk}
    OBVIOUS
  <1>4. ASSUME NEW i \in Slots, CalledFor("WRITE", i), i \notin Occupied, status' = "00",
               slot' = [slot EXCEPT ![i] = d], cursor' = i + 1
        PROVE  Promise!Next
    <2>1. Promise!Write(i, d)
      BY <1>1, <1>4, SameSets DEF CalledFor, Promise!Write
    <2> QED BY <1>3, <2>1 DEF Promise!Next
  <1>5. CASE access = "SEQUENTIAL" /\ mode \in {"OUTPUT", "EXTEND"} /\ WriteNext(d)
    <2>1. n \in Nat /\ pos.at = n
      BY <1>5, SlotFacts, PosFacts DEF FileInv, AppendOK, IInv, TypeOK
    <2>2. n \in Slots
      BY <1>5, <2>1, BoundsAssumption DEF WriteNext, Slots
    <2>3. n \notin Occupied
      BY <2>1, <2>2 DEF FileInv, EndOK, Occupied
    <2> QED BY <1>4, <1>5, <2>1, <2>2, <2>3 DEF WriteNext, Target
  <1>6. CASE access # "SEQUENTIAL" /\ WriteAt(key - 1, d)
    <2>0. PICK i \in Slots \cup {-1} : i = key - 1
      BY KeyInFile
    <2>1. CalledFor("WRITE", i) /\ WriteAt(i, d)
      BY <1>6, <2>0 DEF Target
    <2>2. CASE i = -1
      <3>0. i \notin Slots
        BY <2>2, SlotFacts
      <3>1. Fails("24")
        BY <2>1, <3>0, SlotFacts DEF WriteAt
      <3> QED BY <1>1, <2>1, <2>2, <3>1 DEF Fails, file, hist, CalledFor, Promise!Next, Promise!NoSuchNumber
    <2>3. CASE i \in Slots
      <3>1. ~(i < 0)
        BY <2>3, SlotFacts
      <3>2. CASE i \in Occupied
        <4>1. status' = "22" /\ cursor' = UNKNOWN /\ slot' = slot
          BY <2>1, <3>1, <3>2 DEF WriteAt, file
        <4>2. Promise!Write(i, d)
          BY <1>1, <2>1, <3>2, <4>1, SameSets DEF CalledFor, Promise!Write
        <4> QED BY <1>3, <2>3, <4>2 DEF Promise!Next
      <3>3. CASE i \notin Occupied
        BY <1>4, <2>1, <2>3, <3>1, <3>3 DEF WriteAt
      <3> QED BY <3>2, <3>3
    <2> QED BY <2>0, <2>2, <2>3
  <1> QED BY <1>2, <1>5, <1>6 DEF CobWrite, IsOpen

\* A REWRITE or DELETE that is refused.
LEMMA UpdateRefusedSimulated ==
  ASSUME UpdateRefused, record' = record, Ended' = Ended
  PROVE  Promise!Next
  BY RefusedSimulated DEF UpdateRefused

LEMMA RewriteSimulated ==
  ASSUME IInv, FileInv, "SEQUENTIAL" \notin Previous,
         NEW d \in Data, CobRewrite(d), CalledFor("REWRITE", Target(got))
  PROVE  Promise!Next
  <1>1. Ended' = Ended /\ record' = record
    BY FlagFacts DEF CobRewrite, Ended, IInv
  <1>2. CASE UpdateRefused
    BY <1>1, <1>2, UpdateRefusedSimulated
  <1>3. ASSUME NEW i \in Slots, CalledFor("REWRITE", i), status' = "00",
               slot' = (IF i \in Occupied THEN [slot EXCEPT ![i] = d] ELSE slot), cursor' = i + 1
        PROVE  Promise!Next
    <2>1. Promise!Rewrite(i, d)
      BY <1>1, <1>3, SameSets DEF CalledFor, Promise!Rewrite
    <2> QED BY <1>3, <2>1 DEF Promise!Next
  <1>4. CASE Updatable /\ access = "SEQUENTIAL"
    <2>1. RewriteBefore(d) /\ status' = "00" /\ UNCHANGED hist
      BY <1>4 DEF CobRewrite
    <2>2. got \in Slots /\ cursor = got + 1 /\ got \in Nat /\ cursor # UNKNOWN
      <3>1. got \in Slots /\ cursor = got + 1
        BY <1>4 DEF IInv, SequentialOK, Updatable, IsOpen
      <3>2. got \in Nat /\ cursor \in Int
        BY <3>1, SlotFacts
      <3> QED BY <3>1, <3>2, UnknownAssumption
    <2>3. pos = At(got + 1)
      BY <1>4, <2>2 DEF IInv, CursorOK, Updatable, IsOpen
    <2>4. ~pos.mid /\ pos.at # 0 /\ pos.at - 1 = got
      BY <2>2, <2>3, PosFacts
    <2>5. slot' = (IF got \in Occupied THEN [slot EXCEPT ![got] = d] ELSE slot)
      BY <2>1, <2>4 DEF RewriteBefore
    <2> QED BY <1>3, <1>4, <2>1, <2>2, <2>5 DEF Target, hist
  <1>5. CASE Updatable /\ access # "SEQUENTIAL"
    <2> DEFINE i == key - 1
    <2>1. CalledFor("REWRITE", i) /\ RewriteAt(i, d)
      BY <1>5 DEF Target, CobRewrite
    <2>2. CASE i = -1
      <3>1. Fails("24")
        BY <2>1, <2>2, SlotFacts DEF RewriteAt, IInv, TypeOK
      <3> QED BY <1>1, <2>1, <2>2, <3>1 DEF Fails, file, hist, CalledFor, Promise!Next, Promise!NoSuchNumber
    <2>3. CASE i \in Slots
      <3>1. i \in Nat /\ n \in Nat
        <4> HIDE DEF i
        <4> QED BY <2>3, SlotFacts DEF IInv, TypeOK
      <3> HIDE DEF i
      <3>2. CASE i >= n
        <4>1. status' = "23" /\ cursor' = i /\ slot' = slot
          BY <2>1, <3>1, <3>2 DEF RewriteAt, file
        <4>2. i \notin Occupied
          BY <2>3, <3>2 DEF FileInv, EndOK, Occupied
        <4>3. Promise!Rewrite(i, d)
          BY <1>1, <2>1, <4>1, <4>2, SameSets DEF CalledFor, Promise!Rewrite
        <4> QED BY <2>3, <4>3 DEF Promise!Next
      <3>3. CASE i < n
        BY <1>3, <2>1, <2>3, <3>1, <3>3 DEF RewriteAt
      <3> QED BY <3>1, <3>2, <3>3
    <2> QED BY <2>2, <2>3, KeyInFile
  <1> QED BY <1>2, <1>4, <1>5 DEF CobRewrite

LEMMA DeleteSimulated ==
  ASSUME IInv, FileInv, CobDelete, CalledFor("DELETE", key - 1)
  PROVE  Promise!Next
  <1> DEFINE i == key - 1
  <1>1. Ended' = Ended /\ record' = record
    BY FlagFacts DEF CobDelete, Ended, IInv
  <1>2. CASE UpdateRefused
    BY <1>1, <1>2, UpdateRefusedSimulated
  <1>3. CASE RelativeDelete(i)
    <2>1. CASE i = -1
      <3>1. Fails("24")
        BY <1>3, <2>1, SlotFacts DEF RelativeDelete, IInv, TypeOK
      <3> QED BY <1>1, <2>1, <3>1 DEF Fails, file, hist, CalledFor, Promise!Next, Promise!NoSuchNumber
    <2>2. CASE i \in Slots
      <3>1. i \in Nat /\ n \in Nat
        <4> HIDE DEF i
        <4> QED BY <2>2, SlotFacts DEF IInv, TypeOK
      <3>2. CalledFor("DELETE", i)
        OBVIOUS
      <3> HIDE DEF i
      <3>3. CASE i >= n
        <4>1. status' = "23" /\ cursor' = i /\ slot' = slot
          BY <1>3, <3>1, <3>3 DEF RelativeDelete, file
        <4>2. i \notin Occupied
          BY <2>2, <3>3 DEF FileInv, EndOK, Occupied
        <4>3. Promise!Delete(i)
          BY <1>1, <3>2, <4>1, <4>2, SameSets DEF CalledFor, Promise!Delete
        <4> QED BY <2>2, <4>3 DEF Promise!Next
      <3>4. CASE i < n
        <4>1. status' = "00" /\ slot' = [slot EXCEPT ![i] = EMPTY] /\ cursor' = i + 1
          BY <1>3, <3>1, <3>4 DEF RelativeDelete
        <4>2. Promise!Delete(i)
          BY <1>1, <3>2, <4>1 DEF CalledFor, Promise!Delete
        <4> QED BY <2>2, <4>2 DEF Promise!Next
      <3> QED BY <3>1, <3>3, <3>4
    <2> QED BY <2>1, <2>2, KeyInFile
  <1> QED BY <1>2, <1>3 DEF CobDelete

-----------------------------------------------------------------------------
LEMMA StepSimulated ==
  ASSUME "SEQUENTIAL" \notin Previous
  PROVE  IInv /\ FileInv /\ [Next]_vars => [Promise!Next]_(Promise!vars)
  <1> SUFFICES ASSUME IInv, FileInv, [Next]_vars
               PROVE  Promise!Next \/ UNCHANGED Promise!vars
    BY Zenon
  <1>1. CASE UNCHANGED vars
    BY <1>1 DEF vars, file, hist, Promise!vars, Ended
  <1>2. ASSUME NEW k \in 0..KeyLimit, SetKey(k), call' = call PROVE UNCHANGED Promise!vars
    BY <1>2 DEF SetKey, file, hist, Promise!vars, Ended
  <1>3. CASE CobOpenRefused
    <2>1. Ended' = Ended
      BY <1>3 DEF CobOpenRefused, Ended
    <2> QED BY <1>3, <2>1, RefusedSimulated DEF CobOpenRefused
  <1>4. CASE CobCloseRefused
    <2>1. Ended' = Ended
      BY <1>4, FlagFacts DEF CobCloseRefused, Ended, IInv
    <2> QED BY <1>4, <2>1, RefusedSimulated DEF CobCloseRefused
  <1>5. ASSUME CobReadNext(FALSE), call' = <<"READ NEXT">> PROVE Promise!Next
    BY <1>5, ReadNextSimulated DEF Called
  <1>6. ASSUME CobReadNext(TRUE), call' = <<"READ PREVIOUS">> PROVE Promise!Next
    BY <1>6, ReadNextSimulated DEF Called
  <1> QED BY <1>1, <1>2, <1>3, <1>4, <1>5, <1>6, OpenSimulated, CloseSimulated,
             StartRefusedSimulated, StartSimulated, ReadSimulated, WriteSimulated,
             RewriteSimulated, DeleteSimulated DEF Next, CalledFor

\* A relative file of any size keeps the records it is given and reads on where it
\* has to: START, READ, READ NEXT, WRITE, REWRITE and DELETE behave as statements
\* about a map from record numbers to records.
THEOREM Refinement ==
  ASSUME "SEQUENTIAL" \notin Previous
  PROVE  Spec => RecordsKept
  <1>1. Spec => []FileInv
    <2>1. IInv /\ FileInv /\ [Next]_vars => FileInv'
      <3>1. FileInv /\ UNCHANGED vars => FileInv'
        BY DEF vars, file, FileInv, EndOK, AppendOK, AbsentOK
      <3> QED BY <3>1, NextFileInv
    <2> QED BY <2>1, InitFileInv, Inductive, PTL DEF Spec
  <1>2. Spec => Promise!Init /\ [][Promise!Next]_(Promise!vars)
    BY <1>1, InitSimulated, StepSimulated, Inductive, PTL DEF Spec
  <1> QED BY <1>2 DEF RecordsKept, Promise!Spec
=============================================================================
